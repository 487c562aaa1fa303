----------------------------- MODULE RootBatches -----------------------------
(***************************************************************************)
(* The Root node's two batches, publish-cdn and notify-discovery, running  *)
(* beside the request handlers of RootNode.  Neither batch takes           *)
(* AppState.lock, and either may be started again while one is under way.  *)
(*                                                                         *)
(* The CDN is external here: it keeps the last package it was sent for an  *)
(* Agent.  A batch's order among its items is left open (SQLite orders     *)
(* them by a timestamp of one second's resolution).                        *)
(***************************************************************************)
EXTENDS RootNode

CONSTANTS
    Publishers,   \* tasks that run publish_cdn_batch
    Notifiers,    \* tasks that run notify_discovery_batch
    DomainsOf,    \* the canonical domains a document's capability tags fall under
    CdnBatch,     \* batch_size of publish_cdn_batch
    NotifyBatch   \* batch_size of notify_discovery_batch, per Discovery node

ASSUME BatchAssumption ==
    /\ DomainsOf \in [Documents -> SUBSET Domains]
    /\ CdnBatch \in Nat \ {0}
    /\ NotifyBatch \in Nat \ {0}

VARIABLES
    publisher,   \* per task: where its batch is, what it read and what is left
    notifier,
    cdn,         \* the package the CDN holds of each Agent
    considered,  \* history: the items of the notification batches returned
    notified     \* history: node and item of each notification returned

batchVars == <<publisher, notifier>>
outVars == <<cdn, considered, notified>>
allVars == <<rootVars, batchVars, outVars>>

NoPackage == [sequence |-> 0]

IdlePublisher == [at |-> "idle", todo |-> {}, current |-> NoPackage, queue |-> {}]
IdleNotifier == [at |-> "idle", items |-> {}, left |-> {}, batches |-> {}]

BatchInit ==
    /\ Init
    /\ publisher = [w \in Publishers |-> IdlePublisher]
    /\ notifier = [w \in Notifiers |-> IdleNotifier]
    /\ cdn = [a \in Agents |-> NoPackage]
    /\ considered = {}
    /\ notified = {}

-----------------------------------------------------------------------------
(* The queue files have readers that do not hold the lock: they may find a *)
(* file truncated by a write that is under way.                            *)

HandlerWrites(file) ==
    \E p \in Procs : pc[p] \in DOMAIN FileAt /\ FileAt[pc[p]] = file

BatchWrites(file) ==
    \/ file = "cdn_queue" /\ \E w \in Publishers : publisher[w].at = "write_json"
    \/ file = "discovery_queue" /\ \E w \in Notifiers : notifier[w].at = "write_json"

\* What reading a file may return, when it may be being written.
Seen(file, content, otherwise, written) ==
    IF file \in Tearable /\ written THEN {content, otherwise} ELSE {content}

SeenByBatch(file, content, otherwise) ==
    Seen(file, content, otherwise, HandlerWrites(file) \/ BatchWrites(file))

SeenByHandler(file, content) == Seen(file, content, {}, BatchWrites(file))

SeenCdnJson == SeenByBatch("cdn_queue", ReadCdnJson, {})
SeenDiscoveryJson == SeenByBatch("discovery_queue", ReadDiscoveryJson, {})
SeenAuthorization == SeenByBatch("authorization", LoadAuthorization, snapshot)

\* read_cdn_queue and read_discovery_queue: the table if it has rows
SeenCdnQueue == IF UseSqlite /\ cdnSql # {} THEN {cdnSql} ELSE SeenCdnJson
SeenDiscoveryQueue ==
    IF UseSqlite /\ discoverySql # {} THEN {discoverySql} ELSE SeenDiscoveryJson

TakeFullBatch(n, S) ==
    IF Cardinality(S) < n THEN {{}} ELSE {T \in SUBSET S : Cardinality(T) = n}

\* queue.into_iter().take(n)
Take(n, S) ==
    IF Cardinality(S) <= n THEN {S} ELSE {T \in SUBSET S : Cardinality(T) = n}

(***************************************************************************)
(* publish_cdn_batch                                                       *)
(***************************************************************************)
StartPublish(w) ==
    /\ publisher[w].at = "idle"
    /\ "bulletin" \notin torn          \* cdn_publish_url reads the bulletin
    /\ \E queue \in SeenCdnQueue : \E todo \in Take(CdnBatch, queue) :
         /\ todo # {}
         /\ publisher' = [publisher EXCEPT ![w].at = "send", ![w].todo = todo]
    /\ UNCHANGED <<rootVars, notifier, outVars>>

Done(w, package) ==
    IF publisher[w].todo = {package} THEN IdlePublisher
    ELSE [IdlePublisher EXCEPT !.at = "send",
                               !.todo = publisher[w].todo \ {package}]

\* POST the package; only a success status takes it off the queue.
SendAccepted(w, package) ==
    /\ publisher[w].at = "send"
    /\ package \in publisher[w].todo
    /\ cdn' = [cdn EXCEPT ![package.did] = package]
    /\ publisher' = [publisher EXCEPT
         ![w].at = IF UseSqlite THEN "delete_row" ELSE "read_json",
         ![w].current = package]
    /\ UNCHANGED <<rootVars, notifier, considered, notified>>

SendFailedTakenAsSent(w, package) ==
    /\ faults < MaxFaults
    /\ faults' = faults + 1
    /\ publisher[w].at = "send"
    /\ package \in publisher[w].todo
    /\ publisher' = [publisher EXCEPT
         ![w].at = IF UseSqlite THEN "delete_row" ELSE "read_json",
         ![w].current = package]
    /\ UNCHANGED <<fileVars, snapshot, queueVars, handlerVars, answered, anchors,
                   notifier, outVars>>

\* An error status or no answer, whether or not the CDN stored the package.
SendFailed(w, package) ==
    /\ faults < MaxFaults
    /\ faults' = faults + 1
    /\ publisher[w].at = "send"
    /\ package \in publisher[w].todo
    /\ \/ cdn' = [cdn EXCEPT ![package.did] = package]
       \/ UNCHANGED cdn
    /\ publisher' = [publisher EXCEPT ![w] = Done(w, package)]
    /\ UNCHANGED <<fileVars, snapshot, queueVars, handlerVars, answered, anchors,
                   notifier, considered, notified>>

\* mark_cdn_queue_published: delete the row of the DID, then read the file and
\* write it back without the DID.
DeleteCdnRow(w) ==
    /\ publisher[w].at = "delete_row"
    /\ cdnSql' = {x \in cdnSql : x.did # publisher[w].current.did}
    /\ publisher' = [publisher EXCEPT ![w].at = "read_json"]
    /\ UNCHANGED <<fileVars, snapshot, cdnJson, discoveryJson, discoverySql,
                   handlerVars, historyVars, notifier, outVars>>

ReadCdnFile(w) ==
    /\ publisher[w].at = "read_json"
    /\ \E queue \in SeenCdnJson :
         publisher' = [publisher EXCEPT ![w].at = "write_json", ![w].queue = queue]
    /\ UNCHANGED <<rootVars, notifier, outVars>>

RewriteCdnFile(w) ==
    /\ publisher[w].at = "write_json"
    /\ cdnJson' = publisher[w].queue
    /\ torn' = torn \ {"cdn_queue"}
    /\ publisher' = [publisher EXCEPT ![w] = Done(w, publisher[w].current)]
    /\ UNCHANGED <<bulletin, authorization, nonces, latest, archive, snapshot,
                   cdnSql, discoveryJson, discoverySql, handlerVars, historyVars,
                   notifier, outVars>>

WriteCdnFile(w) ==
    LET package == publisher[w].current IN
    /\ publisher[w].at = "write_json"
    /\ cdnJson' = {x \in publisher[w].queue : x.did # package.did}
    /\ torn' = torn \ {"cdn_queue"}
    /\ publisher' = [publisher EXCEPT ![w] = Done(w, package)]
    /\ UNCHANGED <<bulletin, authorization, nonces, latest, archive, snapshot,
                   cdnSql, discoveryJson, discoverySql, handlerVars, historyVars,
                   notifier, outVars>>

(***************************************************************************)
(* notify_discovery_batch                                                  *)
(***************************************************************************)
Matches(document, domains) ==
    AnyDomain \in domains \/ DomainsOf[document] \cap domains # {}

EligibleOfAnyStatus(items, entry) ==
    {x \in items : Matches(x.didDocument, entry.authorizedDomains)}

\* The queued items a node with this entry in the authorization file is told of.
Eligible(items, entry) ==
    {x \in items : /\ entry.status = "active"
                   /\ Matches(x.didDocument, entry.authorizedDomains)}

\* A batch for every node: at most NotifyBatch of its items.
Batches(items, a) ==
    {f \in [Nodes -> SUBSET items] : \A n \in Nodes :
        f[n] \in Take(NotifyBatch, Eligible(items, a.discovery_nodes[n]))}

StartNotify(w) ==
    /\ notifier[w].at = "idle"
    /\ \E items \in SeenDiscoveryQueue, a \in SeenAuthorization :
         \E batches \in Batches(items, a) :
              notifier' = [notifier EXCEPT ![w] =
                 [at      |-> IF UseSqlite /\ items # {} THEN "delete_rows"
                              ELSE "write_json",
                  items   |-> items,
                  left    |-> IF UseSqlite THEN items ELSE {},
                  batches |-> batches]]
    /\ UNCHANGED <<rootVars, publisher, outVars>>

DeleteDiscoveryRows(w, item) ==
    /\ notifier[w].at = "delete_rows"
    /\ item \in notifier[w].left
    /\ discoverySql' = {}
    /\ notifier' = [notifier EXCEPT ![w].left = {}, ![w].at = "write_json"]
    /\ UNCHANGED <<fileVars, snapshot, cdnJson, cdnSql, discoveryJson,
                   handlerVars, historyVars, publisher, outVars>>

\* mark_discovery_queue_notified: delete the rows of the items read, one by
\* one, then write an empty queue file; the batches are in the response.
DeleteDiscoveryRow(w, item) ==
    /\ notifier[w].at = "delete_rows"
    /\ item \in notifier[w].left
    /\ discoverySql' = discoverySql \ {item}
    /\ notifier' = [notifier EXCEPT
         ![w].left = @ \ {item},
         ![w].at = IF notifier[w].left = {item} THEN "write_json" ELSE @]
    /\ UNCHANGED <<fileVars, snapshot, cdnJson, cdnSql, discoveryJson,
                   handlerVars, historyVars, publisher, outVars>>

EmptyDiscoveryFile(w) ==
    /\ notifier[w].at = "write_json"
    /\ discoveryJson' = {}
    /\ torn' = torn \ {"discovery_queue"}
    /\ considered' = considered \cup notifier[w].items
    /\ notified' = notified \cup
         UNION {{n} \X notifier[w].batches[n] : n \in Nodes}
    /\ notifier' = [notifier EXCEPT ![w] = IdleNotifier]
    /\ UNCHANGED <<bulletin, authorization, nonces, latest, archive, snapshot,
                   cdnJson, cdnSql, discoverySql, handlerVars, historyVars,
                   publisher, cdn>>

(***************************************************************************)
(* Failures                                                                *)
(***************************************************************************)
BatchTears ==
    {torn \cup {f} : f \in {g \in Tearable : BatchWrites(g)}}

\* A read or write of the batch fails, or its client disconnects.
AbandonPublish(w) ==
    /\ faults < MaxFaults
    /\ faults' = faults + 1
    /\ publisher[w].at # "idle"
    /\ torn' \in {torn} \cup (IF publisher[w].at = "write_json" THEN BatchTears ELSE {})
    /\ publisher' = [publisher EXCEPT ![w] = IdlePublisher]
    /\ UNCHANGED <<bulletin, authorization, nonces, latest, archive, snapshot,
                   queueVars, handlerVars, answered, anchors, notifier, outVars>>

AbandonNotify(w) ==
    /\ faults < MaxFaults
    /\ faults' = faults + 1
    /\ notifier[w].at # "idle"
    /\ torn' \in {torn} \cup (IF notifier[w].at = "write_json" THEN BatchTears ELSE {})
    /\ notifier' = [notifier EXCEPT ![w] = IdleNotifier]
    /\ UNCHANGED <<bulletin, authorization, nonces, latest, archive, snapshot,
                   queueVars, handlerVars, answered, anchors, publisher, outVars>>

BatchCrash ==
    /\ Restart((UNION {Tears(p) : p \in Procs}) \cup BatchTears)
    /\ publisher' = [w \in Publishers |-> IdlePublisher]
    /\ notifier' = [w \in Notifiers |-> IdleNotifier]
    /\ UNCHANGED outVars

-----------------------------------------------------------------------------
\* A handler's step beside the batches: what it reads of the queue files may be
\* cut short by a batch's write.
HandlerStep(p) ==
    /\ \/ VerifyNonce(p) \/ VerifyRequest(p) \/ RejectRequest(p)
       \/ ReadBulletin(p) \/ FailRead(p) \/ WriteBulletin(p)
       \/ ArchiveVerified(p) \/ UpdateLatestVersion(p)
       \/ \E queue \in SeenByHandler("cdn_queue", ReadCdnJson) :
            EnqueueCdnJson(p, queue)
       \/ EnqueueCdnSql(p)
       \/ \E queue \in SeenByHandler("discovery_queue", ReadDiscoveryJson) :
            EnqueueDiscoveryJson(p, queue)
       \/ EnqueueDiscoverySql(p)
       \/ UpdateAuthorization(p)
    /\ UNCHANGED <<batchVars, outVars>>

PublisherStep(w) ==
    \/ StartPublish(w)
    \/ \E x \in publisher[w].todo : SendAccepted(w, x)
    \/ DeleteCdnRow(w) \/ ReadCdnFile(w) \/ WriteCdnFile(w)

NotifierStep(w) ==
    \/ StartNotify(w)
    \/ \E x \in notifier[w].left : DeleteDiscoveryRow(w, x)
    \/ EmptyDiscoveryFile(w)

BatchNext ==
    \/ \E p \in Procs, r \in Requests :
         Acquire(p, r) /\ UNCHANGED <<batchVars, outVars>>
    \/ \E p \in Procs : HandlerStep(p)
    \/ \E p \in Procs : Abandon(p) /\ UNCHANGED <<batchVars, outVars>>
    \/ \E w \in Publishers : PublisherStep(w)
    \/ \E w \in Publishers : \E x \in publisher[w].todo : SendFailed(w, x)
    \/ \E w \in Publishers : AbandonPublish(w)
    \/ \E w \in Notifiers : NotifierStep(w)
    \/ \E w \in Notifiers : AbandonNotify(w)
    \/ BatchCrash

BatchSpec == BatchInit /\ [][BatchNext]_allVars

\* Admitted handlers run on, and the operator keeps starting the batches, which
\* then run on.
FairBatchSpec ==
    /\ BatchSpec
    /\ \A p \in Procs : WF_allVars(HandlerStep(p))
    /\ \A w \in Publishers : WF_allVars(PublisherStep(w))
    /\ \A w \in Notifiers : WF_allVars(NotifierStep(w))

-----------------------------------------------------------------------------
(* Properties                                                              *)

\* With one publisher at a time the CDN never goes back to an older package of an
\* Agent, although a batch works from a copy of the queue and its rewrite of the
\* queue file may bring back an entry that was replaced meanwhile.  With the table
\* beside the file this takes that nothing fails: a crash between deleting a row
\* and rewriting the file lets the next batch fall back to such an entry.
CdnNeverRegresses ==
    [][(UseSqlite => faults = 0) =>
         \A a \in Agents : cdn'[a].sequence >= cdn[a].sequence]_cdn

\* An Agent that was answered "verified-and-queued" never drops out of
\* distribution altogether: some package of it is queued or with the CDN.
AnsweredAgentIsQueuedOrServed ==
    UseSqlite => \A x \in answered :
        \/ \E y \in cdnSql : y.did = x.did
        \/ cdn[x.did] # NoPackage

\* With SQLite, a notification item of an answered request is in the table, in a
\* batch under way, or was considered by a batch that returned; enqueueing beside
\* a running batch loses none (only the rows read are deleted).
NoNotificationForgotten ==
    UseSqlite /\ faults = 0 => \A x \in answered :
        LET item == [did |-> x.did, didDocument |-> x.didDocument,
                     sequence |-> x.sequence]
        IN  \/ item \in discoverySql \cup considered
            \/ \E w \in Notifiers : item \in notifier[w].items

\* A notification batch put together between two handlers follows the bulletin,
\* not just the file: its nodes are authorized and not revoked since, and its
\* items are within the domains last given to them.
NotificationsFollowBulletin ==
    [][\A w \in Notifiers :
         /\ notifier[w].at = "idle" /\ notifier'[w].at # "idle"
         /\ lock = NoProc /\ faults = 0
         => \A n \in Nodes : notifier'[w].batches[n] # {} =>
              /\ StatusFrom(DiscoveryGrants(n), n) = "active"
              /\ \A x \in notifier'[w].batches[n] :
                   Matches(x.didDocument, DomainsFrom(DiscoveryGrants(n), n))
      ]_notifier

\* An Agent with an answered package is served by the CDN in the end, when the
\* batch is run again and again and failures stop.
AnsweredAgentIsServed ==
    \A a \in Agents :
        (\E x \in answered : x.did = a) ~> (cdn[a] # NoPackage)
=============================================================================
