---------------------------- MODULE Propagation ----------------------------
(***************************************************************************)
(* The Root node of the reference services composed with its Discovery     *)
(* nodes.  Each Discovery node keeps a cursor into the Root's publication  *)
(* feed and an index of packages.  A sync reads the cursor, asks the Root  *)
(* for the next page of the feed and the CDN for the package of each       *)
(* entry, and moves the cursor to the last entry it indexed.  Syncs are    *)
(* started by the Root's notify cycles, with the cursor to reach, and by   *)
(* operators; nothing keeps two of them apart.                            *)
(***************************************************************************)
EXTENDS RootWorkers

CONSTANTS
    Operators,    \* those who start syncs themselves
    PageLimit     \* maxPublications of a sync an operator starts

ASSUME PropagationAssumption ==
    /\ Operators \cap Notifiers = {}
    /\ PageLimit \in Nat \ {0}

VARIABLES
    cursor,  \* root_package_cursor of each Discovery node
    index,   \* discovery_package: the version and cursor held for each Agent
    syncs    \* the syncs each Discovery node runs, by who started them

discoveryVars == <<cursor, index, syncs>>
vars == <<rootVars, discoveryVars>>

Callers == Notifiers \union Operators
Asleep == [at |-> "idle", after |-> 0, page |-> <<>>, reached |-> 0, held |-> 0, limit |-> 0]
NotIndexed == [version |-> 0, cursor |-> 0]

Init ==
    /\ RootInit
    /\ cursor = [d \in Discoveries |-> 0]
    /\ index = [d \in Discoveries |-> [a \in Agents |-> NotIndexed]]
    /\ syncs = [d \in Discoveries |-> [c \in Callers |-> Asleep]]

\* What the caller of a sync learns: only a notify cycle that still waits for
\* it takes notice.
Reply(c, d, answer) ==
    IF c \in Notifiers
    THEN notify' = IF notify[c].call = d /\ notify[c].reply = "working"
                   THEN [notify EXCEPT ![c].reply = answer] ELSE notify
    ELSE UNCHANGED notify

RootIdle == UNCHANGED <<feed, jobs, accepting, tasks, late, cdn, auth, syncing, targets,
                        governed, stored, requests>>
Becomes(d, c, sync) == syncs' = [syncs EXCEPT ![d][c] = sync]
Ends(d, c) == Becomes(d, c, Asleep)

\* The beginning of sync_from_cdn: the bulletin's checks, then the cursor; a
\* hint it has reached already is answered without a sync.
Begin(d, c, limit, hinted, hint) ==
    /\ syncs[d][c] = Asleep
    /\ IF hinted /\ hint <= cursor[d]
       THEN UNCHANGED syncs
       ELSE Becomes(d, c, [Asleep EXCEPT !.at = "feed", !.after = cursor[d], !.reached = cursor[d],
                                         !.limit = limit])
    /\ UNCHANGED <<cursor, index>>

TakeCall(n) ==
    /\ notify[n].reply = "sent"
    /\ LET d == notify[n].call IN
       /\ Begin(d, n, NotifyBatch, TRUE, notify[n].hint)
       /\ notify' = [notify EXCEPT ![n].reply = IF notify[n].hint <= cursor[d] THEN "ok" ELSE "working"]
    /\ RootIdle /\ UNCHANGED disturbances

StartSync(d, o) ==
    /\ o \in Operators /\ Disturbance
    /\ Begin(d, o, PageLimit, FALSE, 0)
    /\ RootIdle /\ UNCHANGED notify

\* api_publications: the rows after a cursor, whether published yet or not.
Publications(after, limit) ==
    [i \in 1..Min({limit, Len(feed) - after}) |-> after + i]

FetchFeed(d, c) ==
    /\ syncs[d][c].at = "feed"
    /\ Becomes(d, c, [syncs[d][c] EXCEPT !.at = "entry",
                        !.page = Publications(syncs[d][c].after, syncs[d][c].limit)])
    /\ RootIdle /\ UNCHANGED <<notify, disturbances, cursor, index>>

\* The package of the next entry: an Agent outside the node's domains is
\* rejected and passed over, one the CDN does not have ends the page.
Entry(d, c) == Head(syncs[d][c].page)

\* Mutants: a missing package is passed over; every Agent is indexed.
MissingPassedOver(sync) == [sync EXCEPT !.page = Tail(@)]
IndexableAnywhere(d, agent) == TRUE

MissingEnds(sync) == [sync EXCEPT !.page = <<>>]
Indexable(d, agent) == agent \in Serves[d]
FetchPackage(d, c) ==
    /\ syncs[d][c].at = "entry" /\ syncs[d][c].page # <<>>
    /\ LET agent == feed[Entry(d, c)].did IN
       Becomes(d, c,
         IF cdn[agent] = 0 THEN MissingEnds(syncs[d][c])
         ELSE IF ~Indexable(d, agent) THEN [syncs[d][c] EXCEPT !.page = Tail(@)]
         ELSE [syncs[d][c] EXCEPT !.at = "held", !.held = cdn[agent]])
    /\ RootIdle /\ UNCHANGED <<notify, disturbances, cursor, index>>

\* upsert_indexed_package: the package fetched replaces the one indexed.
IndexPackage(d, c) ==
    /\ syncs[d][c].at = "held"
    /\ index' = [index EXCEPT ![d][feed[Entry(d, c)].did] =
                    [version |-> syncs[d][c].held, cursor |-> Entry(d, c)]]
    /\ Becomes(d, c, [syncs[d][c] EXCEPT !.at = "entry", !.page = Tail(@),
                                         !.reached = Entry(d, c), !.held = 0])
    /\ RootIdle /\ UNCHANGED <<notify, disturbances, cursor>>

\* The end of a page: the cursor is written if the sync moved it.
FinishSync(d, c) ==
    /\ syncs[d][c].at = "entry" /\ syncs[d][c].page = <<>>
    /\ cursor' = IF syncs[d][c].reached > syncs[d][c].after
                 THEN [cursor EXCEPT ![d] = syncs[d][c].reached] ELSE cursor
    /\ Ends(d, c)
    /\ Reply(c, d, "ok")
    /\ RootIdle /\ UNCHANGED <<disturbances, index>>

\* Any request or statement of a sync may fail: what it indexed stays.
FailSync(d, c) ==
    /\ syncs[d][c].at # "idle"
    /\ Disturbance
    /\ Ends(d, c)
    /\ Reply(c, d, "error")
    /\ RootIdle /\ UNCHANGED <<cursor, index>>

\* The Discovery node starts again from its database; the notify cycles that
\* wait for it get an error.
RestartDiscovery(d) ==
    /\ Disturbance
    /\ syncs' = [syncs EXCEPT ![d] = [c \in Callers |-> Asleep]]
    /\ notify' = [n \in Notifiers |->
          IF notify[n].call = d /\ notify[n].reply \in {"sent", "working"}
          THEN [notify[n] EXCEPT !.reply = "error"] ELSE notify[n]]
    /\ RootIdle /\ UNCHANGED <<cursor, index>>

SyncStep(d, c) ==
    FetchFeed(d, c) \/ FetchPackage(d, c) \/ IndexPackage(d, c) \/ FinishSync(d, c)

Next ==
    \/ RootStep /\ UNCHANGED discoveryVars
    \/ \E n \in Notifiers : TakeCall(n)
    \/ \E d \in Discoveries, o \in Operators : StartSync(d, o)
    \/ \E d \in Discoveries, c \in Callers : SyncStep(d, c) \/ FailSync(d, c)
    \/ \E d \in Discoveries : RestartDiscovery(d)

Spec == Init /\ [][Next]_vars

\* The workers loop for ever and a sync runs on; requests, failures and
\* governance need not come.
Fairness ==
    /\ \A v \in Version : /\ WF_vars(EnqueueAccepted(v) /\ UNCHANGED discoveryVars)
                          /\ WF_vars(UNCHANGED <<discoveryVars, disturbances>> /\ LapseJob(v))
                          /\ SF_vars(\E w \in Workers, vs \in SUBSET Version :
                                        v \in vs /\ StartCycle(w, vs) /\ UNCHANGED discoveryVars)
    /\ WF_vars((\E t \in tasks : \/ CdnStores(t) \/ ReadAudience(t) \/ MarkPublished(t)
                                 \/ \E d \in Discoveries : Announce(t, d)) /\ UNCHANGED discoveryVars)
    /\ \A n \in Notifiers : WF_vars(/\ \/ MarkNotified(n) \/ \E l \in notify[n].leases : Call(n, l)
                                       \/ UNCHANGED disturbances /\ MarkTargetRetry(n)
                                    /\ UNCHANGED discoveryVars)
                            /\ WF_vars(TakeCall(n))
    /\ \A d \in Discoveries : /\ WF_vars(UNCHANGED <<discoveryVars, disturbances>> /\ LapseTarget(d))
                              /\ WF_vars(SyncTarget(d) /\ UNCHANGED discoveryVars)
                              /\ SF_vars(\E n \in Notifiers, ds \in SUBSET Discoveries :
                                            d \in ds /\ StartNotify(n, ds) /\ UNCHANGED discoveryVars)
                              /\ \A c \in Callers : WF_vars(SyncStep(d, c))
FairSpec == Spec /\ Fairness

----------------------------------------------------------------------------
(* Properties *)

\* Every variable keeps its type; watermarks and cursors stay within the feed
\* and a target is never delivered past what is pending for it.
TypeOK ==
    /\ feed \in Seq(Version)
    /\ jobs \in [Version -> JobStatuses]
    /\ accepting \subseteq Version /\ late \subseteq Version /\ stored \subseteq Version
    /\ tasks \subseteq [worker : Workers, job : Version, stage : {"posting", "stored", "announcing"},
                        left : SUBSET Discoveries]
    /\ cdn \in [Agents -> 0..MaxVersion]
    /\ auth \in [Discoveries -> Statuses] /\ syncing \in [Discoveries -> Statuses]
    /\ targets \in [Discoveries -> Target]
    /\ requests \in 0..MaxRequests /\ disturbances \in 0..MaxDisturbances /\ governed \in BOOLEAN
    /\ cursor \in [Discoveries -> 0..Len(feed)]
    /\ index \in [Discoveries -> [Agents -> [version : 0..MaxVersion, cursor : 0..Len(feed)]]]
    /\ \A d \in Discoveries : targets[d].delivered <= targets[d].pending /\ targets[d].pending <= Len(feed)

\* A publish job is marked done only when the CDN has stored its version,
\* through failed posts, lapsed leases and restarts of the Root.
DoneIsStored == \A v \in Version : jobs[v] = "succeeded" => v \in stored

\* The Root never asks a Discovery node to sync up to a version the CDN has
\* not been given: the watermark is raised only after the post succeeds.
AnnouncedIsStored ==
    \A d \in Discoveries : targets[d].pending > 0 => feed[targets[d].pending] \in stored

\* What the Root takes for published, or tells others is, the CDN has.
ClaimedIsStored == DoneIsStored /\ AnnouncedIsStored

\* A job is done only after every Discovery node it concerns was told: for the
\* nodes no administrator touched, the pending watermark has reached the row.
DoneIsAnnounced ==
    ~governed =>
    \A v \in Version, d \in Authorized :
        jobs[v] = "succeeded" /\ v.did \in Serves[d] => targets[d].pending >= Cursor(v)

\* A Discovery node's cursor leaves no gap: of every row up to it that lies in
\* the node's domains, the Agent is indexed.
NothingSkipped ==
    \A d \in Discoveries : \A c \in 1..cursor[d] :
        feed[c].did \in Serves[d] => index[d][feed[c].did].version > 0

\* What a Discovery node has indexed was accepted by the Root and stored by the
\* CDN, and lies in the node's domains.
IndexedIsStored ==
    \A d \in Discoveries, a \in Agents :
        index[d][a].version > 0 =>
            /\ a \in Serves[d]
            /\ [did |-> a, version |-> index[d][a].version] \in stored

\* A job that was enqueued is done in the end, whatever failed on the way.
QueuedIsPublished == \A v \in Version : v \in ActiveJobs(jobs) ~> jobs[v] = "succeeded"

\* Every Discovery node that stays active is notified up to its watermark in
\* the end, whatever calls failed and whoever held its lease.
WatermarkIsDelivered ==
    \A d \in Discoveries : <>[](\/ targets[d].delivered = targets[d].pending
                               \/ auth[d] # "active" \/ targets[d].status # "active")

\* What the tests of the notification model take for granted: a target that is
\* marked delivered up to a cursor has synced up to it.
DeliveredIsSynced == \A d \in Discoveries : targets[d].delivered <= cursor[d]
============================================================================
