--------------------------- MODULE RootNodeProofs ---------------------------
(***************************************************************************)
(* What holds of the Root node's handlers for any tasks, Agents, requests, *)
(* failures and bounds: the types, the bulletin as a numbered append-only  *)
(* log, and that nothing Root remembers or hands out is unanchored.        *)
(*                                                                         *)
(* The invariants are inductive only together with what a handler knows at *)
(* each point (Serving): that it alone holds the lock, that the bulletin   *)
(* it read is still the one in the file when it writes, and, from then on, *)
(* that its event is in the bulletin.                                      *)
(***************************************************************************)
EXTENDS RootNode, SequenceTheorems, TLAPS

\* The points after the bulletin was written at which a registration has still
\* something to write.
Distributing == {"archive", "latest", "cdn_json", "cdn_sql",
                 "discovery_json", "discovery_sql"}

\* What is known of a task by the point its handler has reached.
Serving(p) ==
    /\ pc[p] # "idle" => lock = p
    /\ pc[p] \in {"nonce", "verify"} \cup Distributing => req[p] \in PublishRequest
    /\ pc[p] \in {"read", "authorization"} => req[p] \in NodeRequest
    /\ pc[p] = "write" =>
         /\ \/ req[p] \in PublishRequest /\ event[p] \in AgentEvent
            \/ req[p] \in NodeRequest /\ event[p] \in NodeEvent
         /\ view[p] = bulletin
         /\ event[p].sequence = Len(bulletin) + 1
    /\ pc[p] \in Distributing =>
         /\ event[p] \in AgentEvent
         /\ event[p].sequence \in 1..Len(bulletin)
         /\ bulletin[event[p].sequence] = event[p]

Handlers == \A p \in Procs : Serving(p)

Inv == TypeOK /\ Handlers /\ EventsAreNumbered

-----------------------------------------------------------------------------
(* The handlers among others that change the queues.  What follows is      *)
(* proved of this open system; Root's own handlers alone are an instance   *)
(* of it, and so are the handlers beside the batches (RootBatchesProofs).  *)

QueueFiles == {"cdn_queue", "discovery_queue"}

\* A handler reads what it finds of a queue file.
OpenStep(p) ==
    \/ VerifyNonce(p) \/ VerifyRequest(p) \/ RejectRequest(p)
    \/ ReadBulletin(p) \/ FailRead(p) \/ WriteBulletin(p)
    \/ ArchiveVerified(p) \/ UpdateLatestVersion(p)
    \/ \E queue \in SUBSET cdnJson : EnqueueCdnJson(p, queue)
    \/ EnqueueCdnSql(p)
    \/ \E queue \in SUBSET discoveryJson : EnqueueDiscoveryJson(p, queue)
    \/ EnqueueDiscoverySql(p)
    \/ UpdateAuthorization(p)

\* The event a version entry, an archived or a queued package claims is recorded.
AnchoredPackages(b) == {x \in Package : AnchoredIn(b, x.did, x.didDocument, x.sequence)}

\* Somebody else rewrites the queues, or fails: all it leaves is anchored.
OthersQueue ==
    /\ UNCHANGED <<bulletin, authorization, nonces, latest, archive, snapshot, handlerVars,
                   answered, anchors>>
    /\ cdnJson' \cup cdnSql' \cup discoveryJson' \cup discoverySql' \subseteq AnchoredPackages(bulletin)
    /\ torn' \subseteq Tearable /\ torn' \ QueueFiles = torn \ QueueFiles
    /\ faults' \in Nat /\ faults <= faults'

\* A failure may leave files truncated, and makes none readable again.
Truncations == {T \in SUBSET Tearable : torn \subseteq T}

OpenNext ==
    \/ \E p \in Procs, r \in Requests : Acquire(p, r)
    \/ \E p \in Procs : OpenStep(p)
    \/ \E p \in Procs : Abandon(p)
    \/ \E tears \in SUBSET Truncations : Restart(tears)
    \/ OthersQueue

OpenSpec == Init /\ [][OpenNext]_rootVars

-----------------------------------------------------------------------------
(* The operators.                                                          *)

\* A publish request is told from the others by its operation.
LEMMA RequestKinds ==
    ASSUME NEW r \in Requests
    PROVE  /\ r.op = "publish" => r \in PublishRequest
           /\ r.op # "publish" => r \in NodeRequest
BY ConstantsAssumption DEF PublishRequest, NodeRequest

LEMMA NoVersionsType ==
    NoVersions \in [Agents -> [version : Nat,
                               didDocument : Documents \cup {NoDocument},
                               sequence : Nat]]
BY DEF NoVersions, NoVersion

LEMMA NoAuthorizationType == NoAuthorization \in Authorization
BY DEF NoAuthorization, Authorization, Status

LEMMA AmendedType ==
    ASSUME NEW a \in Authorization, NEW r \in NodeRequest
    PROVE  Amended(a, r) \in Authorization
<1>1. /\ r.did \in Nodes /\ r.role \in Roles
      /\ r.authorizedDomains \in SUBSET Domains
      /\ r.op \in {"authorize_registrar", "authorize_discovery",
                   "update_domains", "revoke"}
  BY DEF NodeRequest
<1>2. AuthorizeRegistrar(a, r.did, r.role) \in Authorization
  BY <1>1 DEF AuthorizeRegistrar, Authorization, Status, Roles
<1>3. AuthorizeDiscovery(a, r.did) \in Authorization
  BY <1>1, ConstantsAssumption DEF AuthorizeDiscovery, Authorization, Status
<1>4. UpdateDomains(a, r.did, r.authorizedDomains) \in Authorization
  BY <1>1 DEF UpdateDomains, Authorization, Status
<1>5. Revoke(a, r.did) \in Authorization
  <2>1. \A s \in Status : RevokedIfPresent(s) \in Status
    BY DEF RevokedIfPresent, Status
  <2>2. /\ a.registrars \in [Nodes -> Status]
        /\ a.vc_issuers \in [Nodes -> Status]
        /\ a.discovery_nodes \in
             [Nodes -> [status : Status, authorizedDomains : SUBSET Domains]]
    BY DEF Authorization
  <2>3. [a.discovery_nodes EXCEPT ![r.did].status = RevokedIfPresent(@)] \in
          [Nodes -> [status : Status, authorizedDomains : SUBSET Domains]]
    BY <1>1, <2>1, <2>2
  <2> QED
    BY <1>1, <2>1, <2>2, <2>3 DEF Revoke, Authorization
<1> QED
  BY <1>1, <1>2, <1>3, <1>4, <1>5 DEF Amended

LEMMA SupersedeType ==
    ASSUME NEW S \in SUBSET Package, NEW x \in Package
    PROVE  Supersede(S, x) \in SUBSET Package
BY DEF Supersede

LEMMA ReadLatestType ==
    ASSUME FilesTypeOK
    PROVE  ReadLatest \in [Agents -> [version : Nat,
                                      didDocument : Documents \cup {NoDocument},
                                      sequence : Nat]]
BY NoVersionsType DEF FilesTypeOK, ReadLatest

LEMMA LoadAuthorizationType ==
    ASSUME FilesTypeOK
    PROVE  LoadAuthorization \in Authorization
BY DEF FilesTypeOK, LoadAuthorization

\* The event VerifyRequest builds.
LEMMA AgentEventType ==
    ASSUME FilesTypeOK, NEW r \in PublishRequest, NEW n \in Nat, NEW type,
           type \in {"AGENT_DID_DOCUMENT_ANCHORED", "AGENT_DID_DOCUMENT_UPDATED"}
    PROVE  [sequence |-> n, event_type |-> type, subject_did |-> r.agentDid,
            payload |-> [registrarDid    |-> r.registrarDid,
                         didDocument     |-> r.didDocument,
                         documentVersion |-> NextVersion(r),
                         operation       |-> Operation(r)]] \in AgentEvent
<1>1. r.agentDid \in Agents /\ r.registrarDid \in Nodes /\ r.didDocument \in Documents
  BY DEF PublishRequest
<1>2. ReadLatest[r.agentDid].version \in Nat
  BY <1>1, ReadLatestType
<1>3. NextVersion(r) \in Nat
  BY <1>2 DEF NextVersion
<1>4. Operation(r) \in {"create", "update", "no-op"}
  BY DEF Operation
<1> QED
  BY <1>1, <1>3, <1>4 DEF AgentEvent

\* The event ReadBulletin builds.
LEMMA NodeEventIsTyped ==
    ASSUME NEW r \in NodeRequest, NEW n \in Nat
    PROVE  [sequence |-> n, event_type |-> NodeEventType(r.op),
            subject_did |-> r.did,
            payload |-> [role |-> r.role,
                         authorizedDomains |-> r.authorizedDomains]] \in NodeEvent
<1>1. /\ r.did \in Nodes /\ r.role \in Roles
      /\ r.authorizedDomains \in SUBSET Domains
      /\ r.op \in {"authorize_registrar", "authorize_discovery",
                   "update_domains", "revoke"}
  BY DEF NodeRequest
<1>2. NodeEventType(r.op) \in
        {"REGISTRAR_AUTHORIZED", "REGISTRAR_REVOKED", "DISCOVERY_NODE_AUTHORIZED",
         "DISCOVERY_NODE_DOMAINS_UPDATED", "NODE_REVOKED"}
  BY <1>1 DEF NodeEventType
<1> QED
  BY <1>1, <1>2 DEF NodeEvent

\* What a handler distributes is typed.
LEMMA DistributedTypes ==
    ASSUME NEW p \in Procs, event[p] \in AgentEvent
    PROVE  /\ PackageOf(p) \in Package
           /\ ArchiveEntry(p) \in VersionedPackage
           /\ VersionOf(p) \in [version : Nat,
                                didDocument : Documents \cup {NoDocument},
                                sequence : Nat]
           /\ event[p].subject_did \in Agents
BY DEF AgentEvent, PackageOf, ArchiveEntry, VersionOf, Package, VersionedPackage

-----------------------------------------------------------------------------
(* Handlers.                                                               *)

\* While one handler is on its way, no other is.
LEMMA OneHandler ==
    ASSUME Handlers, NEW p \in Procs, pc[p] # "idle"
    PROVE  /\ lock = p
           /\ \A q \in Procs \ {p} : pc[q] = "idle"
BY DEF Handlers, Serving

\* Only the task that returns moves, and it is idle.
LEMMA ReturnIsLocal ==
    ASSUME HandlersTypeOK, NEW p \in Procs, Return(p), NEW q \in Procs
    PROVE  \/ pc'[q] = "idle"
           \/ pc'[q] = pc[q] /\ req'[q] = req[q] /\ event'[q] = event[q]
<1>1. CASE q = p
  BY <1>1 DEF HandlersTypeOK, Return, GoTo
<1>2. CASE q # p
  BY <1>2 DEF HandlersTypeOK, Return, GoTo
<1> QED
  BY <1>1, <1>2

\* A handler that returns leaves nobody on the way.
LEMMA ReturnKeepsHandlers ==
    ASSUME HandlersTypeOK, Handlers, NEW p \in Procs, pc[p] # "idle", Return(p)
    PROVE  HandlersTypeOK' /\ Handlers'
<1>1. \A q \in Procs : pc'[q] = "idle"
  BY OneHandler DEF HandlersTypeOK, Return, GoTo
<1>2. Handlers'
  BY <1>1 DEF Handlers, Serving, Distributing
<1>3. pc' \in [Procs -> Writing \cup {"idle", "verify", "read"}]
  BY DEF HandlersTypeOK, Return, GoTo
<1>4. lock' \in Procs \cup {NoProc}
  BY DEF Return
<1>5. req' \in [Procs -> Requests \cup {NoRequest}]
  BY DEF HandlersTypeOK, Return
<1>6. view' \in [Procs -> Seq(Event)]
  BY EmptySeq DEF HandlersTypeOK, Return
<1>7. event' \in [Procs -> Event \cup {NoEvent}]
  BY DEF HandlersTypeOK, Return
<1> QED
  BY <1>2, <1>3, <1>4, <1>5, <1>6, <1>7 DEF HandlersTypeOK

\* A handler that goes on leaves the others idle: only its own knowledge is to
\* be shown again.
LEMMA GoingOnKeepsHandlers ==
    ASSUME HandlersTypeOK, Handlers, NEW p \in Procs, pc[p] # "idle",
           NEW next, GoTo(p, next), UNCHANGED lock, Serving(p)'
    PROVE  Handlers'
<1>1. \A q \in Procs \ {p} : pc'[q] = "idle"
  BY OneHandler DEF HandlersTypeOK, GoTo
<1>2. \A q \in Procs \ {p} : Serving(q)'
  BY <1>1 DEF Serving, Distributing
<1> QED
  BY <1>2 DEF Handlers

-----------------------------------------------------------------------------
(* The invariant.                                                          *)

LEMMA SeedEvents == Seed \in Seq(Event)
BY SeedAssumption, SeqMonotonic DEF Event

LEMMA InitEstablishesInv == Init => Inv
<1> SUFFICES ASSUME Init
             PROVE  Inv
  OBVIOUS
<1>1. FilesTypeOK
  BY SeedEvents, NoVersionsType, NoAuthorizationType DEF Init, FilesTypeOK
<1>2. QueuesTypeOK /\ HistoryTypeOK
  BY DEF Init, QueuesTypeOK, HistoryTypeOK
<1>3. HandlersTypeOK
  BY EmptySeq DEF Init, HandlersTypeOK
<1>4. Handlers
  BY DEF Init, Handlers, Serving, Distributing
<1>5. EventsAreNumbered
  BY SeedAssumption DEF Init, EventsAreNumbered
<1> QED
  BY <1>1, <1>2, <1>3, <1>4, <1>5 DEF Inv, TypeOK

\* An event appended at the end, under the next number.
LEMMA WriteKeepsBulletin ==
    ASSUME Inv, NEW p \in Procs, WriteBulletin(p)
    PROVE  /\ bulletin' = Append(bulletin, event[p])
           /\ bulletin' \in Seq(Event)
           /\ Len(bulletin') = Len(bulletin) + 1
           /\ \A i \in 1..Len(bulletin) : bulletin'[i] = bulletin[i]
           /\ bulletin'[Len(bulletin) + 1] = event[p]
           /\ EventsAreNumbered'
<1>1. /\ view[p] = bulletin
      /\ event[p] \in Event
      /\ event[p].sequence = Len(bulletin) + 1
  BY DEF Inv, Handlers, Serving, WriteBulletin, At, Event
<1>2. bulletin \in Seq(Event)
  BY DEF Inv, TypeOK, FilesTypeOK
<1>3. bulletin' = Append(bulletin, event[p])
  BY <1>1 DEF WriteBulletin
<1>4. /\ bulletin' \in Seq(Event)
      /\ Len(bulletin') = Len(bulletin) + 1
      /\ \A i \in 1..Len(bulletin) : bulletin'[i] = bulletin[i]
      /\ bulletin'[Len(bulletin) + 1] = event[p]
  BY <1>1, <1>2, <1>3, AppendProperties
<1>5. EventsAreNumbered'
  BY <1>1, <1>2, <1>4, LenProperties DEF Inv, EventsAreNumbered
<1> QED
  BY <1>3, <1>4, <1>5

LEMMA StepKeepsInv ==
    ASSUME Inv, NEW p \in Procs, OpenStep(p)
    PROVE  Inv'
<1> USE DEF Inv, TypeOK
<1>1. CASE VerifyNonce(p)
  <2>1. pc[p] = "nonce" /\ req[p] \in PublishRequest
    BY <1>1 DEF VerifyNonce, At, Handlers, Serving
  <2>2. FilesTypeOK'
    BY <1>1, <2>1 DEF VerifyNonce, FilesTypeOK, PublishRequest
  <2>3. QueuesTypeOK' /\ HistoryTypeOK' /\ EventsAreNumbered'
    BY <1>1 DEF VerifyNonce, QueuesTypeOK, HistoryTypeOK, EventsAreNumbered,
               queueVars, historyVars
  <2>4. HandlersTypeOK'
    BY <1>1 DEF VerifyNonce, HandlersTypeOK, GoTo
  <2>5. Serving(p)'
    BY <1>1, <2>1 DEF VerifyNonce, GoTo, HandlersTypeOK, Handlers, Serving, Distributing
  <2> QED
    BY <1>1, <2>1, <2>2, <2>3, <2>4, <2>5, GoingOnKeepsHandlers DEF VerifyNonce
<1>2. CASE VerifyRequest(p)
  <2>1. pc[p] = "verify" /\ req[p] \in PublishRequest
    BY <1>2 DEF VerifyRequest, At, Handlers, Serving
  <2>2. FilesTypeOK' /\ QueuesTypeOK' /\ HistoryTypeOK' /\ EventsAreNumbered'
    BY <1>2 DEF VerifyRequest, FilesTypeOK, QueuesTypeOK, HistoryTypeOK,
               EventsAreNumbered, fileVars, queueVars, historyVars
  <2>3. NextSequence \in Nat /\ NextSequence = Len(bulletin) + 1
    BY LenProperties DEF NextSequence, FilesTypeOK
  <2>4. event'[p] \in AgentEvent /\ event'[p].sequence = Len(bulletin) + 1
    BY <1>2, <2>1, <2>3, AgentEventType DEF VerifyRequest, HandlersTypeOK
  <2>5. HandlersTypeOK'
    BY <1>2, <2>4 DEF VerifyRequest, HandlersTypeOK, GoTo, Writing, FilesTypeOK, Event
  <2>6. Serving(p)'
    BY <1>2, <2>1, <2>4 DEF VerifyRequest, GoTo, HandlersTypeOK, Handlers, Serving,
               Distributing, fileVars
  <2> QED
    BY <1>2, <2>1, <2>2, <2>5, <2>6, GoingOnKeepsHandlers DEF VerifyRequest
<1>3. CASE RejectRequest(p)
  <2>1. pc[p] # "idle"
    BY <1>3 DEF RejectRequest, At
  <2>2. FilesTypeOK' /\ QueuesTypeOK' /\ HistoryTypeOK' /\ EventsAreNumbered'
    BY <1>3 DEF RejectRequest, FilesTypeOK, QueuesTypeOK, HistoryTypeOK,
               EventsAreNumbered, fileVars, queueVars, historyVars
  <2> QED
    BY <1>3, <2>1, <2>2, ReturnKeepsHandlers DEF RejectRequest
<1>4. CASE ReadBulletin(p)
  <2>1. pc[p] = "read" /\ req[p] \in NodeRequest
    BY <1>4 DEF ReadBulletin, At, Handlers, Serving
  <2>2. FilesTypeOK' /\ QueuesTypeOK' /\ HistoryTypeOK' /\ EventsAreNumbered'
    BY <1>4 DEF ReadBulletin, FilesTypeOK, QueuesTypeOK, HistoryTypeOK,
               EventsAreNumbered, fileVars, queueVars, historyVars
  <2>3. NextSequence \in Nat /\ NextSequence = Len(bulletin) + 1
    BY LenProperties DEF NextSequence, FilesTypeOK
  <2>4. event'[p] \in NodeEvent /\ event'[p].sequence = Len(bulletin) + 1
    BY <1>4, <2>1, <2>3, NodeEventIsTyped DEF ReadBulletin, HandlersTypeOK
  <2>5. HandlersTypeOK'
    BY <1>4, <2>4 DEF ReadBulletin, HandlersTypeOK, GoTo, Writing, FilesTypeOK, Event
  <2>6. Serving(p)'
    BY <1>4, <2>1, <2>4 DEF ReadBulletin, GoTo, HandlersTypeOK, Handlers, Serving,
               Distributing, fileVars
  <2> QED
    BY <1>4, <2>1, <2>2, <2>5, <2>6, GoingOnKeepsHandlers DEF ReadBulletin
<1>5. CASE FailRead(p)
  <2>1. pc[p] # "idle"
    BY <1>5 DEF FailRead, At
  <2>2. FilesTypeOK' /\ QueuesTypeOK' /\ HistoryTypeOK' /\ EventsAreNumbered'
    BY <1>5 DEF FailRead, FilesTypeOK, QueuesTypeOK, HistoryTypeOK,
               EventsAreNumbered, fileVars, queueVars, historyVars
  <2> QED
    BY <1>5, <2>1, <2>2, ReturnKeepsHandlers DEF FailRead
<1>6. CASE WriteBulletin(p)
  <2>1. /\ pc[p] = "write"
        /\ \/ req[p] \in PublishRequest /\ event[p] \in AgentEvent
           \/ req[p] \in NodeRequest /\ event[p] \in NodeEvent
        /\ event[p].sequence = Len(bulletin) + 1
    BY <1>6 DEF WriteBulletin, At, Handlers, Serving
  <2>2. Len(bulletin) \in Nat
    BY LenProperties DEF FilesTypeOK
  <2>3. FilesTypeOK' /\ EventsAreNumbered'
    BY <1>6, WriteKeepsBulletin DEF WriteBulletin, FilesTypeOK
  <2>4. QueuesTypeOK' 
    BY <1>6 DEF WriteBulletin, QueuesTypeOK, queueVars
  <2>5. HistoryTypeOK'
    BY <1>6, <2>1, <2>2 DEF WriteBulletin, HistoryTypeOK, PublishRequest, NodeRequest
  <2>6. HandlersTypeOK'
    BY <1>6, EmptySeq DEF WriteBulletin, HandlersTypeOK, GoTo, Writing
  <2>7. req[p].op = "publish" <=> req[p] \in PublishRequest
    BY <2>1 DEF PublishRequest, NodeRequest
  <2>8. req[p].op = "publish" => event[p] \in AgentEvent
    BY <2>1, <2>7 DEF PublishRequest, NodeRequest
  <2>9. Serving(p)'
    BY <1>6, <2>1, <2>2, <2>7, <2>8, WriteKeepsBulletin
    DEF WriteBulletin, GoTo, HandlersTypeOK, Handlers, Serving, Distributing
  <2> QED
    BY <1>6, <2>1, <2>3, <2>4, <2>5, <2>6, <2>9, GoingOnKeepsHandlers DEF WriteBulletin
<1>7. CASE ArchiveVerified(p)
  <2>1. pc[p] = "archive" /\ event[p] \in AgentEvent
    BY <1>7 DEF ArchiveVerified, At, Handlers, Serving, Distributing
  <2>2. FilesTypeOK'
    BY <1>7, <2>1, DistributedTypes DEF ArchiveVerified, FilesTypeOK
  <2>3. QueuesTypeOK' /\ HistoryTypeOK' /\ EventsAreNumbered'
    BY <1>7 DEF ArchiveVerified, QueuesTypeOK, HistoryTypeOK, EventsAreNumbered,
               queueVars, historyVars
  <2>4. HandlersTypeOK'
    BY <1>7 DEF ArchiveVerified, HandlersTypeOK, GoTo, Writing
  <2>5. Serving(p)'
    BY <1>7, <2>1 DEF ArchiveVerified, GoTo, HandlersTypeOK, Handlers, Serving, Distributing
  <2> QED
    BY <1>7, <2>1, <2>2, <2>3, <2>4, <2>5, GoingOnKeepsHandlers DEF ArchiveVerified
<1>8. CASE UpdateLatestVersion(p)
  <2>1. pc[p] = "latest" /\ event[p] \in AgentEvent
    BY <1>8 DEF UpdateLatestVersion, At, Handlers, Serving, Distributing
  <2>2. FilesTypeOK'
    BY <1>8, <2>1, DistributedTypes, ReadLatestType DEF UpdateLatestVersion, FilesTypeOK
  <2>3. QueuesTypeOK' /\ HistoryTypeOK' /\ EventsAreNumbered'
    BY <1>8 DEF UpdateLatestVersion, QueuesTypeOK, HistoryTypeOK, EventsAreNumbered,
               queueVars, historyVars
  <2>4. HandlersTypeOK'
    BY <1>8 DEF UpdateLatestVersion, HandlersTypeOK, GoTo, Writing
  <2>5. Serving(p)'
    BY <1>8, <2>1 DEF UpdateLatestVersion, GoTo, HandlersTypeOK, Handlers, Serving,
               Distributing
  <2> QED
    BY <1>8, <2>1, <2>2, <2>3, <2>4, <2>5, GoingOnKeepsHandlers DEF UpdateLatestVersion
<1>9. ASSUME NEW queue \in SUBSET cdnJson, EnqueueCdnJson(p, queue)
      PROVE  Inv'
  <2>1. pc[p] = "cdn_json" /\ event[p] \in AgentEvent
    BY <1>9 DEF EnqueueCdnJson, At, Handlers, Serving, Distributing
  <2>2. FilesTypeOK' /\ HistoryTypeOK' /\ EventsAreNumbered'
    BY <1>9 DEF EnqueueCdnJson, FilesTypeOK, HistoryTypeOK, EventsAreNumbered, historyVars
  <2>3. queue \in SUBSET Package
    BY DEF QueuesTypeOK
  <2>4. QueuesTypeOK'
    BY <1>9, <2>1, <2>3, DistributedTypes, SupersedeType DEF EnqueueCdnJson, QueuesTypeOK
  <2>5. HandlersTypeOK'
    BY <1>9 DEF EnqueueCdnJson, HandlersTypeOK, GoTo, Writing
  <2>6. Serving(p)'
    BY <1>9, <2>1 DEF EnqueueCdnJson, GoTo, HandlersTypeOK, Handlers, Serving, Distributing
  <2> QED
    BY <1>9, <2>1, <2>2, <2>4, <2>5, <2>6, GoingOnKeepsHandlers DEF EnqueueCdnJson
<1>10. CASE EnqueueCdnSql(p)
  <2>1. pc[p] = "cdn_sql" /\ event[p] \in AgentEvent
    BY <1>10 DEF EnqueueCdnSql, At, Handlers, Serving, Distributing
  <2>2. FilesTypeOK' /\ HistoryTypeOK' /\ EventsAreNumbered'
    BY <1>10 DEF EnqueueCdnSql, FilesTypeOK, HistoryTypeOK, EventsAreNumbered,
               historyVars, fileVars
  <2>3. QueuesTypeOK'
    BY <1>10, <2>1, DistributedTypes, SupersedeType DEF EnqueueCdnSql, QueuesTypeOK
  <2>4. HandlersTypeOK'
    BY <1>10 DEF EnqueueCdnSql, HandlersTypeOK, GoTo, Writing
  <2>5. Serving(p)'
    BY <1>10, <2>1 DEF EnqueueCdnSql, GoTo, HandlersTypeOK, Handlers, Serving,
               Distributing, fileVars
  <2> QED
    BY <1>10, <2>1, <2>2, <2>3, <2>4, <2>5, GoingOnKeepsHandlers DEF EnqueueCdnSql
<1>11. ASSUME NEW queue \in SUBSET discoveryJson, EnqueueDiscoveryJson(p, queue)
       PROVE  Inv'
  <2>1. pc[p] = "discovery_json" /\ event[p] \in AgentEvent
    BY <1>11 DEF EnqueueDiscoveryJson, At, Handlers, Serving, Distributing
  <2>2. FilesTypeOK' /\ EventsAreNumbered'
    BY <1>11 DEF EnqueueDiscoveryJson, FilesTypeOK, EventsAreNumbered
  <2>3. QueuesTypeOK'
    BY <1>11, <2>1, DistributedTypes
    DEF EnqueueDiscoveryJson, QueuesTypeOK
  <2>4. HistoryTypeOK'
    BY <1>11, <2>1, DistributedTypes DEF EnqueueDiscoveryJson, Respond, HistoryTypeOK
  <2>5. CASE UseSqlite
    <3>1. HandlersTypeOK'
      BY <1>11, <2>5 DEF EnqueueDiscoveryJson, HandlersTypeOK, GoTo, Writing
    <3>2. Serving(p)'
      BY <1>11, <2>1, <2>5 DEF EnqueueDiscoveryJson, GoTo, HandlersTypeOK, Handlers,
               Serving, Distributing
    <3> QED
      BY <1>11, <2>1, <2>2, <2>3, <2>4, <2>5, <3>1, <3>2, GoingOnKeepsHandlers
      DEF EnqueueDiscoveryJson
  <2>6. CASE ~UseSqlite
    BY <1>11, <2>1, <2>2, <2>3, <2>4, <2>6, ReturnKeepsHandlers
    DEF EnqueueDiscoveryJson, Respond
  <2> QED
    BY <2>5, <2>6
<1>12. CASE EnqueueDiscoverySql(p)
  <2>1. pc[p] = "discovery_sql" /\ event[p] \in AgentEvent
    BY <1>12 DEF EnqueueDiscoverySql, At, Handlers, Serving, Distributing
  <2>2. FilesTypeOK' /\ EventsAreNumbered'
    BY <1>12 DEF EnqueueDiscoverySql, FilesTypeOK, EventsAreNumbered, fileVars
  <2>3. QueuesTypeOK'
    BY <1>12, <2>1, DistributedTypes DEF EnqueueDiscoverySql, QueuesTypeOK
  <2>4. HistoryTypeOK'
    BY <1>12, <2>1, DistributedTypes DEF EnqueueDiscoverySql, Respond, HistoryTypeOK
  <2> QED
    BY <1>12, <2>1, <2>2, <2>3, <2>4, ReturnKeepsHandlers DEF EnqueueDiscoverySql, Respond
<1>13. CASE UpdateAuthorization(p)
  <2>1. pc[p] = "authorization" /\ req[p] \in NodeRequest
    BY <1>13 DEF UpdateAuthorization, At, Handlers, Serving
  <2>2. FilesTypeOK' /\ EventsAreNumbered'
    BY <1>13, <2>1, AmendedType, LoadAuthorizationType
    DEF UpdateAuthorization, FilesTypeOK, EventsAreNumbered
  <2>3. QueuesTypeOK' /\ HistoryTypeOK'
    BY <1>13 DEF UpdateAuthorization, QueuesTypeOK, HistoryTypeOK, queueVars, historyVars
  <2> QED
    BY <1>13, <2>1, <2>2, <2>3, ReturnKeepsHandlers DEF UpdateAuthorization
<1> QED
  BY <1>1, <1>2, <1>3, <1>4, <1>5, <1>6, <1>7, <1>8, <1>9, <1>10, <1>11, <1>12,
     <1>13 DEF OpenStep

LEMMA AcquireKeepsInv ==
    ASSUME Inv, NEW p \in Procs, NEW r \in Requests, Acquire(p, r)
    PROVE  Inv'
<1>1. \A q \in Procs : pc[q] = "idle"
  BY ConstantsAssumption DEF Acquire, Inv, Handlers, Serving
<1>2. r.op = "publish" => r \in PublishRequest
  BY RequestKinds
<1>3. r.op # "publish" => r \in NodeRequest
  BY RequestKinds
<1>4. FilesTypeOK' /\ QueuesTypeOK' /\ HistoryTypeOK' /\ EventsAreNumbered'
  BY DEF Acquire, Inv, TypeOK, FilesTypeOK, QueuesTypeOK, HistoryTypeOK,
         EventsAreNumbered, fileVars, queueVars, historyVars
<1>5. HandlersTypeOK'
  BY DEF Acquire, Inv, TypeOK, HandlersTypeOK, GoTo, Writing
<1>6. Serving(p)'
  BY <1>2, <1>3 DEF Acquire, Inv, TypeOK, HandlersTypeOK, GoTo, Serving, Distributing
<1>7. \A q \in Procs \ {p} : pc'[q] = "idle"
  BY <1>1 DEF Acquire, GoTo, Inv, TypeOK, HandlersTypeOK
<1>8. Handlers'
  BY <1>6, <1>7 DEF Handlers, Serving, Distributing
<1> QED
  BY <1>4, <1>5, <1>8 DEF Inv, TypeOK

LEMMA TearsType ==
    ASSUME torn \subseteq Tearable, NEW p \in Procs
    PROVE  Tears(p) \in SUBSET Truncations
BY DEF Tears, Truncations

LEMMA AbandonKeepsInv ==
    ASSUME Inv, NEW p \in Procs, Abandon(p)
    PROVE  Inv'
<1>1. pc[p] # "idle"
  BY DEF Abandon, Writing
<1>2. torn' \subseteq Tearable
  BY TearsType DEF Abandon, Truncations, Inv, TypeOK, FilesTypeOK
<1>3. FilesTypeOK' /\ QueuesTypeOK' /\ EventsAreNumbered'
  BY <1>2 DEF Abandon, Inv, TypeOK, FilesTypeOK, QueuesTypeOK, EventsAreNumbered, queueVars
<1>4. HistoryTypeOK'
  BY DEF Abandon, Inv, TypeOK, HistoryTypeOK
<1>5. HandlersTypeOK' /\ Handlers'
  BY <1>1, ReturnKeepsHandlers DEF Abandon, Inv, TypeOK
<1> QED
  BY <1>3, <1>4, <1>5 DEF Inv, TypeOK

LEMMA RestartKeepsInv ==
    ASSUME Inv, NEW tears \in SUBSET Truncations, Restart(tears)
    PROVE  Inv'
<1>1. torn' \subseteq Tearable
  BY DEF Restart, Truncations, Inv, TypeOK, FilesTypeOK
<1>2. snapshot' \in Authorization
  BY NoAuthorizationType DEF Restart, Inv, TypeOK, FilesTypeOK
<1>3. FilesTypeOK' /\ QueuesTypeOK' /\ EventsAreNumbered'
  BY <1>1, <1>2 DEF Restart, Inv, TypeOK, FilesTypeOK, QueuesTypeOK,
                    EventsAreNumbered, queueVars
<1>4. HistoryTypeOK'
  BY DEF Restart, Inv, TypeOK, HistoryTypeOK
<1>5. HandlersTypeOK'
  BY EmptySeq DEF Restart, HandlersTypeOK
<1>6. Handlers'
  BY DEF Restart, Handlers, Serving, Distributing
<1> QED
  BY <1>3, <1>4, <1>5, <1>6 DEF Inv, TypeOK

LEMMA OthersKeepInv ==
    ASSUME Inv, OthersQueue
    PROVE  Inv'
<1>1. UNCHANGED <<bulletin, authorization, nonces, latest, archive, snapshot, lock, pc, req, view,
                  event, answered, anchors>>
  BY DEF OthersQueue, handlerVars
<1>2. FilesTypeOK' /\ EventsAreNumbered'
  BY <1>1 DEF OthersQueue, Inv, TypeOK, FilesTypeOK, EventsAreNumbered
<1>3. QueuesTypeOK'
  BY DEF OthersQueue, AnchoredPackages, QueuesTypeOK
<1>4. HistoryTypeOK'
  BY <1>1 DEF OthersQueue, Inv, TypeOK, HistoryTypeOK
<1>5. HandlersTypeOK' /\ Handlers'
  BY <1>1 DEF Inv, TypeOK, HandlersTypeOK, Handlers, Serving
<1> QED
  BY <1>2, <1>3, <1>4, <1>5 DEF Inv, TypeOK

LEMMA StutterKeepsInv ==
    ASSUME Inv, UNCHANGED rootVars
    PROVE  Inv'
BY DEF Inv, TypeOK, FilesTypeOK, QueuesTypeOK, HandlersTypeOK, HistoryTypeOK,
       Handlers, Serving, EventsAreNumbered, rootVars, fileVars, queueVars,
       handlerVars, historyVars

LEMMA NextKeepsInv == Inv /\ [OpenNext]_rootVars => Inv'
BY AcquireKeepsInv, StepKeepsInv, AbandonKeepsInv, RestartKeepsInv, OthersKeepInv, StutterKeepsInv
   DEF OpenNext

\* The handlers alone read all of the queue files.
LEMMA NextIsOpen == Inv /\ [Next]_rootVars => [OpenNext]_rootVars
<1> SUFFICES ASSUME Inv, Next
             PROVE  OpenNext
  OBVIOUS
<1>1. ASSUME NEW p \in Procs, Step(p)
      PROVE  OpenStep(p)
  BY <1>1 DEF Step, OpenStep, ReadCdnJson, ReadDiscoveryJson
<1>2. CASE Crash
  <2>1. UNION {Tears(p) : p \in Procs} \in SUBSET Truncations
    BY TearsType DEF Inv, TypeOK, FilesTypeOK
  <2> QED
    BY <1>2, <2>1 DEF Crash, OpenNext
<1> QED
  BY <1>1, <1>2 DEF Next, OpenNext

\* The inductive invariant holds in every state Root can reach.
LEMMA Invariance == OpenSpec => []Inv
BY InitEstablishesInv, NextKeepsInv, PTL DEF OpenSpec

\* The handlers alone are an instance of the open system.
THEOREM SpecIsOpen == Spec => OpenSpec
<1>1. Inv /\ [Next]_rootVars => Inv'
  BY NextIsOpen, NextKeepsInv
<1> QED
  BY <1>1, InitEstablishesInv, NextIsOpen, PTL DEF Spec, OpenSpec

\* Type correctness of the handlers and of everything they write.
THEOREM TypeCorrect == Spec => []TypeOK
<1>1. Inv => TypeOK
  BY DEF Inv
<1> QED
  BY <1>1, Invariance, SpecIsOpen, PTL

\* The events of the bulletin are numbered by their place (append_event).
THEOREM EventsNumbered == Spec => []EventsAreNumbered
<1>1. Inv => EventsAreNumbered
  BY DEF Inv
<1> QED
  BY <1>1, Invariance, SpecIsOpen, PTL

-----------------------------------------------------------------------------
(* The bulletin only grows.                                                *)

LEMMA NextAppends ==
    ASSUME Inv, [OpenNext]_rootVars
    PROVE  \/ UNCHANGED bulletin
           \/ \E p \in Procs : WriteBulletin(p)
<1>1. CASE \E p \in Procs, r \in Requests : Acquire(p, r)
  BY <1>1 DEF Acquire, fileVars
<1>2. CASE \E p \in Procs : OpenStep(p)
  BY <1>2 DEF OpenStep, VerifyNonce, VerifyRequest, RejectRequest, ReadBulletin, FailRead,
     ArchiveVerified, UpdateLatestVersion, EnqueueCdnJson, EnqueueCdnSql,
     EnqueueDiscoveryJson, EnqueueDiscoverySql, UpdateAuthorization, fileVars
<1>3. CASE \E p \in Procs : Abandon(p)
  BY <1>3 DEF Abandon
<1>4. CASE \E tears \in SUBSET Truncations : Restart(tears)
  BY <1>4 DEF Restart
<1>5. CASE OthersQueue
  BY <1>5 DEF OthersQueue
<1>6. CASE UNCHANGED rootVars
  BY <1>6 DEF rootVars, fileVars
<1> QED
  BY <1>1, <1>2, <1>3, <1>4, <1>5, <1>6 DEF OpenNext

LEMMA AppendOnlyBesideOthers == OpenSpec => BulletinIsAppendOnly
<1>1. ASSUME Inv, [OpenNext]_rootVars
      PROVE  [/\ Len(bulletin') \in {Len(bulletin), Len(bulletin) + 1}
              /\ SubSeq(bulletin', 1, Len(bulletin)) = bulletin]_bulletin
  <2>1. CASE UNCHANGED bulletin
    BY <2>1
  <2>2. ASSUME NEW p \in Procs, WriteBulletin(p)
        PROVE  /\ Len(bulletin') \in {Len(bulletin), Len(bulletin) + 1}
               /\ SubSeq(bulletin', 1, Len(bulletin)) = bulletin
    <3>1. bulletin \in Seq(Event)
      BY <1>1 DEF Inv, TypeOK, FilesTypeOK
    <3>2. /\ bulletin' \in Seq(Event)
          /\ Len(bulletin') = Len(bulletin) + 1
          /\ \A i \in 1..Len(bulletin) : bulletin'[i] = bulletin[i]
      BY <1>1, <2>2, WriteKeepsBulletin
    <3>3. Len(bulletin) \in Nat
      BY <3>1, LenProperties
    <3>4. /\ SubSeq(bulletin', 1, Len(bulletin)) \in Seq(Event)
          /\ Len(SubSeq(bulletin', 1, Len(bulletin))) = Len(bulletin)
          /\ \A i \in 1..Len(bulletin) :
               SubSeq(bulletin', 1, Len(bulletin))[i] = bulletin[i]
      BY <3>2, <3>3, SubSeqProperties
    <3>5. SubSeq(bulletin', 1, Len(bulletin)) = bulletin
      BY <3>1, <3>4, SeqEqual
    <3> QED
      BY <3>2, <3>5
  <2> QED
    BY <1>1, <2>1, <2>2, NextAppends
<1> QED
  BY <1>1, Invariance, PTL DEF OpenSpec, BulletinIsAppendOnly

\* Every step leaves the bulletin alone or adds one event at its end, for any
\* number of tasks and whatever fails (the guard held over append_event).
THEOREM AppendOnly == Spec => BulletinIsAppendOnly
BY AppendOnlyBesideOthers, SpecIsOpen, PTL

-----------------------------------------------------------------------------
(* Everything Root remembers or hands out is anchored.                     *)

\* What the bulletin records it records for good.
LEMMA AnchoredForGood ==
    ASSUME Inv, [OpenNext]_rootVars, NEW did, NEW document, NEW sequence,
           AnchoredAs(did, document, sequence)
    PROVE  AnchoredIn(bulletin', did, document, sequence)
<1>1. CASE UNCHANGED bulletin
  BY <1>1 DEF AnchoredAs
<1>2. ASSUME NEW p \in Procs, WriteBulletin(p)
      PROVE  AnchoredIn(bulletin', did, document, sequence)
  <2>1. Len(bulletin) \in Nat
    BY LenProperties DEF Inv, TypeOK, FilesTypeOK
  <2>2. /\ Len(bulletin') = Len(bulletin) + 1
        /\ \A i \in 1..Len(bulletin) : bulletin'[i] = bulletin[i]
    BY <1>2, WriteKeepsBulletin
  <2> QED
    BY <2>1, <2>2 DEF AnchoredAs, AnchoredIn
<1> QED
  BY <1>1, <1>2, NextAppends

\* What a handler distributes, its own event anchors.
LEMMA DistributedIsAnchored ==
    ASSUME Inv, NEW p \in Procs, pc[p] \in Distributing
    PROVE  /\ event[p] \in AgentEvent
           /\ AnchoredAs(event[p].subject_did, event[p].payload.didDocument,
                         event[p].sequence)
           /\ AnchoredAs(PackageOf(p).did, PackageOf(p).didDocument,
                         PackageOf(p).sequence)
           /\ AnchoredAs(ArchiveEntry(p).did, ArchiveEntry(p).didDocument,
                         ArchiveEntry(p).sequence)
<1>1. /\ event[p] \in AgentEvent
      /\ event[p].sequence \in 1..Len(bulletin)
      /\ bulletin[event[p].sequence] = event[p]
  BY DEF Inv, Handlers, Serving
<1>2. AnchoredAs(event[p].subject_did, event[p].payload.didDocument, event[p].sequence)
  BY <1>1 DEF AnchoredAs, AnchoredIn
<1> QED
  BY <1>1, <1>2 DEF PackageOf, ArchiveEntry

\* A step of Root only adds, to the files, tables and responses that carry
\* proofs, what a distributing handler has in hand.
LEMMA OnlyDistributedIsAdded ==
    ASSUME Inv, [OpenNext]_rootVars
    PROVE  \/ UNCHANGED <<latest, archive, answered, queueVars>>
           \/ OthersQueue
           \/ \E p \in Procs :
                /\ pc[p] \in Distributing
                /\ \/ UNCHANGED latest
                   \/ latest' = [ReadLatest EXCEPT ![event[p].subject_did] = VersionOf(p)]
                /\ archive' \subseteq archive \cup {ArchiveEntry(p)}
                /\ answered' \subseteq answered \cup {ArchiveEntry(p)}
                /\ cdnJson' \subseteq cdnJson \cup {PackageOf(p)}
                /\ cdnSql' \subseteq cdnSql \cup {PackageOf(p)}
                /\ discoveryJson' \subseteq discoveryJson \cup {PackageOf(p)}
                /\ discoverySql' \subseteq discoverySql \cup {PackageOf(p)}
<1>1. CASE \E p \in Procs, r \in Requests : Acquire(p, r)
  BY <1>1 DEF Acquire, fileVars, queueVars, historyVars
<1>2. ASSUME NEW p \in Procs, OpenStep(p)
      PROVE  \/ UNCHANGED <<latest, archive, answered, queueVars>>
             \/ /\ pc[p] \in Distributing
                /\ \/ UNCHANGED latest
                   \/ latest' = [ReadLatest EXCEPT ![event[p].subject_did] = VersionOf(p)]
                /\ archive' \subseteq archive \cup {ArchiveEntry(p)}
                /\ answered' \subseteq answered \cup {ArchiveEntry(p)}
                /\ cdnJson' \subseteq cdnJson \cup {PackageOf(p)}
                /\ cdnSql' \subseteq cdnSql \cup {PackageOf(p)}
                /\ discoveryJson' \subseteq discoveryJson \cup {PackageOf(p)}
                /\ discoverySql' \subseteq discoverySql \cup {PackageOf(p)}
  <2>1. CASE VerifyNonce(p) \/ VerifyRequest(p) \/ RejectRequest(p) \/ ReadBulletin(p)
             \/ FailRead(p) \/ WriteBulletin(p) \/ UpdateAuthorization(p)
    BY <2>1 DEF VerifyNonce, VerifyRequest, RejectRequest, ReadBulletin, FailRead,
       WriteBulletin, UpdateAuthorization, fileVars, queueVars, historyVars
  <2>2. CASE ArchiveVerified(p)
    BY <2>2 DEF ArchiveVerified, At, Distributing, queueVars, historyVars
  <2>3. CASE UpdateLatestVersion(p)
    BY <2>3 DEF UpdateLatestVersion, At, Distributing, queueVars, historyVars
  <2>4. CASE \E queue \in SUBSET cdnJson : EnqueueCdnJson(p, queue)
    BY <2>4 DEF EnqueueCdnJson, Supersede, At, Distributing, historyVars
  <2>5. CASE EnqueueCdnSql(p)
    BY <2>5 DEF EnqueueCdnSql, Supersede, At, Distributing, fileVars, historyVars
  <2>6. CASE \E queue \in SUBSET discoveryJson : EnqueueDiscoveryJson(p, queue)
    BY <2>6 DEF EnqueueDiscoveryJson, Respond, At, Distributing
  <2>7. CASE EnqueueDiscoverySql(p)
    BY <2>7 DEF EnqueueDiscoverySql, Respond, At, Distributing, fileVars
  <2> QED
    BY <1>2, <2>1, <2>2, <2>3, <2>4, <2>5, <2>6, <2>7 DEF OpenStep
<1>3. CASE \E p \in Procs : Abandon(p)
  BY <1>3 DEF Abandon, queueVars
<1>4. CASE \E tears \in SUBSET Truncations : Restart(tears)
  BY <1>4 DEF Restart, queueVars
<1>5. CASE UNCHANGED rootVars
  BY <1>5 DEF rootVars, fileVars, queueVars, historyVars
<1> QED
  BY <1>1, <1>2, <1>3, <1>4, <1>5 DEF OpenNext

LEMMA NextKeepsAnchored ==
    Inv /\ NothingUnanchored /\ [OpenNext]_rootVars => NothingUnanchored'
<1> SUFFICES ASSUME Inv, NothingUnanchored, [OpenNext]_rootVars
             PROVE  NothingUnanchored'
  OBVIOUS
<1> DEFINE Carried == archive \cup answered \cup cdnJson \cup cdnSql
                        \cup discoveryJson \cup discoverySql
<1>1. \A a \in Agents : latest[a].version # 0 =>
        AnchoredIn(bulletin', a, latest[a].didDocument, latest[a].sequence)
  BY AnchoredForGood DEF NothingUnanchored
<1>2. \A x \in Carried : AnchoredIn(bulletin', x.did, x.didDocument, x.sequence)
  BY AnchoredForGood DEF NothingUnanchored
<1>3. CASE UNCHANGED <<latest, archive, answered, queueVars>>
  BY <1>1, <1>2, <1>3 DEF NothingUnanchored, AnchoredAs, queueVars
<1>4. ASSUME NEW p \in Procs, pc[p] \in Distributing,
             \/ UNCHANGED latest
             \/ latest' = [ReadLatest EXCEPT ![event[p].subject_did] = VersionOf(p)],
             Carried' \subseteq Carried \cup {ArchiveEntry(p), PackageOf(p)}
      PROVE  NothingUnanchored'
  <2>1. /\ event[p] \in AgentEvent
        /\ AnchoredIn(bulletin', event[p].subject_did, event[p].payload.didDocument,
                      event[p].sequence)
        /\ \A x \in {ArchiveEntry(p), PackageOf(p)} :
             AnchoredIn(bulletin', x.did, x.didDocument, x.sequence)
    BY <1>4, DistributedIsAnchored, AnchoredForGood
  <2>2. \A x \in Carried' : AnchoredIn(bulletin', x.did, x.didDocument, x.sequence)
    BY <1>2, <1>4, <2>1
  <2>3. ASSUME NEW a \in Agents, latest'[a].version # 0
        PROVE  AnchoredIn(bulletin', a, latest'[a].didDocument, latest'[a].sequence)
    <3>1. ReadLatest[a].version # 0 => ReadLatest[a] = latest[a]
      BY DEF ReadLatest, NoVersions, NoVersion
    <3>2. \/ latest'[a] = latest[a] \/ latest'[a] = ReadLatest[a]
          \/ a = event[p].subject_did /\ latest'[a] = VersionOf(p)
      <4>1. a \in DOMAIN ReadLatest
        BY ReadLatestType DEF Inv, TypeOK
      <4> QED
        BY <1>4, <4>1
    <3>3. a = event[p].subject_did /\ latest'[a] = VersionOf(p)
          => AnchoredIn(bulletin', a, latest'[a].didDocument, latest'[a].sequence)
      BY <2>1 DEF VersionOf
    <3>4. latest'[a] = latest[a]
          => AnchoredIn(bulletin', a, latest'[a].didDocument, latest'[a].sequence)
      BY <1>1, <2>3
    <3> QED
      BY <2>3, <3>1, <3>2, <3>3, <3>4
  <2> QED
    BY <2>2, <2>3 DEF NothingUnanchored, AnchoredAs
<1>5. CASE OthersQueue
  BY <1>1, <1>2, <1>5 DEF OthersQueue, AnchoredPackages, NothingUnanchored, AnchoredAs
<1> QED
  BY <1>3, <1>4, <1>5, OnlyDistributedIsAdded

LEMMA AnchoredBesideOthers == OpenSpec => []NothingUnanchored
<1>1. Init => NothingUnanchored
  BY DEF Init, NothingUnanchored, NoVersions, NoVersion
<1> QED
  BY <1>1, NextKeepsAnchored, Invariance, PTL DEF OpenSpec

\* The index, the archive, the queues and the responses only ever name events of
\* the bulletin about the same Agent and document, whatever crashes, failed and
\* torn writes lie between (append_event comes before every one of them).
THEOREM Anchored == Spec => []NothingUnanchored
BY AnchoredBesideOthers, SpecIsOpen, PTL

-----------------------------------------------------------------------------
(* A nonce anchors once.                                                   *)

\* A nonce is in the file before its request goes on, and no event was anchored
\* with it before.
NonceIsSpent ==
    /\ \A x \in anchors : x.nonce # NoNonce => x.nonce \in nonces
    /\ \A p \in Procs :
         /\ pc[p] \in {"verify", "write"}
         /\ req[p].op = "publish" /\ req[p].nonce # NoNonce
         => /\ req[p].nonce \in nonces
            /\ \A x \in anchors : x.nonce # req[p].nonce

NonceInv == NonceIsSpent /\ NonceAnchorsOnce

LEMMA VerifyNonceKeepsNonces ==
    ASSUME Inv, NonceInv, NEW p \in Procs, VerifyNonce(p)
    PROVE  NonceInv'
<1>1. /\ pc[p] = "nonce" /\ req[p] \in PublishRequest
      /\ \A q \in Procs \ {p} : pc[q] = "idle"
  BY OneHandler DEF VerifyNonce, At, Inv, Handlers, Serving
<1>2. req[p].nonce # NoNonce => \A x \in anchors : x.nonce # req[p].nonce
  BY DEF VerifyNonce, NonceAccepted, NonceInv, NonceIsSpent
<1>3. \A q \in Procs \ {p} : pc'[q] = "idle"
  BY <1>1 DEF VerifyNonce, GoTo, Inv, TypeOK, HandlersTypeOK
<1>4. nonces \subseteq nonces' /\ (req[p].nonce # NoNonce => req[p].nonce \in nonces')
  BY DEF VerifyNonce
<1>5. UNCHANGED <<anchors, req>>
  BY DEF VerifyNonce, historyVars
<1> QED
  BY <1>2, <1>3, <1>4, <1>5 DEF NonceInv, NonceIsSpent, NonceAnchorsOnce

LEMMA WriteKeepsNonces ==
    ASSUME Inv, NonceInv, NEW p \in Procs, WriteBulletin(p)
    PROVE  NonceInv'
<1>1. /\ pc[p] = "write"
      /\ \A q \in Procs \ {p} : pc[q] = "idle"
  BY OneHandler DEF WriteBulletin, At, Inv
<1>2. \A q \in Procs : pc'[q] \notin {"verify", "write"}
  BY <1>1 DEF WriteBulletin, GoTo, Inv, TypeOK, HandlersTypeOK
<1>3. UNCHANGED nonces
  BY DEF WriteBulletin
<1>4. CASE req[p].op # "publish"
  BY <1>2, <1>3, <1>4 DEF WriteBulletin, NonceInv, NonceIsSpent, NonceAnchorsOnce
<1>5. CASE req[p].op = "publish"
  <2> DEFINE new == [nonce |-> req[p].nonce, sequence |-> event[p].sequence]
  <2>1. anchors' = anchors \cup {new} /\ new.nonce = req[p].nonce
    BY <1>5 DEF WriteBulletin
  <2>2. req[p].nonce # NoNonce =>
          req[p].nonce \in nonces /\ \A x \in anchors : x.nonce # req[p].nonce
    BY <1>1, <1>5 DEF NonceInv, NonceIsSpent
  <2> HIDE DEF new
  <2> QED
    BY <1>2, <1>3, <2>1, <2>2 DEF NonceInv, NonceIsSpent, NonceAnchorsOnce
<1> QED
  BY <1>4, <1>5

\* Every other step leaves nonces and anchors alone, and lets no request reach a
\* point where its nonce matters.
LEMMA OthersKeepNonces ==
    ASSUME Inv, NonceInv, UNCHANGED <<nonces, anchors>>,
           \A p \in Procs :
             pc'[p] \in {"verify", "write"} =>
               \/ pc[p] \in {"verify", "write"} /\ req'[p] = req[p]
               \/ req'[p].op # "publish"
    PROVE  NonceInv'
BY DEF NonceInv, NonceIsSpent, NonceAnchorsOnce

LEMMA NextKeepsNonces == Inv /\ NonceInv /\ [OpenNext]_rootVars => NonceInv'
<1> SUFFICES ASSUME Inv, NonceInv, [OpenNext]_rootVars
             PROVE  NonceInv'
  OBVIOUS
<1> USE DEF Inv, TypeOK, HandlersTypeOK
<1>1. ASSUME NEW p \in Procs, NEW r \in Requests, Acquire(p, r)
      PROVE  NonceInv'
  BY <1>1, OthersKeepNonces DEF Acquire, GoTo, fileVars, historyVars
<1>2. ASSUME NEW p \in Procs, VerifyRequest(p)
      PROVE  NonceInv'
  BY <1>2, OthersKeepNonces DEF VerifyRequest, At, GoTo, fileVars, historyVars
<1>3. ASSUME NEW p \in Procs, ReadBulletin(p)
      PROVE  NonceInv'
  <2>1. req[p].op # "publish"
    BY <1>3 DEF ReadBulletin, At, Handlers, Serving, NodeRequest
  <2> QED
    BY <1>3, <2>1, OthersKeepNonces DEF ReadBulletin, At, GoTo, fileVars, historyVars
<1>4. ASSUME NEW p \in Procs,
             \/ RejectRequest(p) \/ FailRead(p) \/ UpdateAuthorization(p)
             \/ EnqueueDiscoverySql(p) \/ Abandon(p)
      PROVE  NonceInv'
  <2>1. UNCHANGED <<nonces, anchors>> /\ Return(p)
    BY <1>4 DEF RejectRequest, FailRead, UpdateAuthorization, EnqueueDiscoverySql,
       Respond, Abandon, fileVars, historyVars
  <2>2. \A q \in Procs : \/ pc'[q] = "idle"
                         \/ pc'[q] = pc[q] /\ req'[q] = req[q]
    BY <2>1, ReturnIsLocal
  <2> QED
    BY <2>1, <2>2, OthersKeepNonces
<1>5. ASSUME NEW p \in Procs,
             \/ ArchiveVerified(p) \/ UpdateLatestVersion(p)
             \/ \E queue \in SUBSET cdnJson : EnqueueCdnJson(p, queue)
             \/ EnqueueCdnSql(p)
             \/ \E queue \in SUBSET discoveryJson : EnqueueDiscoveryJson(p, queue)
      PROVE  NonceInv'
  <2>1. UNCHANGED <<nonces, anchors>>
    BY <1>5 DEF ArchiveVerified, UpdateLatestVersion, EnqueueCdnJson, EnqueueCdnSql,
       EnqueueDiscoveryJson, fileVars, historyVars
  <2>2. \/ UNCHANGED req /\ \E next \in Distributing : GoTo(p, next)
        \/ Return(p)
    BY <1>5 DEF ArchiveVerified, UpdateLatestVersion, EnqueueCdnJson, EnqueueCdnSql,
       EnqueueDiscoveryJson, Respond, Distributing
  <2>3. \A q \in Procs :
          \/ pc'[q] \notin {"verify", "write"}
          \/ pc'[q] = pc[q] /\ req'[q] = req[q]
    BY <2>2 DEF Return, GoTo, Distributing
  <2> QED
    BY <2>1, <2>3, OthersKeepNonces
<1>6. CASE \E tears \in SUBSET Truncations : Restart(tears)
  BY <1>6, OthersKeepNonces DEF Restart
<1>7. CASE UNCHANGED rootVars
  BY <1>7, OthersKeepNonces DEF rootVars, fileVars, handlerVars, historyVars
<1>8. CASE OthersQueue
  BY <1>8, OthersKeepNonces DEF OthersQueue, handlerVars
<1> QED
  BY <1>1, <1>2, <1>3, <1>4, <1>5, <1>6, <1>7, <1>8, VerifyNonceKeepsNonces, WriteKeepsNonces
  DEF OpenNext, OpenStep

LEMMA NonceOnceBesideOthers == OpenSpec => []NonceAnchorsOnce
<1>1. Init => NonceInv
  BY DEF Init, NonceInv, NonceIsSpent, NonceAnchorsOnce
<1>2. NonceInv => NonceAnchorsOnce
  BY DEF NonceInv
<1> QED
  BY <1>1, <1>2, NextKeepsNonces, Invariance, PTL DEF OpenSpec

\* A nonce pays for one anchored event, however many requests carry it and
\* whatever fails or restarts (verify_request_nonce).
THEOREM NonceOnce == Spec => []NonceAnchorsOnce
BY NonceOnceBesideOthers, SpecIsOpen, PTL

-----------------------------------------------------------------------------
(* Only authorized registrars anchor.                                      *)

\* The registrar checked against the bulletin that was read is still authorized
\* in the bulletin the event is appended to.
ChecksHold ==
    \A p \in Procs : pc[p] = "write" /\ event[p] \in AgentEvent =>
        RegistrarAuthorized(bulletin, event[p].payload.registrarDid)

AuthorizedInv == ChecksHold /\ OnlyAuthorizedRegistrarsAnchor

LEMMA NodeEventsAreNoAgentEvents == \A e \in NodeEvent : e \notin AgentEvent
BY DEF NodeEvent, AgentEvent

\* Appending an event leaves the part of the bulletin before it as it was.
LEMMA PrefixOfAppend ==
    ASSUME NEW S, NEW s \in Seq(S), NEW t \in Seq(S), NEW k \in Nat, k <= Len(s),
           k <= Len(t), \A i \in 1..k : t[i] = s[i]
    PROVE  SubSeq(t, 1, k) = SubSeq(s, 1, k)
<1>1. /\ SubSeq(s, 1, k) \in Seq(S) /\ Len(SubSeq(s, 1, k)) = k
      /\ \A i \in 1..k : SubSeq(s, 1, k)[i] = s[i]
  BY SubSeqProperties, LenProperties
<1>2. /\ SubSeq(t, 1, k) \in Seq(S) /\ Len(SubSeq(t, 1, k)) = k
      /\ \A i \in 1..k : SubSeq(t, 1, k)[i] = t[i]
  BY SubSeqProperties, LenProperties
<1> QED
  BY <1>1, <1>2, SeqEqual

LEMMA WriteKeepsAuthorized ==
    ASSUME Inv, AuthorizedInv, NEW p \in Procs, WriteBulletin(p)
    PROVE  AuthorizedInv'
<1>1. /\ pc[p] = "write"
      /\ \A q \in Procs \ {p} : pc[q] = "idle"
  BY OneHandler DEF WriteBulletin, At, Inv
<1>2. \A q \in Procs : pc'[q] # "write"
  BY <1>1 DEF WriteBulletin, GoTo, Inv, TypeOK, HandlersTypeOK
<1>3. bulletin \in Seq(Event) /\ Len(bulletin) \in Nat
  BY LenProperties DEF Inv, TypeOK, FilesTypeOK
<1>4. /\ bulletin' \in Seq(Event)
      /\ Len(bulletin') = Len(bulletin) + 1
      /\ \A i \in 1..Len(bulletin) : bulletin'[i] = bulletin[i]
      /\ bulletin'[Len(bulletin) + 1] = event[p]
  BY WriteKeepsBulletin
<1>5. ASSUME NEW i \in 1..Len(bulletin'), bulletin'[i] \in AgentEvent
      PROVE  RegistrarAuthorized(SubSeq(bulletin', 1, i - 1),
                                 bulletin'[i].payload.registrarDid)
  <2>1. SubSeq(bulletin', 1, i - 1) = SubSeq(bulletin, 1, i - 1)
    <3>1. /\ i - 1 \in Nat /\ i - 1 <= Len(bulletin) /\ i - 1 <= Len(bulletin')
          /\ \A j \in 1 .. i - 1 : bulletin'[j] = bulletin[j]
      BY <1>3, <1>4
    <3> QED
      BY <1>3, <1>4, <3>1, PrefixOfAppend
  <2>2. CASE i \in 1..Len(bulletin)
    BY <1>4, <1>5, <2>1, <2>2 DEF AuthorizedInv, OnlyAuthorizedRegistrarsAnchor
  <2>3. CASE i = Len(bulletin) + 1
    <3>1. SubSeq(bulletin, 1, i - 1) = bulletin
      BY <1>3, <2>3, SubSeqFull
    <3> QED
      BY <1>1, <1>4, <1>5, <2>1, <2>3, <3>1 DEF AuthorizedInv, ChecksHold
  <2> QED
    BY <1>3, <1>4, <2>2, <2>3
<1> QED
  BY <1>2, <1>5 DEF AuthorizedInv, ChecksHold, OnlyAuthorizedRegistrarsAnchor

LEMMA NextKeepsAuthorized == Inv /\ AuthorizedInv /\ [OpenNext]_rootVars => AuthorizedInv'
<1> SUFFICES ASSUME Inv, AuthorizedInv, [OpenNext]_rootVars
             PROVE  AuthorizedInv'
  OBVIOUS
<1> USE DEF Inv, TypeOK, HandlersTypeOK
<1>1. ASSUME NEW p \in Procs, VerifyRequest(p)
      PROVE  AuthorizedInv'
  <2>1. UNCHANGED bulletin /\ RegistrarAuthorized(bulletin, req[p].registrarDid)
    BY <1>1 DEF VerifyRequest, RequestAccepted, fileVars
  <2>2. event'[p].payload.registrarDid = req[p].registrarDid
    BY <1>1 DEF VerifyRequest
  <2>3. \A q \in Procs \ {p} : event'[q] = event[q] /\ pc'[q] = pc[q]
    BY <1>1 DEF VerifyRequest, GoTo
  <2> QED
    BY <2>1, <2>2, <2>3 DEF AuthorizedInv, ChecksHold, OnlyAuthorizedRegistrarsAnchor
<1>2. ASSUME NEW p \in Procs, ReadBulletin(p)
      PROVE  AuthorizedInv'
  <2>1. event'[p] \in NodeEvent
    <3>1. req[p] \in NodeRequest /\ NextSequence \in Nat
      BY <1>2, LenProperties DEF ReadBulletin, At, Handlers, Serving, NextSequence,
         FilesTypeOK
    <3> QED
      BY <1>2, <3>1, NodeEventIsTyped DEF ReadBulletin
  <2>2. \A q \in Procs \ {p} : event'[q] = event[q] /\ pc'[q] = pc[q]
    BY <1>2 DEF ReadBulletin, GoTo
  <2>3. UNCHANGED bulletin
    BY <1>2 DEF ReadBulletin, fileVars
  <2> QED
    BY <2>1, <2>2, <2>3, NodeEventsAreNoAgentEvents
    DEF AuthorizedInv, ChecksHold, OnlyAuthorizedRegistrarsAnchor
<1>3. ASSUME UNCHANGED bulletin,
             \A q \in Procs : pc'[q] = "write" => pc[q] = "write" /\ event'[q] = event[q]
      PROVE  AuthorizedInv'
  BY <1>3 DEF AuthorizedInv, ChecksHold, OnlyAuthorizedRegistrarsAnchor
<1>4. ASSUME NEW p \in Procs, NEW r \in Requests, Acquire(p, r)
      PROVE  AuthorizedInv'
  BY <1>3, <1>4 DEF Acquire, GoTo, fileVars
<1>5. ASSUME NEW p \in Procs,
             \/ RejectRequest(p) \/ FailRead(p) \/ UpdateAuthorization(p)
             \/ EnqueueDiscoverySql(p) \/ Abandon(p)
      PROVE  AuthorizedInv'
  <2>1. UNCHANGED bulletin /\ Return(p)
    BY <1>5 DEF RejectRequest, FailRead, UpdateAuthorization, EnqueueDiscoverySql,
       Respond, Abandon, fileVars
  <2>2. \A q \in Procs : \/ pc'[q] = "idle"
                         \/ pc'[q] = pc[q] /\ event'[q] = event[q]
    BY <2>1, ReturnIsLocal
  <2> QED
    BY <1>3, <2>1, <2>2
<1>6. ASSUME NEW p \in Procs,
             \/ VerifyNonce(p) \/ ArchiveVerified(p) \/ UpdateLatestVersion(p)
             \/ \E queue \in SUBSET cdnJson : EnqueueCdnJson(p, queue)
             \/ EnqueueCdnSql(p)
             \/ \E queue \in SUBSET discoveryJson : EnqueueDiscoveryJson(p, queue)
      PROVE  AuthorizedInv'
  <2>1. UNCHANGED bulletin
    BY <1>6 DEF VerifyNonce, ArchiveVerified, UpdateLatestVersion, EnqueueCdnJson,
       EnqueueCdnSql, EnqueueDiscoveryJson, fileVars
  <2>2. \/ /\ UNCHANGED event
           /\ \E next \in {"verify"} \cup Distributing : GoTo(p, next)
        \/ Return(p)
    BY <1>6 DEF VerifyNonce, ArchiveVerified, UpdateLatestVersion, EnqueueCdnJson,
       EnqueueCdnSql, EnqueueDiscoveryJson, Respond, Distributing
  <2>3. \A q \in Procs : pc'[q] = "write" => pc[q] = "write" /\ event'[q] = event[q]
    BY <2>2 DEF Return, GoTo, Distributing
  <2> QED
    BY <1>3, <2>1, <2>3
<1>7. CASE \E tears \in SUBSET Truncations : Restart(tears)
  BY <1>3, <1>7 DEF Restart
<1>8. CASE UNCHANGED rootVars
  BY <1>3, <1>8 DEF rootVars, fileVars, handlerVars
<1>9. CASE OthersQueue
  BY <1>3, <1>9 DEF OthersQueue, handlerVars
<1> QED
  BY <1>1, <1>2, <1>4, <1>5, <1>6, <1>7, <1>8, <1>9, WriteKeepsAuthorized DEF OpenNext, OpenStep

LEMMA OnlyAuthorizedBesideOthers == OpenSpec => []OnlyAuthorizedRegistrarsAnchor
<1>1. Init => AuthorizedInv
  BY SeedAssumption, ElementOfSeq, NodeEventsAreNoAgentEvents
  DEF Init, AuthorizedInv, ChecksHold, OnlyAuthorizedRegistrarsAnchor
<1>2. AuthorizedInv => OnlyAuthorizedRegistrarsAnchor
  BY DEF AuthorizedInv
<1> QED
  BY <1>1, <1>2, NextKeepsAuthorized, Invariance, PTL DEF OpenSpec

\* No agent event is in the bulletin whose registrar was not authorized, or was
\* withdrawn, before it: the check and the append are one critical section
\* (verify_request and append_event under AppState.lock).
THEOREM OnlyAuthorizedAnchor == Spec => []OnlyAuthorizedRegistrarsAnchor
BY OnlyAuthorizedBesideOthers, SpecIsOpen, PTL
=============================================================================
