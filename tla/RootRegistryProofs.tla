------------------------- MODULE RootRegistryProofs -------------------------
(***************************************************************************)
(* Root implements the registry of AgentRegistry, and its answers and its  *)
(* archive agree with it, for any tasks, Agents, requests, failures and    *)
(* bounds, as long as the index of latest versions is never left truncated *)
(* (read_latest_versions takes an unreadable index for an empty one).      *)
(*                                                                         *)
(* The argument: from the version decision to the index update a handler's *)
(* event follows from the index as it is, because the lock is held between *)
(* them; and every answered version is the current one of its Agent or an  *)
(* earlier one.                                                            *)
(*                                                                         *)
(* Then two things that take no such proviso: what the index lists is in   *)
(* the archive, and the authorization file follows the bulletin.           *)
(***************************************************************************)
EXTENDS RootNodeProofs, WellFoundedInduction

\* The points from the version decision to the index update, and after it.
Deciding == {"write", "archive", "latest"}
Indexed == {"cdn_json", "cdn_sql", "discovery_json", "discovery_sql"}

\* A version and document that follow the current entry: the same again, or
\* another document under the next version.
Follows(entry, version, document) ==
    \/ /\ entry.version = version
       /\ entry.didDocument = document
    \/ /\ entry.version + 1 = version
       /\ entry.didDocument # document

Versioning(p) ==
    /\ pc[p] \in Deciding /\ event[p] \in AgentEvent =>
         Follows(latest[event[p].subject_did],
                 event[p].payload.documentVersion, event[p].payload.didDocument)
    /\ pc[p] \in Distributing => event[p].sequence = Len(bulletin)
    /\ pc[p] \in Indexed => latest[event[p].subject_did] = VersionOf(p)
    /\ pc[p] \in {"latest"} \cup Indexed => ArchiveEntry(p) \in archive

Unversioned ==
    \A a \in Agents : latest[a].version = 0 => latest[a].didDocument = NoDocument

AnsweredIsCurrentOrEarlier ==
    \A x \in answered :
        /\ x.version <= latest[x.did].version
        /\ x.version = latest[x.did].version =>
             x.didDocument = latest[x.did].didDocument

VersionInv ==
    /\ \A p \in Procs : Versioning(p)
    /\ Unversioned
    /\ AnsweredIsCurrentOrEarlier
    /\ AnsweredVersionNamesOneDocument
    /\ AnsweredIsArchived

LEMMA InitEstablishesVersions == Init => VersionInv
BY DEF Init, VersionInv, Versioning, Deciding, Distributing, Indexed, Unversioned,
       NoVersions, NoVersion, AnsweredIsCurrentOrEarlier,
       AnsweredVersionNamesOneDocument, AnsweredIsArchived

LEMMA IndexIsRead ==
    ASSUME Inv, "latest" \notin Tearable
    PROVE  ReadLatest = latest
BY DEF Inv, TypeOK, FilesTypeOK, ReadLatest

\* A step that leaves index, archive, answers and bulletin alone.
LEMMA OthersKeepVersions ==
    ASSUME VersionInv, UNCHANGED <<latest, archive, answered, bulletin>>,
           \A q \in Procs :
             \/ pc'[q] \notin Deciding \cup Distributing
             \/ pc'[q] = pc[q] /\ event'[q] = event[q]
             \/ pc'[q] = "write" /\ event'[q] \notin AgentEvent
    PROVE  VersionInv'
<1>1. \A q \in Procs : Versioning(q)'
  <2> SUFFICES ASSUME NEW q \in Procs
               PROVE  Versioning(q)'
    OBVIOUS
  <2>1. CASE pc'[q] \notin Deciding \cup Distributing
    BY <2>1 DEF Versioning, Deciding, Distributing, Indexed
  <2>2. CASE pc'[q] = pc[q] /\ event'[q] = event[q]
    BY <2>2 DEF VersionInv, Versioning, VersionOf, ArchiveEntry
  <2>3. CASE pc'[q] = "write" /\ event'[q] \notin AgentEvent
    BY <2>3 DEF Versioning, Distributing, Indexed
  <2> QED
    BY <2>1, <2>2, <2>3
<1>2. (Unversioned /\ AnsweredIsCurrentOrEarlier)'
  BY DEF VersionInv, Unversioned, AnsweredIsCurrentOrEarlier
<1>3. (AnsweredVersionNamesOneDocument /\ AnsweredIsArchived)'
  BY DEF VersionInv, AnsweredVersionNamesOneDocument, AnsweredIsArchived
<1> QED
  BY <1>1, <1>2, <1>3 DEF VersionInv

\* A handler on its way is the only one whose versioning is to be shown.
LEMMA OnlyOwnVersioning ==
    ASSUME Inv, NEW p \in Procs, pc[p] # "idle", NEW next, GoTo(p, next),
           Versioning(p)'
    PROVE  \A q \in Procs : Versioning(q)'
<1>1. \A q \in Procs \ {p} : pc'[q] = "idle"
  BY OneHandler DEF Inv, TypeOK, HandlersTypeOK, GoTo
<1> QED
  BY <1>1 DEF Versioning, Deciding, Distributing, Indexed

LEMMA VerifyRequestKeepsVersions ==
    ASSUME Inv, VersionInv, "latest" \notin Tearable, NEW p \in Procs,
           VerifyRequest(p)
    PROVE  VersionInv'
<1>1. /\ pc[p] = "verify" /\ req[p] \in PublishRequest
      /\ req[p].agentDid \in Agents /\ req[p].didDocument \in Documents
  BY DEF VerifyRequest, At, Inv, Handlers, Serving, PublishRequest
<1>2. /\ event'[p].subject_did = req[p].agentDid
      /\ event'[p].payload.didDocument = req[p].didDocument
      /\ event'[p].payload.documentVersion = NextVersion(req[p])
      /\ pc'[p] = "write" /\ GoTo(p, "write")
      /\ UNCHANGED <<latest, archive, answered, bulletin>>
  BY DEF VerifyRequest, GoTo, Inv, TypeOK, HandlersTypeOK, fileVars, historyVars
<1>3. Follows(latest[req[p].agentDid], NextVersion(req[p]), req[p].didDocument)
  <2> DEFINE l == latest[req[p].agentDid]
  <2>1. ReadLatest[req[p].agentDid] = l
    BY IndexIsRead
  <2>2. l.version \in Nat
    BY <1>1 DEF Inv, TypeOK, FilesTypeOK
  <2>3. l.version = 0 => l.didDocument # req[p].didDocument
    BY <1>1, ConstantsAssumption DEF VersionInv, Unversioned
  <2> HIDE DEF l
  <2>4. CASE Operation(req[p]) = "no-op"
    <3>1. NextVersion(req[p]) = l.version /\ l.didDocument = req[p].didDocument
      BY <2>1, <2>2, <2>4 DEF NextVersion, Operation
    <3> QED
      BY <3>1 DEF Follows, l
  <2>5. CASE Operation(req[p]) # "no-op"
    <3>1. NextVersion(req[p]) = l.version + 1 /\ l.didDocument # req[p].didDocument
      BY <2>1, <2>2, <2>3, <2>5 DEF NextVersion, Operation
    <3> QED
      BY <3>1 DEF Follows, l
  <2> QED
    BY <2>4, <2>5
<1>4. Versioning(p)'
  BY <1>2, <1>3 DEF Versioning, Distributing, Indexed
<1>5. \A q \in Procs : Versioning(q)'
  BY <1>1, <1>2, <1>4, OnlyOwnVersioning
<1>6. (Unversioned /\ AnsweredIsCurrentOrEarlier)'
  BY <1>2 DEF VersionInv, Unversioned, AnsweredIsCurrentOrEarlier
<1>7. (AnsweredVersionNamesOneDocument /\ AnsweredIsArchived)'
  BY <1>2 DEF VersionInv, AnsweredVersionNamesOneDocument, AnsweredIsArchived
<1> QED
  BY <1>5, <1>6, <1>7 DEF VersionInv

LEMMA WriteBulletinKeepsVersions ==
    ASSUME Inv, VersionInv, NEW p \in Procs, WriteBulletin(p)
    PROVE  VersionInv'
<1>1. /\ pc[p] = "write"
      /\ event[p].sequence = Len(bulletin) + 1
      /\ Len(bulletin') = Len(bulletin) + 1
  BY WriteKeepsBulletin DEF WriteBulletin, At, Inv, Handlers, Serving
<1>2. /\ pc'[p] \in {"archive", "authorization"}
      /\ \E next : GoTo(p, next)
      /\ UNCHANGED <<latest, archive, answered, event>>
  BY DEF WriteBulletin, GoTo, Inv, TypeOK, HandlersTypeOK
<1>3. Versioning(p)'
  BY <1>1, <1>2 DEF VersionInv, Versioning, Deciding, Distributing, Indexed
<1>4. \A q \in Procs : Versioning(q)'
  BY <1>1, <1>2, <1>3, OnlyOwnVersioning
<1>5. (Unversioned /\ AnsweredIsCurrentOrEarlier)'
  BY <1>2 DEF VersionInv, Unversioned, AnsweredIsCurrentOrEarlier
<1>6. (AnsweredVersionNamesOneDocument /\ AnsweredIsArchived)'
  BY <1>2 DEF VersionInv, AnsweredVersionNamesOneDocument, AnsweredIsArchived
<1> QED
  BY <1>4, <1>5, <1>6 DEF VersionInv

\* The archive entry of the version a handler archives replaces at most the same
\* document's.
LEMMA ArchiveKeepsVersions ==
    ASSUME Inv, NothingUnanchored, VersionInv, NEW p \in Procs, ArchiveVerified(p)
    PROVE  VersionInv'
<1> DEFINE e == ArchiveEntry(p)
           l == latest[event[p].subject_did]
<1>1. /\ pc[p] = "archive" /\ event[p] \in AgentEvent
      /\ event[p].sequence = Len(bulletin)
      /\ event[p].subject_did \in Agents
      /\ Follows(l, event[p].payload.documentVersion, event[p].payload.didDocument)
  BY DistributedTypes DEF ArchiveVerified, At, Inv, Handlers, Serving, Distributing,
     VersionInv, Versioning, Deciding
<1>2. /\ e.did = event[p].subject_did
      /\ e.version = event[p].payload.documentVersion
      /\ e.didDocument = event[p].payload.didDocument
      /\ e.sequence = event[p].sequence
  BY DEF ArchiveEntry
<1>3. /\ pc'[p] = "latest" /\ GoTo(p, "latest")
      /\ UNCHANGED <<latest, answered, bulletin, event>>
      /\ archive' = {x \in archive : x.did # e.did \/ x.version # e.version} \cup {e}
      /\ ArchiveEntry(p)' = e
  BY DEF ArchiveVerified, GoTo, Inv, TypeOK, HandlersTypeOK, historyVars, ArchiveEntry
<1>4. l.version \in Nat
  BY <1>1 DEF Inv, TypeOK, FilesTypeOK
<1>5. \A x \in answered :
        /\ x.version <= latest[x.did].version
        /\ x.version = latest[x.did].version =>
             x.didDocument = latest[x.did].didDocument
        /\ x.sequence \in 1..Len(bulletin)
        /\ x.version \in Nat
  BY DEF VersionInv, AnsweredIsCurrentOrEarlier, NothingUnanchored, AnchoredAs,
         AnchoredIn, Inv, TypeOK, HistoryTypeOK, VersionedPackage
<1> HIDE DEF e
<1>6. \A x \in answered : x.did = e.did /\ x.version = e.version =>
        x.didDocument = e.didDocument /\ e.sequence >= x.sequence
  <2> SUFFICES ASSUME NEW x \in answered, x.did = e.did, x.version = e.version
               PROVE  x.didDocument = e.didDocument /\ e.sequence >= x.sequence
    OBVIOUS
  <2>1. latest[x.did] = l
    BY <1>2
  <2>2. e.version = l.version
    BY <1>1, <1>2, <1>4, <1>5, <2>1 DEF Follows
  <2>3. e.didDocument = l.didDocument
    BY <1>1, <1>2, <1>4, <2>2 DEF Follows
  <2>4. Len(bulletin) \in Nat
    BY LenProperties DEF Inv, TypeOK, FilesTypeOK
  <2> QED
    BY <1>1, <1>2, <1>5, <2>1, <2>2, <2>3, <2>4
<1>7. AnsweredIsArchived'
  BY <1>3, <1>6 DEF VersionInv, AnsweredIsArchived
<1>8. Versioning(p)'
  BY <1>1, <1>3 DEF Versioning, Deciding, Distributing, Indexed
<1>9. \A q \in Procs : Versioning(q)'
  BY <1>1, <1>3, <1>8, OnlyOwnVersioning
<1>10. (Unversioned /\ AnsweredIsCurrentOrEarlier /\ AnsweredVersionNamesOneDocument)'
  BY <1>3 DEF VersionInv, Unversioned, AnsweredIsCurrentOrEarlier,
              AnsweredVersionNamesOneDocument
<1> QED
  BY <1>7, <1>9, <1>10 DEF VersionInv

\* What the index update makes of the entry.
LEMMA IndexUpdate ==
    ASSUME Inv, VersionInv, "latest" \notin Tearable, NEW p \in Procs,
           UpdateLatestVersion(p)
    PROVE  /\ pc[p] = "latest" /\ event[p] \in AgentEvent
           /\ event[p].subject_did \in Agents
           /\ latest' = [latest EXCEPT ![event[p].subject_did] = VersionOf(p)]
           /\ Follows(latest[event[p].subject_did], VersionOf(p).version,
                      VersionOf(p).didDocument)
<1>1. pc[p] = "latest" /\ event[p] \in AgentEvent
  BY DEF UpdateLatestVersion, At, Inv, Handlers, Serving, Distributing
<1>2. event[p].subject_did \in Agents
  BY <1>1, DistributedTypes
<1>3. Follows(latest[event[p].subject_did], VersionOf(p).version,
              VersionOf(p).didDocument)
  BY <1>1 DEF VersionInv, Versioning, Deciding, VersionOf
<1> QED
  BY <1>1, <1>2, <1>3, IndexIsRead DEF UpdateLatestVersion

LEMMA UpdateKeepsVersions ==
    ASSUME Inv, VersionInv, "latest" \notin Tearable, NEW p \in Procs,
           UpdateLatestVersion(p)
    PROVE  VersionInv'
<1> DEFINE did == event[p].subject_did
           v == VersionOf(p)
<1>1. /\ pc[p] = "latest" /\ event[p] \in AgentEvent /\ did \in Agents
      /\ latest' = [latest EXCEPT ![did] = v]
      /\ Follows(latest[did], v.version, v.didDocument)
  BY IndexUpdate
<1>2. /\ pc'[p] = "cdn_json" /\ GoTo(p, "cdn_json")
      /\ UNCHANGED <<archive, answered, bulletin, event>>
      /\ VersionOf(p)' = v /\ ArchiveEntry(p)' = ArchiveEntry(p)
  BY DEF UpdateLatestVersion, GoTo, Inv, TypeOK, HandlersTypeOK, historyVars,
         VersionOf, ArchiveEntry
<1>3. /\ latest \in [Agents -> [version : Nat,
                                didDocument : Documents \cup {NoDocument},
                                sequence : Nat]]
      /\ v \in [version : Nat, didDocument : Documents \cup {NoDocument},
                sequence : Nat]
  BY <1>1, DistributedTypes DEF Inv, TypeOK, FilesTypeOK
<1>4. latest'[did] = v /\ \A a \in Agents \ {did} : latest'[a] = latest[a]
  BY <1>1, <1>3
<1> HIDE DEF v
<1>5. Versioning(p)'
  BY <1>1, <1>2, <1>4 DEF VersionInv, Versioning, Deciding, Distributing, Indexed
<1>6. \A q \in Procs : Versioning(q)'
  BY <1>1, <1>2, <1>5, OnlyOwnVersioning
<1>7. Unversioned'
  <2>1. latest[did].version \in Nat
    BY <1>1, <1>3
  <2>2. v.version = 0 => v.didDocument = NoDocument
    BY <1>1, <2>1 DEF Follows, VersionInv, Unversioned
  <2> QED
    BY <1>4, <2>2 DEF VersionInv, Unversioned
<1>8. AnsweredIsCurrentOrEarlier'
  <2> SUFFICES ASSUME NEW x \in answered
               PROVE  /\ x.version <= latest'[x.did].version
                      /\ x.version = latest'[x.did].version =>
                           x.didDocument = latest'[x.did].didDocument
    BY <1>2 DEF AnsweredIsCurrentOrEarlier
  <2>1. x.did \in Agents /\ x.version \in Nat
    BY DEF Inv, TypeOK, HistoryTypeOK, VersionedPackage
  <2>2. /\ x.version <= latest[x.did].version
        /\ x.version = latest[x.did].version =>
             x.didDocument = latest[x.did].didDocument
    BY DEF VersionInv, AnsweredIsCurrentOrEarlier
  <2>3. CASE x.did # did
    BY <1>4, <2>1, <2>2, <2>3
  <2>4. CASE x.did = did
    <3>1. latest[did].version \in Nat
      BY <1>1, <1>3
    <3> QED
      BY <1>1, <1>4, <2>1, <2>2, <2>4, <3>1 DEF Follows
  <2> QED
    BY <2>3, <2>4
<1>9. (AnsweredVersionNamesOneDocument /\ AnsweredIsArchived)'
  BY <1>2 DEF VersionInv, AnsweredVersionNamesOneDocument, AnsweredIsArchived
<1> QED
  BY <1>6, <1>7, <1>8, <1>9 DEF VersionInv

\* Answering the version the handler has put into the index.
LEMMA RespondKeepsVersions ==
    ASSUME Inv, VersionInv, NEW p \in Procs, pc[p] \in Indexed, Respond(p),
           UNCHANGED <<latest, archive, bulletin>>
    PROVE  VersionInv'
<1> DEFINE e == ArchiveEntry(p)
<1>1. /\ pc[p] # "idle" /\ pc[p] \in Distributing
      /\ event[p] \in AgentEvent /\ e \in archive
      /\ latest[e.did].version = e.version
      /\ latest[e.did].didDocument = e.didDocument
      /\ e.version \in Nat /\ e.sequence \in Nat
  <2>1. pc[p] # "idle" /\ pc[p] \in Distributing
    BY DEF Indexed, Distributing
  <2>2. /\ event[p] \in AgentEvent /\ e \in archive
        /\ latest[event[p].subject_did] = VersionOf(p)
    BY <2>1 DEF Inv, Handlers, Serving, VersionInv, Versioning
  <2>3. e.version \in Nat /\ e.sequence \in Nat
    BY <2>2, DistributedTypes DEF VersionedPackage
  <2> QED
    BY <2>1, <2>2, <2>3 DEF ArchiveEntry, VersionOf
<1>2. answered' = answered \cup {e}
  BY DEF Respond
<1>3. \A q \in Procs : pc'[q] = "idle"
  BY <1>1, OneHandler DEF Respond, Return, GoTo, Inv, TypeOK, HandlersTypeOK
<1> HIDE DEF e
<1>4. \A q \in Procs : Versioning(q)'
  BY <1>3 DEF Versioning, Deciding, Distributing, Indexed
<1>5. (Unversioned /\ AnsweredIsCurrentOrEarlier)'
  BY <1>1, <1>2 DEF VersionInv, Unversioned, AnsweredIsCurrentOrEarlier
<1>6. AnsweredVersionNamesOneDocument'
  BY <1>1, <1>2 DEF VersionInv, AnsweredIsCurrentOrEarlier,
                    AnsweredVersionNamesOneDocument
<1>7. AnsweredIsArchived'
  BY <1>1, <1>2 DEF VersionInv, AnsweredIsArchived
<1> QED
  BY <1>4, <1>5, <1>6, <1>7 DEF VersionInv

\* Enqueueing without answering yet.
LEMMA EnqueueKeepsVersions ==
    ASSUME Inv, VersionInv, NEW p \in Procs, pc[p] \in Indexed,
           NEW next \in Indexed, GoTo(p, next),
           UNCHANGED <<latest, archive, answered, bulletin, event>>
    PROVE  VersionInv'
<1>1. pc'[p] = next /\ pc[p] # "idle"
  BY DEF GoTo, Inv, TypeOK, HandlersTypeOK, Indexed
<1>2. Versioning(p)'
  BY <1>1 DEF VersionInv, Versioning, Deciding, Distributing, Indexed, VersionOf,
              ArchiveEntry
<1>3. \A q \in Procs : Versioning(q)'
  BY <1>1, <1>2, OnlyOwnVersioning
<1>4. (Unversioned /\ AnsweredIsCurrentOrEarlier)'
  BY DEF VersionInv, Unversioned, AnsweredIsCurrentOrEarlier
<1>5. (AnsweredVersionNamesOneDocument /\ AnsweredIsArchived)'
  BY DEF VersionInv, AnsweredVersionNamesOneDocument, AnsweredIsArchived
<1> QED
  BY <1>3, <1>4, <1>5 DEF VersionInv

LEMMA NextKeepsVersions ==
    ASSUME "latest" \notin Tearable
    PROVE  Inv /\ NothingUnanchored /\ VersionInv /\ [OpenNext]_rootVars => VersionInv'
<1> SUFFICES ASSUME Inv, NothingUnanchored, VersionInv, [OpenNext]_rootVars
             PROVE  VersionInv'
  OBVIOUS
<1> USE DEF Inv, TypeOK, HandlersTypeOK
<1>1. ASSUME NEW p \in Procs, NEW r \in Requests, Acquire(p, r)
      PROVE  VersionInv'
  BY <1>1, OthersKeepVersions DEF Acquire, GoTo, Deciding, Distributing, fileVars,
     historyVars
<1>2. ASSUME NEW p \in Procs, VerifyNonce(p)
      PROVE  VersionInv'
  BY <1>2, OthersKeepVersions DEF VerifyNonce, GoTo, Deciding, Distributing, historyVars
<1>3. ASSUME NEW p \in Procs, ReadBulletin(p)
      PROVE  VersionInv'
  <2>1. event'[p] \in NodeEvent
    <3>1. req[p] \in NodeRequest /\ NextSequence \in Nat
      BY <1>3, LenProperties DEF ReadBulletin, At, Handlers, Serving, NextSequence,
         FilesTypeOK
    <3> QED
      BY <1>3, <3>1, NodeEventIsTyped DEF ReadBulletin
  <2>2. \A q \in Procs \ {p} : event'[q] = event[q] /\ pc'[q] = pc[q]
    BY <1>3 DEF ReadBulletin, GoTo
  <2>3. UNCHANGED <<latest, archive, answered, bulletin>> /\ pc'[p] = "write"
    BY <1>3 DEF ReadBulletin, GoTo, fileVars, historyVars
  <2> QED
    BY <2>1, <2>2, <2>3, NodeEventsAreNoAgentEvents, OthersKeepVersions
<1>4. ASSUME NEW p \in Procs,
             \/ RejectRequest(p) \/ FailRead(p) \/ UpdateAuthorization(p) \/ Abandon(p)
      PROVE  VersionInv'
  <2>1. UNCHANGED <<latest, archive, answered, bulletin>> /\ Return(p)
    BY <1>4 DEF RejectRequest, FailRead, UpdateAuthorization, Abandon, fileVars,
       historyVars
  <2>2. \A q \in Procs : \/ pc'[q] = "idle"
                         \/ pc'[q] = pc[q] /\ event'[q] = event[q]
    BY <2>1, ReturnIsLocal
  <2> QED
    BY <2>1, <2>2, OthersKeepVersions DEF Deciding, Distributing
<1>5. ASSUME NEW p \in Procs,
             \/ \E queue \in SUBSET cdnJson : EnqueueCdnJson(p, queue)
             \/ EnqueueCdnSql(p)
             \/ \E queue \in SUBSET discoveryJson : EnqueueDiscoveryJson(p, queue) /\ UseSqlite
      PROVE  VersionInv'
  <2>1. /\ pc[p] \in Indexed
        /\ \E next \in Indexed : GoTo(p, next)
        /\ UNCHANGED <<latest, archive, answered, bulletin, event>>
    BY <1>5 DEF EnqueueCdnJson, EnqueueCdnSql, EnqueueDiscoveryJson, At, Indexed,
       fileVars, historyVars
  <2> QED
    BY <2>1, EnqueueKeepsVersions
<1>6. ASSUME NEW p \in Procs,
             \/ \E queue \in SUBSET discoveryJson : EnqueueDiscoveryJson(p, queue) /\ ~UseSqlite
             \/ EnqueueDiscoverySql(p)
      PROVE  VersionInv'
  <2>1. pc[p] \in Indexed /\ Respond(p) /\ UNCHANGED <<latest, archive, bulletin>>
    BY <1>6 DEF EnqueueDiscoveryJson, EnqueueDiscoverySql, At, Indexed, fileVars
  <2> QED
    BY <2>1, RespondKeepsVersions
<1>7. CASE \E tears \in SUBSET Truncations : Restart(tears)
  BY <1>7, OthersKeepVersions DEF Restart, Deciding, Distributing
<1>8. CASE UNCHANGED rootVars
  BY <1>8, OthersKeepVersions DEF rootVars, fileVars, handlerVars, historyVars
<1>9. CASE OthersQueue
  BY <1>9, OthersKeepVersions DEF OthersQueue, handlerVars
<1> QED
  BY <1>1, <1>2, <1>3, <1>4, <1>5, <1>6, <1>7, <1>8, <1>9, VerifyRequestKeepsVersions,
     WriteBulletinKeepsVersions, ArchiveKeepsVersions, UpdateKeepsVersions
  DEF OpenNext, OpenStep

LEMMA VersionInvariance ==
    ASSUME "latest" \notin Tearable
    PROVE  OpenSpec => []VersionInv
BY InitEstablishesVersions, NextKeepsVersions, Invariance, AnchoredBesideOthers, PTL DEF OpenSpec

LEMMA VersionsBesideOthers ==
    ASSUME "latest" \notin Tearable
    PROVE  OpenSpec => []AnsweredVersionNamesOneDocument /\ []AnsweredIsArchived
<1>1. VersionInv => AnsweredVersionNamesOneDocument /\ AnsweredIsArchived
  BY DEF VersionInv
<1> QED
  BY <1>1, VersionInvariance, PTL

\* A version number that was answered once names one document for good, also when
\* handlers die after the bulletin was written and the number is given out again
\* (verify_and_publish), provided the index is never truncated.
THEOREM AnsweredOnce ==
    ASSUME "latest" \notin Tearable
    PROVE  Spec => []AnsweredVersionNamesOneDocument
BY VersionsBesideOthers, SpecIsOpen, PTL

\* The archive holds every answered version, although archive_verified overwrites
\* the files of a version that is archived again, under the same proviso.
THEOREM AnswersAreArchived ==
    ASSUME "latest" \notin Tearable
    PROVE  Spec => []AnsweredIsArchived
BY VersionsBesideOthers, SpecIsOpen, PTL

-----------------------------------------------------------------------------
(* Refinement.                                                             *)

LEMMA IndexAloneMoves ==
    ASSUME [OpenNext]_rootVars
    PROVE  UNCHANGED latest \/ \E p \in Procs : UpdateLatestVersion(p)
<1>1. CASE \E p \in Procs, r \in Requests : Acquire(p, r)
  BY <1>1 DEF Acquire, fileVars
<1>2. CASE \E p \in Procs : OpenStep(p)
  BY <1>2 DEF OpenStep, VerifyNonce, VerifyRequest, RejectRequest, ReadBulletin, FailRead,
     WriteBulletin, ArchiveVerified, EnqueueCdnJson, EnqueueCdnSql,
     EnqueueDiscoveryJson, EnqueueDiscoverySql, UpdateAuthorization, fileVars
<1>3. CASE \E p \in Procs : Abandon(p)
  BY <1>3 DEF Abandon
<1>4. CASE \E tears \in SUBSET Truncations : Restart(tears)
  BY <1>4 DEF Restart
<1>5. CASE UNCHANGED rootVars
  BY <1>5 DEF rootVars, fileVars
<1>6. CASE OthersQueue
  BY <1>6 DEF OthersQueue
<1> QED
  BY <1>1, <1>2, <1>3, <1>4, <1>5, <1>6 DEF OpenNext

\* The index moves only by registering another document under the next version,
\* also when somebody else rewrites the queue files.
LEMMA RefinementBesideOthers ==
    ASSUME "latest" \notin Tearable
    PROVE  OpenSpec => ImplementsRegistry
<1> DEFINE Current == [a \in Agents |-> [version     |-> latest[a].version,
                                         didDocument |-> latest[a].didDocument]]
<1>1. Init => Registry!Init
  BY DEF Init, Registry!Init, NoVersions, NoVersion
<1>2. ASSUME Inv, VersionInv, [OpenNext]_rootVars
      PROVE  Registry!Next \/ UNCHANGED Current
  <2>1. CASE UNCHANGED latest
    BY <2>1
  <2>2. ASSUME NEW p \in Procs, UpdateLatestVersion(p)
        PROVE  Registry!Next \/ UNCHANGED Current
    <3> DEFINE did == event[p].subject_did
               v == VersionOf(p)
    <3>1. /\ event[p] \in AgentEvent /\ did \in Agents
          /\ latest' = [latest EXCEPT ![did] = v]
          /\ Follows(latest[did], v.version, v.didDocument)
      BY <1>2, <2>2, IndexUpdate
    <3>2. v.didDocument \in Documents
      BY <3>1 DEF VersionOf, AgentEvent
    <3>3. /\ did \in DOMAIN latest
          /\ latest \in [Agents -> [version : Nat,
                                    didDocument : Documents \cup {NoDocument},
                                    sequence : Nat]]
      BY <1>2, <3>1 DEF Inv, TypeOK, FilesTypeOK
    <3> HIDE DEF v
    <3>4. CASE latest[did].version = v.version /\ latest[did].didDocument = v.didDocument
      BY <3>1, <3>3, <3>4
    <3>5. CASE /\ latest[did].version + 1 = v.version
               /\ latest[did].didDocument # v.didDocument
      <4>1. Current[did].didDocument # v.didDocument
        BY <3>1, <3>5
      <4>2. Current' = [Current EXCEPT ![did] =
                          [version     |-> Current[did].version + 1,
                           didDocument |-> v.didDocument]]
        BY <3>1, <3>3, <3>5
      <4>3. \E a \in Agents, d \in Documents :
              /\ Current[a].didDocument # d
              /\ Current' = [Current EXCEPT ![a] =
                   [version |-> Current[a].version + 1, didDocument |-> d]]
        BY <3>1, <3>2, <4>1, <4>2
      <4> QED
        BY <4>3 DEF Registry!Next, Registry!Register
    <3> QED
      BY <3>1, <3>4, <3>5 DEF Follows
  <2> QED
    BY <1>2, <2>1, <2>2, IndexAloneMoves
<1> QED
  BY <1>1, <1>2, Invariance, VersionInvariance, PTL
  DEF OpenSpec, ImplementsRegistry, Registry!Spec

\* Root implements the registry: its index moves only by registering another
\* document under the next version, whatever handlers, crashes and failed writes
\* are behind it, provided the index is never truncated.
THEOREM Refinement ==
    ASSUME "latest" \notin Tearable
    PROVE  Spec => ImplementsRegistry
BY RefinementBesideOthers, SpecIsOpen, PTL

-----------------------------------------------------------------------------
(* What the index lists is archived, also when the index can be truncated: *)
(* a truncated one lists nothing, and the next update starts it afresh.    *)

Listing(p) ==
    /\ pc[p] \in Deciding /\ event[p] \in AgentEvent /\ "latest" \notin torn =>
         Follows(latest[event[p].subject_did],
                 event[p].payload.documentVersion, event[p].payload.didDocument)
    /\ pc[p] \in Deciding /\ event[p] \in AgentEvent => event[p].payload.documentVersion # 0
    /\ pc[p] = "latest" => ArchiveEntry(p) \in archive

OneEntryPerVersion ==
    \A x, y \in archive : x.did = y.did /\ x.version = y.version => x = y

IndexedIsArchived ==
    "latest" \notin torn => \A a \in Agents : latest[a].version # 0 =>
        \E x \in archive : /\ x.did = a /\ x.version = latest[a].version
                           /\ x.didDocument = latest[a].didDocument

ListedInv ==
    /\ \A p \in Procs : Listing(p)
    /\ Unversioned /\ OneEntryPerVersion /\ IndexedIsArchived

\* A step that leaves index and archive alone, and no handler under way.
LEMMA OthersKeepListed ==
    ASSUME ListedInv, UNCHANGED <<latest, archive>>,
           "latest" \in torn => "latest" \in torn',
           \A q \in Procs :
             \/ pc'[q] \notin Deciding
             \/ pc'[q] = pc[q] /\ event'[q] = event[q]
             \/ pc'[q] = "write" /\ event'[q] \notin AgentEvent
    PROVE  ListedInv'
<1>1. \A q \in Procs : Listing(q)'
  <2> SUFFICES ASSUME NEW q \in Procs
               PROVE  Listing(q)'
    OBVIOUS
  <2>1. CASE pc'[q] \notin Deciding
    BY <2>1 DEF Listing, Deciding
  <2>2. CASE pc'[q] = pc[q] /\ event'[q] = event[q]
    BY <2>2 DEF ListedInv, Listing, ArchiveEntry
  <2>3. CASE pc'[q] = "write" /\ event'[q] \notin AgentEvent
    BY <2>3 DEF Listing
  <2> QED
    BY <2>1, <2>2, <2>3
<1>2. (Unversioned /\ OneEntryPerVersion /\ IndexedIsArchived)'
  BY DEF ListedInv, Unversioned, OneEntryPerVersion, IndexedIsArchived
<1> QED
  BY <1>1, <1>2 DEF ListedInv

LEMMA OnlyOwnListing ==
    ASSUME Inv, NEW p \in Procs, pc[p] # "idle", NEW next, GoTo(p, next), Listing(p)'
    PROVE  \A q \in Procs : Listing(q)'
<1>1. \A q \in Procs \ {p} : pc'[q] = "idle"
  BY OneHandler DEF Inv, TypeOK, HandlersTypeOK, GoTo
<1> QED
  BY <1>1 DEF Listing, Deciding

LEMMA VerifyRequestKeepsListed ==
    ASSUME Inv, ListedInv, NEW p \in Procs, VerifyRequest(p)
    PROVE  ListedInv'
<1>1. /\ pc[p] = "verify" /\ req[p] \in PublishRequest
      /\ req[p].agentDid \in Agents /\ req[p].didDocument \in Documents
  BY DEF VerifyRequest, At, Inv, Handlers, Serving, PublishRequest
<1>2. /\ event'[p].subject_did = req[p].agentDid
      /\ event'[p].payload.didDocument = req[p].didDocument
      /\ event'[p].payload.documentVersion = NextVersion(req[p])
      /\ pc'[p] = "write" /\ GoTo(p, "write")
      /\ UNCHANGED <<latest, archive, torn>>
  BY DEF VerifyRequest, GoTo, Inv, TypeOK, HandlersTypeOK, fileVars
<1> DEFINE l == ReadLatest[req[p].agentDid]
<1>3. l.version \in Nat /\ (l.version = 0 => l.didDocument # req[p].didDocument)
  <2>1. ReadLatest = latest \/ ReadLatest = NoVersions
    BY DEF ReadLatest
  <2> QED
    BY <1>1, <2>1, ReadLatestType, ConstantsAssumption
    DEF Inv, TypeOK, ListedInv, Unversioned, NoVersions, NoVersion
<1>4. /\ NextVersion(req[p]) # 0
      /\ Follows(l, NextVersion(req[p]), req[p].didDocument)
  <2> HIDE DEF l
  <2>1. CASE Operation(req[p]) = "no-op"
    <3>1. NextVersion(req[p]) = l.version /\ l.didDocument = req[p].didDocument /\ l.version # 0
      BY <1>3, <2>1 DEF NextVersion, Operation, l
    <3> QED
      BY <3>1 DEF Follows
  <2>2. CASE Operation(req[p]) # "no-op"
    <3>1. NextVersion(req[p]) = l.version + 1 /\ l.didDocument # req[p].didDocument
      BY <1>3, <2>2 DEF NextVersion, Operation, l
    <3> QED
      BY <1>3, <3>1 DEF Follows
  <2> QED
    BY <2>1, <2>2
<1>5. "latest" \notin torn => l = latest[req[p].agentDid]
  BY DEF ReadLatest
<1>6. Listing(p)'
  BY <1>2, <1>4, <1>5 DEF Listing
<1>7. \A q \in Procs : Listing(q)'
  BY <1>1, <1>2, <1>6, OnlyOwnListing
<1>8. (Unversioned /\ OneEntryPerVersion /\ IndexedIsArchived)'
  BY <1>2 DEF ListedInv, Unversioned, OneEntryPerVersion, IndexedIsArchived
<1> QED
  BY <1>7, <1>8 DEF ListedInv

LEMMA WriteBulletinKeepsListed ==
    ASSUME Inv, ListedInv, NEW p \in Procs, WriteBulletin(p)
    PROVE  ListedInv'
<1>1. /\ pc[p] = "write" /\ pc'[p] \in {"archive", "authorization"}
      /\ \E next : GoTo(p, next)
      /\ UNCHANGED <<latest, archive, torn, event>>
  BY DEF WriteBulletin, At, GoTo, Inv, TypeOK, HandlersTypeOK
<1>2. Listing(p)'
  BY <1>1 DEF ListedInv, Listing, Deciding
<1>3. \A q \in Procs : Listing(q)'
  BY <1>1, <1>2, OnlyOwnListing
<1>4. (Unversioned /\ OneEntryPerVersion /\ IndexedIsArchived)'
  BY <1>1 DEF ListedInv, Unversioned, OneEntryPerVersion, IndexedIsArchived
<1> QED
  BY <1>3, <1>4 DEF ListedInv

\* What is archived replaces the listed version at most with the same document.
LEMMA ArchiveKeepsListed ==
    ASSUME Inv, ListedInv, NEW p \in Procs, ArchiveVerified(p)
    PROVE  ListedInv'
<1> DEFINE e == ArchiveEntry(p)
<1>1. /\ pc[p] = "archive" /\ event[p] \in AgentEvent
      /\ event[p].subject_did \in Agents /\ event[p].payload.documentVersion \in Nat
  BY DistributedTypes DEF ArchiveVerified, At, Inv, Handlers, Serving, Distributing, AgentEvent
<1>2. "latest" \notin torn =>
        Follows(latest[event[p].subject_did], event[p].payload.documentVersion,
                event[p].payload.didDocument)
  BY <1>1 DEF ListedInv, Listing, Deciding
<1>3. /\ e.did = event[p].subject_did
      /\ e.version = event[p].payload.documentVersion
      /\ e.didDocument = event[p].payload.didDocument
  BY DEF ArchiveEntry
<1>4. /\ pc'[p] = "latest" /\ GoTo(p, "latest")
      /\ UNCHANGED <<latest, torn, event>>
      /\ archive' = {x \in archive : x.did # e.did \/ x.version # e.version} \cup {e}
      /\ ArchiveEntry(p)' = e
  BY DEF ArchiveVerified, GoTo, Inv, TypeOK, HandlersTypeOK, ArchiveEntry
<1>5. \A a \in Agents : latest[a].version \in Nat
  BY DEF Inv, TypeOK, FilesTypeOK
<1> HIDE DEF e
<1>6. OneEntryPerVersion'
  BY <1>4 DEF ListedInv, OneEntryPerVersion
<1>7. IndexedIsArchived'
  <2> SUFFICES ASSUME "latest" \notin torn, NEW a \in Agents, latest[a].version # 0
               PROVE  \E x \in archive' : /\ x.did = a /\ x.version = latest[a].version
                                          /\ x.didDocument = latest[a].didDocument
    BY <1>4 DEF IndexedIsArchived
  <2>1. PICK x \in archive : /\ x.did = a /\ x.version = latest[a].version
                             /\ x.didDocument = latest[a].didDocument
    BY DEF ListedInv, IndexedIsArchived
  <2>2. CASE x.did # e.did \/ x.version # e.version
    BY <1>4, <2>1, <2>2
  <2>3. CASE x.did = e.did /\ x.version = e.version
    <3>1. a = event[p].subject_did /\ latest[a].version = event[p].payload.documentVersion
      BY <1>3, <2>1, <2>3
    <3>2. latest[a].didDocument = e.didDocument
      BY <1>2, <1>3, <1>5, <3>1 DEF Follows
    <3> QED
      BY <1>4, <2>1, <2>3, <3>2
  <2> QED
    BY <2>2, <2>3
<1>8. Listing(p)'
  BY <1>1, <1>4 DEF ListedInv, Listing, Deciding
<1>9. \A q \in Procs : Listing(q)'
  BY <1>1, <1>4, <1>8, OnlyOwnListing
<1>10. Unversioned'
  BY <1>4 DEF ListedInv, Unversioned
<1> QED
  BY <1>6, <1>7, <1>9, <1>10 DEF ListedInv

LEMMA UpdateKeepsListed ==
    ASSUME Inv, ListedInv, NEW p \in Procs, UpdateLatestVersion(p)
    PROVE  ListedInv'
<1> DEFINE did == event[p].subject_did
           v == VersionOf(p)
<1>1. /\ pc[p] = "latest" /\ event[p] \in AgentEvent /\ did \in Agents
      /\ event[p].payload.documentVersion # 0 /\ ArchiveEntry(p) \in archive
  BY DistributedTypes DEF UpdateLatestVersion, At, Inv, Handlers, Serving, Distributing,
     ListedInv, Listing, Deciding
<1>2. /\ pc'[p] = "cdn_json" /\ GoTo(p, "cdn_json")
      /\ UNCHANGED archive
      /\ latest' = [ReadLatest EXCEPT ![did] = v]
  BY DEF UpdateLatestVersion, GoTo, Inv, TypeOK, HandlersTypeOK
<1>3. /\ v.version = event[p].payload.documentVersion
      /\ v.didDocument = event[p].payload.didDocument
      /\ ArchiveEntry(p).did = did
      /\ ArchiveEntry(p).version = v.version
      /\ ArchiveEntry(p).didDocument = v.didDocument
  BY DEF VersionOf, ArchiveEntry
<1>4. latest'[did] = v /\ \A a \in Agents \ {did} : latest'[a] = ReadLatest[a]
  BY <1>1, <1>2, ReadLatestType DEF Inv, TypeOK
<1> HIDE DEF v, did
<1>5. Listing(p)'
  BY <1>2 DEF Listing, Deciding
<1>6. \A q \in Procs : Listing(q)'
  BY <1>1, <1>2, <1>5, OnlyOwnListing
<1>7. \A a \in Agents : /\ ReadLatest[a].version = 0 => ReadLatest[a].didDocument = NoDocument
                        /\ ReadLatest[a].version # 0 => "latest" \notin torn /\ ReadLatest = latest
  BY DEF ReadLatest, ListedInv, Unversioned, NoVersions, NoVersion
<1>8. Unversioned'
  BY <1>1, <1>3, <1>4, <1>7 DEF Unversioned
<1>9. OneEntryPerVersion'
  BY <1>2 DEF ListedInv, OneEntryPerVersion
<1>10. IndexedIsArchived'
  <2> SUFFICES ASSUME NEW a \in Agents, latest'[a].version # 0
               PROVE  \E x \in archive : /\ x.did = a /\ x.version = latest'[a].version
                                         /\ x.didDocument = latest'[a].didDocument
    BY <1>2 DEF IndexedIsArchived
  <2>1. CASE a = did
    BY <1>1, <1>3, <1>4, <2>1
  <2>2. CASE a # did
    BY <1>4, <1>7, <2>2 DEF ListedInv, IndexedIsArchived
  <2> QED
    BY <2>1, <2>2
<1> QED
  BY <1>6, <1>8, <1>9, <1>10 DEF ListedInv

LEMMA NextKeepsListed == Inv /\ ListedInv /\ [OpenNext]_rootVars => ListedInv'
<1> SUFFICES ASSUME Inv, ListedInv, [OpenNext]_rootVars
             PROVE  ListedInv'
  OBVIOUS
<1> USE DEF Inv, TypeOK, HandlersTypeOK
<1>1. ASSUME NEW p \in Procs, NEW r \in Requests, Acquire(p, r)
      PROVE  ListedInv'
  BY <1>1, OthersKeepListed DEF Acquire, GoTo, fileVars, Deciding
<1>2. ASSUME NEW p \in Procs, ReadBulletin(p)
      PROVE  ListedInv'
  <2>1. event'[p] \in NodeEvent
    <3>1. req[p] \in NodeRequest /\ NextSequence \in Nat
      BY <1>2, LenProperties DEF ReadBulletin, At, Handlers, Serving, NextSequence, FilesTypeOK
    <3> QED
      BY <1>2, <3>1, NodeEventIsTyped DEF ReadBulletin
  <2>2. \A q \in Procs \ {p} : event'[q] = event[q] /\ pc'[q] = pc[q]
    BY <1>2 DEF ReadBulletin, GoTo
  <2>3. UNCHANGED <<latest, archive, torn>> /\ pc'[p] = "write"
    BY <1>2 DEF ReadBulletin, GoTo, fileVars
  <2> QED
    BY <2>1, <2>2, <2>3, NodeEventsAreNoAgentEvents, OthersKeepListed
<1>3. ASSUME NEW p \in Procs,
             \/ RejectRequest(p) \/ FailRead(p) \/ UpdateAuthorization(p)
             \/ EnqueueDiscoverySql(p) \/ Abandon(p)
      PROVE  ListedInv'
  <2>1. /\ UNCHANGED <<latest, archive>> /\ Return(p)
        /\ "latest" \in torn => "latest" \in torn'
    BY <1>3 DEF RejectRequest, FailRead, UpdateAuthorization, EnqueueDiscoverySql,
       Respond, Abandon, Tears, fileVars
  <2>2. \A q \in Procs : \/ pc'[q] = "idle"
                         \/ pc'[q] = pc[q] /\ event'[q] = event[q]
    BY <2>1, ReturnIsLocal
  <2> QED
    BY <2>1, <2>2, OthersKeepListed DEF Deciding
<1>4. ASSUME NEW p \in Procs,
             \/ VerifyNonce(p) \/ (\E queue \in SUBSET cdnJson : EnqueueCdnJson(p, queue))
             \/ EnqueueCdnSql(p)
             \/ \E queue \in SUBSET discoveryJson : EnqueueDiscoveryJson(p, queue)
      PROVE  ListedInv'
  <2>1. UNCHANGED <<latest, archive>> /\ ("latest" \in torn => "latest" \in torn')
    BY <1>4 DEF VerifyNonce, EnqueueCdnJson, EnqueueCdnSql, EnqueueDiscoveryJson, fileVars
  <2>2. \/ /\ UNCHANGED event
           /\ \E next \in {"verify"} \cup Indexed : GoTo(p, next)
        \/ Return(p)
    BY <1>4 DEF VerifyNonce, EnqueueCdnJson, EnqueueCdnSql, EnqueueDiscoveryJson, Respond, Indexed
  <2>3. \A q \in Procs : \/ pc'[q] \notin Deciding
                         \/ pc'[q] = pc[q] /\ event'[q] = event[q]
    BY <2>2 DEF Return, GoTo, Indexed, Deciding
  <2> QED
    BY <2>1, <2>3, OthersKeepListed
<1>5. CASE \E tears \in SUBSET Truncations : Restart(tears)
  <2>1. PICK tears \in SUBSET Truncations : Restart(tears)
    BY <1>5
  <2>2. UNCHANGED <<latest, archive>> /\ \A q \in Procs : pc'[q] = "idle"
    BY <2>1 DEF Restart
  <2>3. "latest" \in torn => "latest" \in torn'
    BY <2>1 DEF Restart, Truncations
  <2> QED
    BY <2>2, <2>3, OthersKeepListed DEF Deciding
<1>6. CASE UNCHANGED rootVars
  BY <1>6, OthersKeepListed DEF rootVars, fileVars, handlerVars
<1>7. CASE OthersQueue
  <2>1. "latest" \in torn => "latest" \in torn'
    BY <1>7 DEF OthersQueue, QueueFiles
  <2> QED
    BY <1>7, <2>1, OthersKeepListed DEF OthersQueue, handlerVars
<1> QED
  BY <1>1, <1>2, <1>3, <1>4, <1>5, <1>6, <1>7, VerifyRequestKeepsListed, WriteBulletinKeepsListed,
     ArchiveKeepsListed, UpdateKeepsListed
  DEF OpenNext, OpenStep

LEMMA ListedInvariance == OpenSpec => []ListedInv
<1>1. Init => ListedInv
  BY DEF Init, ListedInv, Listing, Deciding, Unversioned, OneEntryPerVersion, IndexedIsArchived,
         NoVersions, NoVersion
<1> QED
  BY <1>1, NextKeepsListed, Invariance, PTL DEF OpenSpec

-----------------------------------------------------------------------------
(* The authorization file follows the bulletin.  Between the bulletin and  *)
(* the authorization file of one handler the file is one amendment behind: *)
(* what is then a replay of the bulletin is the file as the handler is     *)
(* about to write it.                                                      *)

\* What a handler makes of the authorization state it has loaded.
AmendedFor(a, r) ==
    IF r.op = "update_domains" /\ a.discovery_nodes[r.did].status = "absent"
    THEN a ELSE Amended(a, r)

\* The event says what the request asks for.
Records(e, r) ==
    /\ e.event_type = NodeEventType(r.op)
    /\ e.subject_did = r.did
    /\ e.payload.role = r.role
    /\ e.payload.authorizedDomains = r.authorizedDomains

Replays(a) ==
    \A n \in Nodes :
        /\ a.registrars[n] = StatusFrom(RegistrarGrants(n), n)
        /\ a.vc_issuers[n] = StatusFrom(IssuerGrants(n), n)
        /\ a.discovery_nodes[n] =
             [status |-> StatusFrom(DiscoveryGrants(n), n),
              authorizedDomains |-> DomainsFrom(DiscoveryGrants(n), n)]

\* A Discovery node the state shows as revoked was revoked by an event.
RevocationsRecorded(a) ==
    \A n \in Nodes :
        a.discovery_nodes[n].status = "revoked" => EventsOf({"NODE_REVOKED"}, n) # {}

\* Whatever fails, no state Root may load says more than the bulletin.
StatesRecorded ==
    GrantsArePublished /\ RevocationsRecorded(authorization) /\ RevocationsRecorded(snapshot)

\* What is known of a handler that authorizes or revokes a node.
Amending(p) ==
    /\ pc[p] = "write" /\ req[p] \in NodeRequest => Records(event[p], req[p])
    /\ pc[p] = "authorization" =>
         /\ Len(Seed) < Len(bulletin)
         /\ Records(bulletin[Len(bulletin)], req[p])
         /\ faults = 0 => Replays(AmendedFor(authorization, req[p]))

ReplayInv ==
    /\ Len(Seed) <= Len(bulletin)
    /\ faults = 0 => torn \subseteq QueueFiles
    /\ \A p \in Procs : Amending(p)
    /\ faults = 0 /\ (\A p \in Procs : pc[p] # "authorization") =>
         Replays(authorization)
    /\ StatesRecorded

\* A nonempty set of places in the bulletin has a last one: the distances from
\* the end are natural numbers, and those are well founded.
LEMMA LatestIsLast ==
    ASSUME NEW m \in Nat, NEW S \in SUBSET (1..m), S # {}
    PROVE  Latest(S) \in S /\ \A j \in S : j <= Latest(S)
<1> DEFINE R == OpToRel(<, Nat)
           T == {d \in Nat : m - d \in S}
<1>1. IsWellFoundedOn(R, Nat)
  BY NatLessThanWellFounded
<1>2. \A x, y \in Nat : y < x => <<y, x>> \in R
  BY DEF OpToRel
<1>3. \A i \in S : m - i \in Nat /\ m - (m - i) = i
  OBVIOUS
<1>4. T # {} /\ T \subseteq Nat
  BY <1>3
<1>5. (\A d \in T : m - d \in S) /\ (\A i \in S : m - i \in T)
  BY <1>3
<1> HIDE DEF R, T
<1>6. PICK x \in T : \A y \in T : ~ (<<y, x>> \in R)
  BY <1>1, <1>4, WFMin
<1>7. \A j \in S : j <= m - x
  <2> SUFFICES ASSUME NEW j \in S
               PROVE  j <= m - x
    OBVIOUS
  <2>1. x \in Nat /\ m - j \in Nat
    BY <1>3, <1>4
  <2>2. ~ (m - j < x)
    BY <1>2, <1>5, <1>6, <2>1
  <2> QED
    BY <2>1, <2>2
<1>8. \E i \in S : \A j \in S : j <= i
  BY <1>5, <1>7
<1> QED
  BY <1>8 DEF Latest

\* The place of an event appended after all of them is the last one.
LEMMA LatestOfAppended ==
    ASSUME NEW m \in Nat, NEW S \in SUBSET (1..m)
    PROVE  Latest(S \cup {m + 1}) = m + 1
<1> DEFINE T == S \cup {m + 1}
<1>1. T \in SUBSET (1..(m + 1)) /\ T # {} /\ m + 1 \in Nat
  OBVIOUS
<1>2. m + 1 \in T /\ \A i \in T : i = m + 1 \/ ~ (m + 1 <= i)
  OBVIOUS
<1> HIDE DEF T
<1>3. Latest(T) \in T /\ \A j \in T : j <= Latest(T)
  BY <1>1, LatestIsLast
<1>4. Latest(T) = m + 1
  BY <1>2, <1>3
<1> QED
  BY <1>4 DEF T

\* StatusFrom and DomainsFrom as functions of the places of the events.
StatusAt(granted, revoked) ==
    IF granted = {} THEN "absent"
    ELSE IF \E i \in revoked : i > Latest(granted) THEN "revoked" ELSE "active"

DomainsAt(b, granted, updated) ==
    IF granted = {} THEN {}
    ELSE IF {i \in updated : i > Latest(granted)} = {} THEN {AnyDomain}
    ELSE b[Latest({i \in updated : i > Latest(granted)})].payload.authorizedDomains

\* A grant at the end makes the node active, and gives it every domain.
LEMMA GrantedAtEnd ==
    ASSUME NEW m \in Nat, NEW G \in SUBSET (1..m), NEW R \in SUBSET (1..m), NEW b
    PROVE  /\ StatusAt(G \cup {m + 1}, R) = "active"
           /\ DomainsAt(b, G \cup {m + 1}, R) = {AnyDomain}
<1>1. Latest(G \cup {m + 1}) = m + 1
  BY LatestOfAppended
<1>2. \A i \in R : ~ (i > m + 1)
  OBVIOUS
<1> QED
  BY <1>1, <1>2 DEF StatusAt, DomainsAt

\* A revocation at the end revokes what is there.
LEMMA RevokedAtEnd ==
    ASSUME NEW m \in Nat, NEW G \in SUBSET (1..m), NEW R \in SUBSET (1..m)
    PROVE  StatusAt(G, R \cup {m + 1}) = RevokedIfPresent(StatusAt(G, R))
<1>1. CASE G = {}
  BY <1>1 DEF StatusAt, RevokedIfPresent
<1>2. CASE G # {}
  <2>1. Latest(G) \in 1..m
    BY <1>2, LatestIsLast
  <2>2. m + 1 > Latest(G)
    BY <2>1
  <2> QED
    BY <1>2, <2>2 DEF StatusAt, RevokedIfPresent
<1> QED
  BY <1>1, <1>2

\* Domains given at the end are the ones a granted node has.
LEMMA UpdatedAtEnd ==
    ASSUME NEW m \in Nat, NEW G \in SUBSET (1..m), NEW U \in SUBSET (1..m), NEW b, G # {}
    PROVE  DomainsAt(b, G, U \cup {m + 1}) = b[m + 1].payload.authorizedDomains
<1> DEFINE C == {i \in U : i > Latest(G)}
<1>1. Latest(G) \in 1..m
  BY LatestIsLast
<1>2. {i \in U \cup {m + 1} : i > Latest(G)} = C \cup {m + 1}
  BY <1>1
<1>3. Latest(C \cup {m + 1}) = m + 1
  BY LatestOfAppended
<1> QED
  BY <1>2, <1>3 DEF DomainsAt

\* What is appended does not change the domains that were given.
LEMMA DomainsStay ==
    ASSUME NEW m \in Nat, NEW G \in SUBSET (1..m), NEW U \in SUBSET (1..m), NEW b, NEW c,
           \A i \in 1..m : c[i] = b[i]
    PROVE  DomainsAt(c, G, U) = DomainsAt(b, G, U)
<1> DEFINE C == {i \in U : i > Latest(G)}
<1>1. C # {} => Latest(C) \in 1..m
  BY LatestIsLast
<1> QED
  BY <1>1 DEF DomainsAt

\* A node is granted exactly when it has a status.
LEMMA AbsentIsNotGranted ==
    ASSUME NEW G, NEW R
    PROVE  StatusAt(G, R) = "absent" <=> G = {}
BY DEF StatusAt

LEMMA StatusOfPlaces ==
    ASSUME NEW n \in Nodes
    PROVE  /\ StatusFrom(RegistrarGrants(n), n) =
                StatusAt(RegistrarGrants(n), EventsOf({"NODE_REVOKED"}, n))
           /\ StatusFrom(IssuerGrants(n), n) =
                StatusAt(IssuerGrants(n), EventsOf({"NODE_REVOKED"}, n))
           /\ StatusFrom(DiscoveryGrants(n), n) =
                StatusAt(DiscoveryGrants(n), EventsOf({"NODE_REVOKED"}, n))
           /\ DomainsFrom(DiscoveryGrants(n), n) =
                DomainsAt(bulletin, DiscoveryGrants(n),
                          EventsOf({"DISCOVERY_NODE_DOMAINS_UPDATED"}, n))
BY DEF StatusFrom, StatusAt, DomainsFrom, DomainsAt

\* The authorization state that replays the bulletin, by places.
ReplaysPlaces(a, n, registrars, issuers, discoveries, revoked, updated, b) ==
    /\ a.registrars[n] = StatusAt(registrars, revoked)
    /\ a.vc_issuers[n] = StatusAt(issuers, revoked)
    /\ a.discovery_nodes[n] = [status |-> StatusAt(discoveries, revoked),
                               authorizedDomains |-> DomainsAt(b, discoveries, updated)]

LEMMA ReplaysByPlaces ==
    ASSUME NEW a
    PROVE  Replays(a) <=>
             \A n \in Nodes :
               ReplaysPlaces(a, n, RegistrarGrants(n), IssuerGrants(n), DiscoveryGrants(n),
                             EventsOf({"NODE_REVOKED"}, n),
                             EventsOf({"DISCOVERY_NODE_DOMAINS_UPDATED"}, n), bulletin)
BY StatusOfPlaces DEF Replays, ReplaysPlaces

LEMMA EventsArePlaces ==
    ASSUME Len(bulletin) \in Nat, Len(Seed) \in Nat, NEW n
    PROVE  /\ \A types : EventsOf(types, n) \in SUBSET (1..Len(bulletin))
           /\ RegistrarGrants(n) \in SUBSET (1..Len(bulletin))
           /\ IssuerGrants(n) \in SUBSET (1..Len(bulletin))
           /\ DiscoveryGrants(n) \in SUBSET (1..Len(bulletin))
BY DEF EventsOf, RegistrarGrants, IssuerGrants, DiscoveryGrants

\* The entries of one node in the state a request leaves.
LEMMA OthersUnamended ==
    ASSUME NEW a \in Authorization, NEW r \in NodeRequest, NEW n \in Nodes, r.did # n
    PROVE  /\ Amended(a, r).registrars[n] = a.registrars[n]
           /\ Amended(a, r).vc_issuers[n] = a.vc_issuers[n]
           /\ Amended(a, r).discovery_nodes[n] = a.discovery_nodes[n]
<1>1. /\ a.registrars \in [Nodes -> Status] /\ a.vc_issuers \in [Nodes -> Status]
      /\ a.discovery_nodes \in
           [Nodes -> [status : Status, authorizedDomains : SUBSET Domains]]
      /\ a = [registrars |-> a.registrars, vc_issuers |-> a.vc_issuers,
              discovery_nodes |-> a.discovery_nodes]
  BY DEF Authorization
<1>2. r.did \in Nodes /\ r.role \in Roles
  BY DEF NodeRequest
<1>3. CASE r.op = "authorize_registrar"
  <2>1. CASE r.role = "discovery"
    BY <1>1, <1>2, <1>3, <2>1 DEF Amended, AuthorizeRegistrar
  <2>2. CASE r.role = "vc-issuer"
    BY <1>1, <1>2, <1>3, <2>2 DEF Amended, AuthorizeRegistrar
  <2>3. CASE r.role = "registrar"
    BY <1>1, <1>2, <1>3, <2>3 DEF Amended, AuthorizeRegistrar
  <2> QED
    BY <1>2, <2>1, <2>2, <2>3 DEF Roles
<1>4. CASE r.op = "authorize_discovery"
  BY <1>1, <1>2, <1>4 DEF Amended, AuthorizeDiscovery
<1>5. CASE r.op = "update_domains"
  BY <1>1, <1>2, <1>5 DEF Amended, UpdateDomains
<1>6. CASE r.op = "revoke"
  BY <1>1, <1>2, <1>6 DEF Amended, Revoke
<1> QED
  BY <1>3, <1>4, <1>5, <1>6 DEF NodeRequest

LEMMA RegistrarAmended ==
    ASSUME NEW a \in Authorization, NEW r \in NodeRequest, NEW n \in Nodes, r.did = n,
           r.op = "authorize_registrar"
    PROVE  /\ Amended(a, r).registrars[n] = IF r.role = "registrar" THEN "active" ELSE a.registrars[n]
           /\ Amended(a, r).vc_issuers[n] = IF r.role = "vc-issuer" THEN "active" ELSE a.vc_issuers[n]
           /\ Amended(a, r).discovery_nodes[n] = a.discovery_nodes[n]
<1>1. /\ a.registrars \in [Nodes -> Status] /\ a.vc_issuers \in [Nodes -> Status]
      /\ a.discovery_nodes \in
           [Nodes -> [status : Status, authorizedDomains : SUBSET Domains]]
      /\ a = [registrars |-> a.registrars, vc_issuers |-> a.vc_issuers,
              discovery_nodes |-> a.discovery_nodes]
  BY DEF Authorization
<1>2. r.did \in Nodes /\ r.role \in Roles
  BY DEF NodeRequest
<1>3. CASE r.role = "discovery"
  BY <1>1, <1>2, <1>3 DEF Amended, AuthorizeRegistrar
<1>4. CASE r.role = "vc-issuer"
  BY <1>1, <1>2, <1>4 DEF Amended, AuthorizeRegistrar
<1>5. CASE r.role = "registrar"
  BY <1>1, <1>2, <1>5 DEF Amended, AuthorizeRegistrar
<1> QED
  BY <1>2, <1>3, <1>4, <1>5 DEF Roles

LEMMA DiscoveryAmended ==
    ASSUME NEW a \in Authorization, NEW r \in NodeRequest, NEW n \in Nodes, r.did = n,
           r.op = "authorize_discovery"
    PROVE  /\ Amended(a, r).registrars[n] = a.registrars[n]
           /\ Amended(a, r).vc_issuers[n] = a.vc_issuers[n]
           /\ Amended(a, r).discovery_nodes[n] =
                [status |-> "active", authorizedDomains |-> {AnyDomain}]
<1>1. /\ a.registrars \in [Nodes -> Status] /\ a.vc_issuers \in [Nodes -> Status]
      /\ a.discovery_nodes \in
           [Nodes -> [status : Status, authorizedDomains : SUBSET Domains]]
      /\ a = [registrars |-> a.registrars, vc_issuers |-> a.vc_issuers,
              discovery_nodes |-> a.discovery_nodes]
  BY DEF Authorization
<1>2. r.did \in Nodes /\ r.role \in Roles
  BY DEF NodeRequest
<1> QED
  BY <1>1, <1>2 DEF Amended, AuthorizeDiscovery

LEMMA DomainsAmended ==
    ASSUME NEW a \in Authorization, NEW r \in NodeRequest, NEW n \in Nodes, r.did = n,
           r.op = "update_domains"
    PROVE  /\ Amended(a, r).registrars[n] = a.registrars[n]
           /\ Amended(a, r).vc_issuers[n] = a.vc_issuers[n]
           /\ Amended(a, r).discovery_nodes[n] =
                [status |-> a.discovery_nodes[n].status,
                 authorizedDomains |-> r.authorizedDomains]
<1>1. /\ a.registrars \in [Nodes -> Status] /\ a.vc_issuers \in [Nodes -> Status]
      /\ a.discovery_nodes \in
           [Nodes -> [status : Status, authorizedDomains : SUBSET Domains]]
      /\ a = [registrars |-> a.registrars, vc_issuers |-> a.vc_issuers,
              discovery_nodes |-> a.discovery_nodes]
  BY DEF Authorization
<1>2. r.did \in Nodes /\ r.role \in Roles
  BY DEF NodeRequest
<1> QED
  BY <1>1, <1>2 DEF Amended, UpdateDomains

LEMMA RevocationAmended ==
    ASSUME NEW a \in Authorization, NEW r \in NodeRequest, NEW n \in Nodes, r.did = n,
           r.op = "revoke"
    PROVE  /\ Amended(a, r).registrars[n] = RevokedIfPresent(a.registrars[n])
           /\ Amended(a, r).vc_issuers[n] = RevokedIfPresent(a.vc_issuers[n])
           /\ Amended(a, r).discovery_nodes[n] =
                [status |-> RevokedIfPresent(a.discovery_nodes[n].status),
                 authorizedDomains |-> a.discovery_nodes[n].authorizedDomains]
<1>1. /\ a.registrars \in [Nodes -> Status] /\ a.vc_issuers \in [Nodes -> Status]
      /\ a.discovery_nodes \in
           [Nodes -> [status : Status, authorizedDomains : SUBSET Domains]]
      /\ a = [registrars |-> a.registrars, vc_issuers |-> a.vc_issuers,
              discovery_nodes |-> a.discovery_nodes]
  BY DEF Authorization
<1>2. r.did \in Nodes /\ r.role \in Roles
  BY DEF NodeRequest
<1> QED
  BY <1>1, <1>2 DEF Amended, Revoke

\* What the handlers' last event, the one at the place after m, adds.
EventAt(types, e, n, i) ==
    IF e.event_type \in types /\ e.subject_did = n THEN {i} ELSE {}

GrantAt(role, e, n, i) ==
    IF e.payload.role = role THEN EventAt({"REGISTRAR_AUTHORIZED"}, e, n, i) ELSE {}

LEMMA EventsAfterWrite ==
    ASSUME Inv, Len(Seed) <= Len(bulletin), NEW p \in Procs, WriteBulletin(p), NEW n
    PROVE  LET k == Len(bulletin) + 1 IN
           /\ \A types : EventsOf(types, n)' = EventsOf(types, n) \cup EventAt(types, event[p], n, k)
           /\ RegistrarGrants(n)' = RegistrarGrants(n) \cup GrantAt("registrar", event[p], n, k)
           /\ IssuerGrants(n)' = IssuerGrants(n) \cup GrantAt("vc-issuer", event[p], n, k)
<1> DEFINE k == Len(bulletin) + 1
<1>1. /\ Len(bulletin) \in Nat /\ Len(Seed) \in Nat
      /\ Len(bulletin') = k
      /\ \A i \in 1..Len(bulletin) : bulletin'[i] = bulletin[i]
      /\ bulletin'[k] = event[p]
  BY WriteKeepsBulletin, LenProperties, SeedEvents DEF Inv, TypeOK, FilesTypeOK
<1>2. /\ Len(Seed) + 1 .. Len(bulletin') = (Len(Seed) + 1 .. Len(bulletin)) \cup {k}
      /\ \A i \in Len(Seed) + 1 .. Len(bulletin) : bulletin'[i] = bulletin[i]
  BY <1>1
<1> HIDE DEF k
<1>3. \A types : EventsOf(types, n)' = EventsOf(types, n) \cup EventAt(types, event[p], n, k)
  BY <1>1, <1>2 DEF EventsOf, EventAt
<1>4. \A i \in EventsOf({"REGISTRAR_AUTHORIZED"}, n) : bulletin'[i] = bulletin[i]
  BY <1>2 DEF EventsOf
<1>5. /\ RegistrarGrants(n)' = RegistrarGrants(n) \cup GrantAt("registrar", event[p], n, k)
      /\ IssuerGrants(n)' = IssuerGrants(n) \cup GrantAt("vc-issuer", event[p], n, k)
  BY <1>1, <1>3, <1>4 DEF RegistrarGrants, IssuerGrants, GrantAt, EventAt
<1> QED
  BY <1>3, <1>5 DEF k

\* An authorization state that replays m events, amended as the next event says,
\* replays m + 1.
LEMMA AmendmentReplays ==
    ASSUME NEW a \in Authorization, NEW r \in NodeRequest, NEW n \in Nodes, NEW m \in Nat,
           NEW G \in SUBSET (1..m), NEW I \in SUBSET (1..m), NEW D \in SUBSET (1..m),
           NEW R \in SUBSET (1..m), NEW U \in SUBSET (1..m), NEW b, NEW c,
           \A i \in 1..m : c[i] = b[i],
           Records(c[m + 1], r),
           ReplaysPlaces(a, n, G, I, D, R, U, b)
    PROVE  ReplaysPlaces(AmendedFor(a, r), n,
                         G \cup GrantAt("registrar", c[m + 1], n, m + 1),
                         I \cup GrantAt("vc-issuer", c[m + 1], n, m + 1),
                         D \cup EventAt({"DISCOVERY_NODE_AUTHORIZED"}, c[m + 1], n, m + 1),
                         R \cup EventAt({"NODE_REVOKED"}, c[m + 1], n, m + 1),
                         U \cup EventAt({"DISCOVERY_NODE_DOMAINS_UPDATED"}, c[m + 1], n, m + 1), c)
<1> DEFINE e == c[m + 1]
           k == m + 1
<1> USE DEF GrantAt, EventAt, Records, NodeEventType
<1>1. /\ e.event_type = NodeEventType(r.op) /\ e.subject_did = r.did
      /\ e.payload.role = r.role /\ e.payload.authorizedDomains = r.authorizedDomains
  BY DEF Records
<1>2. /\ a.registrars[n] = StatusAt(G, R)
      /\ a.vc_issuers[n] = StatusAt(I, R)
      /\ a.discovery_nodes[n].status = StatusAt(D, R)
      /\ a.discovery_nodes[n].authorizedDomains = DomainsAt(b, D, U)
      /\ a.discovery_nodes[n] = [status |-> StatusAt(D, R),
                                 authorizedDomains |-> DomainsAt(b, D, U)]
  BY DEF ReplaysPlaces
<1>3. DomainsAt(c, D, U) = DomainsAt(b, D, U)
  BY DomainsStay
<1> HIDE DEF e, k
<1>4. CASE r.did # n
  <2>1. /\ GrantAt("registrar", e, n, k) = {} /\ GrantAt("vc-issuer", e, n, k) = {}
        /\ \A types : EventAt(types, e, n, k) = {}
    BY <1>1, <1>4
  <2>2. ReplaysPlaces(AmendedFor(a, r), n, G, I, D, R, U, c)
    <3>1. /\ Amended(a, r).registrars[n] = a.registrars[n]
          /\ Amended(a, r).vc_issuers[n] = a.vc_issuers[n]
          /\ Amended(a, r).discovery_nodes[n] = a.discovery_nodes[n]
      BY <1>4, OthersUnamended
    <3> QED
      BY <1>2, <1>3, <3>1 DEF ReplaysPlaces, AmendedFor
  <2> QED
    BY <2>1, <2>2 DEF e, k
<1>5. CASE r.did = n /\ r.op = "authorize_registrar"
  <2>1. /\ GrantAt("registrar", e, n, k) = IF r.role = "registrar" THEN {k} ELSE {}
        /\ GrantAt("vc-issuer", e, n, k) = IF r.role = "vc-issuer" THEN {k} ELSE {}
        /\ EventAt({"DISCOVERY_NODE_AUTHORIZED"}, e, n, k) = {}
        /\ EventAt({"NODE_REVOKED"}, e, n, k) = {}
        /\ EventAt({"DISCOVERY_NODE_DOMAINS_UPDATED"}, e, n, k) = {}
    BY <1>1, <1>5
  <2>2. /\ StatusAt(G \cup {k}, R) = "active" /\ StatusAt(I \cup {k}, R) = "active"
    BY GrantedAtEnd DEF k
  <2>3. ReplaysPlaces(AmendedFor(a, r), n,
                      G \cup (IF r.role = "registrar" THEN {k} ELSE {}),
                      I \cup (IF r.role = "vc-issuer" THEN {k} ELSE {}), D, R, U, c)
    <3>1. /\ Amended(a, r).registrars[n] =
               IF r.role = "registrar" THEN "active" ELSE a.registrars[n]
          /\ Amended(a, r).vc_issuers[n] =
               IF r.role = "vc-issuer" THEN "active" ELSE a.vc_issuers[n]
          /\ Amended(a, r).discovery_nodes[n] = a.discovery_nodes[n]
      BY <1>5, RegistrarAmended
    <3>2. AmendedFor(a, r) = Amended(a, r) /\ G \cup {} = G /\ I \cup {} = I
      BY <1>5 DEF AmendedFor
    <3> QED
      BY <1>2, <1>3, <2>2, <3>1, <3>2 DEF ReplaysPlaces
  <2> QED
    BY <2>1, <2>3 DEF e, k
<1>6. CASE r.did = n /\ r.op = "authorize_discovery"
  <2>1. /\ GrantAt("registrar", e, n, k) = {} /\ GrantAt("vc-issuer", e, n, k) = {}
        /\ EventAt({"DISCOVERY_NODE_AUTHORIZED"}, e, n, k) = {k}
        /\ EventAt({"NODE_REVOKED"}, e, n, k) = {}
        /\ EventAt({"DISCOVERY_NODE_DOMAINS_UPDATED"}, e, n, k) = {}
    BY <1>1, <1>6
  <2>2. /\ StatusAt(D \cup {k}, R) = "active"
        /\ DomainsAt(c, D \cup {k}, U) = {AnyDomain}
    BY GrantedAtEnd DEF k
  <2>3. ReplaysPlaces(AmendedFor(a, r), n, G, I, D \cup {k}, R, U, c)
    <3>1. /\ Amended(a, r).registrars[n] = a.registrars[n]
          /\ Amended(a, r).vc_issuers[n] = a.vc_issuers[n]
          /\ Amended(a, r).discovery_nodes[n] =
               [status |-> "active", authorizedDomains |-> {AnyDomain}]
      BY <1>6, DiscoveryAmended
    <3> QED
      BY <1>2, <1>6, <2>2, <3>1 DEF ReplaysPlaces, AmendedFor
  <2> QED
    BY <2>1, <2>3 DEF e, k
<1>7. CASE r.did = n /\ r.op = "update_domains"
  <2>1. /\ GrantAt("registrar", e, n, k) = {} /\ GrantAt("vc-issuer", e, n, k) = {}
        /\ EventAt({"DISCOVERY_NODE_AUTHORIZED"}, e, n, k) = {}
        /\ EventAt({"NODE_REVOKED"}, e, n, k) = {}
        /\ EventAt({"DISCOVERY_NODE_DOMAINS_UPDATED"}, e, n, k) = {k}
    BY <1>1, <1>7
  <2>2. CASE D = {}
    <3>1. a.discovery_nodes[n].status = "absent" /\ DomainsAt(b, D, U) = {}
      BY <1>2, <2>2 DEF StatusAt, DomainsAt
    <3>2. DomainsAt(c, D, U \cup {k}) = {}
      BY <2>2 DEF DomainsAt
    <3>3. AmendedFor(a, r) = a
      BY <1>7, <3>1 DEF AmendedFor
    <3>4. ReplaysPlaces(a, n, G, I, D, R, U \cup {k}, c)
      BY <1>2, <3>1, <3>2 DEF ReplaysPlaces
    <3> QED
      BY <2>1, <3>3, <3>4 DEF e, k
  <2>3. CASE D # {}
    <3>1. a.discovery_nodes[n].status # "absent"
      BY <1>2, <2>3, AbsentIsNotGranted
    <3>2. DomainsAt(c, D, U \cup {k}) = r.authorizedDomains
      BY <1>1, <2>3, UpdatedAtEnd DEF e, k
    <3>3. ReplaysPlaces(Amended(a, r), n, G, I, D, R, U \cup {k}, c)
      <4>1. /\ Amended(a, r).registrars[n] = a.registrars[n]
            /\ Amended(a, r).vc_issuers[n] = a.vc_issuers[n]
            /\ Amended(a, r).discovery_nodes[n] =
                 [status |-> a.discovery_nodes[n].status,
                  authorizedDomains |-> r.authorizedDomains]
        BY <1>7, DomainsAmended
      <4> QED
        BY <1>2, <3>2, <4>1 DEF ReplaysPlaces
    <3>4. AmendedFor(a, r) = Amended(a, r)
      BY <1>7, <3>1 DEF AmendedFor
    <3> QED
      BY <2>1, <3>3, <3>4 DEF e, k
  <2> QED
    BY <2>2, <2>3
<1>8. CASE r.did = n /\ r.op = "revoke"
  <2>1. /\ GrantAt("registrar", e, n, k) = {} /\ GrantAt("vc-issuer", e, n, k) = {}
        /\ EventAt({"DISCOVERY_NODE_AUTHORIZED"}, e, n, k) = {}
        /\ EventAt({"NODE_REVOKED"}, e, n, k) = {k}
        /\ EventAt({"DISCOVERY_NODE_DOMAINS_UPDATED"}, e, n, k) = {}
    BY <1>1, <1>8
  <2>2. /\ StatusAt(G, R \cup {k}) = RevokedIfPresent(StatusAt(G, R))
        /\ StatusAt(I, R \cup {k}) = RevokedIfPresent(StatusAt(I, R))
        /\ StatusAt(D, R \cup {k}) = RevokedIfPresent(StatusAt(D, R))
    BY RevokedAtEnd DEF k
  <2>3. ReplaysPlaces(AmendedFor(a, r), n, G, I, D, R \cup {k}, U, c)
    <3>1. /\ Amended(a, r).registrars[n] = RevokedIfPresent(a.registrars[n])
          /\ Amended(a, r).vc_issuers[n] = RevokedIfPresent(a.vc_issuers[n])
          /\ Amended(a, r).discovery_nodes[n] =
               [status |-> RevokedIfPresent(a.discovery_nodes[n].status),
                authorizedDomains |-> a.discovery_nodes[n].authorizedDomains]
      BY <1>8, RevocationAmended
    <3> QED
      BY <1>2, <1>3, <1>8, <2>2, <3>1 DEF ReplaysPlaces, AmendedFor
  <2> QED
    BY <2>1, <2>3 DEF e, k
<1> QED
  BY <1>4, <1>5, <1>6, <1>7, <1>8 DEF NodeRequest

\* An agent event is of none of the types the authorization state is about.
LEMMA AgentEventsAddNoPlaces ==
    ASSUME NEW e \in AgentEvent, NEW n, NEW k
    PROVE  /\ GrantAt("registrar", e, n, k) = {} /\ GrantAt("vc-issuer", e, n, k) = {}
           /\ EventAt({"DISCOVERY_NODE_AUTHORIZED"}, e, n, k) = {}
           /\ EventAt({"NODE_REVOKED"}, e, n, k) = {}
           /\ EventAt({"DISCOVERY_NODE_DOMAINS_UPDATED"}, e, n, k) = {}
BY DEF AgentEvent, GrantAt, EventAt

\* The places of node n in the bulletin before and after a write.
LEMMA PlacesAfterWrite ==
    ASSUME Inv, Len(Seed) <= Len(bulletin), NEW p \in Procs, WriteBulletin(p), NEW n,
           NEW k, k = Len(bulletin) + 1
    PROVE  /\ RegistrarGrants(n)' = RegistrarGrants(n) \cup GrantAt("registrar", event[p], n, k)
           /\ IssuerGrants(n)' = IssuerGrants(n) \cup GrantAt("vc-issuer", event[p], n, k)
           /\ DiscoveryGrants(n)' =
                DiscoveryGrants(n) \cup EventAt({"DISCOVERY_NODE_AUTHORIZED"}, event[p], n, k)
           /\ EventsOf({"NODE_REVOKED"}, n)' =
                EventsOf({"NODE_REVOKED"}, n) \cup EventAt({"NODE_REVOKED"}, event[p], n, k)
           /\ EventsOf({"DISCOVERY_NODE_DOMAINS_UPDATED"}, n)' =
                EventsOf({"DISCOVERY_NODE_DOMAINS_UPDATED"}, n)
                  \cup EventAt({"DISCOVERY_NODE_DOMAINS_UPDATED"}, event[p], n, k)
BY EventsAfterWrite DEF DiscoveryGrants

LEMMA WriteOfNodeReplays ==
    ASSUME Inv, ReplayInv, NEW p \in Procs, WriteBulletin(p), req[p] \in NodeRequest,
           Replays(authorization)
    PROVE  Replays(AmendedFor(authorization, req[p]))'
<1> DEFINE m == Len(bulletin)
<1>1. /\ m \in Nat /\ Len(Seed) \in Nat /\ Len(Seed) <= m
      /\ authorization \in Authorization
  BY LenProperties, SeedEvents DEF Inv, TypeOK, FilesTypeOK, ReplayInv
<1>2. /\ \A i \in 1..m : bulletin'[i] = bulletin[i]
      /\ bulletin'[m + 1] = event[p]
  BY WriteKeepsBulletin
<1>3. Records(event[p], req[p])
  BY DEF ReplayInv, Amending, WriteBulletin, At
<1>4. UNCHANGED <<authorization, req>>
  BY DEF WriteBulletin
<1>5. ASSUME NEW n \in Nodes
      PROVE  ReplaysPlaces(AmendedFor(authorization, req[p]), n,
               RegistrarGrants(n)', IssuerGrants(n)', DiscoveryGrants(n)',
               EventsOf({"NODE_REVOKED"}, n)',
               EventsOf({"DISCOVERY_NODE_DOMAINS_UPDATED"}, n)', bulletin')
  <2>1. ReplaysPlaces(authorization, n, RegistrarGrants(n), IssuerGrants(n), DiscoveryGrants(n),
                      EventsOf({"NODE_REVOKED"}, n),
                      EventsOf({"DISCOVERY_NODE_DOMAINS_UPDATED"}, n), bulletin)
    BY ReplaysByPlaces
  <2>2. /\ RegistrarGrants(n) \in SUBSET (1..m) /\ IssuerGrants(n) \in SUBSET (1..m)
        /\ DiscoveryGrants(n) \in SUBSET (1..m)
        /\ EventsOf({"NODE_REVOKED"}, n) \in SUBSET (1..m)
        /\ EventsOf({"DISCOVERY_NODE_DOMAINS_UPDATED"}, n) \in SUBSET (1..m)
    BY <1>1, EventsArePlaces
  <2> HIDE DEF m
  <2>3. ReplaysPlaces(AmendedFor(authorization, req[p]), n,
          RegistrarGrants(n) \cup GrantAt("registrar", event[p], n, m + 1),
          IssuerGrants(n) \cup GrantAt("vc-issuer", event[p], n, m + 1),
          DiscoveryGrants(n) \cup EventAt({"DISCOVERY_NODE_AUTHORIZED"}, event[p], n, m + 1),
          EventsOf({"NODE_REVOKED"}, n) \cup EventAt({"NODE_REVOKED"}, event[p], n, m + 1),
          EventsOf({"DISCOVERY_NODE_DOMAINS_UPDATED"}, n)
            \cup EventAt({"DISCOVERY_NODE_DOMAINS_UPDATED"}, event[p], n, m + 1), bulletin')
    BY <1>1, <1>2, <1>3, <2>1, <2>2, AmendmentReplays
  <2> QED
    BY <1>1, <2>3, PlacesAfterWrite DEF m
<1> QED
  BY <1>4, <1>5
  DEF Replays, ReplaysPlaces, StatusFrom, StatusAt, DomainsFrom, DomainsAt, AmendedFor, Amended,
      AuthorizeRegistrar, AuthorizeDiscovery, UpdateDomains, Revoke, RevokedIfPresent

LEMMA WriteOfAgentReplays ==
    ASSUME Inv, ReplayInv, NEW p \in Procs, WriteBulletin(p), event[p] \in AgentEvent,
           Replays(authorization)
    PROVE  Replays(authorization)'
<1> DEFINE m == Len(bulletin)
<1>1. m \in Nat /\ Len(Seed) \in Nat /\ Len(Seed) <= m
  BY LenProperties, SeedEvents DEF Inv, TypeOK, FilesTypeOK, ReplayInv
<1>2. UNCHANGED authorization /\ \A i \in 1..m : bulletin'[i] = bulletin[i]
  BY WriteKeepsBulletin DEF WriteBulletin
<1>3. ASSUME NEW n \in Nodes
      PROVE  ReplaysPlaces(authorization, n,
               RegistrarGrants(n)', IssuerGrants(n)', DiscoveryGrants(n)',
               EventsOf({"NODE_REVOKED"}, n)',
               EventsOf({"DISCOVERY_NODE_DOMAINS_UPDATED"}, n)', bulletin')
  <2>1. ReplaysPlaces(authorization, n, RegistrarGrants(n), IssuerGrants(n), DiscoveryGrants(n),
                      EventsOf({"NODE_REVOKED"}, n),
                      EventsOf({"DISCOVERY_NODE_DOMAINS_UPDATED"}, n), bulletin)
    BY ReplaysByPlaces
  <2>2. /\ DiscoveryGrants(n) \in SUBSET (1..m)
        /\ EventsOf({"DISCOVERY_NODE_DOMAINS_UPDATED"}, n) \in SUBSET (1..m)
    BY <1>1, EventsArePlaces
  <2>3. /\ RegistrarGrants(n)' = RegistrarGrants(n) /\ IssuerGrants(n)' = IssuerGrants(n)
        /\ DiscoveryGrants(n)' = DiscoveryGrants(n)
        /\ EventsOf({"NODE_REVOKED"}, n)' = EventsOf({"NODE_REVOKED"}, n)
        /\ EventsOf({"DISCOVERY_NODE_DOMAINS_UPDATED"}, n)' =
             EventsOf({"DISCOVERY_NODE_DOMAINS_UPDATED"}, n)
    <3> DEFINE k == m + 1
    <3>1. /\ GrantAt("registrar", event[p], n, k) = {}
          /\ GrantAt("vc-issuer", event[p], n, k) = {}
          /\ EventAt({"DISCOVERY_NODE_AUTHORIZED"}, event[p], n, k) = {}
          /\ EventAt({"NODE_REVOKED"}, event[p], n, k) = {}
          /\ EventAt({"DISCOVERY_NODE_DOMAINS_UPDATED"}, event[p], n, k) = {}
      BY AgentEventsAddNoPlaces
    <3>2. k = Len(bulletin) + 1 /\ Len(Seed) <= Len(bulletin)
      BY <1>1
    <3> HIDE DEF k, m
    <3>3. \A S : S \cup {} = S
      OBVIOUS
    <3>4. /\ RegistrarGrants(n)' = RegistrarGrants(n) \cup GrantAt("registrar", event[p], n, k)
          /\ IssuerGrants(n)' = IssuerGrants(n) \cup GrantAt("vc-issuer", event[p], n, k)
          /\ DiscoveryGrants(n)' =
               DiscoveryGrants(n) \cup EventAt({"DISCOVERY_NODE_AUTHORIZED"}, event[p], n, k)
          /\ EventsOf({"NODE_REVOKED"}, n)' =
               EventsOf({"NODE_REVOKED"}, n) \cup EventAt({"NODE_REVOKED"}, event[p], n, k)
          /\ EventsOf({"DISCOVERY_NODE_DOMAINS_UPDATED"}, n)' =
               EventsOf({"DISCOVERY_NODE_DOMAINS_UPDATED"}, n)
                 \cup EventAt({"DISCOVERY_NODE_DOMAINS_UPDATED"}, event[p], n, k)
      BY <3>2, PlacesAfterWrite
    <3> QED
      BY <3>1, <3>3, <3>4
  <2>4. DomainsAt(bulletin', DiscoveryGrants(n), EventsOf({"DISCOVERY_NODE_DOMAINS_UPDATED"}, n)) =
        DomainsAt(bulletin, DiscoveryGrants(n), EventsOf({"DISCOVERY_NODE_DOMAINS_UPDATED"}, n))
    <3> HIDE DEF m
    <3>1. \A G, U \in SUBSET (1..m) : \A b, c :
            (\A i \in 1..m : c[i] = b[i]) => DomainsAt(c, G, U) = DomainsAt(b, G, U)
      BY <1>1, DomainsStay
    <3> QED
      BY <1>2, <2>2, <3>1
  <2> QED
    BY <2>1, <2>3, <2>4 DEF ReplaysPlaces
<1> QED
  BY <1>2, <1>3 DEF Replays, ReplaysPlaces, StatusFrom, StatusAt, DomainsFrom, DomainsAt

\* The domains the events since the deployment ever gave a node.
DomainsGiven(n) ==
    UNION {bulletin[i].payload.authorizedDomains :
             i \in EventsOf({"DISCOVERY_NODE_DOMAINS_UPDATED"}, n)}

\* Of what the events grant, a write takes nothing away.
LEMMA GrantsGrow ==
    ASSUME Inv, Len(Seed) <= Len(bulletin), NEW p \in Procs, WriteBulletin(p), NEW n
    PROVE  /\ RegistrarGrants(n) \subseteq RegistrarGrants(n)'
           /\ IssuerGrants(n) \subseteq IssuerGrants(n)'
           /\ DiscoveryGrants(n) \subseteq DiscoveryGrants(n)'
           /\ DomainsGiven(n) \subseteq DomainsGiven(n)'
<1> DEFINE U == EventsOf({"DISCOVERY_NODE_DOMAINS_UPDATED"}, n)
           V == EventsOf({"DISCOVERY_NODE_DOMAINS_UPDATED"}, n)'
<1>1. /\ RegistrarGrants(n) \subseteq RegistrarGrants(n)'
      /\ IssuerGrants(n) \subseteq IssuerGrants(n)'
      /\ \A types : EventsOf(types, n) \subseteq EventsOf(types, n)'
  BY EventsAfterWrite
<1>2. Len(bulletin) \in Nat /\ Len(Seed) \in Nat
  BY LenProperties, SeedEvents DEF Inv, TypeOK, FilesTypeOK
<1>3. \A i \in U : bulletin'[i] = bulletin[i]
  BY <1>2, EventsArePlaces, WriteKeepsBulletin
<1>4. DomainsGiven(n) \subseteq DomainsGiven(n)'
  <2>1. U \subseteq V
    BY <1>1
  <2>2. DomainsGiven(n) = UNION {bulletin[i].payload.authorizedDomains : i \in U}
    BY DEF DomainsGiven
  <2>3. DomainsGiven(n)' = UNION {bulletin'[i].payload.authorizedDomains : i \in V}
    BY DEF DomainsGiven
  <2> HIDE DEF U, V
  <2> QED
    BY <1>3, <2>1, <2>2, <2>3
<1> QED
  BY <1>1, <1>4 DEF DiscoveryGrants

LEMMA WriteKeepsGrants ==
    ASSUME Inv, ReplayInv, NEW p \in Procs, WriteBulletin(p)
    PROVE  StatesRecorded'
<1>1. UNCHANGED <<authorization, snapshot>> /\ StatesRecorded /\ Len(Seed) <= Len(bulletin)
  BY DEF WriteBulletin, ReplayInv
<1>2. \A n \in Nodes :
        /\ RegistrarGrants(n) # {} => RegistrarGrants(n)' # {}
        /\ IssuerGrants(n) # {} => IssuerGrants(n)' # {}
        /\ DiscoveryGrants(n) # {} => DiscoveryGrants(n)' # {}
        /\ DomainsGiven(n) \subseteq DomainsGiven(n)'
  BY <1>1, GrantsGrow
<1>3. GrantsArePublished'
  BY <1>1, <1>2 DEF StatesRecorded, GrantsArePublished, GrantsRecorded, DomainsGiven
<1>4. \A n \in Nodes : EventsOf({"NODE_REVOKED"}, n) \subseteq EventsOf({"NODE_REVOKED"}, n)'
  BY <1>1, EventsAfterWrite
<1>5. (RevocationsRecorded(authorization) /\ RevocationsRecorded(snapshot))'
  BY <1>1, <1>4 DEF StatesRecorded, RevocationsRecorded
<1> QED
  BY <1>3, <1>5 DEF StatesRecorded

\* What a handler writes after its event is recorded by that event.
LEMMA AmendedIsRecorded ==
    ASSUME Inv, ReplayInv, NEW p \in Procs, pc[p] = "authorization", NEW a \in Authorization,
           GrantsRecorded(a), RevocationsRecorded(a)
    PROVE  GrantsRecorded(AmendedFor(a, req[p])) /\ RevocationsRecorded(AmendedFor(a, req[p]))
<1> DEFINE r == req[p]
           k == Len(bulletin)
           c == Amended(a, r)
<1>1. r \in NodeRequest /\ Records(bulletin[k], r) /\ k \in Len(Seed) + 1 .. Len(bulletin)
  <2>1. Len(bulletin) \in Nat /\ Len(Seed) \in Nat
    BY LenProperties, SeedEvents DEF Inv, TypeOK, FilesTypeOK
  <2> QED
    BY <2>1 DEF Inv, Handlers, Serving, ReplayInv, Amending
<1>2. ASSUME NEW n \in Nodes
      PROVE  /\ c.registrars[n] # "absent" => RegistrarGrants(n) # {}
             /\ c.vc_issuers[n] # "absent" => IssuerGrants(n) # {}
             /\ c.discovery_nodes[n].status # "absent" => DiscoveryGrants(n) # {}
             /\ c.discovery_nodes[n].authorizedDomains \subseteq {AnyDomain} \cup DomainsGiven(n)
             /\ c.discovery_nodes[n].status = "revoked" => EventsOf({"NODE_REVOKED"}, n) # {}
  <2>1. /\ a.registrars[n] # "absent" => RegistrarGrants(n) # {}
        /\ a.vc_issuers[n] # "absent" => IssuerGrants(n) # {}
        /\ a.discovery_nodes[n].status # "absent" => DiscoveryGrants(n) # {}
        /\ a.discovery_nodes[n].authorizedDomains \subseteq {AnyDomain} \cup DomainsGiven(n)
        /\ a.discovery_nodes[n].status = "revoked" => EventsOf({"NODE_REVOKED"}, n) # {}
    BY DEF GrantsRecorded, RevocationsRecorded, DomainsGiven
  <2>2. CASE r.did # n
    BY <1>1, <2>1, <2>2, OthersUnamended
  <2>3. CASE r.did = n /\ r.op = "authorize_registrar"
    <3>1. /\ r.role = "registrar" => k \in RegistrarGrants(n)
          /\ r.role = "vc-issuer" => k \in IssuerGrants(n)
      BY <1>1, <2>3 DEF Records, NodeEventType, RegistrarGrants, IssuerGrants, EventsOf
    <3>2. /\ c.registrars[n] = IF r.role = "registrar" THEN "active" ELSE a.registrars[n]
          /\ c.vc_issuers[n] = IF r.role = "vc-issuer" THEN "active" ELSE a.vc_issuers[n]
          /\ c.discovery_nodes[n] = a.discovery_nodes[n]
      BY <1>1, <2>3, RegistrarAmended
    <3> HIDE DEF c, r, k
    <3> QED
      BY <2>1, <3>1, <3>2
  <2>4. CASE r.did = n /\ r.op = "authorize_discovery"
    <3>1. k \in DiscoveryGrants(n)
      BY <1>1, <2>4 DEF Records, NodeEventType, DiscoveryGrants, EventsOf
    <3>2. /\ c.registrars[n] = a.registrars[n] /\ c.vc_issuers[n] = a.vc_issuers[n]
          /\ c.discovery_nodes[n] = [status |-> "active", authorizedDomains |-> {AnyDomain}]
      BY <1>1, <2>4, DiscoveryAmended
    <3> HIDE DEF c, r, k
    <3> QED
      BY <2>1, <3>1, <3>2
  <2>5. CASE r.did = n /\ r.op = "update_domains"
    <3>1. r.authorizedDomains \subseteq DomainsGiven(n)
      <4>1. k \in EventsOf({"DISCOVERY_NODE_DOMAINS_UPDATED"}, n)
        BY <1>1, <2>5 DEF Records, NodeEventType, EventsOf
      <4>2. bulletin[k].payload.authorizedDomains = r.authorizedDomains
        BY <1>1 DEF Records
      <4> HIDE DEF k, r
      <4> QED
        BY <4>1, <4>2 DEF DomainsGiven
    <3>2. /\ c.registrars[n] = a.registrars[n] /\ c.vc_issuers[n] = a.vc_issuers[n]
          /\ c.discovery_nodes[n] = [status |-> a.discovery_nodes[n].status,
                                     authorizedDomains |-> r.authorizedDomains]
      BY <1>1, <2>5, DomainsAmended
    <3> HIDE DEF c, r, k
    <3> QED
      BY <2>1, <3>1, <3>2
  <2>6. CASE r.did = n /\ r.op = "revoke"
    <3>1. /\ c.registrars[n] = RevokedIfPresent(a.registrars[n])
          /\ c.vc_issuers[n] = RevokedIfPresent(a.vc_issuers[n])
          /\ c.discovery_nodes[n] =
               [status |-> RevokedIfPresent(a.discovery_nodes[n].status),
                authorizedDomains |-> a.discovery_nodes[n].authorizedDomains]
      BY <1>1, <2>6, RevocationAmended
    <3>2. k \in EventsOf({"NODE_REVOKED"}, n)
      BY <1>1, <2>6 DEF Records, NodeEventType, EventsOf
    <3> HIDE DEF c, r, k
    <3> QED
      BY <2>1, <3>1, <3>2 DEF RevokedIfPresent
  <2> QED
    BY <1>1, <2>2, <2>3, <2>4, <2>5, <2>6 DEF NodeRequest
<1>3. GrantsRecorded(c) /\ RevocationsRecorded(c)
  BY <1>2 DEF GrantsRecorded, RevocationsRecorded, DomainsGiven
<1> QED
  BY <1>3 DEF AmendedFor

\* The places, and what they say, change with the bulletin alone.
LEMMA PlacesStay ==
    ASSUME UNCHANGED bulletin, NEW n
    PROVE  /\ StatusFrom(RegistrarGrants(n), n)' = StatusFrom(RegistrarGrants(n), n)
           /\ StatusFrom(IssuerGrants(n), n)' = StatusFrom(IssuerGrants(n), n)
           /\ StatusFrom(DiscoveryGrants(n), n)' = StatusFrom(DiscoveryGrants(n), n)
           /\ DomainsFrom(DiscoveryGrants(n), n)' = DomainsFrom(DiscoveryGrants(n), n)
<1>1. \A types : EventsOf(types, n)' = EventsOf(types, n)
  BY DEF EventsOf
<1>2. RegistrarGrants(n)' = RegistrarGrants(n) /\ IssuerGrants(n)' = IssuerGrants(n)
  BY <1>1 DEF RegistrarGrants, IssuerGrants
<1>3. DiscoveryGrants(n)' = DiscoveryGrants(n)
  BY <1>1 DEF DiscoveryGrants
<1>4. /\ StatusFrom(RegistrarGrants(n), n)' = StatusFrom(RegistrarGrants(n), n)
      /\ StatusFrom(IssuerGrants(n), n)' = StatusFrom(IssuerGrants(n), n)
      /\ StatusFrom(DiscoveryGrants(n), n)' = StatusFrom(DiscoveryGrants(n), n)
  BY <1>1, <1>2, <1>3 DEF StatusFrom
<1>5. DomainsFrom(DiscoveryGrants(n), n)' = DomainsFrom(DiscoveryGrants(n), n)
  BY <1>1, <1>3 DEF DomainsFrom
<1> QED
  BY <1>4, <1>5

\* A step that leaves the bulletin and the authorization file alone, and no
\* handler between the two.
LEMMA OthersKeepReplay ==
    ASSUME ReplayInv, UNCHANGED <<bulletin, authorization>>,
           snapshot' \in {snapshot, authorization, NoAuthorization},
           faults \in Nat, faults' \in Nat, faults <= faults',
           faults' = 0 => torn' \subseteq QueueFiles,
           \A q \in Procs :
             \/ pc'[q] \notin {"write", "authorization"}
             \/ pc'[q] = pc[q] /\ req'[q] = req[q] /\ event'[q] = event[q]
             \/ pc'[q] = "write" /\ (req'[q] \in NodeRequest => Records(event'[q], req'[q])),
           faults' = 0 => \A q \in Procs : pc[q] = "authorization" => pc'[q] = "authorization"
    PROVE  ReplayInv'
<1>1. faults' = 0 => faults = 0
  OBVIOUS
<1>2. \A a : Replays(a) => \A n \in Nodes :
                  /\ a.registrars[n] = StatusFrom(RegistrarGrants(n), n)'
                  /\ a.vc_issuers[n] = StatusFrom(IssuerGrants(n), n)'
                  /\ a.discovery_nodes[n] =
                       [status |-> StatusFrom(DiscoveryGrants(n), n)',
                        authorizedDomains |-> DomainsFrom(DiscoveryGrants(n), n)']
  BY PlacesStay DEF Replays
<1>3. Replays(authorization) => Replays(authorization)'
  BY <1>2 DEF Replays
<1>4. ASSUME NEW q \in Procs, pc'[q] = pc[q], req'[q] = req[q],
             Replays(AmendedFor(authorization, req[q]))
      PROVE  Replays(AmendedFor(authorization, req[q]))'
  <2>1. AmendedFor(authorization, req[q])' = AmendedFor(authorization, req[q])
    BY <1>4 DEF AmendedFor, Amended, AuthorizeRegistrar, AuthorizeDiscovery, UpdateDomains,
       Revoke, RevokedIfPresent
  <2> DEFINE c == AmendedFor(authorization, req[q])
  <2>2. \A n \in Nodes :
          /\ c.registrars[n] = StatusFrom(RegistrarGrants(n), n)'
          /\ c.vc_issuers[n] = StatusFrom(IssuerGrants(n), n)'
          /\ c.discovery_nodes[n] =
               [status |-> StatusFrom(DiscoveryGrants(n), n)',
                authorizedDomains |-> DomainsFrom(DiscoveryGrants(n), n)']
    BY <1>2, <1>4
  <2>3. c' = c
    BY <2>1
  <2> HIDE DEF c
  <2>4. Replays(c)'
    BY <2>2, <2>3 DEF Replays
  <2> QED
    BY <2>4 DEF c
<1>5. \A q \in Procs : Amending(q)'
  <2> SUFFICES ASSUME NEW q \in Procs
               PROVE  Amending(q)'
    OBVIOUS
  <2>1. Amending(q)
    BY DEF ReplayInv
  <2>2. CASE pc'[q] \notin {"write", "authorization"}
    BY <2>2 DEF Amending
  <2>3. CASE pc'[q] = pc[q] /\ req'[q] = req[q] /\ event'[q] = event[q]
    BY <1>1, <1>4, <2>1, <2>3 DEF Amending, Records
  <2>4. CASE pc'[q] = "write" /\ (req'[q] \in NodeRequest => Records(event'[q], req'[q]))
    BY <2>4 DEF Amending, Records
  <2> QED
    BY <2>2, <2>3, <2>4
<1>6. GrantsRecorded(NoAuthorization) /\ RevocationsRecorded(NoAuthorization)
  BY DEF GrantsRecorded, RevocationsRecorded, NoAuthorization
<1>7. StatesRecorded'
  <2>1. \A a : GrantsRecorded(a) => \A n \in Nodes :
          /\ a.registrars[n] # "absent" => RegistrarGrants(n)' # {}
          /\ a.vc_issuers[n] # "absent" => IssuerGrants(n)' # {}
          /\ a.discovery_nodes[n].status # "absent" => DiscoveryGrants(n)' # {}
          /\ a.discovery_nodes[n].authorizedDomains \subseteq
               {AnyDomain} \cup UNION {bulletin'[i].payload.authorizedDomains :
                   i \in EventsOf({"DISCOVERY_NODE_DOMAINS_UPDATED"}, n)'}
    BY DEF GrantsRecorded, RegistrarGrants, IssuerGrants, DiscoveryGrants, EventsOf
  <2>2. GrantsRecorded(authorization)'
    BY <2>1 DEF ReplayInv, StatesRecorded, GrantsArePublished, GrantsRecorded
  <2>3. GrantsRecorded(snapshot)'
    BY <1>6, <2>1 DEF ReplayInv, StatesRecorded, GrantsArePublished, GrantsRecorded
  <2>4. \A n : EventsOf({"NODE_REVOKED"}, n)' = EventsOf({"NODE_REVOKED"}, n)
    BY DEF EventsOf
  <2>5. (RevocationsRecorded(authorization) /\ RevocationsRecorded(snapshot))'
    BY <1>6, <2>4 DEF ReplayInv, StatesRecorded, RevocationsRecorded
  <2> QED
    BY <2>2, <2>3, <2>5 DEF StatesRecorded, GrantsArePublished
<1>8. faults' = 0 /\ (\A q \in Procs : pc'[q] # "authorization") => Replays(authorization)'
  BY <1>1, <1>3 DEF ReplayInv
<1>9. Len(Seed) <= Len(bulletin')
  BY DEF ReplayInv
<1> QED
  BY <1>5, <1>7, <1>8, <1>9 DEF ReplayInv

LEMMA WriteKeepsReplay ==
    ASSUME Inv, ReplayInv, NEW p \in Procs, WriteBulletin(p)
    PROVE  ReplayInv'
<1>1. /\ pc[p] = "write" /\ (\A q \in Procs \ {p} : pc[q] = "idle")
      /\ \/ req[p] \in PublishRequest /\ event[p] \in AgentEvent
         \/ req[p] \in NodeRequest /\ event[p] \in NodeEvent
  BY OneHandler DEF WriteBulletin, At, Inv, Handlers, Serving
<1>2. /\ Len(bulletin') = Len(bulletin) + 1
      /\ bulletin'[Len(bulletin) + 1] = event[p]
      /\ Len(bulletin) \in Nat /\ Len(Seed) \in Nat
      /\ Len(Seed) <= Len(bulletin)
  BY WriteKeepsBulletin, LenProperties, SeedEvents DEF Inv, TypeOK, FilesTypeOK, ReplayInv
<1>3. /\ UNCHANGED <<authorization, snapshot, torn, req, event, faults>>
      /\ pc' = [pc EXCEPT ![p] = IF req[p].op = "publish" THEN "archive" ELSE "authorization"]
  BY DEF WriteBulletin, GoTo
<1>4. /\ \A q \in Procs \ {p} : pc'[q] = "idle"
      /\ pc'[p] = IF req[p].op = "publish" THEN "archive" ELSE "authorization"
  BY <1>1, <1>3 DEF Inv, TypeOK, HandlersTypeOK
<1>5. faults = 0 => Replays(authorization)
  BY <1>1 DEF ReplayInv
<1>6. StatesRecorded'
  BY WriteKeepsGrants
<1>7. Len(Seed) <= Len(bulletin') /\ (faults' = 0 => torn' \subseteq QueueFiles)
  BY <1>2, <1>3 DEF ReplayInv
<1>8. CASE req[p] \in PublishRequest /\ event[p] \in AgentEvent
  <2>1. req[p].op = "publish"
    BY <1>8 DEF PublishRequest
  <2>2. faults' = 0 => Replays(authorization)'
    BY <1>3, <1>5, <1>8, WriteOfAgentReplays
  <2>3. \A q \in Procs : Amending(q)'
    BY <1>4, <2>1 DEF Amending
  <2> QED
    BY <1>6, <1>7, <2>2, <2>3 DEF ReplayInv
<1>9. CASE req[p] \in NodeRequest /\ event[p] \in NodeEvent
  <2>1. req[p].op # "publish"
    BY <1>9 DEF NodeRequest
  <2>2. Records(event[p], req[p])
    BY <1>1, <1>9 DEF ReplayInv, Amending
  <2>3. Records(bulletin[Len(bulletin)], req[p])'
    BY <1>2, <1>3, <2>2 DEF Records, NodeEventType
  <2>4. faults' = 0 => Replays(AmendedFor(authorization, req[p]))'
    BY <1>3, <1>5, <1>9, WriteOfNodeReplays
  <2>5. Len(Seed) < Len(bulletin')
    BY <1>2
  <2>6. Amending(p)'
    BY <1>4, <2>1, <2>3, <2>4, <2>5 DEF Amending
  <2>7. \A q \in Procs : Amending(q)'
    BY <1>4, <2>6 DEF Amending
  <2> QED
    BY <1>4, <1>6, <1>7, <2>1, <2>7 DEF ReplayInv
<1> QED
  BY <1>1, <1>8, <1>9

LEMMA UpdateKeepsReplay ==
    ASSUME Inv, ReplayInv, NEW p \in Procs, UpdateAuthorization(p)
    PROVE  ReplayInv'
<1>1. /\ pc[p] = "authorization" /\ req[p] \in NodeRequest
      /\ UNCHANGED <<bulletin, snapshot, faults>>
  BY DEF UpdateAuthorization, At, Inv, Handlers, Serving, historyVars
<1>2. \A q \in Procs : pc'[q] = "idle"
  BY <1>1, OneHandler DEF UpdateAuthorization, Return, GoTo, Inv, TypeOK, HandlersTypeOK
<1>3. \/ authorization' = authorization /\ torn' = torn
         /\ LoadAuthorization.discovery_nodes[req[p].did].status = "absent"
         /\ req[p].op = "update_domains"
      \/ authorization' = AmendedFor(LoadAuthorization, req[p])
         /\ torn' = torn \ {"authorization"}
  BY DEF UpdateAuthorization, AmendedFor
<1>4. /\ LoadAuthorization \in Authorization
      /\ GrantsRecorded(LoadAuthorization) /\ RevocationsRecorded(LoadAuthorization)
  BY LoadAuthorizationType
  DEF Inv, TypeOK, FilesTypeOK, LoadAuthorization, ReplayInv, StatesRecorded, GrantsArePublished
<1>5. GrantsRecorded(authorization') /\ RevocationsRecorded(authorization')
  <2>1. /\ GrantsRecorded(authorization) /\ RevocationsRecorded(authorization)
        /\ GrantsRecorded(AmendedFor(LoadAuthorization, req[p]))
        /\ RevocationsRecorded(AmendedFor(LoadAuthorization, req[p]))
    BY <1>1, <1>4, AmendedIsRecorded DEF ReplayInv, StatesRecorded, GrantsArePublished
  <2> QED
    BY <1>3, <2>1
<1>6. ASSUME faults = 0
      PROVE  Replays(authorization')
  <2>1. LoadAuthorization = authorization
    BY <1>6 DEF ReplayInv, QueueFiles, LoadAuthorization
  <2>2. Replays(AmendedFor(authorization, req[p]))
    BY <1>1, <1>6 DEF ReplayInv, Amending
  <2>3. authorization' = AmendedFor(authorization, req[p])
    BY <1>3, <2>1 DEF AmendedFor
  <2> QED
    BY <2>2, <2>3
<1>7. StatesRecorded'
  <2>1. GrantsRecorded(authorization') => GrantsRecorded(authorization)'
    BY <1>1 DEF GrantsRecorded, RegistrarGrants, IssuerGrants, DiscoveryGrants, EventsOf
  <2>2. GrantsRecorded(snapshot) => GrantsRecorded(snapshot)'
    BY <1>1 DEF GrantsRecorded, RegistrarGrants, IssuerGrants, DiscoveryGrants, EventsOf
  <2>3. \A n : EventsOf({"NODE_REVOKED"}, n)' = EventsOf({"NODE_REVOKED"}, n)
    BY <1>1 DEF EventsOf
  <2>4. (RevocationsRecorded(authorization) /\ RevocationsRecorded(snapshot))'
    BY <1>1, <1>5, <2>3 DEF ReplayInv, StatesRecorded, RevocationsRecorded
  <2> QED
    BY <1>5, <2>1, <2>2, <2>4 DEF ReplayInv, StatesRecorded, GrantsArePublished
<1>8. faults' = 0 => Replays(authorization)'
  <2>1. Replays(authorization') => Replays(authorization)'
    BY <1>1, PlacesStay DEF Replays
  <2> QED
    BY <1>1, <1>6, <2>1
<1>9. \A q \in Procs : Amending(q)'
  BY <1>2 DEF Amending
<1> QED
  BY <1>1, <1>3, <1>7, <1>8, <1>9 DEF ReplayInv

LEMMA NextKeepsReplay == Inv /\ ReplayInv /\ [OpenNext]_rootVars => ReplayInv'
<1> SUFFICES ASSUME Inv, ReplayInv, [OpenNext]_rootVars
             PROVE  ReplayInv'
  OBVIOUS
<1>0. faults \in Nat /\ pc \in [Procs -> Writing \cup {"idle", "verify", "read"}]
      /\ req \in [Procs -> Requests \cup {NoRequest}] /\ event \in [Procs -> Event \cup {NoEvent}]
  BY DEF Inv, TypeOK, HistoryTypeOK, HandlersTypeOK
<1>00. faults = 0 => torn \subseteq QueueFiles
  BY DEF ReplayInv
<1>1. ASSUME NEW p \in Procs, NEW r \in Requests, Acquire(p, r)
      PROVE  ReplayInv'
  <2>1. /\ pc[p] = "idle" /\ pc'[p] \notin {"write", "authorization"}
        /\ \A q \in Procs \ {p} : pc'[q] = pc[q] /\ req'[q] = req[q] /\ event'[q] = event[q]
        /\ UNCHANGED <<bulletin, authorization, snapshot, torn, faults>>
    BY <1>0, <1>1 DEF Acquire, At, GoTo, fileVars, historyVars
  <2> QED
    BY <1>0, <1>00, <2>1, OthersKeepReplay
<1>2. ASSUME NEW p \in Procs, VerifyRequest(p)
      PROVE  ReplayInv'
  <2>1. /\ pc[p] = "verify" /\ pc'[p] = "write" /\ req'[p] \notin NodeRequest
        /\ \A q \in Procs \ {p} : pc'[q] = pc[q] /\ req'[q] = req[q] /\ event'[q] = event[q]
        /\ UNCHANGED <<bulletin, authorization, snapshot, torn, faults>>
    BY <1>0, <1>2 DEF VerifyRequest, At, GoTo, fileVars, historyVars, Inv, Handlers, Serving,
       PublishRequest, NodeRequest
  <2> QED
    BY <1>0, <1>00, <2>1, OthersKeepReplay
<1>3. ASSUME NEW p \in Procs, ReadBulletin(p)
      PROVE  ReplayInv'
  <2>1. /\ pc[p] = "read" /\ pc'[p] = "write" /\ Records(event'[p], req'[p])
        /\ \A q \in Procs \ {p} : pc'[q] = pc[q] /\ req'[q] = req[q] /\ event'[q] = event[q]
        /\ UNCHANGED <<bulletin, authorization, snapshot, torn, faults>>
    BY <1>0, <1>3 DEF ReadBulletin, At, GoTo, fileVars, historyVars, Records
  <2> QED
    BY <1>0, <1>00, <2>1, OthersKeepReplay
<1>4. ASSUME NEW p \in Procs,
             \/ VerifyNonce(p) \/ ArchiveVerified(p) \/ UpdateLatestVersion(p)
             \/ \E queue \in SUBSET cdnJson : EnqueueCdnJson(p, queue)
             \/ EnqueueCdnSql(p)
             \/ \E queue \in SUBSET discoveryJson : EnqueueDiscoveryJson(p, queue)
      PROVE  ReplayInv'
  <2>1. /\ pc[p] \in {"nonce"} \cup Distributing
        /\ UNCHANGED <<bulletin, authorization, snapshot, faults>>
        /\ torn' \subseteq torn
    BY <1>4 DEF VerifyNonce, ArchiveVerified, UpdateLatestVersion, EnqueueCdnJson, At,
       EnqueueCdnSql, EnqueueDiscoveryJson, fileVars, historyVars, Distributing
  <2>2. \/ /\ UNCHANGED <<req, event>>
           /\ \E next \in {"verify"} \cup Distributing : GoTo(p, next)
        \/ Return(p)
    BY <1>4 DEF VerifyNonce, ArchiveVerified, UpdateLatestVersion, EnqueueCdnJson,
       EnqueueCdnSql, EnqueueDiscoveryJson, Respond, Distributing
  <2>3. /\ pc'[p] \notin {"write", "authorization"}
        /\ \A q \in Procs \ {p} : pc'[q] = pc[q] /\ req'[q] = req[q] /\ event'[q] = event[q]
    BY <1>0, <2>2 DEF Return, GoTo, Distributing
  <2>4. pc[p] # "authorization"
    BY <2>1 DEF Distributing
  <2> QED
    BY <1>0, <1>00, <2>1, <2>3, <2>4, OthersKeepReplay
<1>5. ASSUME NEW p \in Procs, RejectRequest(p) \/ FailRead(p) \/ EnqueueDiscoverySql(p)
      PROVE  ReplayInv'
  <2>1. /\ pc[p] \in {"nonce", "verify", "read", "discovery_sql"} /\ Return(p)
        /\ UNCHANGED <<bulletin, authorization, snapshot, faults, torn>>
    BY <1>5 DEF RejectRequest, FailRead, EnqueueDiscoverySql, Respond, At, fileVars, historyVars
  <2>2. /\ pc'[p] = "idle" /\ pc[p] # "authorization"
        /\ \A q \in Procs \ {p} : pc'[q] = pc[q] /\ req'[q] = req[q] /\ event'[q] = event[q]
    BY <1>0, <2>1 DEF Return, GoTo
  <2> QED
    BY <1>0, <1>00, <2>1, <2>2, OthersKeepReplay
<1>6. ASSUME NEW p \in Procs, Abandon(p)
      PROVE  ReplayInv'
  <2>1. /\ Return(p) /\ faults' = faults + 1
        /\ UNCHANGED <<bulletin, authorization, snapshot>>
    BY <1>6 DEF Abandon
  <2>2. /\ pc'[p] = "idle"
        /\ \A q \in Procs \ {p} : pc'[q] = pc[q] /\ req'[q] = req[q] /\ event'[q] = event[q]
    BY <1>0, <2>1 DEF Return, GoTo
  <2>3. faults' \in Nat /\ faults <= faults' /\ faults' # 0
    BY <1>0, <2>1
  <2> QED
    BY <1>0, <2>1, <2>2, <2>3, OthersKeepReplay
<1>7. CASE \E tears \in SUBSET Truncations : Restart(tears)
  <2>1. /\ UNCHANGED <<bulletin, authorization>>
        /\ snapshot' \in {NoAuthorization, authorization}
        /\ \A q \in Procs : pc'[q] = "idle"
        /\ faults' = faults + 1
    BY <1>7 DEF Restart
  <2>2. faults' \in Nat /\ faults <= faults' /\ faults' # 0
    BY <1>0, <2>1
  <2> QED
    BY <1>0, <2>1, <2>2, OthersKeepReplay
<1>8. CASE UNCHANGED rootVars
  BY <1>0, <1>00, <1>8, OthersKeepReplay DEF rootVars, fileVars, handlerVars, historyVars
<1>9. CASE OthersQueue
  <2>1. /\ UNCHANGED <<bulletin, authorization, snapshot, pc, req, event>>
        /\ torn' \ QueueFiles = torn \ QueueFiles
        /\ faults' \in Nat /\ faults <= faults'
    BY <1>9 DEF OthersQueue, handlerVars
  <2>2. faults' = 0 => torn' \subseteq QueueFiles
    BY <1>0, <1>00, <2>1
  <2> QED
    BY <1>0, <2>1, <2>2, OthersKeepReplay
<1> QED
  BY <1>1, <1>2, <1>3, <1>4, <1>5, <1>6, <1>7, <1>8, <1>9, WriteKeepsReplay, UpdateKeepsReplay
  DEF OpenNext, OpenStep

LEMMA ReplayInvariance == OpenSpec => []ReplayInv
<1>1. Init => ReplayInv
  <2> SUFFICES ASSUME Init
               PROVE  ReplayInv
    OBVIOUS
  <2>1. Len(bulletin) = Len(Seed) /\ Len(Seed) \in Nat
    BY SeedEvents, LenProperties DEF Init
  <2>2. \A types, n : EventsOf(types, n) = {}
    BY <2>1 DEF EventsOf
  <2>3. authorization = NoAuthorization /\ snapshot = NoAuthorization
        /\ torn = {} /\ \A p \in Procs : pc[p] = "idle"
    BY DEF Init
  <2>4. \A n : RegistrarGrants(n) = {} /\ IssuerGrants(n) = {} /\ DiscoveryGrants(n) = {}
    BY <2>2 DEF RegistrarGrants, IssuerGrants, DiscoveryGrants
  <2>5. Replays(authorization)
    BY <2>3, <2>4 DEF Replays, StatusFrom, DomainsFrom, NoAuthorization
  <2>6. StatesRecorded
    BY <2>3 DEF StatesRecorded, GrantsArePublished, GrantsRecorded, RevocationsRecorded, NoAuthorization
  <2> QED
    BY <2>1, <2>3, <2>5, <2>6 DEF ReplayInv, Amending
<1> QED
  BY <1>1, NextKeepsReplay, Invariance, PTL DEF OpenSpec

LEMMA FollowsBesideOthers == OpenSpec => []AuthorizationFollowsBulletin
<1>1. Inv /\ ReplayInv => AuthorizationFollowsBulletin
  <2> SUFFICES ASSUME Inv, ReplayInv
               PROVE  AuthorizationFollowsBulletin
    OBVIOUS
  <2>1. lock = NoProc => \A p \in Procs : pc[p] # "authorization"
    BY ConstantsAssumption DEF Inv, Handlers, Serving
  <2>2. AuthorizationReplaysBulletin
    BY <2>1 DEF AuthorizationReplaysBulletin, ReplayInv, Replays
  <2> QED
    BY <2>2 DEF AuthorizationFollowsBulletin, ReplayInv, StatesRecorded
<1> QED
  BY <1>1, ReplayInvariance, Invariance, PTL

\* Root's authorization file follows its bulletin: without failures it is the
\* replay of the log whenever no handler is on its way, and whatever fails neither
\* the file nor the snapshot grants a role or a domain that no event records
\* (append_event before update_authorization_state, under AppState.lock).
THEOREM AuthorizationFollows == Spec => []AuthorizationFollowsBulletin
BY FollowsBesideOthers, SpecIsOpen, PTL
=============================================================================
