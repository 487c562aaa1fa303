------------------------- MODULE DiscoveryNodeProofs -------------------------
(***************************************************************************)
(* Proofs about the CDN and the Discovery node, for any numbers of tasks,  *)
(* syncs, Agents and documents, any bulletin, and any failures.            *)
(***************************************************************************)
EXTENDS DiscoveryNode, TLAPS

----------------------------------------------------------------------------
(* The CDN *)

\* A task under way holds the lock and carries a package.
Serving ==
    \A t \in CdnTasks : cdnPc[t] # "idle" => cdnLock = t /\ cdnReq[t] \in Package

\* A file under an Agent's name is of that Agent.
Named == \A kind \in Kinds, a \in Agents : files[kind][a] \in Package => files[kind][a].did = a

\* A task that has come to the manifest has written the package file.
PackagePresent ==
    \A t \in CdnTasks : cdnPc[t] = "manifest" => files["packages"][cdnReq[t].did] # Absent

\* The files a task has behind it.
Behind(kind, at) ==
    \/ kind = "documents" /\ at \in {"metadata", "packages", "manifest"}
    \/ kind = "metadata" /\ at \in {"packages", "manifest"}
    \/ kind = "packages" /\ at = "manifest"

UnderWay(a) == \E t \in CdnTasks : cdnPc[t] # "idle" /\ cdnReq[t].did = a

\* Before anything fails: the files a task has behind it are of its package, and
\* those of the Agents no task is about are of the package accepted, as the
\* manifest is for everybody.
Whole ==
    faults = 0 =>
        /\ \A t \in CdnTasks, kind \in Kinds :
              Behind(kind, cdnPc[t]) => files[kind][cdnReq[t].did] = cdnReq[t]
        /\ \A a \in Agents : accepted[a] # NoPackage =>
              /\ Readable(manifest)
              /\ {e \in manifest : e.did = a} = {EntryOf(accepted[a])}
              /\ ~UnderWay(a) => \A kind \in Kinds : files[kind][a] = accepted[a]

CdnInv ==
    /\ CdnTypeOK /\ faults \in Nat
    /\ Serving /\ Named /\ PackagePresent /\ AcceptedStaysListed /\ Whole

LEMMA PackageParts ==
    ASSUME NEW package \in Package
    PROVE  /\ package.did \in Agents /\ package.didDocument \in Documents
           /\ package.sequence \in Nat /\ package.flaws \subseteq Flaws
           /\ EntryOf(package) \in ManifestEntry /\ EntryOf(package).did = package.did
           /\ package # Absent /\ package # Torn
    BY CdnAssumption DEF Package, EntryOf, ManifestEntry

LEMMA CdnInvInit == CdnInit => CdnInv
<1> SUFFICES ASSUME CdnInit PROVE CdnInv
    OBVIOUS
<1>1. PICK found \in SUBSET Altered :
        /\ files = [kind \in Kinds |-> [a \in Agents |->
             IF \E x \in found : x.did = a THEN CHOOSE x \in found : x.did = a ELSE Absent]]
        /\ manifest = IF found = {} THEN Absent ELSE {EntryOf(x) : x \in found}
    BY DEF CdnInit
<1>2. found \subseteq Package
    BY <1>1, CdnAssumption
<1>3. /\ files \in [Kinds -> [Agents -> Package \cup {Absent, Torn}]]
      /\ Named
  <2>1. ASSUME NEW kind \in Kinds, NEW a \in Agents
        PROVE  \/ files[kind][a] \in Package /\ files[kind][a].did = a
               \/ files[kind][a] = Absent
      BY <1>1, <1>2
  <2>2. files = [kind \in Kinds |-> [a \in Agents |-> files[kind][a]]]
      BY <1>1
  <2>3. Absent \notin Package
      BY CdnAssumption
  <2>4. \A kind \in Kinds : files[kind] \in [Agents -> Package \cup {Absent, Torn}]
    <3> SUFFICES ASSUME NEW kind \in Kinds PROVE files[kind] \in [Agents -> Package \cup {Absent, Torn}]
        OBVIOUS
    <3>1. files[kind] = [a \in Agents |-> files[kind][a]]
        BY <1>1
    <3> QED
        BY <2>1, <3>1
  <2>5. Named
      BY <2>1, <2>3 DEF Named
  <2> QED
      BY <1>1, <2>4, <2>5
<1>4. manifest \in {Absent, Torn} \/ manifest \subseteq ManifestEntry
    BY <1>1, <1>2, PackageParts
<1>5. CdnTypeOK
    BY <1>3, <1>4 DEF CdnInit, CdnTypeOK
<1>6. \A t \in CdnTasks : cdnPc[t] = "idle"
    BY DEF CdnInit
<1>7. \A a \in Agents : accepted[a] = NoPackage
    BY DEF CdnInit
<1>8. faults = 0
    BY DEF CdnInit
<1>9. Serving /\ PackagePresent /\ AcceptedStaysListed /\ Whole
    BY <1>6, <1>7 DEF Serving, PackagePresent, AcceptedStaysListed, Whole, Behind
<1> QED
    BY <1>3, <1>5, <1>8, <1>9 DEF CdnInv

\* Nobody else is under way beside a task that is.
LEMMA OneTask ==
    ASSUME Serving, NEW t \in CdnTasks, cdnPc[t] # "idle",
           NEW u \in CdnTasks, cdnPc[u] # "idle"
    PROVE  u = t
    BY DEF Serving

LEMMA ReceiveKeeps ==
    ASSUME CdnInv, NEW t \in CdnTasks, NEW package \in Package, Receive(t, package)
    PROVE  CdnInv'
<1>1. /\ UNCHANGED <<files, manifest, accepted, faults>>
      /\ cdnPc' = [cdnPc EXCEPT ![t] = "documents"] /\ cdnReq' = [cdnReq EXCEPT ![t] = package]
      /\ cdnLock' = t /\ cdnLock = NoTask
    BY DEF Receive, fileVars
<1>2. /\ cdnPc \in [CdnTasks -> Kinds \cup {"idle", "manifest"}]
      /\ cdnReq \in [CdnTasks -> Package \cup {NoPackage}]
    BY DEF CdnInv, CdnTypeOK
<1>3. \A u \in CdnTasks : cdnPc[u] = "idle"
    BY <1>1, CdnAssumption DEF CdnInv, Serving
<1>4. /\ cdnPc'[t] = "documents" /\ cdnReq'[t] = package
      /\ \A u \in CdnTasks : u # t => cdnPc'[u] = "idle"
    BY <1>1, <1>2, <1>3
<1>5. CdnTypeOK'
    BY <1>1, <1>2 DEF CdnInv, CdnTypeOK, Kinds
<1>6. Serving' /\ Named' /\ PackagePresent'
    BY <1>1, <1>4 DEF CdnInv, Serving, Named, PackagePresent
<1>7. AcceptedStaysListed'
    BY <1>1 DEF CdnInv, AcceptedStaysListed, Listed, ReadManifest, Readable
<1>8. Whole'
  <2> SUFFICES ASSUME faults = 0 PROVE Whole'
      BY <1>1 DEF Whole
  <2>1. \A u \in CdnTasks, kind \in Kinds : ~Behind(kind, cdnPc'[u])
      BY <1>4 DEF Behind
  <2>2. \A a : ~UnderWay(a)
      BY <1>3 DEF UnderWay
  <2> QED
      BY <1>1, <2>1, <2>2 DEF CdnInv, Whole, Readable
<1> QED
    BY <1>1, <1>5, <1>6, <1>7, <1>8 DEF CdnInv

LEMMA WriteFileKeeps ==
    ASSUME CdnInv, NEW t \in CdnTasks, WriteFile(t)
    PROVE  CdnInv'
<1> DEFINE kind == cdnPc[t]
           package == cdnReq[t]
           next == Following[kind]
<1>1. /\ kind \in Kinds /\ kind # "idle"
      /\ files' = [files EXCEPT ![kind][package.did] = package]
      /\ cdnPc' = [cdnPc EXCEPT ![t] = next]
      /\ UNCHANGED <<manifest, cdnLock, cdnReq, accepted, faults>>
    BY DEF WriteFile, Kinds
<1>2. package \in Package /\ package.did \in Agents /\ package # Absent
    BY <1>1, PackageParts DEF CdnInv, Serving
<1>3. /\ files \in [Kinds -> [Agents -> Package \cup {Absent, Torn}]]
      /\ cdnPc \in [CdnTasks -> Kinds \cup {"idle", "manifest"}]
    BY DEF CdnInv, CdnTypeOK
<1>4. /\ files' \in [Kinds -> [Agents -> Package \cup {Absent, Torn}]]
      /\ files'[kind][package.did] = package
      /\ \A k \in Kinds, a \in Agents : k # kind \/ a # package.did => files'[k][a] = files[k][a]
    BY <1>1, <1>2, <1>3
<1>5. /\ next \in Kinds \cup {"manifest"} /\ cdnPc'[t] = next
      /\ cdnPc' \in [CdnTasks -> Kinds \cup {"idle", "manifest"}]
      /\ \A u \in CdnTasks : u # t => cdnPc'[u] = cdnPc[u] /\ cdnPc[u] = "idle"
  <2>1. next \in Kinds \cup {"manifest"}
      BY <1>1 DEF Following, Kinds
  <2>2. \A u \in CdnTasks : u # t => cdnPc[u] = "idle"
      BY <1>1, OneTask DEF CdnInv
  <2> QED
      BY <1>1, <1>3, <2>1, <2>2
<1>6. CdnTypeOK'
    BY <1>1, <1>4, <1>5 DEF CdnInv, CdnTypeOK
<1>7. Serving'
    BY <1>1, <1>2, <1>5 DEF CdnInv, Serving
<1>8. Named'
    BY <1>4, <1>2 DEF CdnInv, Named
<1>9. PackagePresent'
  <2>1. next = "manifest" => kind = "packages"
      BY <1>1 DEF Following, Kinds
  <2> QED
      BY <1>1, <1>2, <1>4, <1>5, <2>1 DEF PackagePresent
<1>10. AcceptedStaysListed'
  <2>1. "packages" \in Kinds
      BY DEF Kinds
  <2>2. \A a \in Agents : files["packages"][a] # Absent => files'["packages"][a] # Absent
      BY <1>2, <1>4, <2>1
  <2> QED
      BY <1>1, <2>2 DEF CdnInv, AcceptedStaysListed, Listed, ReadManifest, Readable
<1>11. Whole'
  <2> SUFFICES ASSUME faults = 0 PROVE Whole'
      BY <1>1 DEF Whole
  <2>1. \A k \in Kinds : Behind(k, next) => k = kind \/ Behind(k, kind)
      BY <1>1 DEF Behind, Following, Kinds
  <2>2. \A u \in CdnTasks, k \in Kinds : Behind(k, cdnPc'[u]) => files'[k][cdnReq'[u].did] = cdnReq'[u]
    <3> SUFFICES ASSUME NEW u \in CdnTasks, NEW k \in Kinds, Behind(k, cdnPc'[u])
                 PROVE  files'[k][cdnReq'[u].did] = cdnReq'[u]
        OBVIOUS
    <3>1. u = t
        BY <1>5 DEF Behind
    <3>2. CASE k = kind
        BY <1>1, <1>4, <3>1, <3>2
    <3>3. CASE k # kind
      <4>1. Behind(k, kind)
          BY <1>5, <2>1, <3>1, <3>3
      <4>2. files[k][package.did] = package
          BY <4>1 DEF CdnInv, Whole
      <4> QED
          BY <1>1, <1>2, <1>4, <3>1, <3>3, <4>2
    <3> QED
        BY <3>2, <3>3
  <2>3. ASSUME NEW a \in Agents, ~UnderWay(a)'
        PROVE  ~UnderWay(a) /\ \A k \in Kinds : files'[k][a] = files[k][a]
    <3>1. a # package.did
        BY <1>1, <1>5, <2>3 DEF UnderWay, Kinds
    <3>2. ~UnderWay(a)
        BY <1>5, <3>1 DEF UnderWay
    <3> QED
        BY <1>4, <3>1, <3>2
  <2> QED
      BY <1>1, <2>2, <2>3 DEF CdnInv, Whole, Readable
<1> QED
    BY <1>1, <1>6, <1>7, <1>8, <1>9, <1>10, <1>11 DEF CdnInv

\* What a new manifest is.
LEMMA Relisted ==
    ASSUME CdnInv, NEW package \in Package
    PROVE  /\ Relist(package) \subseteq ManifestEntry
           /\ Readable(Relist(package))
           /\ EntryOf(package) \in Relist(package)
           /\ {e \in Relist(package) : e.did = package.did} = {EntryOf(package)}
           /\ \A a : a # package.did =>
                {e \in Relist(package) : e.did = a} = {e \in ReadManifest : e.did = a}
<1>1. EntryOf(package) \in ManifestEntry /\ EntryOf(package).did = package.did
    BY PackageParts
<1>2. ReadManifest \subseteq ManifestEntry
    BY DEF CdnInv, CdnTypeOK, ReadManifest, Readable
<1>3. Relist(package) \subseteq ManifestEntry
    BY <1>1, <1>2 DEF Relist
<1>4. Readable(Relist(package))
    BY <1>3, CdnAssumption DEF Readable
<1> QED
    BY <1>1, <1>3, <1>4 DEF Relist

\* Both ends of a publication: the manifest is written and the lock given back.
LEMMA ManifestWritten ==
    ASSUME CdnInv, NEW t \in CdnTasks, WriteManifest(t),
           faults' \in Nat,
           \/ UNCHANGED accepted /\ faults' # 0
           \/ accepted' = [accepted EXCEPT ![cdnReq[t].did] = cdnReq[t]] /\ faults' = faults
    PROVE  CdnInv'
<1> DEFINE package == cdnReq[t]
<1>1. /\ cdnPc[t] = "manifest" /\ manifest' = Relist(package) /\ files' = files
      /\ cdnPc' = [cdnPc EXCEPT ![t] = "idle"]
      /\ cdnReq' = [cdnReq EXCEPT ![t] = NoPackage]
      /\ cdnLock' = NoTask
    BY DEF WriteManifest, Answer
<1>2. package \in Package /\ package.did \in Agents
    BY <1>1, PackageParts DEF CdnInv, Serving
<1>3. /\ cdnPc \in [CdnTasks -> Kinds \cup {"idle", "manifest"}]
      /\ cdnReq \in [CdnTasks -> Package \cup {NoPackage}]
      /\ accepted \in [Agents -> Package \cup {NoPackage}]
    BY DEF CdnInv, CdnTypeOK
<1>4. \A u \in CdnTasks : cdnPc'[u] = "idle"
  <2>1. \A u \in CdnTasks : u # t => cdnPc[u] = "idle"
      BY <1>1, OneTask DEF CdnInv
  <2> QED
      BY <1>1, <1>3, <2>1
<1>5. /\ accepted' \in [Agents -> Package \cup {NoPackage}]
      /\ \A a \in Agents : a # package.did => accepted'[a] = accepted[a]
      /\ faults' = 0 => accepted'[package.did] = package /\ faults = 0
    BY <1>2, <1>3
<1>6. CdnTypeOK'
  <2>1. manifest' \subseteq ManifestEntry
      BY <1>1, <1>2, Relisted
  <2> QED
      BY <1>1, <1>3, <1>5, <2>1 DEF CdnInv, CdnTypeOK
<1>7. Serving' /\ Named' /\ PackagePresent'
    BY <1>1, <1>4 DEF CdnInv, Serving, Named, PackagePresent
<1>8. AcceptedStaysListed'
  <2> SUFFICES ASSUME "manifest" \notin CdnTearable, NEW a \in Agents, accepted'[a] # NoPackage
               PROVE  Listed(a)' /\ files'["packages"][a] # Absent
      BY DEF AcceptedStaysListed
  <2>1. CASE a = package.did
    <3>1. files["packages"][a] # Absent
        BY <1>1, <2>1 DEF CdnInv, PackagePresent
    <3>2. EntryOf(package) \in ReadManifest' /\ EntryOf(package).did = a
        BY <1>1, <1>2, <2>1, Relisted, PackageParts DEF ReadManifest
    <3> QED
        BY <1>1, <3>1, <3>2 DEF Listed
  <2>2. CASE a # package.did
    <3>1. PICK e \in ReadManifest : e.did = a
        BY <1>5, <2>2 DEF CdnInv, AcceptedStaysListed, Listed
    <3>2. e \in ReadManifest'
        BY <1>1, <1>2, <2>2, <3>1, Relisted DEF ReadManifest
    <3>3. files["packages"][a] # Absent
        BY <1>5, <2>2 DEF CdnInv, AcceptedStaysListed
    <3> QED
        BY <1>1, <3>1, <3>2, <3>3 DEF Listed
  <2> QED
      BY <2>1, <2>2
<1>9. Whole'
  <2> SUFFICES ASSUME faults' = 0
               PROVE  /\ \A u \in CdnTasks, kind \in Kinds :
                            Behind(kind, cdnPc'[u]) => files'[kind][cdnReq'[u].did] = cdnReq'[u]
                      /\ \A a \in Agents : accepted'[a] # NoPackage =>
                            /\ Readable(manifest')
                            /\ {e \in manifest' : e.did = a} = {EntryOf(accepted'[a])}
                            /\ \A kind \in Kinds : files'[kind][a] = accepted'[a]
      BY DEF Whole, Readable, EntryOf
  <2>1. \A u \in CdnTasks, kind \in Kinds : ~Behind(kind, cdnPc'[u])
      BY <1>4 DEF Behind
  <2>2. ASSUME NEW a \in Agents, accepted'[a] # NoPackage
        PROVE  /\ Readable(manifest')
               /\ {e \in manifest' : e.did = a} = {EntryOf(accepted'[a])}
               /\ \A kind \in Kinds : files'[kind][a] = accepted'[a]
    <3>1. Readable(manifest')
        BY <1>1, <1>2, Relisted
    <3>2. CASE a = package.did
      <4>1. \A kind \in Kinds : files[kind][a] = package
        <5>1. \A kind \in Kinds : Behind(kind, cdnPc[t])
            BY <1>1 DEF Behind, Kinds
        <5> QED
            BY <1>5, <3>2, <5>1 DEF CdnInv, Whole
      <4> QED
          BY <1>1, <1>2, <1>5, <3>1, <3>2, <4>1, Relisted
    <3>3. CASE a # package.did
      <4>1. ~UnderWay(a)
          BY <1>1, <3>3, OneTask DEF CdnInv, UnderWay
      <4>2. /\ Readable(manifest) /\ {e \in manifest : e.did = a} = {EntryOf(accepted[a])}
            /\ \A kind \in Kinds : files[kind][a] = accepted[a]
          BY <1>5, <2>2, <3>3, <4>1 DEF CdnInv, Whole
      <4>3. {e \in manifest' : e.did = a} = {e \in manifest : e.did = a}
          BY <1>1, <1>2, <3>3, <4>2, Relisted DEF ReadManifest
      <4> QED
          BY <1>1, <1>5, <3>1, <3>3, <4>2, <4>3
    <3> QED
        BY <3>2, <3>3
  <2> QED
      BY <2>1, <2>2
<1> QED
    BY <1>6, <1>7, <1>8, <1>9 DEF CdnInv

LEMMA InterruptKeeps ==
    ASSUME CdnInv, NEW t \in CdnTasks, InterruptPublish(t)
    PROVE  CdnInv'
<1> DEFINE package == cdnReq[t]
<1>1. /\ cdnPc[t] # "idle" /\ faults' = faults + 1 /\ UNCHANGED accepted
      /\ cdnPc' = [cdnPc EXCEPT ![t] = "idle"]
      /\ cdnReq' = [cdnReq EXCEPT ![t] = NoPackage]
      /\ cdnLock' = NoTask
      /\ Interrupted(t)
    BY DEF InterruptPublish, Answer
<1>2. package \in Package /\ package.did \in Agents
    BY <1>1, PackageParts DEF CdnInv, Serving
<1>3. /\ files \in [Kinds -> [Agents -> Package \cup {Absent, Torn}]]
      /\ cdnPc \in [CdnTasks -> Kinds \cup {"idle", "manifest"}]
      /\ cdnReq \in [CdnTasks -> Package \cup {NoPackage}]
      /\ faults \in Nat
    BY DEF CdnInv, CdnTypeOK
<1>4. \A u \in CdnTasks : cdnPc'[u] = "idle"
  <2>1. \A u \in CdnTasks : u # t => cdnPc[u] = "idle"
      BY <1>1, OneTask DEF CdnInv
  <2> QED
      BY <1>1, <1>3, <2>1
<1>5. /\ files' \in [Kinds -> [Agents -> Package \cup {Absent, Torn}]]
      /\ \A kind \in Kinds, a \in Agents : files'[kind][a] = files[kind][a] \/ files'[kind][a] = Torn
  <2>1. CASE UNCHANGED fileVars
      BY <1>3, <2>1 DEF fileVars
  <2>2. CASE cdnPc[t] = "manifest" /\ UNCHANGED files
      BY <1>3, <2>2
  <2>3. CASE files' = [files EXCEPT ![cdnPc[t]][package.did] = Torn]
      BY <1>2, <1>3, <2>3
  <2> QED
      BY <1>1, <2>1, <2>2, <2>3 DEF Interrupted
<1>6. manifest' = manifest \/ (manifest' = Torn /\ "manifest" \in CdnTearable)
    BY <1>1 DEF Interrupted, fileVars
<1>7. CdnTypeOK'
    BY <1>1, <1>3, <1>5, <1>6 DEF CdnInv, CdnTypeOK
<1>8. Serving' /\ PackagePresent'
    BY <1>4 DEF Serving, PackagePresent
<1>9. Named'
    BY <1>5, CdnAssumption DEF CdnInv, Named
<1>10. AcceptedStaysListed'
  <2>1. "packages" \in Kinds
      BY DEF Kinds
  <2>2. \A a \in Agents : files["packages"][a] # Absent => files'["packages"][a] # Absent
      BY <1>5, <2>1, CdnAssumption
  <2> QED
      BY <1>1, <1>6, <2>2 DEF CdnInv, AcceptedStaysListed, Listed, ReadManifest, Readable
<1>11. Whole' /\ faults' \in Nat
    BY <1>1, <1>3 DEF Whole
<1> QED
    BY <1>7, <1>8, <1>9, <1>10, <1>11 DEF CdnInv

\* A step of Root or of the Discovery node leaves the CDN as it is.
LEMMA CdnRests ==
    ASSUME CdnInv, UNCHANGED <<fileVars, taskVars, accepted>>,
           faults' = faults \/ faults' = faults + 1
    PROVE  CdnInv'
<1>1. UNCHANGED <<files, manifest, cdnLock, cdnPc, cdnReq, accepted>>
    BY DEF fileVars, taskVars
<1>2. faults' \in Nat /\ (faults' = 0 => faults = 0)
    BY DEF CdnInv
<1>3. CdnTypeOK' /\ Serving' /\ Named' /\ PackagePresent'
    BY <1>1 DEF CdnInv, CdnTypeOK, Serving, Named, PackagePresent
<1>4. AcceptedStaysListed'
    BY <1>1 DEF CdnInv, AcceptedStaysListed, Listed, ReadManifest, Readable
<1>5. Whole'
    BY <1>1, <1>2 DEF CdnInv, Whole, UnderWay, Readable
<1> QED
    BY <1>2, <1>3, <1>4, <1>5 DEF CdnInv

LEMMA PublishKeeps ==
    ASSUME CdnInv, NEW t \in CdnTasks, Publish(t) \/ LoseAnswer(t)
    PROVE  CdnInv'
<1>1. CASE Publish(t)
    BY <1>1, ManifestWritten DEF Publish, CdnInv
<1>2. CASE LoseAnswer(t)
    BY <1>2, ManifestWritten DEF LoseAnswer, CdnInv
<1> QED
    BY <1>1, <1>2

----------------------------------------------------------------------------
(* The bulletin and the syncs *)

Event == AgentEvent \cup DomainsEvent

\* A package of Root: its proof is an event of the bulletin.
Proven(x) == x \in Package /\ x.flaws = {} /\ RootProofVerifies(x, bulletin)

Unambiguous(packages) == \A x, y \in packages : x.did = y.did => x = y

\* The bulletin a sync works with is an older one of Root.
Older(view) ==
    /\ view \in Seq(Event) /\ Len(view) <= Len(bulletin)
    /\ \A i \in 1..Len(view) : view[i] = bulletin[i]

SyncPlaces == {"idle", "manifest", "packages", "clear", "upsert", "history"}

SyncSound(sync) ==
    /\ sync \in [at : SyncPlaces, view : Seq(Event), todo : SUBSET Agents, indexed : SUBSET Package]
    /\ Older(sync.view)
    /\ \A x \in sync.indexed : Proven(x) /\ x.did \notin sync.todo
    /\ Unambiguous(sync.indexed)
    /\ sync.at \in {"idle", "manifest"} => sync.indexed = {}

IndexSound(packages) == (\A x \in packages : Proven(x)) /\ Unambiguous(packages)

DiscoveryInv ==
    /\ bulletin \in Seq(Event)
    /\ DOMAIN syncs = Syncs
    /\ \A s \in Syncs : SyncSound(syncs[s])
    /\ IndexSound(capabilities) /\ IndexSound(rows)

LEMMA IdleIsSound ==
    ASSUME bulletin \in Seq(Event)
    PROVE  SyncSound(IdleSync)
<1>1. /\ IdleSync.at = "idle" /\ IdleSync.view = <<>> /\ IdleSync.todo = {} /\ IdleSync.indexed = {}
      /\ IdleSync = [at |-> IdleSync.at, view |-> IdleSync.view, todo |-> IdleSync.todo,
                 indexed |-> IdleSync.indexed]
    BY DEF IdleSync
<1>2. <<>> \in Seq(Event) /\ Len(<<>>) = 0
    OBVIOUS
<1>3. Older(<<>>)
    BY <1>2 DEF Older
<1>4. IdleSync \in [at : SyncPlaces, view : Seq(Event), todo : SUBSET Agents, indexed : SUBSET Package]
    BY <1>1, <1>2 DEF SyncPlaces
<1> QED
    BY <1>1, <1>3, <1>4 DEF SyncSound, Unambiguous

LEMMA DiscoveryInvInit == DiscoveryInit => DiscoveryInv
<1> SUFFICES ASSUME DiscoveryInit PROVE DiscoveryInv
    OBVIOUS
<1>1. bulletin = <<>> /\ capabilities = {} /\ rows = {} /\ syncs = [s \in Syncs |-> IdleSync]
    BY DEF DiscoveryInit
<1>2. SyncSound(IdleSync)
    BY <1>1, IdleIsSound
<1> QED
    BY <1>1, <1>2 DEF DiscoveryInv, IndexSound, Unambiguous

\* What a sync holds stays good while the bulletin grows.
LEMMA BulletinGrows ==
    ASSUME DiscoveryInv, NEW event \in Event, bulletin' = Append(bulletin, event),
           UNCHANGED <<syncs, capabilities, rows>>
    PROVE  DiscoveryInv'
<1>1. /\ bulletin' \in Seq(Event) /\ Len(bulletin') = Len(bulletin) + 1 /\ Len(bulletin) \in Nat
      /\ \A i \in 1..Len(bulletin) : bulletin'[i] = bulletin[i]
    BY DEF DiscoveryInv
<1>2. \A x : Proven(x) => Proven(x)'
    BY <1>1 DEF Proven, RootProofVerifies
<1>3. \A view : Older(view) => Older(view)'
  <2> SUFFICES ASSUME NEW view, Older(view) PROVE Older(view)'
      OBVIOUS
  <2>1. Len(view) \in Nat
      BY DEF Older
  <2> QED
      BY <1>1, <2>1 DEF Older
<1>4. \A sync : SyncSound(sync) => SyncSound(sync)'
    BY <1>2, <1>3 DEF SyncSound
<1>5. \A packages : IndexSound(packages) => IndexSound(packages)'
    BY <1>2 DEF IndexSound
<1> QED
    BY <1>1, <1>4, <1>5 DEF DiscoveryInv

\* A bulletin that rests, and one sync that moves.
LEMMA OneSyncMoves ==
    ASSUME DiscoveryInv, NEW s \in Syncs, NEW sync, SyncSound(sync),
           bulletin' = bulletin, DOMAIN syncs' = Syncs, syncs'[s] = sync,
           \A r \in Syncs : r # s => syncs'[r] = syncs[r],
           NEW file, IndexSound(file), capabilities' = file,
           NEW table, IndexSound(table), rows' = table
    PROVE  DiscoveryInv'
<1>1. \A r \in Syncs : SyncSound(syncs'[r])
    BY DEF DiscoveryInv
<1>2. \A x : SyncSound(x) => SyncSound(x)'
    BY DEF SyncSound, Older, Proven, RootProofVerifies
<1>3. \A x : IndexSound(x) => IndexSound(x)'
    BY DEF IndexSound, Proven, RootProofVerifies
<1> QED
    BY <1>1, <1>2, <1>3 DEF DiscoveryInv

\* A sync put together from its parts.
LEMMA SoundParts ==
    ASSUME NEW at \in SyncPlaces, NEW view, Older(view),
           NEW todo \in SUBSET Agents, NEW indexed \in SUBSET Package,
           \A x \in indexed : Proven(x) /\ x.did \notin todo,
           Unambiguous(indexed), at \in {"idle", "manifest"} => indexed = {}
    PROVE  SyncSound([at |-> at, view |-> view, todo |-> todo, indexed |-> indexed])
<1> DEFINE sync == [at |-> at, view |-> view, todo |-> todo, indexed |-> indexed]
<1>1. sync.at = at /\ sync.view = view /\ sync.todo = todo /\ sync.indexed = indexed
    OBVIOUS
<1>2. sync \in [at : SyncPlaces, view : Seq(Event), todo : SUBSET Agents, indexed : SUBSET Package]
    BY DEF Older
<1> HIDE DEF sync
<1>3. SyncSound(sync)
    BY <1>1, <1>2 DEF SyncSound
<1> QED
    BY <1>3 DEF sync

LEMMA PartsOfSound ==
    ASSUME DiscoveryInv, NEW s \in Syncs
    PROVE  /\ syncs[s] = [at |-> syncs[s].at, view |-> syncs[s].view,
                          todo |-> syncs[s].todo, indexed |-> syncs[s].indexed]
           /\ syncs[s].at \in SyncPlaces /\ Older(syncs[s].view)
           /\ syncs[s].todo \in SUBSET Agents /\ syncs[s].indexed \in SUBSET Package
           /\ \A x \in syncs[s].indexed : Proven(x) /\ x.did \notin syncs[s].todo
           /\ Unambiguous(syncs[s].indexed)
           /\ syncs[s].at \in {"idle", "manifest"} => syncs[s].indexed = {}
    BY DEF DiscoveryInv, SyncSound

----------------------------------------------------------------------------
(* The steps of a sync *)

LEMMA FetchBulletinKeeps ==
    ASSUME DiscoveryInv, NEW s \in Syncs, FetchBulletin(s)
    PROVE  DiscoveryInv'
<1>1. /\ syncs[s].at = "idle" /\ syncs' = [syncs EXCEPT ![s].at = "manifest", ![s].view = bulletin]
      /\ UNCHANGED <<bulletin, capabilities, rows>>
    BY DEF FetchBulletin, rootSideVars, indexVars
<1>2. syncs'[s] = [at |-> "manifest", view |-> bulletin, todo |-> syncs[s].todo, indexed |-> {}]
  <2>1. syncs'[s] = [syncs[s] EXCEPT !.at = "manifest", !.view = bulletin]
      BY <1>1 DEF DiscoveryInv
  <2>2. syncs[s].indexed = {}
      BY <1>1, PartsOfSound
  <2> QED
      BY <2>1, <2>2, PartsOfSound
<1>3. Older(bulletin)
    BY DEF DiscoveryInv, Older
<1>4. SyncSound(syncs'[s])
  <2>1. SyncSound([at |-> "manifest", view |-> bulletin, todo |-> syncs[s].todo, indexed |-> {}])
    <3>1. "manifest" \in SyncPlaces /\ Unambiguous({})
        BY DEF SyncPlaces, Unambiguous
    <3> QED
        BY <1>3, <3>1, PartsOfSound, SoundParts
  <2> QED
      BY <1>2, <2>1
<1>5. DOMAIN syncs' = Syncs /\ \A r \in Syncs : r # s => syncs'[r] = syncs[r]
    BY <1>1 DEF DiscoveryInv
<1> QED
    BY <1>1, <1>4, <1>5, OneSyncMoves DEF DiscoveryInv

LEMMA FetchManifestKeeps ==
    ASSUME CdnInv, DiscoveryInv, NEW s \in Syncs, FetchManifest(s)
    PROVE  DiscoveryInv'
<1>1. PICK file \in SeenManifest :
        syncs' = [syncs EXCEPT ![s] =
          IF Readable(file) THEN [@ EXCEPT !.at = "packages", !.todo = {e.did : e \in file}]
          ELSE IdleSync]
    BY DEF FetchManifest
<1>2. syncs[s].at = "manifest" /\ UNCHANGED <<bulletin, capabilities, rows>>
    BY DEF FetchManifest, rootSideVars, indexVars
<1>3. SyncSound(syncs'[s])
  <2>1. CASE Readable(file)
    <3>1. file \subseteq ManifestEntry
        BY <2>1 DEF SeenManifest, CdnInv, CdnTypeOK, Readable
    <3>2. {e.did : e \in file} \subseteq Agents
        BY <3>1 DEF ManifestEntry
    <3>3. syncs[s].indexed = {}
        BY <1>2, PartsOfSound
    <3>4. syncs'[s] = [at |-> "packages", view |-> syncs[s].view, todo |-> {e.did : e \in file}, indexed |-> {}]
      <4>1. syncs'[s] = [syncs[s] EXCEPT !.at = "packages", !.todo = {e.did : e \in file}]
          BY <1>1, <2>1 DEF DiscoveryInv
      <4> QED
          BY <3>3, <4>1, PartsOfSound
    <3>5. SyncSound([at |-> "packages", view |-> syncs[s].view, todo |-> {e.did : e \in file}, indexed |-> {}])
      <4> DEFINE todo == {e.did : e \in file}
      <4>1. "packages" \in SyncPlaces /\ Unambiguous({}) /\ todo \in SUBSET Agents
          BY <3>2 DEF SyncPlaces, Unambiguous
      <4> HIDE DEF todo
      <4>2. SyncSound([at |-> "packages", view |-> syncs[s].view, todo |-> todo, indexed |-> {}])
          BY <4>1, PartsOfSound, SoundParts
      <4> QED
          BY <4>2 DEF todo
    <3> QED
        BY <3>4, <3>5
  <2>2. CASE ~Readable(file)
      BY <1>1, <2>2, IdleIsSound DEF DiscoveryInv
  <2> QED
      BY <2>1, <2>2
<1>4. DOMAIN syncs' = Syncs /\ \A r \in Syncs : r # s => syncs'[r] = syncs[r]
    BY <1>1 DEF DiscoveryInv
<1> QED
    BY <1>2, <1>3, <1>4, OneSyncMoves DEF DiscoveryInv

\* What a sync lets pass is Root's, by the bulletin of today too.
LEMMA PassedIsProven ==
    ASSUME bulletin \in Seq(Event), NEW file \in Package, NEW view, Older(view), Passes(file, view)
    PROVE  Proven(file)
<1>1. file.flaws \subseteq Flaws /\ file.flaws \cap Flaws = {}
    BY PackageParts DEF Passes, RootProofVerifies, Flaws
<1>2. Len(view) \in Nat /\ Len(bulletin) \in Nat
    BY DEF Older
<1>3. file.sequence \in 1..Len(view) /\ file.sequence \in 1..Len(bulletin)
      /\ view[file.sequence] = bulletin[file.sequence]
    BY <1>2 DEF Passes, RootProofVerifies, Older
<1> QED
    BY <1>1, <1>3 DEF Proven, Passes, RootProofVerifies

LEMMA FetchPackageKeeps ==
    ASSUME CdnInv, DiscoveryInv, NEW s \in Syncs, NEW a \in syncs[s].todo, FetchPackage(s, a)
    PROVE  DiscoveryInv'
<1> DEFINE sync == syncs[s]
<1>1. PICK file \in SeenPackage(a) :
        syncs' = [syncs EXCEPT ![s].todo = @ \ {a},
                    ![s].indexed = IF Passes(file, sync.view) THEN @ \cup {file} ELSE @]
    BY DEF FetchPackage
<1>2. sync.at = "packages" /\ UNCHANGED <<bulletin, capabilities, rows>>
    BY DEF FetchPackage, rootSideVars, indexVars
<1> DEFINE indexed == IF Passes(file, sync.view) THEN sync.indexed \cup {file} ELSE sync.indexed
<1>3. syncs'[s] = [at |-> "packages", view |-> sync.view, todo |-> sync.todo \ {a}, indexed |-> indexed]
  <2>1. syncs'[s] = [sync EXCEPT !.todo = @ \ {a}, !.indexed = indexed]
      BY <1>1 DEF DiscoveryInv
  <2> QED
      BY <1>2, <2>1, PartsOfSound
<1>4. a \in Agents
    BY PartsOfSound
<1>5. Passes(file, sync.view) => file \in Package /\ file.did = a /\ Proven(file)
  <2> SUFFICES ASSUME Passes(file, sync.view) PROVE file \in Package /\ file.did = a /\ Proven(file)
      OBVIOUS
  <2>1. Readable(file)
      BY DEF Passes
  <2>2. file = files["packages"][a]
      BY <2>1 DEF SeenPackage, Readable
  <2>3. file \in Package /\ file.did = a
      BY <1>4, <2>1, <2>2 DEF CdnInv, CdnTypeOK, Named, Kinds, Readable
  <2> QED
      BY <2>3, PassedIsProven, PartsOfSound DEF DiscoveryInv
<1>6. /\ indexed \in SUBSET Package
      /\ \A x \in indexed : Proven(x) /\ x.did \notin sync.todo \ {a}
      /\ Unambiguous(indexed)
  <2>1. /\ sync.indexed \in SUBSET Package /\ Unambiguous(sync.indexed)
        /\ \A x \in sync.indexed : Proven(x) /\ x.did \notin sync.todo
      BY PartsOfSound
  <2>2. CASE Passes(file, sync.view)
    <3>1. indexed = sync.indexed \cup {file}
        BY <2>2
    <3>2. file \in Package /\ file.did = a /\ Proven(file)
        BY <1>5, <2>2
    <3>3. \A x \in sync.indexed : x.did # a
        BY <2>1
    <3> HIDE DEF indexed
    <3> QED
        BY <2>1, <3>1, <3>2, <3>3 DEF Unambiguous
  <2>3. CASE ~Passes(file, sync.view)
    <3>1. indexed = sync.indexed
        BY <2>3
    <3> QED
        BY <2>1, <3>1
  <2> QED
      BY <2>2, <2>3
<1>7. SyncSound(syncs'[s])
  <2> DEFINE todo == sync.todo \ {a}
  <2>1. "packages" \in SyncPlaces /\ todo \in SUBSET Agents /\ \A x \in indexed : x.did \notin todo
      BY <1>6, PartsOfSound DEF SyncPlaces
  <2>2. Older(sync.view)
      BY PartsOfSound
  <2> HIDE DEF indexed, todo
  <2>3. SyncSound([at |-> "packages", view |-> sync.view, todo |-> todo, indexed |-> indexed])
      BY <1>6, <2>1, <2>2, SoundParts
  <2> QED
      BY <1>3, <2>3 DEF todo
<1>8. DOMAIN syncs' = Syncs /\ \A r \in Syncs : r # s => syncs'[r] = syncs[r]
    BY <1>1 DEF DiscoveryInv
<1> QED
    BY <1>2, <1>7, <1>8, OneSyncMoves DEF DiscoveryInv

LEMMA WriteCapabilitiesKeeps ==
    ASSUME DiscoveryInv, NEW s \in Syncs, WriteCapabilities(s)
    PROVE  DiscoveryInv'
<1> DEFINE sync == syncs[s]
           place == IF UseSqlite THEN "clear" ELSE "history"
<1>1. /\ capabilities' = sync.indexed /\ UNCHANGED <<bulletin, rows>>
      /\ syncs' = [syncs EXCEPT ![s].at = place]
    BY DEF WriteCapabilities, rootSideVars
<1>2. syncs'[s] = [at |-> place, view |-> sync.view, todo |-> sync.todo, indexed |-> sync.indexed]
    BY <1>1, PartsOfSound DEF DiscoveryInv
<1>3. SyncSound(syncs'[s])
  <2>1. place \in SyncPlaces /\ place \notin {"idle", "manifest"}
      BY DEF SyncPlaces
  <2> HIDE DEF place
  <2>2. SyncSound([at |-> place, view |-> sync.view, todo |-> sync.todo, indexed |-> sync.indexed])
      BY <2>1, PartsOfSound, SoundParts
  <2> QED
      BY <1>2, <2>2
<1>4. IndexSound(sync.indexed)
    BY PartsOfSound DEF IndexSound
<1>5. DOMAIN syncs' = Syncs /\ \A r \in Syncs : r # s => syncs'[r] = syncs[r]
    BY <1>1 DEF DiscoveryInv
<1> QED
    BY <1>1, <1>3, <1>4, <1>5, OneSyncMoves DEF DiscoveryInv

LEMMA ClearIndexKeeps ==
    ASSUME DiscoveryInv, NEW s \in Syncs, ClearIndex(s)
    PROVE  DiscoveryInv'
<1> DEFINE sync == syncs[s]
           place == IF sync.indexed = {} THEN "history" ELSE "upsert"
<1>1. /\ rows' = {} /\ UNCHANGED <<bulletin, capabilities>>
      /\ syncs' = [syncs EXCEPT ![s].at = place]
    BY DEF ClearIndex, rootSideVars
<1>2. syncs'[s] = [at |-> place, view |-> sync.view, todo |-> sync.todo, indexed |-> sync.indexed]
    BY <1>1, PartsOfSound DEF DiscoveryInv
<1>3. SyncSound(syncs'[s])
  <2>1. place \in SyncPlaces /\ place \notin {"idle", "manifest"}
      BY DEF SyncPlaces
  <2> HIDE DEF place
  <2>2. SyncSound([at |-> place, view |-> sync.view, todo |-> sync.todo, indexed |-> sync.indexed])
      BY <2>1, PartsOfSound, SoundParts
  <2> QED
      BY <1>2, <2>2
<1>4. IndexSound({})
    BY DEF IndexSound, Unambiguous
<1>5. DOMAIN syncs' = Syncs /\ \A r \in Syncs : r # s => syncs'[r] = syncs[r]
    BY <1>1 DEF DiscoveryInv
<1> QED
    BY <1>1, <1>3, <1>4, <1>5, OneSyncMoves DEF DiscoveryInv

LEMMA UpsertKeeps ==
    ASSUME DiscoveryInv, NEW s \in Syncs, NEW package \in syncs[s].indexed, Upsert(s, package)
    PROVE  DiscoveryInv'
<1> DEFINE sync == syncs[s]
           place == IF sync.indexed = {package} THEN "history" ELSE sync.at
           table == {x \in rows : x.did # package.did} \cup {package}
           left == sync.indexed \ {package}
<1>1. /\ rows' = table /\ UNCHANGED <<bulletin, capabilities>> /\ sync.at = "upsert"
      /\ syncs' = [syncs EXCEPT ![s].indexed = @ \ {package},
                     ![s].at = IF sync.indexed = {package} THEN "history" ELSE @]
    BY DEF Upsert, rootSideVars
<1>2. syncs'[s] = [at |-> place, view |-> sync.view, todo |-> sync.todo, indexed |-> left]
  <2>1. syncs'[s] = [sync EXCEPT !.indexed = left, !.at = place]
      BY <1>1 DEF DiscoveryInv
  <2> QED
      BY <2>1, PartsOfSound
<1>3. SyncSound(syncs'[s])
  <2>1. place \in SyncPlaces /\ place \notin {"idle", "manifest"}
      BY <1>1 DEF SyncPlaces
  <2>2. /\ left \in SUBSET Package /\ Unambiguous(left)
        /\ \A x \in left : Proven(x) /\ x.did \notin sync.todo
      BY PartsOfSound DEF Unambiguous
  <2> HIDE DEF place, left
  <2>3. SyncSound([at |-> place, view |-> sync.view, todo |-> sync.todo, indexed |-> left])
      BY <2>1, <2>2, PartsOfSound, SoundParts
  <2> QED
      BY <1>2, <2>3
<1>4. IndexSound(table)
    BY PartsOfSound DEF DiscoveryInv, IndexSound, Unambiguous
<1>5. DOMAIN syncs' = Syncs /\ \A r \in Syncs : r # s => syncs'[r] = syncs[r]
    BY <1>1 DEF DiscoveryInv
<1> HIDE DEF table
<1> QED
    BY <1>1, <1>3, <1>4, <1>5, OneSyncMoves DEF DiscoveryInv

\* A sync that ends, or is cut short, holds nothing any more.
LEMMA SyncsEnd ==
    ASSUME DiscoveryInv, UNCHANGED <<bulletin, capabilities, rows>>,
           DOMAIN syncs' = Syncs,
           \A r \in Syncs : syncs'[r] \in {syncs[r], IdleSync}
    PROVE  DiscoveryInv'
<1>1. \A r \in Syncs : SyncSound(syncs'[r])
    BY IdleIsSound DEF DiscoveryInv
<1>2. \A x : SyncSound(x) => SyncSound(x)'
    BY DEF SyncSound, Older, Proven, RootProofVerifies
<1>3. \A x : IndexSound(x) => IndexSound(x)'
    BY DEF IndexSound, Proven, RootProofVerifies
<1> QED
    BY <1>1, <1>2, <1>3 DEF DiscoveryInv

----------------------------------------------------------------------------
(* All of it *)

DistributionInv == CdnInv /\ DiscoveryInv

LEMMA DistributionInvInit == DistributionInit => DistributionInv
    BY CdnInvInit, DiscoveryInvInit DEF DistributionInit, DistributionInv

\* Where neither bulletin, syncs nor index change.
LEMMA DiscoveryRests ==
    ASSUME DiscoveryInv, UNCHANGED <<bulletin, syncs, capabilities, rows>>
    PROVE  DiscoveryInv'
    BY SyncsEnd DEF DiscoveryInv

LEMMA RootKeeps ==
    ASSUME DistributionInv,
           \/ \E r \in Registrations : Anchor(r[1], r[2])
           \/ \E domains \in Restrictions : Restrict(domains)
    PROVE  DistributionInv'
<1>1. CdnInv'
  <2>1. UNCHANGED cdnVars
      BY DEF Anchor, Restrict
  <2> QED
      BY <2>1, CdnRests DEF cdnVars, DistributionInv
<1>2. UNCHANGED <<syncs, capabilities, rows>>
    BY DEF Anchor, Restrict, discoveryVars, indexVars
<1>3. \E event \in Event : bulletin' = Append(bulletin, event)
  <2>1. ASSUME NEW r \in Registrations, Anchor(r[1], r[2])
        PROVE  \E event \in Event : bulletin' = Append(bulletin, event)
    <3> DEFINE event == [event_type |-> "AGENT_DID_DOCUMENT_ANCHORED",
                         subject_did |-> r[1], didDocument |-> r[2]]
    <3>1. event \in Event
        BY DiscoveryAssumption DEF Event, AgentEvent
    <3> QED
        BY <2>1, <3>1 DEF Anchor
  <2>2. ASSUME NEW domains \in Restrictions, Restrict(domains)
        PROVE  \E event \in Event : bulletin' = Append(bulletin, event)
    <3> DEFINE event == [event_type |-> "DISCOVERY_NODE_DOMAINS_UPDATED",
                         subject_did |-> Discovery, authorizedDomains |-> domains]
    <3>1. event \in Event
        BY DiscoveryAssumption DEF Event, DomainsEvent
    <3> QED
        BY <2>2, <3>1 DEF Restrict
  <2> QED
      BY <2>1, <2>2
<1> QED
    BY <1>1, <1>2, <1>3, BulletinGrows DEF DistributionInv

LEMMA SendKeeps ==
    ASSUME DistributionInv, NEW t \in CdnTasks, NEW i \in 1..Len(bulletin), Send(t, i)
    PROVE  DistributionInv'
<1> DEFINE package == [did |-> bulletin[i].subject_did, didDocument |-> bulletin[i].didDocument,
                       sequence |-> i, flaws |-> {}]
<1>1. bulletin[i] \in AgentEvent /\ Receive(t, package)
      /\ UNCHANGED <<bulletin, syncs, capabilities, rows>>
    BY DEF Send, discoveryVars, indexVars
<1>2. i \in Nat
    BY DEF DistributionInv, DiscoveryInv
<1>3. package \in Package
    BY <1>1, <1>2 DEF AgentEvent, Package
<1> HIDE DEF package
<1> QED
    BY <1>1, <1>3, ReceiveKeeps, DiscoveryRests DEF DistributionInv

LEMMA CdnStepKeeps ==
    ASSUME DistributionInv, NEW t \in CdnTasks,
           \/ WriteFile(t) \/ Publish(t) \/ LoseAnswer(t) \/ InterruptPublish(t),
           UNCHANGED <<rootSideVars, discoveryVars>>
    PROVE  DistributionInv'
<1>1. UNCHANGED <<bulletin, syncs, capabilities, rows>>
    BY DEF rootSideVars, discoveryVars, indexVars
<1>2. CdnInv'
    BY WriteFileKeeps, PublishKeeps, InterruptKeeps DEF DistributionInv
<1> QED
    BY <1>1, <1>2, DiscoveryRests DEF DistributionInv

LEMMA SyncStepKeeps ==
    ASSUME DistributionInv, NEW s \in Syncs, SyncStep(s)
    PROVE  DistributionInv'
<1>1. UNCHANGED cdnVars
    BY DEF SyncStep, FetchBulletin, FetchManifest, FetchPackage, WriteCapabilities, ClearIndex,
           Upsert, WriteHistory
<1>2. CdnInv'
    BY <1>1, CdnRests DEF cdnVars, DistributionInv
<1>3. CASE WriteHistory(s)
  <2>1. /\ UNCHANGED <<bulletin, capabilities, rows>> /\ DOMAIN syncs' = Syncs
        /\ \A r \in Syncs : syncs'[r] \in {syncs[r], IdleSync}
      BY <1>3 DEF WriteHistory, rootSideVars, indexVars, DistributionInv, DiscoveryInv
  <2> QED
      BY <1>2, <2>1, SyncsEnd DEF DistributionInv
<1> QED
    BY <1>2, <1>3, FetchBulletinKeeps, FetchManifestKeeps, FetchPackageKeeps, WriteCapabilitiesKeeps,
       ClearIndexKeeps, UpsertKeeps DEF SyncStep, DistributionInv

LEMMA FaultKeeps ==
    ASSUME DistributionInv, (\E s \in Syncs : FailSync(s)) \/ DiscoveryCrash
    PROVE  DistributionInv'
<1>1. UNCHANGED <<fileVars, taskVars, accepted>> /\ faults' = faults + 1
    BY DEF FailSync, DiscoveryCrash, Fault
<1>2. CdnInv'
    BY <1>1, CdnRests DEF DistributionInv
<1>3. /\ UNCHANGED <<bulletin, capabilities, rows>> /\ DOMAIN syncs' = Syncs
      /\ \A r \in Syncs : syncs'[r] \in {syncs[r], IdleSync}
    BY DEF FailSync, DiscoveryCrash, rootSideVars, DistributionInv, DiscoveryInv
<1> QED
    BY <1>2, <1>3, SyncsEnd DEF DistributionInv

LEMMA DistributionStep ==
    ASSUME DistributionInv, [DistributionNext]_distributionVars
    PROVE  DistributionInv'
<1>1. CASE UNCHANGED distributionVars
  <2>1. UNCHANGED cdnVars /\ UNCHANGED <<bulletin, syncs, capabilities, rows>>
      BY <1>1 DEF distributionVars, rootSideVars, discoveryVars, indexVars
  <2> QED
      BY <2>1, CdnRests, DiscoveryRests DEF cdnVars, DistributionInv
<1>2. CASE \E t \in CdnTasks : CdnStep(t)
    BY <1>2, CdnStepKeeps DEF CdnStep
<1>3. CASE \E t \in CdnTasks : /\ LoseAnswer(t) \/ InterruptPublish(t)
                               /\ UNCHANGED <<rootSideVars, discoveryVars>>
    BY <1>3, CdnStepKeeps
<1> QED
    BY <1>1, <1>2, <1>3, RootKeeps, SendKeeps, SyncStepKeeps, FaultKeeps DEF DistributionNext

\* The invariant of the CDN and the Discovery node: publications are made by the
\* holder of the lock, and what syncs hold or have indexed is Root's.
THEOREM DistributionInvAlways == DistributionSpec => []DistributionInv
    BY DistributionInvInit, DistributionStep, PTL DEF DistributionSpec

\* publish_package leaves its four places of one publication, as long as nothing
\* fails, and never takes another Agent from the manifest, as long as it is never
\* torn.
THEOREM PublicationsStand == DistributionSpec => []PublicationsHold
<1>1. DistributionInv => PublicationsHold
  <2> SUFFICES ASSUME DistributionInv PROVE PublishedTogether
      BY DEF PublicationsHold, DistributionInv, CdnInv
  <2> SUFFICES ASSUME faults = 0, cdnLock = NoTask, NEW a \in Agents, accepted[a] # NoPackage
               PROVE  /\ \A kind \in Kinds : files[kind][a] = accepted[a]
                      /\ {e \in manifest : e.did = a} = {EntryOf(accepted[a])}
      BY DEF PublishedTogether
  <2>1. ~UnderWay(a)
      BY CdnAssumption DEF UnderWay, DistributionInv, CdnInv, Serving
  <2> QED
      BY <2>1 DEF DistributionInv, CdnInv, Whole
<1> QED
    BY <1>1, DistributionInvAlways, PTL

\* Whatever syncs overlap, fail or are cut short, sync_from_cdn indexes only what
\* the bulletin proves, and one package of an Agent.
THEOREM AnswersSound == DistributionSpec => []AnswersAreSound
<1>1. DistributionInv => AnswersAreSound
  <2> SUFFICES ASSUME DistributionInv PROVE AnswersAreSound
      OBVIOUS
  <2>1. Lookup \in {rows, {}, capabilities}
      BY DEF Lookup, LookupIn
  <2>2. IndexSound(rows) /\ IndexSound(capabilities) /\ IndexSound({})
      BY DEF DistributionInv, DiscoveryInv, IndexSound, Unambiguous
  <2>3. IndexSound(Lookup)
      BY <2>1, <2>2
  <2> QED
      BY <2>3 DEF IndexSound, Unambiguous, Proven, AnswersAreSound, ServedIsVerified, OnePackagePerAgent
<1> QED
    BY <1>1, DistributionInvAlways, PTL

----------------------------------------------------------------------------
(* Syncs one after the other: the domains *)

AtWork(s) == syncs[s].at # "idle"

\* The package lies in the domains of the bulletin as it was at length k.
Matches(x, k) == DomainsMatch(x.didDocument, AuthorizedDomains(SubSeq(bulletin, 1, k)))
AllMatch(packages, k) == \A x \in packages : Matches(x, k)

\* A sync under way read a later bulletin than the last complete one; what it
\* holds, and what it has overwritten of the index, is in that bulletin's domains.
DomainsHeld(sync) ==
    /\ Len(sync.view) >= basis
    /\ AllMatch(sync.indexed, Len(sync.view))
    /\ sync.at \in {"clear", "upsert", "history"} => AllMatch(capabilities, Len(sync.view))
    /\ sync.at \in {"upsert", "history"} => AllMatch(rows, Len(sync.view))

\* A package is in the domains of the last complete sync, or of a later bulletin.
InForce(x) == \E k \in basis..Len(bulletin) : Matches(x, k)

\* Without a database there is no table.
TableInUse == UseSqlite \/ (rows = {} /\ \A s \in Syncs : syncs[s].at \notin {"clear", "upsert"})

DomainsInv ==
    /\ basis \in Nat /\ basis <= Len(bulletin)
    /\ TableInUse
    /\ overlapped \in BOOLEAN
    /\ ~overlapped =>
         /\ \A s, r \in Syncs : AtWork(s) /\ AtWork(r) => s = r
         /\ \A x \in capabilities \cup rows : InForce(x)
         /\ \A s \in Syncs : AtWork(s) => DomainsHeld(syncs[s])

LEMMA DomainsInvInit == DistributionInit => DomainsInv
<1> SUFFICES ASSUME DistributionInit PROVE DomainsInv
    OBVIOUS
<1>1. /\ bulletin = <<>> /\ basis = 0 /\ rows = {} /\ capabilities = {} /\ overlapped = FALSE
      /\ syncs = [s \in Syncs |-> IdleSync]
    BY DEF DistributionInit, DiscoveryInit
<1>2. \A s \in Syncs : ~AtWork(s)
    BY <1>1 DEF AtWork, IdleSync
<1>3. basis \in Nat /\ basis <= Len(bulletin)
    BY <1>1
<1>4. \A x : x \notin capabilities \cup rows
    BY <1>1
<1> QED
    BY <1>1, <1>2, <1>3, <1>4 DEF DomainsInv, TableInUse, IdleSync

\* The bulletin as a sync read it is a beginning of the bulletin of today.
LEMMA OlderIsPrefix ==
    ASSUME bulletin \in Seq(Event), NEW view, Older(view)
    PROVE  view = SubSeq(bulletin, 1, Len(view))
<1>1. view \in Seq(Event) /\ Len(view) \in Nat /\ Len(bulletin) \in Nat /\ Len(view) <= Len(bulletin)
    BY DEF Older
<1>2. /\ SubSeq(bulletin, 1, Len(view)) \in Seq(Event)
      /\ Len(SubSeq(bulletin, 1, Len(view))) = Len(view)
      /\ \A i \in 1..Len(view) : SubSeq(bulletin, 1, Len(view))[i] = bulletin[i]
    BY <1>1
<1> QED
    BY <1>1, <1>2 DEF Older

LEMMA ViewLength ==
    ASSUME DiscoveryInv, NEW s \in Syncs
    PROVE  /\ Len(syncs[s].view) \in Nat /\ Len(syncs[s].view) <= Len(bulletin)
           /\ Len(bulletin) \in Nat
           /\ syncs[s].view = SubSeq(bulletin, 1, Len(syncs[s].view))
<1> DEFINE view == syncs[s].view
<1>1. Older(view) /\ bulletin \in Seq(Event)
    BY PartsOfSound DEF DiscoveryInv
<1> HIDE DEF view
<1>2. view \in Seq(Event) /\ Len(view) <= Len(bulletin)
    BY <1>1 DEF Older
<1>3. view = SubSeq(bulletin, 1, Len(view))
    BY <1>1, OlderIsPrefix
<1>4. Len(view) \in Nat /\ Len(bulletin) \in Nat
    BY <1>1, <1>2
<1> QED
    BY <1>2, <1>3, <1>4 DEF view

\* What was in the domains at a length stays so while the bulletin grows.
LEMMA MatchesStays ==
    ASSUME bulletin \in Seq(Event), NEW event \in Event, bulletin' = Append(bulletin, event),
           NEW k \in Nat, k <= Len(bulletin), NEW x, Matches(x, k)
    PROVE  Matches(x, k)'
<1>1. SubSeq(bulletin', 1, k) = SubSeq(bulletin, 1, k)
    OBVIOUS
<1>2. Matches(x, k)' <=> DomainsMatch(x.didDocument, AuthorizedDomains(SubSeq(bulletin', 1, k)))
    BY DEF Matches, DomainsMatch, AuthorizedDomains, UpdatesIn
<1> QED
    BY <1>1, <1>2 DEF Matches

LEMMA MatchesRests ==
    ASSUME bulletin' = bulletin
    PROVE  \A x, k : Matches(x, k)' <=> Matches(x, k)
    BY DEF Matches, DomainsMatch, AuthorizedDomains, UpdatesIn

LEMMA DomainsGrow ==
    ASSUME DiscoveryInv, DomainsInv, NEW event \in Event, bulletin' = Append(bulletin, event),
           UNCHANGED <<syncs, capabilities, rows, basis, overlapped>>
    PROVE  DomainsInv'
<1>1. /\ bulletin \in Seq(Event) /\ Len(bulletin) \in Nat /\ Len(bulletin') = Len(bulletin) + 1
      /\ basis \in Nat /\ basis <= Len(bulletin)
    BY DEF DiscoveryInv, DomainsInv
<1>2. \A k \in Nat : k <= Len(bulletin) => \A x : Matches(x, k) => Matches(x, k)'
    BY <1>1, MatchesStays
<1>3. \A k \in Nat : k <= Len(bulletin) => \A packages : AllMatch(packages, k) => AllMatch(packages, k)'
    BY <1>2 DEF AllMatch
<1>4. \A x : InForce(x) => InForce(x)'
  <2> SUFFICES ASSUME NEW x, InForce(x) PROVE InForce(x)'
      OBVIOUS
  <2>1. PICK k \in basis..Len(bulletin) : Matches(x, k)
      BY DEF InForce
  <2>2. k \in basis..Len(bulletin') /\ k \in Nat /\ k <= Len(bulletin)
      BY <1>1
  <2>3. Matches(x, k)'
      BY <1>2, <2>1, <2>2
  <2> QED
      BY <2>2, <2>3 DEF InForce
<1>5. \A s \in Syncs : DomainsHeld(syncs[s]) => DomainsHeld(syncs[s])'
  <2> SUFFICES ASSUME NEW s \in Syncs, DomainsHeld(syncs[s]) PROVE DomainsHeld(syncs[s])'
      OBVIOUS
  <2>1. Len(syncs[s].view) \in Nat /\ Len(syncs[s].view) <= Len(bulletin)
      BY ViewLength
  <2>2. \A packages : AllMatch(packages, Len(syncs[s].view)) => AllMatch(packages, Len(syncs[s].view))'
      BY <1>3, <2>1
  <2> QED
      BY <2>2 DEF DomainsHeld
<1>6. basis <= Len(bulletin')
    BY <1>1
<1>7. ~overlapped' =>
         /\ \A s, r \in Syncs : AtWork(s)' /\ AtWork(r)' => s = r
         /\ \A x \in capabilities' \cup rows' : InForce(x)'
         /\ \A s \in Syncs : AtWork(s)' => DomainsHeld(syncs[s])'
    BY <1>4, <1>5 DEF DomainsInv, AtWork
<1>8. TableInUse'
    BY DEF DomainsInv, TableInUse
<1> QED
    BY <1>6, <1>7, <1>8 DEF DomainsInv

\* One sync under way that goes on, the bulletin and the basis as they are.
LEMMA DomainsGoOn ==
    ASSUME DiscoveryInv, DomainsInv, NEW s \in Syncs, AtWork(s),
           UNCHANGED <<bulletin, basis, overlapped>>,
           \A r \in Syncs : r # s => syncs'[r] = syncs[r],
           UseSqlite \/ (rows' = {} /\ syncs'[s].at \notin {"clear", "upsert"}),
           ~overlapped => \A x \in capabilities' \cup rows' :
                              x \in capabilities \cup rows \/ Matches(x, Len(syncs[s].view)),
           ~overlapped /\ syncs'[s].at # "idle" => DomainsHeld(syncs[s])'
    PROVE  DomainsInv'
<1>1. \A x, k : Matches(x, k)' <=> Matches(x, k)
    BY MatchesRests
<1>6. TableInUse'
    BY DEF DomainsInv, TableInUse
<1>2. SUFFICES ASSUME ~overlapped
               PROVE  /\ \A q, r \in Syncs : AtWork(q)' /\ AtWork(r)' => q = r
                      /\ \A x \in capabilities' \cup rows' : InForce(x)'
                      /\ \A r \in Syncs : AtWork(r)' => DomainsHeld(syncs[r])'
    BY <1>6 DEF DomainsInv
<1>3. \A r \in Syncs : AtWork(r)' => r = s
    BY <1>2 DEF DomainsInv, AtWork
<1>4. \A r \in Syncs : AtWork(r)' => DomainsHeld(syncs[r])'
    BY <1>2, <1>3 DEF AtWork
<1>5. \A x \in capabilities' \cup rows' : InForce(x)'
  <2> SUFFICES ASSUME NEW x \in capabilities' \cup rows' PROVE InForce(x)'
      OBVIOUS
  <2>1. CASE x \in capabilities \cup rows
      BY <1>1, <1>2, <2>1 DEF DomainsInv, InForce
  <2>2. CASE Matches(x, Len(syncs[s].view))
    <3>1. Len(syncs[s].view) \in Nat /\ Len(syncs[s].view) <= Len(bulletin)
        BY ViewLength
    <3>2. basis <= Len(syncs[s].view) /\ basis \in Nat
        BY <1>2 DEF DomainsInv, DomainsHeld
    <3>3. Len(syncs[s].view) \in basis..Len(bulletin)
        BY <3>1, <3>2 DEF DiscoveryInv
    <3> QED
        BY <1>1, <2>2, <3>3 DEF InForce
  <2> QED
      BY <1>2, <2>1, <2>2
<1> QED
    BY <1>3, <1>4, <1>5

LEMMA FetchBulletinDomains ==
    ASSUME DiscoveryInv, DomainsInv, NEW s \in Syncs, FetchBulletin(s)
    PROVE  DomainsInv'
<1>1. /\ syncs[s].at = "idle" /\ syncs' = [syncs EXCEPT ![s].at = "manifest", ![s].view = bulletin]
      /\ UNCHANGED <<bulletin, capabilities, rows, basis>>
      /\ overlapped' = (overlapped \/ \E r \in Syncs : syncs[r].at # "idle")
    BY DEF FetchBulletin, rootSideVars, indexVars
<1>2. /\ syncs'[s] = [syncs[s] EXCEPT !.at = "manifest", !.view = bulletin]
      /\ \A r \in Syncs : r # s => syncs'[r] = syncs[r]
    BY <1>1 DEF DiscoveryInv
<1>3. syncs'[s].at = "manifest" /\ syncs'[s].view = bulletin /\ syncs'[s].indexed = {}
  <2>1. syncs[s].indexed = {}
      BY <1>1, PartsOfSound
  <2>2. syncs[s] = [at |-> syncs[s].at, view |-> syncs[s].view, todo |-> syncs[s].todo, indexed |-> {}]
      BY <2>1, PartsOfSound
  <2> QED
      BY <1>2, <2>2
<1>4. \A x : InForce(x) => InForce(x)'
    BY <1>1, MatchesRests DEF InForce
<1>9. TableInUse'
    BY <1>1, <1>2, <1>3 DEF DomainsInv, TableInUse
<1>5. SUFFICES ASSUME ~overlapped'
               PROVE  /\ \A q, r \in Syncs : AtWork(q)' /\ AtWork(r)' => q = r
                      /\ \A x \in capabilities' \cup rows' : InForce(x)'
                      /\ \A r \in Syncs : AtWork(r)' => DomainsHeld(syncs[r])'
    BY <1>1, <1>9 DEF DomainsInv
<1>6. \A r \in Syncs : AtWork(r)' => r = s
    BY <1>1, <1>2, <1>5 DEF AtWork
<1>7. DomainsHeld(syncs[s])'
  <2>1. Len(bulletin) >= basis
      BY DEF DomainsInv, DiscoveryInv
  <2> QED
      BY <1>1, <1>3, <2>1 DEF DomainsHeld, AllMatch
<1>8. \A x \in capabilities' \cup rows' : InForce(x)'
    BY <1>1, <1>4, <1>5 DEF DomainsInv
<1> QED
    BY <1>6, <1>7, <1>8

LEMMA FetchManifestDomains ==
    ASSUME DiscoveryInv, DomainsInv, NEW s \in Syncs, FetchManifest(s)
    PROVE  DomainsInv'
<1>1. PICK file \in SeenManifest :
        syncs' = [syncs EXCEPT ![s] =
          IF Readable(file) THEN [@ EXCEPT !.at = "packages", !.todo = {e.did : e \in file}]
          ELSE IdleSync]
    BY DEF FetchManifest
<1>2. syncs[s].at = "manifest" /\ UNCHANGED <<bulletin, capabilities, rows, basis, overlapped>>
    BY DEF FetchManifest, rootSideVars, indexVars, observerVars
<1>3. \A r \in Syncs : r # s => syncs'[r] = syncs[r]
    BY <1>1 DEF DiscoveryInv
<1>4. AtWork(s)
    BY <1>2 DEF AtWork
<1>5. ASSUME ~overlapped, syncs'[s].at # "idle" PROVE DomainsHeld(syncs[s])'
  <2>1. Readable(file)
      BY <1>1, <1>5 DEF IdleSync, DiscoveryInv
  <2>2. syncs'[s] = [syncs[s] EXCEPT !.at = "packages", !.todo = {e.did : e \in file}]
      BY <1>1, <2>1 DEF DiscoveryInv
  <2>3. syncs'[s].at = "packages" /\ syncs'[s].view = syncs[s].view /\ syncs'[s].indexed = {}
      BY <1>2, <2>2, PartsOfSound
  <2>4. Len(syncs[s].view) >= basis
      BY <1>4, <1>5 DEF DomainsInv, DomainsHeld
  <2> QED
      BY <1>2, <2>3, <2>4 DEF DomainsHeld, AllMatch
<1>6. UseSqlite \/ (rows' = {} /\ syncs'[s].at \notin {"clear", "upsert"})
  <2>1. syncs'[s].at \in {"packages", "idle"}
    <3>1. CASE Readable(file)
      <4>1. syncs'[s] = [syncs[s] EXCEPT !.at = "packages", !.todo = {e.did : e \in file}]
          BY <1>1, <3>1 DEF DiscoveryInv
      <4> QED
          BY <4>1, PartsOfSound
    <3>2. CASE ~Readable(file)
        BY <1>1, <3>2 DEF IdleSync, DiscoveryInv
    <3> QED
        BY <3>1, <3>2
  <2> QED
      BY <1>2, <2>1 DEF DomainsInv, TableInUse
<1> QED
    BY <1>2, <1>3, <1>4, <1>5, <1>6, DomainsGoOn

LEMMA FetchPackageDomains ==
    ASSUME DiscoveryInv, DomainsInv, NEW s \in Syncs, NEW a \in syncs[s].todo, FetchPackage(s, a)
    PROVE  DomainsInv'
<1> DEFINE sync == syncs[s]
<1>1. PICK file \in SeenPackage(a) :
        syncs' = [syncs EXCEPT ![s].todo = @ \ {a},
                    ![s].indexed = IF Passes(file, sync.view) THEN @ \cup {file} ELSE @]
    BY DEF FetchPackage
<1>2. sync.at = "packages" /\ UNCHANGED <<bulletin, capabilities, rows, basis, overlapped>>
    BY DEF FetchPackage, rootSideVars, indexVars, observerVars
<1> DEFINE indexed == IF Passes(file, sync.view) THEN sync.indexed \cup {file} ELSE sync.indexed
<1>3. /\ syncs'[s].at = "packages" /\ syncs'[s].view = sync.view /\ syncs'[s].indexed = indexed
      /\ \A r \in Syncs : r # s => syncs'[r] = syncs[r]
  <2>1. syncs'[s] = [sync EXCEPT !.todo = @ \ {a}, !.indexed = indexed]
      BY <1>1 DEF DiscoveryInv
  <2> HIDE DEF indexed
  <2>2. /\ syncs'[s].at = sync.at /\ syncs'[s].view = sync.view /\ syncs'[s].indexed = indexed
      BY <2>1, PartsOfSound
  <2> QED
      BY <1>1, <1>2, <2>2 DEF DiscoveryInv
<1>4. AtWork(s)
    BY <1>2 DEF AtWork
<1>5. ASSUME ~overlapped PROVE DomainsHeld(syncs[s])'
  <2>1. Len(sync.view) >= basis /\ AllMatch(sync.indexed, Len(sync.view))
      BY <1>4, <1>5 DEF DomainsInv, DomainsHeld
  <2>2. Passes(file, sync.view) => Matches(file, Len(sync.view))
    <3>1. sync.view = SubSeq(bulletin, 1, Len(sync.view))
        BY ViewLength
    <3>2. Passes(file, sync.view) => DomainsMatch(file.didDocument, AuthorizedDomains(sync.view))
        BY DEF Passes
    <3> HIDE DEF sync
    <3> QED
        BY <3>1, <3>2 DEF Matches
  <2>3. \A x \in indexed : Matches(x, Len(sync.view))
      BY <2>1, <2>2 DEF AllMatch
  <2> HIDE DEF indexed
  <2>4. \A x \in indexed : Matches(x, Len(sync.view))'
      BY <1>2, <2>3, MatchesRests, <1>3
  <2> QED
      BY <1>2, <1>3, <2>1, <2>4 DEF DomainsHeld, AllMatch
<1>6. UseSqlite \/ (rows' = {} /\ syncs'[s].at \notin {"clear", "upsert"})
    BY <1>2, <1>3 DEF DomainsInv, TableInUse
<1> QED
    BY <1>2, <1>3, <1>4, <1>5, <1>6, DomainsGoOn

LEMMA WriteCapabilitiesDomains ==
    ASSUME DiscoveryInv, DomainsInv, NEW s \in Syncs, WriteCapabilities(s)
    PROVE  DomainsInv'
<1> DEFINE sync == syncs[s]
           place == IF UseSqlite THEN "clear" ELSE "history"
<1>1. /\ capabilities' = sync.indexed /\ sync.at = "packages"
      /\ UNCHANGED <<bulletin, rows, basis, overlapped>>
      /\ syncs' = [syncs EXCEPT ![s].at = place]
    BY DEF WriteCapabilities, rootSideVars
<1>2. /\ syncs'[s].at = place /\ syncs'[s].view = sync.view /\ syncs'[s].indexed = sync.indexed
      /\ \A r \in Syncs : r # s => syncs'[r] = syncs[r]
    BY <1>1, PartsOfSound DEF DiscoveryInv
<1>3. AtWork(s)
    BY <1>1 DEF AtWork
<1>4. ASSUME ~overlapped
      PROVE  DomainsHeld(syncs[s])' /\ \A x \in capabilities' : Matches(x, Len(sync.view))
  <2>1. Len(sync.view) >= basis /\ AllMatch(sync.indexed, Len(sync.view))
      BY <1>3, <1>4 DEF DomainsInv, DomainsHeld
  <2>2. \A x \in sync.indexed : Matches(x, Len(sync.view))'
      BY <1>1, <1>2, <2>1, MatchesRests DEF AllMatch
  <2>3. place \in {"upsert", "history"} => rows' = {}
      BY <1>1 DEF DomainsInv, TableInUse
  <2>4. AllMatch(sync.indexed, Len(sync.view))' /\ (rows' = {} => AllMatch(rows, Len(sync.view))')
      BY <1>1, <1>2, <2>2 DEF AllMatch
  <2> HIDE DEF place
  <2> QED
      BY <1>1, <1>2, <2>1, <2>2, <2>3 DEF DomainsHeld, AllMatch
<1>5. UseSqlite \/ (rows' = {} /\ syncs'[s].at \notin {"clear", "upsert"})
    BY <1>1, <1>2 DEF DomainsInv, TableInUse
<1> QED
    BY <1>1, <1>2, <1>3, <1>4, <1>5, DomainsGoOn

LEMMA ClearIndexDomains ==
    ASSUME DiscoveryInv, DomainsInv, NEW s \in Syncs, ClearIndex(s)
    PROVE  DomainsInv'
<1> DEFINE sync == syncs[s]
           place == IF sync.indexed = {} THEN "history" ELSE "upsert"
<1>1. /\ rows' = {} /\ sync.at = "clear"
      /\ UNCHANGED <<bulletin, capabilities, basis, overlapped>>
      /\ syncs' = [syncs EXCEPT ![s].at = place]
    BY DEF ClearIndex, rootSideVars
<1>2. /\ syncs'[s].at = place /\ syncs'[s].view = sync.view /\ syncs'[s].indexed = sync.indexed
      /\ \A r \in Syncs : r # s => syncs'[r] = syncs[r]
    BY <1>1, PartsOfSound DEF DiscoveryInv
<1>3. AtWork(s)
    BY <1>1 DEF AtWork
<1>4. ASSUME ~overlapped PROVE DomainsHeld(syncs[s])'
  <2>1. /\ Len(sync.view) >= basis /\ AllMatch(sync.indexed, Len(sync.view))
        /\ AllMatch(capabilities, Len(sync.view))
      BY <1>1, <1>3, <1>4 DEF DomainsInv, DomainsHeld
  <2>2. \A x \in sync.indexed \cup capabilities : Matches(x, Len(sync.view))'
      BY <1>1, <1>2, <2>1, MatchesRests DEF AllMatch
  <2> HIDE DEF place
  <2> QED
      BY <1>1, <1>2, <2>1, <2>2 DEF DomainsHeld, AllMatch
<1>5. UseSqlite
    BY <1>1 DEF DomainsInv, TableInUse
<1> QED
    BY <1>1, <1>2, <1>3, <1>4, <1>5, DomainsGoOn

LEMMA UpsertDomains ==
    ASSUME DiscoveryInv, DomainsInv, NEW s \in Syncs, NEW package \in syncs[s].indexed, Upsert(s, package)
    PROVE  DomainsInv'
<1> DEFINE sync == syncs[s]
           place == IF sync.indexed = {package} THEN "history" ELSE sync.at
           left == sync.indexed \ {package}
<1>1. /\ rows' = {x \in rows : x.did # package.did} \cup {package} /\ sync.at = "upsert"
      /\ UNCHANGED <<bulletin, capabilities, basis, overlapped>>
      /\ syncs' = [syncs EXCEPT ![s].indexed = @ \ {package},
                     ![s].at = IF sync.indexed = {package} THEN "history" ELSE @]
    BY DEF Upsert, rootSideVars
<1>2. /\ syncs'[s].at = place /\ syncs'[s].view = sync.view /\ syncs'[s].indexed = left
      /\ \A r \in Syncs : r # s => syncs'[r] = syncs[r]
  <2>1. syncs'[s] = [sync EXCEPT !.indexed = left, !.at = place]
      BY <1>1 DEF DiscoveryInv
  <2> HIDE DEF left, place
  <2> QED
      BY <1>1, <2>1, PartsOfSound DEF DiscoveryInv
<1>3. AtWork(s)
    BY <1>1 DEF AtWork
<1>4. rows' \subseteq rows \cup sync.indexed
    BY <1>1
<1>5. ASSUME ~overlapped
      PROVE  DomainsHeld(syncs[s])' /\ \A x \in rows' : Matches(x, Len(sync.view))
  <2>1. /\ Len(sync.view) >= basis /\ AllMatch(sync.indexed, Len(sync.view))
        /\ AllMatch(capabilities, Len(sync.view)) /\ AllMatch(rows, Len(sync.view))
      BY <1>1, <1>3, <1>5 DEF DomainsInv, DomainsHeld
  <2>2. \A x \in sync.indexed \cup capabilities \cup rows' : Matches(x, Len(sync.view))
      BY <1>4, <2>1 DEF AllMatch
  <2>3. \A x \in sync.indexed \cup capabilities \cup rows' : Matches(x, Len(sync.view))'
      BY <1>1, <1>2, <2>2, MatchesRests
  <2> HIDE DEF place
  <2> QED
      BY <1>1, <1>2, <2>1, <2>2, <2>3 DEF DomainsHeld, AllMatch
<1>6. UseSqlite
    BY <1>1 DEF DomainsInv, TableInUse
<1> QED
    BY <1>1, <1>2, <1>3, <1>5, <1>6, DomainsGoOn

LEMMA WriteHistoryDomains ==
    ASSUME DiscoveryInv, DomainsInv, NEW s \in Syncs, WriteHistory(s)
    PROVE  DomainsInv'
<1>0. PICK k : k = Len(syncs[s].view)
    OBVIOUS
<1>1. /\ syncs[s].at = "history" /\ syncs' = [syncs EXCEPT ![s] = IdleSync]
      /\ UNCHANGED <<bulletin, capabilities, rows, overlapped>>
      /\ basis' = basis \/ basis' = k
    BY <1>0 DEF WriteHistory, rootSideVars, indexVars
<1>2. k \in Nat /\ k <= Len(bulletin) /\ Len(bulletin) \in Nat
    BY <1>0, ViewLength
<1>3. /\ syncs'[s] = IdleSync /\ syncs'[s].at = "idle"
      /\ \A r \in Syncs : r # s => syncs'[r] = syncs[r]
    BY <1>1 DEF DiscoveryInv, IdleSync
<1>4. basis' \in Nat /\ basis' <= Len(bulletin')
    BY <1>1, <1>2 DEF DomainsInv
<1>5. TableInUse'
    BY <1>1, <1>3 DEF DomainsInv, TableInUse
<1>6. ASSUME ~overlapped'
      PROVE  /\ \A r \in Syncs : ~AtWork(r)'
             /\ \A x \in capabilities' \cup rows' : InForce(x)'
  <2>1. AtWork(s)
      BY <1>1 DEF AtWork
  <2>2. \A r \in Syncs : ~AtWork(r)'
      BY <1>1, <1>3, <1>6, <2>1 DEF DomainsInv, AtWork
  <2>3. AllMatch(capabilities, k) /\ AllMatch(rows, k)
      BY <1>0, <1>1, <1>6, <2>1 DEF DomainsInv, DomainsHeld
  <2>4. \A x \in capabilities \cup rows : Matches(x, k)' /\ InForce(x)
      BY <1>1, <1>6, <2>3, MatchesRests DEF AllMatch, DomainsInv
  <2>5. CASE basis' = basis
      BY <1>1, <2>2, <2>4, <2>5, MatchesRests DEF InForce
  <2>6. CASE basis' = k
    <3>1. k \in basis'..Len(bulletin')
        BY <1>1, <1>2, <2>6
    <3> QED
        BY <1>1, <2>2, <2>4, <3>1 DEF InForce
  <2> QED
      BY <1>1, <2>5, <2>6
<1> QED
    BY <1>4, <1>5, <1>6, <1>1 DEF DomainsInv

\* Syncs that are cut short.
LEMMA DomainsEnd ==
    ASSUME DiscoveryInv, DomainsInv, UNCHANGED <<bulletin, capabilities, rows, basis, overlapped>>,
           \A r \in Syncs : syncs'[r] \in {syncs[r], IdleSync}
    PROVE  DomainsInv'
<1>1. \A r \in Syncs : syncs'[r].at = "idle" \/ syncs'[r] = syncs[r]
    BY DEF IdleSync
<1>2. TableInUse'
    BY <1>1 DEF DomainsInv, TableInUse
<1>3. \A x : InForce(x) => InForce(x)'
    BY MatchesRests DEF InForce
<1>4. \A r \in Syncs : DomainsHeld(syncs[r]) /\ AtWork(r)' => DomainsHeld(syncs[r])'
    BY <1>1, MatchesRests DEF DomainsHeld, AllMatch, AtWork
<1> QED
    BY <1>1, <1>2, <1>3, <1>4 DEF DomainsInv, AtWork

LEMMA DomainsStep ==
    ASSUME DistributionInv, DomainsInv, [DistributionNext]_distributionVars
    PROVE  DomainsInv'
<1>1. ASSUME UNCHANGED <<bulletin, discoveryVars>>
      PROVE  DomainsInv'
    BY <1>1, DomainsEnd DEF discoveryVars, indexVars, observerVars, DistributionInv
<1>2. ASSUME NEW r \in Registrations, Anchor(r[1], r[2])
      PROVE  DomainsInv'
  <2> DEFINE event == [event_type |-> "AGENT_DID_DOCUMENT_ANCHORED",
                       subject_did |-> r[1], didDocument |-> r[2]]
  <2>1. event \in Event
      BY DiscoveryAssumption DEF Event, AgentEvent
  <2> QED
      BY <1>2, <2>1, DomainsGrow DEF Anchor, discoveryVars, indexVars, observerVars, DistributionInv
<1>3. ASSUME NEW domains \in Restrictions, Restrict(domains)
      PROVE  DomainsInv'
  <2> DEFINE event == [event_type |-> "DISCOVERY_NODE_DOMAINS_UPDATED",
                       subject_did |-> Discovery, authorizedDomains |-> domains]
  <2>1. event \in Event
      BY DiscoveryAssumption DEF Event, DomainsEvent
  <2> QED
      BY <1>3, <2>1, DomainsGrow DEF Restrict, discoveryVars, indexVars, observerVars, DistributionInv
<1>4. ASSUME NEW s \in Syncs, SyncStep(s)
      PROVE  DomainsInv'
    BY <1>4, FetchBulletinDomains, FetchManifestDomains, FetchPackageDomains, WriteCapabilitiesDomains,
       ClearIndexDomains, UpsertDomains, WriteHistoryDomains DEF SyncStep, DistributionInv
<1>5. ASSUME (\E s \in Syncs : FailSync(s)) \/ DiscoveryCrash
      PROVE  DomainsInv'
  <2>1. /\ UNCHANGED <<bulletin, capabilities, rows, basis, overlapped>>
        /\ \A r \in Syncs : syncs'[r] \in {syncs[r], IdleSync}
      BY <1>5 DEF FailSync, DiscoveryCrash, rootSideVars, DistributionInv, DiscoveryInv
  <2> QED
      BY <2>1, DomainsEnd DEF DistributionInv
<1>6. ASSUME \/ \E t \in CdnTasks, i \in 1..Len(bulletin) : Send(t, i)
             \/ \E t \in CdnTasks : CdnStep(t)
             \/ \E t \in CdnTasks : /\ LoseAnswer(t) \/ InterruptPublish(t)
                                    /\ UNCHANGED <<rootSideVars, discoveryVars>>
             \/ UNCHANGED distributionVars
      PROVE  DomainsInv'
  <2>1. UNCHANGED <<bulletin, discoveryVars>>
      BY <1>6 DEF Send, CdnStep, rootSideVars, distributionVars
  <2> QED
      BY <1>1, <2>1
<1> QED
    BY <1>2, <1>3, <1>4, <1>5, <1>6 DEF DistributionNext

\* The restriction of a node's domains takes effect with the first complete sync
\* after it, in table and file, through syncs that failed or were cut short at any
\* of their writes, as long as sync_from_cdn does not run beside itself.
THEOREM DomainsTakeEffect == DistributionSpec => []ServedWithinDomains
<1>1. DistributionInv /\ DomainsInv /\ [DistributionNext]_distributionVars => DomainsInv'
    BY DomainsStep
<1>2. DomainsInv => ServedWithinDomains
  <2> SUFFICES ASSUME DomainsInv, ~overlapped, NEW x \in Lookup
               PROVE  InForce(x)
      BY DEF ServedWithinDomains, InForce, Matches
  <2>1. x \in capabilities \cup rows
      BY DEF Lookup, LookupIn
  <2> QED
      BY <2>1 DEF DomainsInv
<1> QED
    BY DomainsInvInit, <1>1, <1>2, DistributionInvAlways, PTL DEF DistributionSpec

----------------------------------------------------------------------------
(* Syncs one after the other: the order of an Agent's packages *)

\* What else there may be on the CDN is not a package Root made for one of its events.
NothingForged == \A x \in Altered : x.sequence = 0 \/ x.flaws # {}

Clean(file) == file \in Package /\ file.flaws = {} /\ file.sequence # 0

\* Root has sent a package of this event or a later one, and whoever reads the
\* Agent's file from now on finds such a package, or nothing it would index.
Reached(a, n) ==
    /\ n <= sent[a]
    /\ Clean(files["packages"][a]) => n <= files["packages"][a].sequence

CdnAhead ==
    /\ sent \in [Agents -> Nat]
    /\ \A t \in CdnTasks : cdnPc[t] # "idle" => cdnReq[t].sequence = sent[cdnReq[t].did]
    /\ \A a \in Agents : Clean(files["packages"][a]) => files["packages"][a].sequence <= sent[a]

\* What has been read, and what queries have returned, the CDN has reached.
AheadInv ==
    /\ CdnAhead
    /\ shown \in [Agents -> Nat]
    /\ \A a \in Agents : Reached(a, shown[a])
    /\ \A x \in capabilities \cup rows : Reached(x.did, x.sequence)
    /\ \A s \in Syncs : \A x \in syncs[s].indexed : Reached(x.did, x.sequence)

\* The package is not older than one of these, nor than what was returned.
NotOlder(x, packages) ==
    /\ x.sequence >= shown[x.did]
    /\ \A y \in packages : y.did = x.did => y.sequence <= x.sequence

\* The table is never newer than the file, nor the file than the sync under way.
Orderly(file, table) ==
    /\ \A x \in file : NotOlder(x, table)
    /\ \A x \in table : NotOlder(x, {})

SyncFresh(sync, file, table) ==
    /\ \A x \in sync.indexed : NotOlder(x, file \cup table)
    /\ sync.at \in {"clear", "upsert"} => sync.indexed \subseteq file

FreshInv ==
    ~overlapped =>
        /\ Orderly(capabilities, rows)
        /\ \A s \in Syncs : AtWork(s) => SyncFresh(syncs[s], capabilities, rows)

LEMMA CleanIsPackage ==
    ASSUME NEW file, Clean(file)
    PROVE  file \in Package /\ file.sequence \in Nat /\ Readable(file)
    BY PackageParts DEF Clean, Readable

LEMMA AheadInvInit == ASSUME NothingForged PROVE DistributionInit => AheadInv
<1> SUFFICES ASSUME DistributionInit PROVE AheadInv
    OBVIOUS
<1>1. /\ sent = [a \in Agents |-> 0] /\ shown = [a \in Agents |-> 0]
      /\ capabilities = {} /\ rows = {} /\ syncs = [s \in Syncs |-> IdleSync]
      /\ cdnPc = [t \in CdnTasks |-> "idle"]
    BY DEF DistributionInit, DiscoveryInit, CdnInit
<1>2. PICK found \in SUBSET Altered :
        files = [kind \in Kinds |-> [a \in Agents |->
             IF \E x \in found : x.did = a THEN CHOOSE x \in found : x.did = a ELSE Absent]]
    BY DEF DistributionInit, CdnInit
<1>3. \A a \in Agents : ~Clean(files["packages"][a])
  <2> SUFFICES ASSUME NEW a \in Agents PROVE ~Clean(files["packages"][a])
      OBVIOUS
  <2>1. files["packages"][a] \in found \/ files["packages"][a] = Absent
      BY <1>2 DEF Kinds
  <2> QED
      BY <2>1, CdnAssumption DEF Clean, NothingForged
<1>4. CdnAhead
    BY <1>1, <1>3 DEF CdnAhead
<1>5. \A a \in Agents : Reached(a, shown[a])
    BY <1>1, <1>3 DEF Reached
<1>6. \A s \in Syncs : syncs[s].indexed = {}
    BY <1>1 DEF IdleSync
<1> QED
    BY <1>1, <1>4, <1>5, <1>6 DEF AheadInv

\* The CDN and Root only go on: what was reached stays reached.
GoesOn == \A a \in Agents, n \in Nat : Reached(a, n) => Reached(a, n)'

LEMMA CdnAheadRests ==
    ASSUME CdnAhead, UNCHANGED <<files, cdnPc, cdnReq, sent>>
    PROVE  CdnAhead' /\ GoesOn
    BY DEF CdnAhead, GoesOn, Reached

LEMMA SendAhead ==
    ASSUME CdnInv, DiscoveryInv, CdnAhead, NEW t \in CdnTasks, NEW i \in 1..Len(bulletin), Send(t, i)
    PROVE  CdnAhead' /\ GoesOn
<1> DEFINE a == bulletin[i].subject_did
           package == [did |-> a, didDocument |-> bulletin[i].didDocument, sequence |-> i, flaws |-> {}]
<1>1. /\ bulletin[i] \in AgentEvent /\ i >= sent[a] /\ sent' = [sent EXCEPT ![a] = i]
      /\ cdnPc' = [cdnPc EXCEPT ![t] = "documents"] /\ cdnReq' = [cdnReq EXCEPT ![t] = package]
      /\ files' = files /\ cdnLock = NoTask
    BY DEF Send, Receive, fileVars
<1>2. a \in Agents /\ i \in Nat
    BY <1>1 DEF AgentEvent, DiscoveryInv
<1>3. package.did = a /\ package.sequence = i
    OBVIOUS
<1> HIDE DEF a, package
<1>4. \A u \in CdnTasks : cdnPc[u] = "idle"
    BY <1>1, CdnAssumption DEF CdnInv, Serving
<1>5. /\ sent' \in [Agents -> Nat] /\ sent'[a] = i
      /\ \A b \in Agents : sent'[b] >= sent[b] /\ sent[b] \in Nat /\ sent'[b] \in Nat
  <2>1. sent \in [Agents -> Nat]
      BY DEF CdnAhead
  <2> QED
      BY <1>1, <1>2, <2>1
<1>6. \A u \in CdnTasks : cdnPc'[u] # "idle" => u = t /\ cdnReq'[u] = package
    BY <1>1, <1>4 DEF CdnInv, CdnTypeOK
<1>7. \A u \in CdnTasks : cdnPc'[u] # "idle" => cdnReq'[u].sequence = sent'[cdnReq'[u].did]
    BY <1>3, <1>5, <1>6
<1>8. \A b \in Agents : Clean(files'["packages"][b]) => files'["packages"][b].sequence <= sent'[b]
  <2> SUFFICES ASSUME NEW b \in Agents, Clean(files["packages"][b])
               PROVE  files["packages"][b].sequence <= sent'[b]
      BY <1>1
  <2>1. files["packages"][b].sequence <= sent[b] /\ files["packages"][b].sequence \in Nat
      BY CleanIsPackage DEF CdnAhead
  <2> QED
      BY <1>5, <2>1
<1>9. CdnAhead'
    BY <1>5, <1>7, <1>8 DEF CdnAhead, Clean
<1>10. GoesOn
  <2> SUFFICES ASSUME NEW b \in Agents, NEW n \in Nat, Reached(b, n) PROVE Reached(b, n)'
      BY DEF GoesOn
  <2>1. n <= sent'[b]
      BY <1>5 DEF Reached
  <2> QED
      BY <1>1, <2>1 DEF Reached, Clean
<1> QED
    BY <1>9, <1>10

LEMMA WriteFileAhead ==
    ASSUME CdnInv, CdnAhead, NEW t \in CdnTasks, WriteFile(t), sent' = sent
    PROVE  CdnAhead' /\ GoesOn
<1> DEFINE kind == cdnPc[t]
           package == cdnReq[t]
<1>1. /\ kind \in Kinds /\ kind # "idle"
      /\ files' = [files EXCEPT ![kind][package.did] = package]
      /\ cdnPc' = [cdnPc EXCEPT ![t] = Following[kind]] /\ UNCHANGED cdnReq
    BY DEF WriteFile, Kinds
<1>2. /\ package \in Package /\ package.did \in Agents /\ package.sequence = sent[package.did]
      /\ package.sequence \in Nat
    BY <1>1, PackageParts DEF CdnInv, Serving, CdnAhead
<1>3. /\ files \in [Kinds -> [Agents -> Package \cup {Absent, Torn}]]
      /\ cdnPc \in [CdnTasks -> Kinds \cup {"idle", "manifest"}]
    BY DEF CdnInv, CdnTypeOK
<1>4. /\ \A a \in Agents : \/ files'["packages"][a] = files["packages"][a]
                           \/ a = package.did /\ files'["packages"][a] = package
    BY <1>1, <1>2, <1>3 DEF Kinds
<1>5. \A u \in CdnTasks : cdnPc'[u] # "idle" => cdnPc[u] # "idle"
    BY <1>1, <1>3
<1> HIDE DEF package, kind
<1>6. \A a \in Agents : Clean(files'["packages"][a]) => files'["packages"][a].sequence <= sent[a]
  <2> SUFFICES ASSUME NEW a \in Agents, Clean(files'["packages"][a])
               PROVE  files'["packages"][a].sequence <= sent[a]
      OBVIOUS
  <2>1. CASE files'["packages"][a] = files["packages"][a]
      BY <2>1 DEF CdnAhead
  <2>2. CASE a = package.did /\ files'["packages"][a] = package
      BY <1>2, <2>2
  <2> QED
      BY <1>4, <2>1, <2>2
<1>7. CdnAhead'
    BY <1>1, <1>5, <1>6 DEF CdnAhead, Clean
<1>8. GoesOn
  <2> SUFFICES ASSUME NEW a \in Agents, NEW n \in Nat, Reached(a, n) PROVE Reached(a, n)'
      BY DEF GoesOn
  <2>1. CASE files'["packages"][a] = files["packages"][a]
      BY <2>1 DEF Reached, Clean
  <2>2. CASE a = package.did /\ files'["packages"][a] = package
      BY <1>2, <2>2 DEF Reached
  <2> QED
      BY <1>4, <2>1, <2>2
<1> QED
    BY <1>7, <1>8

LEMMA AnswerAhead ==
    ASSUME CdnInv, CdnAhead, NEW t \in CdnTasks,
           Publish(t) \/ LoseAnswer(t) \/ InterruptPublish(t), sent' = sent
    PROVE  CdnAhead' /\ GoesOn
<1>1. /\ cdnPc[t] # "idle" /\ Answer(t)
      /\ files' = files \/ files' = [files EXCEPT ![cdnPc[t]][cdnReq[t].did] = Torn]
    BY DEF Publish, LoseAnswer, WriteManifest, InterruptPublish, Interrupted, fileVars
<1>2. \A u \in CdnTasks : cdnPc'[u] = "idle"
  <2>1. cdnPc' = [cdnPc EXCEPT ![t] = "idle"] /\ cdnPc \in [CdnTasks -> Kinds \cup {"idle", "manifest"}]
      BY <1>1 DEF Answer, CdnInv, CdnTypeOK
  <2>2. \A u \in CdnTasks : u # t => cdnPc[u] = "idle"
      BY <1>1, OneTask DEF CdnInv
  <2> QED
      BY <2>1, <2>2
<1>3. \A a \in Agents : files'["packages"][a] = files["packages"][a] \/ files'["packages"][a] = Torn
  <2>1. files \in [Kinds -> [Agents -> Package \cup {Absent, Torn}]] /\ "packages" \in Kinds
      BY DEF CdnInv, CdnTypeOK, Kinds
  <2> QED
      BY <1>1, <2>1
<1>4. \A a \in Agents : Clean(files'["packages"][a]) => files'["packages"][a] = files["packages"][a]
    BY <1>3, CdnAssumption DEF Clean
<1>5. CdnAhead'
    BY <1>2, <1>4 DEF CdnAhead, Clean
<1>6. GoesOn
    BY <1>4 DEF GoesOn, Reached, Clean
<1> QED
    BY <1>5, <1>6

LEMMA CdnAheadStep ==
    ASSUME DistributionInv, CdnAhead, [DistributionNext]_distributionVars
    PROVE  CdnAhead' /\ GoesOn
<1>1. CASE UNCHANGED <<files, cdnPc, cdnReq, sent>>
    BY <1>1, CdnAheadRests
<1>2. CASE \E t \in CdnTasks, i \in 1..Len(bulletin) : Send(t, i)
    BY <1>2, SendAhead DEF DistributionInv
<1>3. ASSUME NEW t \in CdnTasks, CdnStep(t) PROVE CdnAhead' /\ GoesOn
    BY <1>3, WriteFileAhead, AnswerAhead DEF CdnStep, rootSideVars, DistributionInv
<1>4. ASSUME NEW t \in CdnTasks, LoseAnswer(t) \/ InterruptPublish(t), UNCHANGED rootSideVars
      PROVE  CdnAhead' /\ GoesOn
    BY <1>4, AnswerAhead DEF rootSideVars, DistributionInv
<1>5. CASE UNCHANGED distributionVars
    BY <1>1, <1>5 DEF distributionVars, cdnVars, fileVars, taskVars, rootSideVars
<1>6. CASE (\E r \in Registrations : Anchor(r[1], r[2])) \/ (\E domains \in Restrictions : Restrict(domains))
    BY <1>1, <1>6 DEF Anchor, Restrict, cdnVars, fileVars, taskVars
<1>7. ASSUME NEW s \in Syncs, SyncStep(s) PROVE UNCHANGED <<files, cdnPc, cdnReq, sent>>
    BY <1>7 DEF SyncStep, FetchBulletin, FetchManifest, FetchPackage, WriteCapabilities, ClearIndex,
           Upsert, WriteHistory, cdnVars, fileVars, taskVars, rootSideVars
<1>8. CASE (\E s \in Syncs : FailSync(s)) \/ DiscoveryCrash
    BY <1>1, <1>8 DEF FailSync, DiscoveryCrash, fileVars, taskVars, rootSideVars
<1> QED
    BY <1>1, <1>2, <1>3, <1>4, <1>5, <1>6, <1>7, <1>8 DEF DistributionNext

\* A query returns what it returned before, or the one package there is now.
ShownFrom(packages) ==
    /\ shown' \in [Agents -> Nat]
    /\ \A a \in Agents : \/ shown'[a] = shown[a]
                         \/ \E y \in packages : y.did = a /\ shown'[a] = y.sequence

LEMMA ObserveMoves ==
    ASSUME NEW table, NEW file, NEW torn, IndexSound(table), IndexSound(file),
           shown \in [Agents -> Nat], Observe(table, file, torn)
    PROVE  ShownFrom(LookupIn(table, file, torn))
<1> DEFINE found(a) == {x.sequence : x \in {y \in LookupIn(table, file, torn) : y.did = a}}
           next(a) == IF \E i \in found(a) : i > shown[a]
                      THEN CHOOSE i \in found(a) : \A j \in found(a) : j <= i ELSE shown[a]
<1>1. shown' = [a \in Agents |-> next(a)]
    BY DEF Observe
<1>2. IndexSound(LookupIn(table, file, torn))
    BY DEF LookupIn, IndexSound, Unambiguous
<1>3. ASSUME NEW a \in Agents
      PROVE  /\ next(a) \in Nat
             /\ \/ next(a) = shown[a]
                \/ \E y \in LookupIn(table, file, torn) : y.did = a /\ next(a) = y.sequence
  <2>1. CASE ~\E i \in found(a) : i > shown[a]
      BY <2>1
  <2>2. CASE \E i \in found(a) : i > shown[a]
    <3>1. PICK y \in LookupIn(table, file, torn) : y.did = a
        BY <2>2
    <3>2. y.sequence \in Nat
        BY <1>2, <3>1, PackageParts DEF IndexSound, Proven
    <3>3. \A x \in LookupIn(table, file, torn) : x.did = a => x = y
        BY <1>2, <3>1 DEF IndexSound, Unambiguous
    <3>4. found(a) = {y.sequence}
        BY <3>1, <3>3
    <3> HIDE DEF found
    <3>5. \E i \in found(a) : \A j \in found(a) : j <= i
        BY <3>2, <3>4
    <3>6. next(a) \in found(a)
        BY <2>2, <3>5
    <3> HIDE DEF next
    <3> QED
        BY <3>1, <3>2, <3>4, <3>6
  <2> QED
      BY <2>1, <2>2
<1> HIDE DEF next
<1> QED
    BY <1>1, <1>3 DEF ShownFrom

\* A step of the node: the index takes what a sync holds, a sync what it reads.
LEMMA AheadMoves ==
    ASSUME DistributionInv, AheadInv, CdnAhead', GoesOn, ShownFrom(capabilities' \cup rows'),
           \A x \in capabilities' \cup rows' :
              x \in capabilities \cup rows \/ \E s \in Syncs : x \in syncs[s].indexed,
           \A s \in Syncs : \A x \in syncs'[s].indexed :
              \/ x \in syncs[s].indexed
              \/ files' = files /\ Clean(x) /\ x.did \in Agents /\ x = files["packages"][x.did]
    PROVE  AheadInv'
<1>1. \A x : Proven(x) => x.did \in Agents /\ x.sequence \in Nat
    BY PackageParts DEF Proven
<1>2. \A x \in capabilities \cup rows : Reached(x.did, x.sequence)'
    BY <1>1 DEF AheadInv, GoesOn, DistributionInv, DiscoveryInv, IndexSound
<1>3. \A s \in Syncs : \A x \in syncs[s].indexed : Reached(x.did, x.sequence)'
    BY <1>1 DEF AheadInv, GoesOn, DistributionInv, DiscoveryInv, SyncSound
<1>4. \A x \in capabilities' \cup rows' : Reached(x.did, x.sequence)'
    BY <1>2, <1>3
<1>5. \A s \in Syncs : \A x \in syncs'[s].indexed : Reached(x.did, x.sequence)'
  <2> SUFFICES ASSUME NEW s \in Syncs, NEW x \in syncs'[s].indexed PROVE Reached(x.did, x.sequence)'
      OBVIOUS
  <2>1. CASE x \in syncs[s].indexed
      BY <1>3, <2>1
  <2>2. CASE files' = files /\ Clean(x) /\ x.did \in Agents /\ x = files["packages"][x.did]
    <3>1. x.sequence \in Nat /\ x.sequence <= sent[x.did]
        BY <2>2, CleanIsPackage DEF AheadInv, CdnAhead
    <3>2. Reached(x.did, x.sequence)
        BY <2>2, <3>1 DEF Reached
    <3> QED
        BY <2>2, <3>1, <3>2 DEF GoesOn
  <2> QED
      BY <2>1, <2>2
<1>6. \A a \in Agents : Reached(a, shown[a])'
  <2> SUFFICES ASSUME NEW a \in Agents PROVE Reached(a, shown[a])'
      OBVIOUS
  <2>1. CASE shown'[a] = shown[a]
    <3>1. PICK n : n = shown[a]
        OBVIOUS
    <3>2. n \in Nat /\ Reached(a, n)
        BY <3>1 DEF AheadInv
    <3>3. Reached(a, n)'
        BY <3>2 DEF GoesOn
    <3> QED
        BY <2>1, <3>1, <3>3 DEF Reached
  <2>2. ASSUME NEW y \in capabilities' \cup rows', y.did = a, shown'[a] = y.sequence
        PROVE  Reached(a, shown[a])'
    <3>1. Reached(y.did, y.sequence)'
        BY <1>4
    <3> QED
        BY <2>2, <3>1 DEF Reached
  <2> QED
      BY <2>1, <2>2 DEF ShownFrom
<1> QED
    BY <1>4, <1>5, <1>6 DEF AheadInv, ShownFrom

\* What a query has returned, after a step that leaves this table and this file.
LEMMA ShownStaysBelow ==
    ASSUME NEW table, NEW file, NEW torn, ShownFrom(LookupIn(table, file, torn)),
           UseSqlite \/ table = {}, Unambiguous(table),
           NEW x, x.did \in Agents, x.sequence >= shown[x.did],
           x \in table \/ \A y \in file \cup table : y.did = x.did => y.sequence <= x.sequence
    PROVE  x.sequence >= shown'[x.did]
<1>1. CASE shown'[x.did] = shown[x.did]
    BY <1>1
<1>2. ASSUME NEW y \in LookupIn(table, file, torn), y.did = x.did, shown'[x.did] = y.sequence
      PROVE  x.sequence >= shown'[x.did]
  <2>1. y \in table \/ (table = {} /\ y \in file)
      BY <1>2 DEF LookupIn
  <2>2. CASE x \in table
    <3>1. y = x
        BY <1>2, <2>1, <2>2 DEF Unambiguous
    <3>2. x.sequence \in Nat
        BY <1>2, <3>1 DEF ShownFrom
    <3> QED
        BY <1>2, <3>1, <3>2
  <2>3. CASE \A z \in file \cup table : z.did = x.did => z.sequence <= x.sequence
      BY <1>2, <2>1, <2>3
  <2> QED
      BY <2>2, <2>3
<1> QED
    BY <1>1, <1>2 DEF ShownFrom

\* It is enough to look at what was returned before the step.
LEMMA FreshMoves ==
    ASSUME DiscoveryInv', DomainsInv', ShownFrom(LookupIn(rows', capabilities', indexTorn')),
           ~overlapped' =>
              /\ Orderly(capabilities', rows')
              /\ \A s \in Syncs : AtWork(s)' => SyncFresh(syncs'[s], capabilities', rows')
    PROVE  FreshInv'
<1> SUFFICES ASSUME ~overlapped'
             PROVE  /\ Orderly(capabilities, rows)'
                    /\ \A s \in Syncs : AtWork(s)' => SyncFresh(syncs[s], capabilities, rows)'
    BY DEF FreshInv
<1>1. UseSqlite \/ rows' = {}
    BY DEF DomainsInv, TableInUse
<1>2. /\ Unambiguous(rows') /\ \A x \in capabilities' \cup rows' : x.did \in Agents
      /\ \A s \in Syncs : \A x \in syncs'[s].indexed : x.did \in Agents
  <2>1. \A x : Proven(x)' => x.did \in Agents
      BY PackageParts DEF Proven
  <2> QED
      BY <2>1 DEF DiscoveryInv, IndexSound, SyncSound, Unambiguous
<1>3. \A x \in capabilities' : NotOlder(x, rows') /\ x.sequence >= shown'[x.did]
  <2> SUFFICES ASSUME NEW x \in capabilities'
               PROVE  NotOlder(x, rows') /\ x.sequence >= shown'[x.did]
      OBVIOUS
  <2>1. NotOlder(x, rows')
      BY DEF Orderly
  <2>2. ASSUME NEW y \in LookupIn(rows', capabilities', indexTorn'), y.did = x.did,
               shown'[x.did] = y.sequence
        PROVE  x.sequence >= shown'[x.did]
    <3>1. y \in rows' \/ y \in capabilities'
        BY <2>2 DEF LookupIn
    <3>2. CASE y \in rows'
        BY <2>1, <2>2, <3>2 DEF NotOlder
    <3>3. CASE y \in capabilities'
      <4>1. x = y
          BY <2>2, <3>3 DEF DiscoveryInv, IndexSound, Unambiguous
      <4>2. x.sequence \in Nat
          BY <1>2, <2>2, <4>1 DEF ShownFrom
      <4> QED
          BY <2>2, <4>1, <4>2
    <3> QED
        BY <3>1, <3>2, <3>3
  <2>3. shown'[x.did] = shown[x.did] => x.sequence >= shown'[x.did]
      BY <2>1 DEF NotOlder
  <2> QED
      BY <1>2, <2>1, <2>2, <2>3 DEF ShownFrom
<1>4. \A x \in rows' : x.sequence >= shown'[x.did]
    BY <1>1, <1>2, ShownStaysBelow DEF Orderly, NotOlder
<1>5. \A s \in Syncs : AtWork(s)' => \A x \in syncs'[s].indexed :
          NotOlder(x, capabilities' \cup rows') /\ x.sequence >= shown'[x.did]
    BY <1>1, <1>2, ShownStaysBelow DEF SyncFresh, NotOlder
<1> QED
    BY <1>3, <1>4, <1>5 DEF Orderly, SyncFresh, NotOlder

\* What a step has to show.
Takes ==
    /\ \A x \in capabilities' \cup rows' :
          x \in capabilities \cup rows \/ \E s \in Syncs : x \in syncs[s].indexed
    /\ \A s \in Syncs : \A x \in syncs'[s].indexed :
          \/ x \in syncs[s].indexed
          \/ files' = files /\ Clean(x) /\ x.did \in Agents /\ x = files["packages"][x.did]

InOrder ==
    ~overlapped' =>
        /\ Orderly(capabilities', rows')
        /\ \A s \in Syncs : AtWork(s)' => SyncFresh(syncs'[s], capabilities', rows')

OrderStep == ShownFrom(LookupIn(rows', capabilities', indexTorn')) /\ Takes /\ InOrder

OrderInv == AheadInv /\ FreshInv

LEMMA OrderKept ==
    ASSUME DistributionInv, DistributionInv', DomainsInv', OrderInv, CdnAhead', GoesOn, OrderStep
    PROVE  OrderInv'
<1>1. LookupIn(rows', capabilities', indexTorn') \subseteq capabilities' \cup rows'
    BY DEF LookupIn
<1>2. ShownFrom(capabilities' \cup rows')
    BY <1>1 DEF OrderStep, ShownFrom
<1>3. AheadInv'
    BY <1>2, AheadMoves DEF OrderStep, Takes, OrderInv
<1>4. FreshInv'
    BY FreshMoves DEF OrderStep, InOrder, DistributionInv
<1> QED
    BY <1>3, <1>4 DEF OrderInv

LEMMA ShownRests ==
    ASSUME AheadInv, shown' = shown
    PROVE  ShownFrom(LookupIn(rows', capabilities', indexTorn'))
    BY DEF AheadInv, ShownFrom

\* The index as it was, and syncs as they were, but for those that end.
LEMMA RestInOrder ==
    ASSUME DiscoveryInv, AheadInv, FreshInv, UNCHANGED <<capabilities, rows, overlapped>>,
           \A r \in Syncs : syncs'[r] \in {syncs[r], IdleSync}
    PROVE  Takes /\ InOrder
<1>1. \A r \in Syncs : syncs'[r].indexed \subseteq syncs[r].indexed
    BY DEF IdleSync
<1>2. \A r \in Syncs : AtWork(r)' => syncs'[r] = syncs[r] /\ AtWork(r)
    BY DEF IdleSync, AtWork
<1> QED
    BY <1>1, <1>2 DEF Takes, InOrder, FreshInv

LEMMA FetchBulletinOrder ==
    ASSUME DiscoveryInv, AheadInv, FreshInv, NEW s \in Syncs, FetchBulletin(s)
    PROVE  OrderStep
<1>1. /\ syncs[s].at = "idle" /\ syncs' = [syncs EXCEPT ![s].at = "manifest", ![s].view = bulletin]
      /\ UNCHANGED <<capabilities, rows, shown>>
      /\ overlapped' = (overlapped \/ \E r \in Syncs : syncs[r].at # "idle")
    BY DEF FetchBulletin, indexVars
<1>2. /\ syncs'[s].at = "manifest" /\ syncs'[s].indexed = {}
      /\ \A r \in Syncs : r # s => syncs'[r] = syncs[r]
  <2>1. syncs[s] = [at |-> syncs[s].at, view |-> syncs[s].view, todo |-> syncs[s].todo, indexed |-> {}]
      BY <1>1, PartsOfSound
  <2>2. syncs'[s] = [syncs[s] EXCEPT !.at = "manifest", !.view = bulletin]
      BY <1>1 DEF DiscoveryInv
  <2> QED
      BY <1>1, <2>1, <2>2 DEF DiscoveryInv
<1>3. Takes
    BY <1>1, <1>2 DEF Takes
<1>4. InOrder
  <2> SUFFICES ASSUME ~overlapped'
               PROVE  /\ Orderly(capabilities, rows)
                      /\ \A r \in Syncs : AtWork(r)' => SyncFresh(syncs'[r], capabilities, rows)
      BY <1>1 DEF InOrder
  <2>1. ~overlapped /\ \A r \in Syncs : AtWork(r)' => r = s
      BY <1>1, <1>2 DEF AtWork
  <2> QED
      BY <1>2, <2>1 DEF FreshInv, SyncFresh
<1> QED
    BY <1>1, <1>3, <1>4, ShownRests DEF OrderStep

LEMMA FetchManifestOrder ==
    ASSUME DiscoveryInv, AheadInv, FreshInv, NEW s \in Syncs, FetchManifest(s)
    PROVE  OrderStep
<1>1. PICK file \in SeenManifest :
        syncs' = [syncs EXCEPT ![s] =
          IF Readable(file) THEN [@ EXCEPT !.at = "packages", !.todo = {e.did : e \in file}]
          ELSE IdleSync]
    BY DEF FetchManifest
<1>2. syncs[s].at = "manifest" /\ UNCHANGED <<capabilities, rows, overlapped, shown>>
    BY DEF FetchManifest, indexVars, observerVars
<1>3. /\ syncs'[s].at \in {"packages", "idle"} /\ syncs'[s].indexed = {}
      /\ \A r \in Syncs : r # s => syncs'[r] = syncs[r]
  <2>1. CASE Readable(file)
    <3>1. syncs'[s] = [syncs[s] EXCEPT !.at = "packages", !.todo = {e.did : e \in file}]
        BY <1>1, <2>1 DEF DiscoveryInv
    <3> QED
        BY <1>1, <1>2, <3>1, PartsOfSound DEF DiscoveryInv
  <2>2. CASE ~Readable(file)
      BY <1>1, <2>2 DEF IdleSync, DiscoveryInv
  <2> QED
      BY <2>1, <2>2
<1>4. Takes
    BY <1>2, <1>3 DEF Takes
<1>5. InOrder
    BY <1>2, <1>3 DEF InOrder, FreshInv, SyncFresh, AtWork
<1> QED
    BY <1>2, <1>4, <1>5, ShownRests DEF OrderStep

LEMMA FetchPackageOrder ==
    ASSUME CdnInv, DiscoveryInv, AheadInv, FreshInv, NEW s \in Syncs, NEW a \in syncs[s].todo,
           FetchPackage(s, a)
    PROVE  OrderStep
<1> DEFINE sync == syncs[s]
<1>1. PICK file \in SeenPackage(a) :
        syncs' = [syncs EXCEPT ![s].todo = @ \ {a},
                    ![s].indexed = IF Passes(file, sync.view) THEN @ \cup {file} ELSE @]
    BY DEF FetchPackage
<1>2. sync.at = "packages" /\ UNCHANGED <<files, capabilities, rows, overlapped, shown>>
    BY DEF FetchPackage, indexVars, observerVars, cdnVars, fileVars
<1> DEFINE indexed == IF Passes(file, sync.view) THEN sync.indexed \cup {file} ELSE sync.indexed
<1>3. /\ syncs'[s].at = "packages" /\ syncs'[s].indexed = indexed
      /\ \A r \in Syncs : r # s => syncs'[r] = syncs[r]
  <2>1. syncs'[s] = [sync EXCEPT !.todo = @ \ {a}, !.indexed = indexed]
      BY <1>1 DEF DiscoveryInv
  <2> HIDE DEF indexed
  <2> QED
      BY <1>1, <1>2, <2>1, PartsOfSound DEF DiscoveryInv
<1>4. a \in Agents
    BY PartsOfSound
<1>5. ASSUME Passes(file, sync.view)
      PROVE  Clean(file) /\ file.did = a /\ file = files["packages"][a]
  <2>1. file = files["packages"][a] /\ Readable(file)
      BY <1>5 DEF Passes, SeenPackage, Readable
  <2>2. file \in Package /\ file.did = a
      BY <1>4, <2>1 DEF CdnInv, CdnTypeOK, Named, Kinds, Readable
  <2>3. Proven(file)
      BY <1>5, <2>2, PassedIsProven, PartsOfSound DEF DiscoveryInv
  <2>4. file.sequence # 0
      BY <2>3 DEF Proven, RootProofVerifies, DiscoveryInv
  <2> QED
      BY <2>1, <2>2, <2>3, <2>4 DEF Clean, Proven
<1>6. \A x \in indexed : \/ x \in sync.indexed
                         \/ Clean(x) /\ x.did = a /\ x = files["packages"][a]
    BY <1>5
<1> HIDE DEF indexed
<1>7. Takes
    BY <1>2, <1>3, <1>4, <1>6 DEF Takes
<1>8. ASSUME ~overlapped PROVE SyncFresh(syncs'[s], capabilities, rows)
  <2>1. \A x \in sync.indexed : NotOlder(x, capabilities \cup rows)
      BY <1>2, <1>8 DEF FreshInv, AtWork, SyncFresh
  <2>2. ASSUME NEW x, Clean(x), x.did = a, x = files["packages"][a]
        PROVE  NotOlder(x, capabilities \cup rows)
    <3>1. shown[a] \in Nat /\ shown[a] <= x.sequence /\ x.sequence \in Nat
        BY <1>4, <2>2, CleanIsPackage DEF AheadInv, Reached
    <3>2. \A y \in capabilities \cup rows : y.did = a => y.sequence <= x.sequence
        BY <2>2 DEF AheadInv, Reached
    <3> QED
        BY <2>2, <3>1, <3>2 DEF NotOlder
  <2> QED
      BY <1>3, <1>6, <2>1, <2>2 DEF SyncFresh
<1>9. InOrder
    BY <1>2, <1>3, <1>8 DEF InOrder, FreshInv, AtWork
<1> QED
    BY <1>2, <1>7, <1>9, ShownRests DEF OrderStep

LEMMA IndexIsSound ==
    ASSUME DiscoveryInv, DiscoveryInv', bulletin' = bulletin
    PROVE  IndexSound(rows') /\ IndexSound(capabilities')
<1>1. \A x : Proven(x)' => Proven(x)
    BY DEF Proven, RootProofVerifies
<1> QED
    BY <1>1 DEF DiscoveryInv, IndexSound, Unambiguous

LEMMA WriteCapabilitiesOrder ==
    ASSUME DiscoveryInv, DiscoveryInv', DomainsInv, AheadInv, FreshInv, NEW s \in Syncs,
           WriteCapabilities(s)
    PROVE  OrderStep
<1> DEFINE sync == syncs[s]
           place == IF UseSqlite THEN "clear" ELSE "history"
<1>1. /\ capabilities' = sync.indexed /\ sync.at = "packages"
      /\ UNCHANGED <<bulletin, rows, overlapped>>
      /\ syncs' = [syncs EXCEPT ![s].at = place]
      /\ Observe(rows, capabilities', indexTorn')
    BY DEF WriteCapabilities, rootSideVars
<1>2. /\ syncs'[s].at = place /\ syncs'[s].indexed = sync.indexed
      /\ \A r \in Syncs : r # s => syncs'[r] = syncs[r]
    BY <1>1, PartsOfSound DEF DiscoveryInv
<1> HIDE DEF place
<1>3. ShownFrom(LookupIn(rows', capabilities', indexTorn'))
  <2>1. Observe(rows', capabilities', indexTorn')
      BY <1>1
  <2> QED
      BY <1>1, <2>1, IndexIsSound, ObserveMoves DEF AheadInv
<1>4. Takes
    BY <1>1, <1>2 DEF Takes
<1>5. ASSUME ~overlapped
      PROVE  Orderly(capabilities', rows') /\ SyncFresh(syncs'[s], capabilities', rows')
  <2>1. Orderly(capabilities, rows) /\ \A x \in sync.indexed : NotOlder(x, capabilities \cup rows)
      BY <1>1, <1>5 DEF FreshInv, AtWork, SyncFresh
  <2>2. \A x \in sync.indexed : NotOlder(x, rows)
      BY <2>1 DEF NotOlder
  <2>3. Unambiguous(sync.indexed) /\ \A x \in sync.indexed : x.sequence \in Nat
      BY PartsOfSound, PackageParts
  <2>4. \A x \in sync.indexed : NotOlder(x, sync.indexed \cup rows)
    <3> SUFFICES ASSUME NEW x \in sync.indexed, NEW y \in sync.indexed, y.did = x.did
                 PROVE  y.sequence <= x.sequence
        BY <2>2 DEF NotOlder
    <3>1. x = y
        BY <2>3 DEF Unambiguous
    <3> QED
        BY <2>3, <3>1
  <2>5. Orderly(sync.indexed, rows)
      BY <2>1, <2>2 DEF Orderly
  <2> QED
      BY <1>1, <1>2, <2>4, <2>5 DEF SyncFresh
<1>6. InOrder
    BY <1>1, <1>2, <1>5 DEF InOrder, DomainsInv, AtWork
<1> QED
    BY <1>3, <1>4, <1>6 DEF OrderStep

LEMMA ClearIndexOrder ==
    ASSUME DiscoveryInv, DiscoveryInv', DomainsInv, AheadInv, FreshInv, NEW s \in Syncs, ClearIndex(s)
    PROVE  OrderStep
<1> DEFINE sync == syncs[s]
           place == IF sync.indexed = {} THEN "history" ELSE "upsert"
<1>1. /\ rows' = {} /\ sync.at = "clear"
      /\ UNCHANGED <<bulletin, capabilities, indexTorn, overlapped>>
      /\ syncs' = [syncs EXCEPT ![s].at = place]
      /\ Observe(rows', capabilities, indexTorn)
    BY DEF ClearIndex, rootSideVars
<1>2. /\ syncs'[s].at = place /\ syncs'[s].indexed = sync.indexed
      /\ \A r \in Syncs : r # s => syncs'[r] = syncs[r]
    BY <1>1, PartsOfSound DEF DiscoveryInv
<1> HIDE DEF place
<1>3. ShownFrom(LookupIn(rows', capabilities', indexTorn'))
  <2>1. Observe(rows', capabilities', indexTorn')
      BY <1>1
  <2> QED
      BY <1>1, <2>1, IndexIsSound, ObserveMoves DEF AheadInv
<1>4. Takes
    BY <1>1, <1>2 DEF Takes
<1>5. ASSUME ~overlapped
      PROVE  Orderly(capabilities', rows') /\ SyncFresh(syncs'[s], capabilities', rows')
  <2>1. Orderly(capabilities, rows) /\ SyncFresh(sync, capabilities, rows)
      BY <1>1, <1>5 DEF FreshInv, AtWork
  <2> QED
      BY <1>1, <1>2, <2>1 DEF Orderly, SyncFresh, NotOlder
<1>6. InOrder
    BY <1>1, <1>2, <1>5 DEF InOrder, DomainsInv, AtWork
<1> QED
    BY <1>3, <1>4, <1>6 DEF OrderStep

LEMMA UpsertOrder ==
    ASSUME DiscoveryInv, DiscoveryInv', DomainsInv, AheadInv, FreshInv, NEW s \in Syncs,
           NEW package \in syncs[s].indexed, Upsert(s, package)
    PROVE  OrderStep
<1> DEFINE sync == syncs[s]
           place == IF sync.indexed = {package} THEN "history" ELSE sync.at
           left == sync.indexed \ {package}
<1>1. /\ rows' = {x \in rows : x.did # package.did} \cup {package} /\ sync.at = "upsert"
      /\ UNCHANGED <<bulletin, capabilities, indexTorn, overlapped>>
      /\ syncs' = [syncs EXCEPT ![s].indexed = @ \ {package},
                     ![s].at = IF sync.indexed = {package} THEN "history" ELSE @]
      /\ Observe(rows', capabilities, indexTorn)
    BY DEF Upsert, rootSideVars
<1>2. /\ syncs'[s].at = place /\ syncs'[s].indexed = left
      /\ \A r \in Syncs : r # s => syncs'[r] = syncs[r]
  <2>1. syncs'[s] = [sync EXCEPT !.indexed = left, !.at = place]
      BY <1>1 DEF DiscoveryInv
  <2> HIDE DEF left, place
  <2> QED
      BY <1>1, <2>1, PartsOfSound DEF DiscoveryInv
<1>3. ShownFrom(LookupIn(rows', capabilities', indexTorn'))
  <2>1. Observe(rows', capabilities', indexTorn')
      BY <1>1
  <2> QED
      BY <1>1, <2>1, IndexIsSound, ObserveMoves DEF AheadInv
<1>4. Takes
    BY <1>1, <1>2 DEF Takes
<1> HIDE DEF place
<1>5. ASSUME ~overlapped
      PROVE  Orderly(capabilities', rows') /\ SyncFresh(syncs'[s], capabilities', rows')
  <2>1. Orderly(capabilities, rows) /\ SyncFresh(sync, capabilities, rows)
      BY <1>1, <1>5 DEF FreshInv, AtWork
  <2>2. sync.indexed \subseteq capabilities
      BY <1>1, <2>1 DEF SyncFresh
  <2>3. /\ \A x \in sync.indexed : NotOlder(x, capabilities \cup rows)
        /\ package \in capabilities /\ package.sequence \in Nat
      BY <2>1, <2>2, PartsOfSound, PackageParts DEF SyncFresh
  <2>4. \A x \in capabilities : NotOlder(x, rows')
    <3> SUFFICES ASSUME NEW x \in capabilities, x.did = package.did
                 PROVE  package.sequence <= x.sequence
        BY <1>1, <2>1 DEF Orderly, NotOlder
    <3>1. x = package
        BY <2>3 DEF DiscoveryInv, IndexSound, Unambiguous
    <3> QED
        BY <2>3, <3>1
  <2>5. \A x \in rows' : NotOlder(x, {})
      BY <1>1, <2>1, <2>3 DEF Orderly, NotOlder
  <2>6. \A x \in left : NotOlder(x, capabilities \cup rows')
      BY <1>1, <2>3 DEF NotOlder
  <2>7. left \subseteq capabilities
      BY <2>2
  <2> HIDE DEF left
  <2> QED
      BY <1>1, <1>2, <2>4, <2>5, <2>6, <2>7 DEF Orderly, SyncFresh
<1>6. InOrder
    BY <1>1, <1>2, <1>5 DEF InOrder, DomainsInv, AtWork
<1> QED
    BY <1>3, <1>4, <1>6 DEF OrderStep

LEMMA EndsInOrder ==
    ASSUME DiscoveryInv, DiscoveryInv', AheadInv, FreshInv,
           (\E s \in Syncs : FailSync(s) \/ WriteHistory(s)) \/ DiscoveryCrash
    PROVE  OrderStep
<1>1. /\ UNCHANGED <<bulletin, capabilities, rows, overlapped>>
      /\ \A r \in Syncs : syncs'[r] \in {syncs[r], IdleSync}
    BY DEF FailSync, DiscoveryCrash, WriteHistory, rootSideVars, indexVars, DiscoveryInv
<1>2. shown' = shown \/ Observe(rows', capabilities', indexTorn')
    BY DEF FailSync, DiscoveryCrash, WriteHistory
<1>3. ShownFrom(LookupIn(rows', capabilities', indexTorn'))
    BY <1>1, <1>2, IndexIsSound, ObserveMoves, ShownRests DEF AheadInv
<1> QED
    BY <1>1, <1>3, RestInOrder DEF OrderStep

LEMMA OrderInvInit == ASSUME NothingForged PROVE DistributionInit => OrderInv
<1> SUFFICES ASSUME DistributionInit PROVE OrderInv
    OBVIOUS
<1>1. capabilities = {} /\ rows = {} /\ \A s \in Syncs : ~AtWork(s)
    BY DEF DistributionInit, DiscoveryInit, AtWork, IdleSync
<1>2. FreshInv
    BY <1>1 DEF FreshInv, Orderly
<1> QED
    BY <1>2, AheadInvInit DEF OrderInv

LEMMA OrderInvStep ==
    ASSUME DistributionInv, DistributionInv', DomainsInv, DomainsInv', OrderInv,
           [DistributionNext]_distributionVars
    PROVE  OrderInv'
<1>1. /\ CdnInv /\ DiscoveryInv /\ DiscoveryInv' /\ AheadInv /\ FreshInv
      /\ CdnAhead' /\ GoesOn
    BY CdnAheadStep DEF OrderInv, DistributionInv, AheadInv
<1>2. ASSUME NEW s \in Syncs, SyncStep(s) \/ FailSync(s) PROVE OrderStep
    BY <1>1, <1>2, FetchBulletinOrder, FetchManifestOrder, FetchPackageOrder, WriteCapabilitiesOrder,
       ClearIndexOrder, UpsertOrder, EndsInOrder DEF SyncStep
<1>3. CASE DiscoveryCrash
    BY <1>1, <1>3, EndsInOrder, OrderKept
<1>4. ASSUME UNCHANGED discoveryVars PROVE OrderStep
  <2>1. UNCHANGED <<syncs, capabilities, rows, overlapped, shown>>
      BY <1>4 DEF discoveryVars, indexVars, observerVars
  <2> QED
      BY <1>1, <2>1, RestInOrder, ShownRests DEF OrderStep
<1>5. ASSUME \/ \E r \in Registrations : Anchor(r[1], r[2])
             \/ \E domains \in Restrictions : Restrict(domains)
             \/ \E t \in CdnTasks, i \in 1..Len(bulletin) : Send(t, i)
             \/ \E t \in CdnTasks : CdnStep(t)
             \/ \E t \in CdnTasks : /\ LoseAnswer(t) \/ InterruptPublish(t)
                                    /\ UNCHANGED <<rootSideVars, discoveryVars>>
             \/ UNCHANGED distributionVars
      PROVE  UNCHANGED discoveryVars
    BY <1>5 DEF Anchor, Restrict, Send, CdnStep, distributionVars
<1> QED
    BY <1>1, <1>2, <1>3, <1>4, <1>5, OrderKept DEF DistributionNext

\* A query never returns an older package of an Agent than one before it, through
\* the phases of sync_from_cdn in which the file is newer than the table and the
\* table is cleared and refilled, through torn files and crashes in any of them, as
\* long as it does not run beside itself.
THEOREM IndexNeverRegresses ==
    ASSUME NothingForged
    PROVE  DistributionSpec => []ServedNeverRegresses
<1>1. DistributionInv /\ DomainsInv /\ [DistributionNext]_distributionVars => DomainsInv'
    BY DomainsStep
<1>2. /\ DistributionInv /\ DistributionInv' /\ DomainsInv /\ DomainsInv' /\ OrderInv
      /\ [DistributionNext]_distributionVars
      => OrderInv'
    BY OrderInvStep
<1>3. DistributionInit => OrderInv
    BY OrderInvInit
<1>4. OrderInv => ServedNeverRegresses
  <2> SUFFICES ASSUME OrderInv, ~overlapped, NEW x \in Lookup
               PROVE  x.sequence >= shown[x.did]
      BY DEF ServedNeverRegresses
  <2>1. x \in capabilities \/ x \in rows
      BY DEF Lookup, LookupIn
  <2> QED
      BY <2>1 DEF OrderInv, FreshInv, Orderly, NotOlder
<1> QED
    BY DomainsInvInit, <1>1, <1>2, <1>3, <1>4, DistributionInvAlways, PTL DEF DistributionSpec
=============================================================================
