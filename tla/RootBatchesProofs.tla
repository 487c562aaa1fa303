-------------------------- MODULE RootBatchesProofs --------------------------
(***************************************************************************)
(* What holds of the Root node when its two batches run beside the         *)
(* handlers, for any tasks, publishers, notifiers, batch sizes, requests,  *)
(* failures and bounds.                                                    *)
(*                                                                         *)
(* To the handlers a batch is somebody else who rewrites the queue files   *)
(* (OthersQueue): BatchSpec implements OpenSpec, and what RootNodeProofs   *)
(* proves of the open system holds here, too.  That takes an invariant of  *)
(* the batches: what a batch carries was queued once, so it is anchored.   *)
(***************************************************************************)
EXTENDS RootRegistryProofs, RootViews

PublisherState ==
    [at      : {"idle", "send", "delete_row", "read_json", "write_json"},
     todo    : SUBSET Package,
     current : Package \cup {NoPackage},
     queue   : SUBSET Package]

NotifierState ==
    [at      : {"idle", "delete_rows", "write_json"},
     items   : SUBSET Package,
     left    : SUBSET Package,
     batches : {{}} \cup [Nodes -> SUBSET Package]]

BatchTypeOK ==
    /\ publisher \in [Publishers -> PublisherState]
    /\ notifier \in [Notifiers -> NotifierState]
    /\ cdn \in [Agents -> Package \cup {NoPackage}]
    /\ considered \subseteq Package

\* The package a publisher has sent is one of its batch, and stays in hand until
\* the queue file is rewritten; a batch without one is idle or sending.
Carrying(w) ==
    /\ publisher[w].todo \cup publisher[w].queue \subseteq AnchoredPackages(bulletin)
    /\ publisher[w].at \in {"delete_row", "read_json", "write_json"} =>
         /\ publisher[w].current \in publisher[w].todo
         /\ cdn[publisher[w].current.did] # NoPackage

BatchInv ==
    /\ Inv /\ NothingUnanchored
    /\ BatchTypeOK
    /\ \A w \in Publishers : Carrying(w)
    /\ \A w \in Notifiers : notifier[w].left \subseteq notifier[w].items

LEMMA QueuedIsAnchored ==
    ASSUME Inv, NothingUnanchored
    PROVE  cdnJson \cup cdnSql \cup discoveryJson \cup discoverySql \subseteq AnchoredPackages(bulletin)
BY DEF Inv, TypeOK, QueuesTypeOK, NothingUnanchored, AnchoredAs, AnchoredPackages

\* What a batch reads of the queues was queued.
LEMMA SeenIsQueued ==
    /\ \A queue \in SeenCdnJson : queue \subseteq cdnJson
    /\ \A queue \in SeenCdnQueue : queue \subseteq cdnJson \cup cdnSql
    /\ \A items \in SeenDiscoveryQueue : items \subseteq discoveryJson \cup discoverySql
    /\ \A queue \in SeenByHandler("cdn_queue", ReadCdnJson) : queue \subseteq cdnJson
    /\ \A queue \in SeenByHandler("discovery_queue", ReadDiscoveryJson) : queue \subseteq discoveryJson
<1>1. \A queue \in SeenCdnJson : queue \subseteq cdnJson
  BY DEF SeenCdnJson, SeenByBatch, Seen, ReadCdnJson
<1>2. \A items \in SeenDiscoveryJson : items \subseteq discoveryJson
  BY DEF SeenDiscoveryJson, SeenByBatch, Seen, ReadDiscoveryJson
<1> QED
  BY <1>1, <1>2 DEF SeenCdnQueue, SeenDiscoveryQueue, SeenByHandler, Seen, ReadCdnJson, ReadDiscoveryJson

LEMMA TakenIsQueued ==
    ASSUME NEW n, NEW S, NEW T \in Take(n, S)
    PROVE  T \subseteq S
BY DEF Take

\* A batch tears only the queue file it is rewriting.
LEMMA BatchTearsType ==
    ASSUME torn \subseteq Tearable, NEW T \in BatchTears
    PROVE  T \in Truncations /\ T \ QueueFiles = torn \ QueueFiles
<1>1. PICK f \in Tearable : BatchWrites(f) /\ T = torn \cup {f}
  BY DEF BatchTears
<1>2. f \in QueueFiles
  BY <1>1 DEF BatchWrites, QueueFiles
<1> QED
  BY <1>1, <1>2 DEF Truncations

LEMMA PackageIsSome == \A x \in Package : x # NoPackage /\ x.did \in Agents
BY DEF Package, NoPackage

-----------------------------------------------------------------------------
(* A step of the batches is, to the handlers, somebody else's.             *)

LEMMA PublisherIsOther ==
    ASSUME BatchInv, NEW w \in Publishers,
           \/ PublisherStep(w)
           \/ \E x \in publisher[w].todo : SendFailed(w, x)
           \/ AbandonPublish(w)
    PROVE  OthersQueue \/ UNCHANGED rootVars
<1> USE DEF BatchInv
<1>1. cdnJson \cup cdnSql \cup discoveryJson \cup discoverySql \subseteq AnchoredPackages(bulletin)
  BY QueuedIsAnchored
<1>2. torn \subseteq Tearable /\ faults \in Nat
  BY DEF Inv, TypeOK, FilesTypeOK, HistoryTypeOK
<1>3. CASE StartPublish(w)
  BY <1>3 DEF StartPublish
<1>4. CASE \E x \in publisher[w].todo : SendAccepted(w, x)
  BY <1>4 DEF SendAccepted
<1>5. CASE DeleteCdnRow(w)
  BY <1>1, <1>2, <1>5 DEF DeleteCdnRow, OthersQueue, fileVars, historyVars, handlerVars
<1>6. CASE ReadCdnFile(w)
  BY <1>6 DEF ReadCdnFile
<1>7. CASE WriteCdnFile(w)
  <2>1. cdnJson' \subseteq AnchoredPackages(bulletin)
    BY <1>7 DEF WriteCdnFile, Carrying
  <2>2. torn' \subseteq Tearable /\ torn' \ QueueFiles = torn \ QueueFiles
    BY <1>2, <1>7 DEF WriteCdnFile, QueueFiles
  <2> QED
    BY <1>1, <1>2, <1>7, <2>1, <2>2 DEF WriteCdnFile, OthersQueue, historyVars, handlerVars
<1>8. CASE \E x \in publisher[w].todo : SendFailed(w, x)
  BY <1>1, <1>2, <1>8 DEF SendFailed, OthersQueue, fileVars, queueVars, handlerVars
<1>9. CASE AbandonPublish(w)
  <2>1. torn' \subseteq Tearable /\ torn' \ QueueFiles = torn \ QueueFiles
    BY <1>2, <1>9, BatchTearsType DEF AbandonPublish, Truncations
  <2> QED
    BY <1>1, <1>2, <1>9, <2>1 DEF AbandonPublish, OthersQueue, queueVars, handlerVars
<1> QED
  BY <1>3, <1>4, <1>5, <1>6, <1>7, <1>8, <1>9 DEF PublisherStep

LEMMA NotifierIsOther ==
    ASSUME BatchInv, NEW w \in Notifiers, NotifierStep(w) \/ AbandonNotify(w)
    PROVE  OthersQueue \/ UNCHANGED rootVars
<1> USE DEF BatchInv
<1>1. cdnJson \cup cdnSql \cup discoveryJson \cup discoverySql \subseteq AnchoredPackages(bulletin)
  BY QueuedIsAnchored
<1>2. torn \subseteq Tearable /\ faults \in Nat
  BY DEF Inv, TypeOK, FilesTypeOK, HistoryTypeOK
<1>3. CASE StartNotify(w)
  BY <1>3 DEF StartNotify
<1>4. CASE \E x \in notifier[w].left : DeleteDiscoveryRow(w, x)
  BY <1>1, <1>2, <1>4 DEF DeleteDiscoveryRow, OthersQueue, fileVars, historyVars, handlerVars
<1>5. CASE EmptyDiscoveryFile(w)
  <2>1. torn' \subseteq Tearable /\ torn' \ QueueFiles = torn \ QueueFiles
    BY <1>2, <1>5 DEF EmptyDiscoveryFile, QueueFiles
  <2> QED
    BY <1>1, <1>2, <1>5, <2>1 DEF EmptyDiscoveryFile, OthersQueue, historyVars, handlerVars
<1>6. CASE AbandonNotify(w)
  <2>1. torn' \subseteq Tearable /\ torn' \ QueueFiles = torn \ QueueFiles
    BY <1>2, <1>6, BatchTearsType DEF AbandonNotify, Truncations
  <2> QED
    BY <1>1, <1>2, <1>6, <2>1 DEF AbandonNotify, OthersQueue, queueVars, handlerVars
<1> QED
  BY <1>3, <1>4, <1>5, <1>6 DEF NotifierStep

LEMMA BatchNextIsOpen ==
    ASSUME BatchInv, [BatchNext]_allVars
    PROVE  [OpenNext]_rootVars
<1>1. CASE \E p \in Procs, r \in Requests : Acquire(p, r) /\ UNCHANGED <<batchVars, outVars>>
  BY <1>1 DEF OpenNext
<1>2. CASE \E p \in Procs : HandlerStep(p)
  BY <1>2, SeenIsQueued DEF HandlerStep, OpenNext, OpenStep
<1>3. CASE \E p \in Procs : Abandon(p) /\ UNCHANGED <<batchVars, outVars>>
  BY <1>3 DEF OpenNext
<1>4. CASE \E w \in Publishers : \/ PublisherStep(w)
                                 \/ \E x \in publisher[w].todo : SendFailed(w, x)
                                 \/ AbandonPublish(w)
  BY <1>4, PublisherIsOther DEF OpenNext
<1>5. CASE \E w \in Notifiers : NotifierStep(w) \/ AbandonNotify(w)
  BY <1>5, NotifierIsOther DEF OpenNext
<1>6. CASE BatchCrash
  <2>1. torn \subseteq Tearable
    BY DEF BatchInv, Inv, TypeOK, FilesTypeOK
  <2>2. (UNION {Tears(p) : p \in Procs}) \cup BatchTears \in SUBSET Truncations
    BY <2>1, TearsType, BatchTearsType
  <2> QED
    BY <1>6, <2>2 DEF BatchCrash, OpenNext
<1>7. CASE UNCHANGED allVars
  BY <1>7 DEF allVars
<1> QED
  BY <1>1, <1>2, <1>3, <1>4, <1>5, <1>6, <1>7 DEF BatchNext

-----------------------------------------------------------------------------
(* The batches carry what was queued.                                      *)

\* The record a publisher is left with after a package.
LEMMA DoneIs ==
    ASSUME BatchTypeOK, NEW w \in Publishers, NEW package
    PROVE  /\ Done(w, package) \in PublisherState
           /\ Done(w, package).at \in {"idle", "send"}
           /\ Done(w, package).todo \subseteq publisher[w].todo
           /\ Done(w, package).queue = {}
<1>1. IdlePublisher \in PublisherState /\ IdlePublisher.at = "idle"
      /\ IdlePublisher.todo = {} /\ IdlePublisher.queue = {}
  BY DEF IdlePublisher, PublisherState
<1>2. publisher[w].todo \in SUBSET Package
  BY DEF BatchTypeOK, PublisherState
<1>4. CASE publisher[w].todo = {package}
  BY <1>1, <1>4 DEF Done
<1>5. CASE publisher[w].todo # {package}
  <2> DEFINE left == publisher[w].todo \ {package}
  <2>1. left \in SUBSET Package /\ left \subseteq publisher[w].todo
    BY <1>2
  <2>2. Done(w, package) = [IdlePublisher EXCEPT !.at = "send", !.todo = left]
    BY <1>5 DEF Done
  <2> DEFINE sending == [IdlePublisher EXCEPT !.at = "send", !.todo = left]
  <2>3. /\ sending \in PublisherState /\ sending.at = "send"
        /\ sending.todo = left /\ sending.queue = {}
    BY <1>1, <2>1 DEF PublisherState
  <2> QED
    BY <2>1, <2>2, <2>3
<1> QED
  BY <1>4, <1>5

\* A publisher that moves leaves the others as they are; the CDN forgets nobody.
LEMMA OnePublisherMoves ==
    ASSUME BatchTypeOK, \A v \in Publishers : Carrying(v), NEW w \in Publishers,
           NEW state \in PublisherState, publisher' = [publisher EXCEPT ![w] = state],
           UNCHANGED <<bulletin, notifier, considered>>,
           cdn' \in [Agents -> Package \cup {NoPackage}],
           \A a \in Agents : cdn[a] # NoPackage => cdn'[a] # NoPackage,
           Carrying(w)'
    PROVE  BatchTypeOK' /\ \A v \in Publishers : Carrying(v)'
<1>1. publisher' \in [Publishers -> PublisherState]
      /\ \A v \in Publishers \ {w} : publisher'[v] = publisher[v]
  BY DEF BatchTypeOK
<1>2. BatchTypeOK'
  BY <1>1 DEF BatchTypeOK
<1>3. ASSUME NEW v \in Publishers \ {w}
      PROVE  Carrying(v)'
  <2>1. publisher[v].todo \subseteq Package
    BY DEF BatchTypeOK, PublisherState
  <2>2. publisher[v].current \in publisher[v].todo => publisher[v].current.did \in Agents
    BY <2>1, PackageIsSome
  <2> QED
    BY <1>1, <2>2 DEF Carrying
<1> QED
  BY <1>2, <1>3

LEMMA PublisherStepKeeps ==
    ASSUME BatchInv, NEW w \in Publishers,
           \/ PublisherStep(w)
           \/ \E x \in publisher[w].todo : SendFailed(w, x)
           \/ AbandonPublish(w)
    PROVE  BatchTypeOK' /\ \A v \in Publishers : Carrying(v)'
<1> USE DEF BatchInv
<1>1. cdnJson \cup cdnSql \subseteq AnchoredPackages(bulletin)
  BY QueuedIsAnchored
<1>2. /\ publisher[w] \in PublisherState /\ Carrying(w)
      /\ publisher[w].todo \subseteq Package /\ publisher[w].queue \subseteq Package
      /\ DOMAIN publisher = Publishers
      /\ AnchoredPackages(bulletin) \subseteq Package
  BY DEF BatchTypeOK, PublisherState, AnchoredPackages
<1>3. IdlePublisher \in PublisherState /\ IdlePublisher.at = "idle"
      /\ IdlePublisher.todo = {} /\ IdlePublisher.queue = {}
  BY DEF IdlePublisher, PublisherState
<1>4. cdn \in [Agents -> Package \cup {NoPackage}]
  BY DEF BatchTypeOK
<1>5. ASSUME NEW x \in publisher[w].todo
      PROVE  /\ [cdn EXCEPT ![x.did] = x] \in [Agents -> Package \cup {NoPackage}]
             /\ \A a \in Agents : cdn[a] # NoPackage => [cdn EXCEPT ![x.did] = x][a] # NoPackage
             /\ [cdn EXCEPT ![x.did] = x][x.did] # NoPackage
  BY <1>2, <1>4, PackageIsSome
<1>6. CASE StartPublish(w)
  <2>1. PICK queue \in SeenCdnQueue : \E todo \in Take(CdnBatch, queue) :
               publisher' = [publisher EXCEPT ![w].at = "send", ![w].todo = todo]
    BY <1>6 DEF StartPublish
  <2>2. PICK todo \in Take(CdnBatch, queue) :
               publisher' = [publisher EXCEPT ![w].at = "send", ![w].todo = todo]
    BY <2>1
  <2>3. todo \subseteq AnchoredPackages(bulletin)
    BY <1>1, SeenIsQueued, TakenIsQueued
  <2> DEFINE state == [publisher[w] EXCEPT !.at = "send", !.todo = todo]
  <2>4. publisher' = [publisher EXCEPT ![w] = state]
    BY <2>2
  <2>5. state \in PublisherState /\ state.at = "send" /\ state.todo = todo /\ state.queue = publisher[w].queue
    BY <1>2, <2>3 DEF PublisherState
  <2>6. UNCHANGED <<bulletin, notifier, considered, cdn>>
    BY <1>6 DEF StartPublish, rootVars, fileVars, outVars
  <2> HIDE DEF state
  <2>7. Carrying(w)'
    BY <1>2, <2>3, <2>4, <2>5, <2>6 DEF Carrying
  <2> QED
    BY <1>4, <2>4, <2>5, <2>6, <2>7, OnePublisherMoves
<1>7. ASSUME NEW x \in publisher[w].todo, SendAccepted(w, x)
      PROVE  BatchTypeOK' /\ \A v \in Publishers : Carrying(v)'
  <2> DEFINE next == IF UseSqlite THEN "delete_row" ELSE "read_json"
             state == [publisher[w] EXCEPT !.at = next, !.current = x]
  <2>1. publisher' = [publisher EXCEPT ![w] = state]
    BY <1>7 DEF SendAccepted
  <2>2. next \in {"delete_row", "read_json"}
    OBVIOUS
  <2> HIDE DEF next
  <2>3. /\ state \in PublisherState /\ state.at = next /\ state.current = x
        /\ state.todo = publisher[w].todo /\ state.queue = publisher[w].queue
    BY <1>2, <2>2 DEF PublisherState
  <2>4. UNCHANGED <<bulletin, notifier, considered>> /\ cdn' = [cdn EXCEPT ![x.did] = x]
    BY <1>7 DEF SendAccepted, rootVars, fileVars
  <2> HIDE DEF state
  <2>5. Carrying(w)'
    BY <1>2, <1>5, <2>1, <2>3, <2>4 DEF Carrying
  <2> QED
    BY <1>5, <2>1, <2>3, <2>4, <2>5, OnePublisherMoves
<1>8. CASE DeleteCdnRow(w) \/ ReadCdnFile(w)
  <2>1. PICK queue \in SUBSET Package :
          /\ publisher[w].at \in {"delete_row", "read_json"}
          /\ queue \subseteq AnchoredPackages(bulletin)
          /\ \E next \in {"read_json", "write_json"} :
               publisher' = [publisher EXCEPT ![w].at = next, ![w].queue = queue]
    <3>1. CASE DeleteCdnRow(w)
      BY <1>2, <3>1 DEF DeleteCdnRow, Carrying, PublisherState
    <3>2. CASE ReadCdnFile(w)
      BY <1>1, <1>2, <3>2, SeenIsQueued DEF ReadCdnFile
    <3> QED
      BY <1>8, <3>1, <3>2
  <2>2. PICK next \in {"read_json", "write_json"} :
           publisher' = [publisher EXCEPT ![w].at = next, ![w].queue = queue]
    BY <2>1
  <2> DEFINE state == [publisher[w] EXCEPT !.at = next, !.queue = queue]
  <2>3. publisher' = [publisher EXCEPT ![w] = state]
    BY <2>2
  <2>4. /\ state \in PublisherState /\ state.at = next /\ state.current = publisher[w].current
        /\ state.todo = publisher[w].todo /\ state.queue = queue
    BY <1>2 DEF PublisherState
  <2>5. UNCHANGED <<bulletin, notifier, considered, cdn>>
    BY <1>8 DEF DeleteCdnRow, ReadCdnFile, rootVars, fileVars, outVars
  <2> HIDE DEF state
  <2>6. Carrying(w)'
    BY <1>2, <2>1, <2>3, <2>4, <2>5 DEF Carrying
  <2> QED
    BY <1>4, <2>3, <2>4, <2>5, <2>6, OnePublisherMoves
<1>9. ASSUME NEW state \in PublisherState, publisher' = [publisher EXCEPT ![w] = state],
             state.at \in {"idle", "send"}, state.todo \subseteq publisher[w].todo, state.queue = {},
             UNCHANGED <<bulletin, notifier, considered>>,
             \/ UNCHANGED cdn
             \/ \E x \in publisher[w].todo : cdn' = [cdn EXCEPT ![x.did] = x]
      PROVE  BatchTypeOK' /\ \A v \in Publishers : Carrying(v)'
  <2>1. Carrying(w)'
    BY <1>2, <1>9 DEF Carrying
  <2> QED
    BY <1>4, <1>5, <1>9, <2>1, OnePublisherMoves
<1>10. CASE WriteCdnFile(w)
  <2>1. /\ publisher' = [publisher EXCEPT ![w] = Done(w, publisher[w].current)]
        /\ UNCHANGED <<bulletin, notifier, considered, cdn>>
    BY <1>10 DEF WriteCdnFile, outVars
  <2> QED
    BY <1>9, <2>1, DoneIs
<1>11. CASE \E x \in publisher[w].todo : SendFailed(w, x)
  <2>1. PICK x \in publisher[w].todo : SendFailed(w, x)
    BY <1>11
  <2>2. /\ publisher' = [publisher EXCEPT ![w] = Done(w, x)]
        /\ UNCHANGED <<bulletin, notifier, considered>>
        /\ UNCHANGED cdn \/ cdn' = [cdn EXCEPT ![x.did] = x]
    BY <2>1 DEF SendFailed, fileVars
  <2> QED
    BY <1>9, <2>2, DoneIs
<1>12. CASE AbandonPublish(w)
  BY <1>3, <1>9, <1>12 DEF AbandonPublish, outVars
<1> QED
  BY <1>6, <1>7, <1>8, <1>10, <1>11, <1>12 DEF PublisherStep
LEMMA NotifierStepKeeps ==
    ASSUME BatchInv, NEW w \in Notifiers, NotifierStep(w) \/ AbandonNotify(w)
    PROVE  /\ BatchTypeOK' /\ \A v \in Notifiers : (notifier[v].left \subseteq notifier[v].items)'
           /\ UNCHANGED <<bulletin, publisher, cdn>>
<1> USE DEF BatchInv
<1>1. discoveryJson \cup discoverySql \subseteq Package
  BY DEF Inv, TypeOK, QueuesTypeOK
<1>2. UNCHANGED <<bulletin, publisher, cdn>>
  BY DEF NotifierStep, StartNotify, DeleteDiscoveryRow, EmptyDiscoveryFile, AbandonNotify,
         rootVars, fileVars, outVars
<1>3. PICK state \in NotifierState :
        /\ notifier' = [notifier EXCEPT ![w] = state] /\ state.left \subseteq state.items
        /\ considered' \subseteq Package
  <2>1. /\ notifier[w] \in NotifierState /\ notifier[w].left \subseteq notifier[w].items
        /\ considered \subseteq Package
    BY DEF BatchTypeOK
  <2>2. IdleNotifier \in NotifierState /\ IdleNotifier.left \subseteq IdleNotifier.items
    BY DEF IdleNotifier, NotifierState
  <2>3. CASE StartNotify(w)
    <3>1. PICK items \in SeenDiscoveryQueue, a \in SeenAuthorization :
            \E batches \in Batches(items, a) :
              notifier' = [notifier EXCEPT ![w] =
                 [at      |-> IF UseSqlite /\ items # {} THEN "delete_rows" ELSE "write_json",
                  items   |-> items,
                  left    |-> IF UseSqlite THEN items ELSE {},
                  batches |-> batches]]
      BY <2>3 DEF StartNotify
    <3>2. items \subseteq Package
      BY <1>1, SeenIsQueued
    <3>3. \A batches \in Batches(items, a) : batches \in [Nodes -> SUBSET Package]
      BY <3>2 DEF Batches
    <3>4. considered' = considered
      BY <2>3 DEF StartNotify, outVars
    <3> QED
      BY <2>1, <3>1, <3>2, <3>3, <3>4 DEF NotifierState
  <2>4. ASSUME NEW x \in notifier[w].left, DeleteDiscoveryRow(w, x)
        PROVE  \E state \in NotifierState :
                 /\ notifier' = [notifier EXCEPT ![w] = state] /\ state.left \subseteq state.items
                 /\ considered' \subseteq Package
    <3> DEFINE next == IF notifier[w].left = {x} THEN "write_json" ELSE notifier[w].at
               rest == notifier[w].left \ {x}
               state == [notifier[w] EXCEPT !.left = rest, !.at = next]
    <3>1. notifier' = [notifier EXCEPT ![w] = state]
      BY <2>4 DEF DeleteDiscoveryRow
    <3>2. next \in {"idle", "delete_rows", "write_json"} /\ rest \subseteq notifier[w].left
          /\ rest \in SUBSET Package
      BY <2>1 DEF NotifierState
    <3> HIDE DEF next, rest
    <3>3. state \in NotifierState /\ state.left = rest /\ state.items = notifier[w].items
      BY <2>1, <3>2 DEF NotifierState
    <3>4. considered' = considered
      BY <2>4 DEF DeleteDiscoveryRow, outVars
    <3> HIDE DEF state
    <3> QED
      BY <2>1, <3>1, <3>2, <3>3, <3>4
  <2>5. CASE EmptyDiscoveryFile(w)
    BY <2>1, <2>2, <2>5 DEF EmptyDiscoveryFile, NotifierState
  <2>6. CASE AbandonNotify(w)
    BY <2>1, <2>2, <2>6 DEF AbandonNotify, outVars
  <2> QED
    BY <2>3, <2>4, <2>5, <2>6 DEF NotifierStep
<1>4. BatchTypeOK'
  BY <1>2, <1>3 DEF BatchTypeOK
<1>5. \A v \in Notifiers : (notifier[v].left \subseteq notifier[v].items)'
  BY <1>3 DEF BatchTypeOK
<1> QED
  BY <1>2, <1>4, <1>5

LEMMA AnchoredPackagesGrow ==
    ASSUME Inv, [OpenNext]_rootVars
    PROVE  AnchoredPackages(bulletin) \subseteq AnchoredPackages(bulletin')
BY AnchoredForGood DEF AnchoredPackages, AnchoredAs

\* Steps that leave the batches alone.
LEMMA OthersKeepBatches ==
    ASSUME BatchInv, [OpenNext]_rootVars, UNCHANGED <<batchVars, outVars>>
    PROVE  /\ BatchTypeOK' /\ \A w \in Publishers : Carrying(w)'
           /\ \A w \in Notifiers : (notifier[w].left \subseteq notifier[w].items)'
<1>1. AnchoredPackages(bulletin) \subseteq AnchoredPackages(bulletin')
  BY AnchoredPackagesGrow DEF BatchInv
<1>2. UNCHANGED <<publisher, notifier, cdn, considered>>
  BY DEF batchVars, outVars
<1>3. \A w \in Publishers : Carrying(w)'
  BY <1>1, <1>2 DEF BatchInv, Carrying
<1> QED
  BY <1>2, <1>3 DEF BatchInv, BatchTypeOK

LEMMA BatchInitEstablishes == BatchInit => BatchInv
<1> SUFFICES ASSUME BatchInit
             PROVE  BatchInv
  OBVIOUS
<1>1. Inv
  BY InitEstablishesInv DEF BatchInit
<1>2. NothingUnanchored
  BY DEF BatchInit, Init, NothingUnanchored, NoVersions, NoVersion
<1>3. BatchTypeOK
  BY DEF BatchInit, BatchTypeOK, IdlePublisher, IdleNotifier, PublisherState, NotifierState
<1>4. /\ \A w \in Publishers : Carrying(w)
      /\ \A w \in Notifiers : notifier[w].left \subseteq notifier[w].items
  BY DEF BatchInit, Carrying, IdlePublisher, IdleNotifier
<1> QED
  BY <1>1, <1>2, <1>3, <1>4 DEF BatchInv

LEMMA BatchNextKeepsInv == BatchInv /\ [BatchNext]_allVars => BatchInv'
<1> SUFFICES ASSUME BatchInv, [BatchNext]_allVars
             PROVE  BatchInv'
  OBVIOUS
<1>1. [OpenNext]_rootVars
  BY BatchNextIsOpen
<1>2. Inv' /\ NothingUnanchored'
  BY <1>1, NextKeepsInv, NextKeepsAnchored DEF BatchInv
<1>3. CASE \/ \E p \in Procs, r \in Requests : Acquire(p, r) /\ UNCHANGED <<batchVars, outVars>>
           \/ \E p \in Procs : HandlerStep(p)
           \/ \E p \in Procs : Abandon(p) /\ UNCHANGED <<batchVars, outVars>>
           \/ UNCHANGED allVars
  <2>1. UNCHANGED <<batchVars, outVars>>
    BY <1>3 DEF HandlerStep, allVars
  <2> QED
    BY <1>1, <1>2, <2>1, OthersKeepBatches DEF BatchInv
<1>4. ASSUME NEW w \in Publishers,
             \/ PublisherStep(w)
             \/ \E x \in publisher[w].todo : SendFailed(w, x)
             \/ AbandonPublish(w)
      PROVE  BatchInv'
  <2>1. UNCHANGED notifier
    BY <1>4 DEF PublisherStep, StartPublish, SendAccepted, DeleteCdnRow, ReadCdnFile, WriteCdnFile,
                SendFailed, AbandonPublish
  <2> QED
    BY <1>2, <1>4, <2>1, PublisherStepKeeps DEF BatchInv
<1>5. ASSUME NEW w \in Notifiers, NotifierStep(w) \/ AbandonNotify(w)
      PROVE  BatchInv'
  <2>1. \A v \in Publishers : Carrying(v)'
    BY <1>5, NotifierStepKeeps DEF BatchInv, Carrying
  <2> QED
    BY <1>2, <1>5, <2>1, NotifierStepKeeps DEF BatchInv
<1>6. CASE BatchCrash
  <2>1. UNCHANGED <<cdn, considered>>
    BY <1>6 DEF BatchCrash, outVars
  <2>2. /\ publisher' = [w \in Publishers |-> IdlePublisher]
        /\ notifier' = [w \in Notifiers |-> IdleNotifier]
    BY <1>6 DEF BatchCrash
  <2>3. BatchTypeOK'
    BY <2>1, <2>2 DEF BatchInv, BatchTypeOK, IdlePublisher, IdleNotifier, PublisherState, NotifierState
  <2>4. \A w \in Publishers : Carrying(w)'
    BY <2>2 DEF Carrying, IdlePublisher
  <2>5. \A w \in Notifiers : (notifier[w].left \subseteq notifier[w].items)'
    BY <2>2 DEF IdleNotifier
  <2> QED
    BY <1>2, <2>3, <2>4, <2>5 DEF BatchInv
<1> QED
  BY <1>3, <1>4, <1>5, <1>6 DEF BatchNext

LEMMA BatchInvariance == BatchSpec => []BatchInv
BY BatchInitEstablishes, BatchNextKeepsInv, PTL DEF BatchSpec

\* Beside the batches Root's handlers behave as in the open system: a batch only
\* rewrites the queue files, with packages the bulletin records
\* (mark_cdn_queue_published and mark_discovery_queue_notified).
THEOREM BatchesAreOpen == BatchSpec => OpenSpec
<1>1. BatchInit => Init
  BY DEF BatchInit
<1> QED
  BY <1>1, BatchInvariance, BatchNextIsOpen, PTL DEF BatchSpec, OpenSpec

\* With both batches at work every variable keeps its type, and everything Root
\* remembers, has queued or has answered is an event of the bulletin.
THEOREM BatchesAnchored == BatchSpec => [](TypeOK /\ NothingUnanchored)
<1>1. BatchInv => TypeOK /\ NothingUnanchored
  BY DEF BatchInv, Inv
<1> QED
  BY <1>1, BatchInvariance, PTL

\* Beside the batches, too, the bulletin only grows, a nonce pays for one event,
\* only authorized registrars anchor and the authorization file follows.
THEOREM BatchesKeepBulletin ==
    BatchSpec => /\ BulletinIsAppendOnly
                 /\ []NonceAnchorsOnce
                 /\ []OnlyAuthorizedRegistrarsAnchor
                 /\ []AuthorizationFollowsBulletin
BY BatchesAreOpen, AppendOnlyBesideOthers, NonceOnceBesideOthers, OnlyAuthorizedBesideOthers,
   FollowsBesideOthers, PTL

\* And Root with its batches implements the registry of AgentRegistry, and what it
\* answered names one archived document for good, provided the index is never
\* truncated: no batch writes the index or the archive.
THEOREM BatchesImplementRegistry ==
    ASSUME "latest" \notin Tearable
    PROVE  BatchSpec => /\ ImplementsRegistry
                        /\ []AnsweredVersionNamesOneDocument
                        /\ []AnsweredIsArchived
BY BatchesAreOpen, RefinementBesideOthers, VersionsBesideOthers, PTL

-----------------------------------------------------------------------------
(* What the views show.                                                    *)

\* A listed Agent: its index entry is readable, and the archive has the version.
LEMMA ListedIsArchived ==
    ASSUME Inv, ListedInv
    PROVE  ListedAgentsAreArchived
<1> SUFFICES ASSUME NEW x \in api_agents
             PROVE  x.didDocument \in api_agent_version_detail(x.did, x.version)
  BY DEF ListedAgentsAreArchived
<1>1. PICK a \in Agents : /\ ReadLatest[a].version # 0
                          /\ x = [did |-> a, version |-> ReadLatest[a].version,
                                  didDocument |-> ReadLatest[a].didDocument]
  BY DEF api_agents
<1>2. "latest" \notin torn /\ ReadLatest = latest
  BY <1>1 DEF ReadLatest, NoVersions, NoVersion
<1>3. PICK y \in archive : y.did = x.did /\ y.version = x.version /\ y.didDocument = x.didDocument
  BY <1>1, <1>2 DEF ListedInv, IndexedIsArchived
<1>4. \A z \in archive : z.did = x.did /\ z.version = x.version => z = y
  BY <1>3 DEF ListedInv, OneEntryPerVersion
<1>5. y.sequence <= y.sequence
  BY DEF Inv, TypeOK, FilesTypeOK, VersionedPackage
<1> QED
  BY <1>3, <1>4, <1>5 DEF api_agent_version_detail

\* A status in any state Root may load has its event in the bulletin.
LEMMA LoadedIsRecorded ==
    ASSUME Inv, ReplayInv, NEW n \in Nodes
    PROVE  /\ LoadAuthorization.registrars[n] # "absent" => EventsAbout(n) # {}
           /\ LoadAuthorization.discovery_nodes[n].status = "revoked" =>
                latest_node_status(n) = "revoked"
<1>1. GrantsRecorded(LoadAuthorization) /\ RevocationsRecorded(LoadAuthorization)
  BY DEF ReplayInv, StatesRecorded, GrantsArePublished, LoadAuthorization
<1>2. Len(bulletin) \in Nat /\ Len(Seed) \in Nat
  BY LenProperties, SeedEvents DEF Inv, TypeOK, FilesTypeOK
<1>3. \A types : \A i \in EventsOf(types, n) : i \in EventsAbout(n) /\ bulletin[i].event_type \in types
  BY <1>2 DEF EventsOf, EventsAbout
<1>4. LoadAuthorization.registrars[n] # "absent" => EventsAbout(n) # {}
  BY <1>1, <1>3 DEF GrantsRecorded, RegistrarGrants
<1>5. LoadAuthorization.discovery_nodes[n].status = "revoked" => latest_node_status(n) = "revoked"
  BY <1>1, <1>3 DEF RevocationsRecorded, latest_node_status
<1> QED
  BY <1>4, <1>5

\* An entry of the list of Discovery nodes with a status comes from the file.
LEMMA ListedNodeIsLoaded ==
    ASSUME Inv, NEW x \in api_discovery_nodes.answer, "status" \in DOMAIN x,
           "bulletin" \notin torn
    PROVE  /\ x.did \in Nodes /\ x.status = LoadAuthorization.discovery_nodes[x.did].status
           /\ x.authorizedDomains = LoadAuthorization.discovery_nodes[x.did].authorizedDomains
           /\ x.status # "absent"
<1> DEFINE entries == LoadAuthorization.discovery_nodes
           listed == {[did |-> n, status |-> entries[n].status,
                       authorizedDomains |-> entries[n].authorizedDomains] :
                          n \in {m \in Nodes : entries[m].status # "absent"}}
           I == EventsOfTypes({"DISCOVERY_NODE_AUTHORIZED",
                    "DISCOVERY_NODE_DOMAINS_UPDATED", "DISCOVERY_NODE_REVOKED"})
<1>1. api_discovery_nodes = IF listed # {} THEN [error |-> FALSE, answer |-> listed]
                            ELSE FromBulletin({bulletin[i] : i \in I})
  BY DEF api_discovery_nodes
<1>2. CASE listed # {}
  <2>1. x \in listed
    BY <1>1, <1>2
  <2> QED
    BY <2>1
<1>3. CASE listed = {}
  <2>1. PICK i \in I : x = bulletin[i]
    BY <1>1, <1>3 DEF FromBulletin
  <2>2. i \in 1..Len(bulletin)
    BY DEF EventsOfTypes
  <2>3. x \in Event
    BY <2>1, <2>2, ElementOfSeq DEF Inv, TypeOK, FilesTypeOK
  <2>4. DOMAIN x = {"sequence", "event_type", "subject_did", "payload"}
    BY <2>3 DEF Event, AgentEvent, NodeEvent
  <2> QED
    BY <2>4
<1> QED
  BY <1>2, <1>3

LEMMA ListedIsKnown ==
    ASSUME Inv, ReplayInv
    PROVE  NodesListedAreKnown
<1> SUFFICES ASSUME "bulletin" \notin torn
             PROVE  /\ \A n \in Nodes : LoadAuthorization.registrars[n] # "absent" =>
                         /\ \E x \in api_registrars.answer : x.did = n
                         /\ RegistrarRootAuthorization(n, TRUE).authorization # {}
                    /\ \A x \in api_discovery_nodes.answer :
                         "status" \in DOMAIN x /\ x.status = "revoked" =>
                           api_discovery_detail(x.did).answer.status = "revoked"
  BY DEF NodesListedAreKnown
<1>1. ASSUME NEW n \in Nodes, LoadAuthorization.registrars[n] # "absent"
      PROVE  /\ \E x \in api_registrars.answer : x.did = n
             /\ RegistrarRootAuthorization(n, TRUE).authorization # {}
  <2> DEFINE entries == LoadAuthorization.registrars
             listed == {[did |-> m, status |-> entries[m]] : m \in {k \in Nodes : entries[k] # "absent"}}
  <2>1. [did |-> n, status |-> entries[n]] \in listed
    BY <1>1
  <2>2. api_registrars.answer = listed
    BY <2>1 DEF api_registrars
  <2>3. \E x \in api_registrars.answer : x.did = n
    BY <2>1, <2>2
  <2>4. EventsAbout(n) # {}
    BY <1>1, LoadedIsRecorded
  <2>5. RegistrarRootAuthorization(n, TRUE).authorization = {bulletin[i] : i \in EventsAbout(n)}
    BY DEF RegistrarRootAuthorization, api_registrar_detail, FromBulletin
  <2> QED
    BY <2>3, <2>4, <2>5
<1>2. ASSUME NEW x \in api_discovery_nodes.answer, "status" \in DOMAIN x, x.status = "revoked"
      PROVE  api_discovery_detail(x.did).answer.status = "revoked"
  <2>1. x.did \in Nodes /\ LoadAuthorization.discovery_nodes[x.did].status = "revoked"
    BY <1>2, ListedNodeIsLoaded
  <2>2. latest_node_status(x.did) = "revoked"
    BY <2>1, LoadedIsRecorded
  <2> QED
    BY <2>2 DEF api_discovery_detail, FromBulletin
<1> QED
  BY <1>1, <1>2

\* The last of the later ones is the last of all.
LEMMA LatestOfLater ==
    ASSUME NEW m \in Nat, NEW U \in SUBSET (1..m), NEW C \in SUBSET U, C # {}, NEW g \in Int,
           \A i \in U : i > g => i \in C, \A i \in C : i > g
    PROVE  Latest(U) = Latest(C)
<1>1. Latest(C) \in C /\ \A i \in C : i <= Latest(C)
  BY LatestIsLast
<1>2. Latest(U) \in U /\ \A i \in U : i <= Latest(U)
  BY LatestIsLast
<1>3. Latest(U) \in Int /\ Latest(C) \in Int /\ Latest(C) <= Latest(U) /\ Latest(C) > g
  <2>1. Latest(U) \in 1..m /\ Latest(C) \in U
    BY <1>1, <1>2
  <2>2. Latest(C) \in 1..m
    BY <2>1
  <2> QED
    BY <1>1, <1>2, <2>1, <2>2
<1>4. Latest(U) \in C
  BY <1>2, <1>3
<1>5. Latest(U) <= Latest(C)
  BY <1>1, <1>4
<1> QED
  BY <1>3, <1>5

\* What Root's file gives a Discovery node is what Root's bulletin tells it.
LEMMA ShownIsGranted ==
    ASSUME Inv, ReplayInv, AuthorizationReplaysBulletin
    PROVE  DomainsShownAreGranted
<1> SUFFICES ASSUME faults = 0, lock = NoProc, NEW x \in api_discovery_nodes.answer,
                    "status" \in DOMAIN x, x.status = "active"
             PROVE  LET updates == EventsAbout(x.did)
                                     \cap EventsOfTypes({"DISCOVERY_NODE_DOMAINS_UPDATED"})
                    IN  \/ x.authorizedDomains = DiscoveryRootAuthorization(x.did, TRUE).authorizedDomains
                        \/ \E grant \in DiscoveryGrants(x.did) : \A i \in updates : grant > i
  BY DEF DomainsShownAreGranted
<1> DEFINE n == x.did
           U == EventsAbout(n) \cap EventsOfTypes({"DISCOVERY_NODE_DOMAINS_UPDATED"})
           G == DiscoveryGrants(n)
           g == Latest(G)
           C == {i \in EventsOf({"DISCOVERY_NODE_DOMAINS_UPDATED"}, n) : i > g}
           m == Len(bulletin)
<1>1. m \in Nat /\ Len(Seed) \in Nat /\ Len(Seed) <= m
  BY LenProperties, SeedEvents DEF Inv, TypeOK, FilesTypeOK, ReplayInv
<1>2. "bulletin" \notin torn /\ LoadAuthorization = authorization
  BY DEF ReplayInv, QueueFiles, LoadAuthorization
<1>3. /\ n \in Nodes /\ authorization.discovery_nodes[n].status = "active"
      /\ x.authorizedDomains = authorization.discovery_nodes[n].authorizedDomains
  BY <1>2, ListedNodeIsLoaded
<1>4. /\ StatusFrom(G, n) = "active" /\ x.authorizedDomains = DomainsFrom(G, n)
  <2>1. authorization.discovery_nodes[n] =
          [status |-> StatusFrom(DiscoveryGrants(n), n),
           authorizedDomains |-> DomainsFrom(DiscoveryGrants(n), n)]
    BY <1>3 DEF AuthorizationReplaysBulletin
  <2> QED
    BY <1>3, <2>1
<1>5. G # {} /\ G \in SUBSET (1..m)
  BY <1>1, <1>4, EventsArePlaces DEF StatusFrom
<1>6. g \in G /\ g \in Len(Seed) + 1 .. m
  <2>1. G \subseteq Len(Seed) + 1 .. m
    BY DEF DiscoveryGrants, EventsOf
  <2> HIDE DEF G
  <2> QED
    BY <1>1, <1>5, <2>1, LatestIsLast
<1>7. U \in SUBSET (1..m) /\ C \subseteq U /\ (\A i \in U : i > g => i \in C) /\ \A i \in C : i > g
  <2> HIDE DEF g
  <2> QED
    BY <1>1, <1>6 DEF EventsAbout, EventsOfTypes, EventsOf
<1>8. CASE C = {}
  <2>1. \A i \in U : i # g
    BY <1>6 DEF EventsOfTypes, DiscoveryGrants, EventsOf
  <2>2. \A i \in U : g > i
    <3> HIDE DEF g, U
    <3> QED
      BY <1>6, <1>7, <1>8, <2>1
  <2> QED
    BY <1>6, <2>2
<1>9. CASE C # {}
  <2>1. Latest(U) = Latest(C)
    <3> HIDE DEF U, C, g, m
    <3>1. g \in Int
      BY <1>1, <1>6
    <3> QED
      BY <1>1, <1>7, <1>9, <3>1, LatestOfLater
  <2>2. DomainsFrom(G, n) = bulletin[Latest(C)].payload.authorizedDomains
    BY <1>5, <1>9 DEF DomainsFrom
  <2>3. U # {}
    BY <1>7, <1>9
  <2>4. discovery_authorized_domains(n) = bulletin[Latest(U)].payload.authorizedDomains
    BY <2>3 DEF discovery_authorized_domains
  <2>5. DiscoveryRootAuthorization(n, TRUE).authorizedDomains = discovery_authorized_domains(n)
    BY <1>2 DEF DiscoveryRootAuthorization
  <2> QED
    BY <1>4, <2>1, <2>2, <2>4, <2>5
<1> QED
  BY <1>8, <1>9

\* What Root lists it knows in detail, whatever fails: a listed Registrar has its
\* events, a node listed as revoked is revoked in the detail view, the domains
\* shown are the ones granted as long as nothing failed, and every listed Agent is
\* in the archive with the listed document (the GET handlers of Root's API).
THEOREM ViewsAgree == BatchSpec => []ListsAgreeWithDetails
<1>1. Inv /\ ReplayInv /\ ListedInv /\ AuthorizationFollowsBulletin => ListsAgreeWithDetails
  BY ListedIsArchived, ListedIsKnown, ShownIsGranted
  DEF ListsAgreeWithDetails, AuthorizationFollowsBulletin
<1> QED
  BY <1>1, BatchesAreOpen, Invariance, ReplayInvariance, ListedInvariance, FollowsBesideOthers, PTL

-----------------------------------------------------------------------------
(* An answered Agent stays in distribution.                                *)

\* Some package of the Agent is in the table, or the CDN has one.
UnderWay(did) == (\E y \in cdnSql : y.did = did) \/ cdn[did] # NoPackage

\* Past the table's row, and once it is answered, an Agent is under way.
DistributionInv ==
    UseSqlite =>
        /\ \A p \in Procs : pc[p] \in {"discovery_json", "discovery_sql"} => UnderWay(event[p].subject_did)
        /\ \A x \in answered : UnderWay(x.did)

\* What may happen to the table and to the CDN in a step.
LEMMA TableMoves ==
    ASSUME BatchInv, [BatchNext]_allVars
    PROVE  /\ \/ UNCHANGED cdnSql
              \/ \E p \in Procs : EnqueueCdnSql(p)
              \/ \E w \in Publishers : DeleteCdnRow(w) /\ UNCHANGED cdn
           /\ \A a \in Agents : cdn[a] # NoPackage => cdn'[a] # NoPackage
<1>1. CASE UNCHANGED cdn
  <2>1. ASSUME NEW w \in Publishers,
               \/ PublisherStep(w)
               \/ \E x \in publisher[w].todo : SendFailed(w, x)
               \/ AbandonPublish(w)
        PROVE  UNCHANGED cdnSql \/ DeleteCdnRow(w)
    BY <2>1 DEF PublisherStep, StartPublish, SendAccepted, ReadCdnFile, WriteCdnFile, SendFailed,
                AbandonPublish, rootVars, queueVars
  <2>2. ASSUME NEW w \in Notifiers, NotifierStep(w) \/ AbandonNotify(w)
        PROVE  UNCHANGED cdnSql
    BY <2>2 DEF NotifierStep, StartNotify, DeleteDiscoveryRow, EmptyDiscoveryFile, AbandonNotify,
                rootVars, queueVars
  <2>3. ASSUME NEW p \in Procs, HandlerStep(p)
        PROVE  UNCHANGED cdnSql \/ EnqueueCdnSql(p)
    BY <2>3 DEF HandlerStep, VerifyNonce, VerifyRequest, RejectRequest, ReadBulletin, FailRead,
                WriteBulletin, ArchiveVerified, UpdateLatestVersion, EnqueueCdnJson,
                EnqueueDiscoveryJson, EnqueueDiscoverySql, UpdateAuthorization, queueVars
  <2>4. ASSUME \/ \E p \in Procs, r \in Requests : Acquire(p, r)
               \/ \E p \in Procs : Abandon(p)
               \/ BatchCrash
               \/ UNCHANGED allVars
        PROVE  UNCHANGED cdnSql
    BY <2>4 DEF Acquire, Abandon, BatchCrash, Restart, allVars, rootVars, queueVars
  <2> QED
    BY <1>1, <2>1, <2>2, <2>3, <2>4 DEF BatchNext
<1>2. ASSUME NEW w \in Publishers, NEW x \in publisher[w].todo,
             SendAccepted(w, x) \/ SendFailed(w, x)
      PROVE  UNCHANGED cdnSql /\ \A a \in Agents : cdn[a] # NoPackage => cdn'[a] # NoPackage
  <2>1. x \in Package /\ cdn \in [Agents -> Package \cup {NoPackage}]
    BY DEF BatchInv, BatchTypeOK, PublisherState
  <2>2. UNCHANGED cdn \/ cdn' = [cdn EXCEPT ![x.did] = x]
    BY <1>2 DEF SendAccepted, SendFailed
  <2>3. UNCHANGED cdnSql
    BY <1>2 DEF SendAccepted, SendFailed, rootVars, queueVars
  <2> QED
    BY <2>1, <2>2, <2>3, PackageIsSome
<1>3. \/ UNCHANGED cdn
      \/ \E w \in Publishers : \E x \in publisher[w].todo : SendAccepted(w, x) \/ SendFailed(w, x)
  BY DEF BatchNext, HandlerStep, PublisherStep, StartPublish, DeleteCdnRow, ReadCdnFile, WriteCdnFile,
         AbandonPublish, NotifierStep, StartNotify, DeleteDiscoveryRow, EmptyDiscoveryFile,
         AbandonNotify, BatchCrash, allVars, outVars
<1> QED
  BY <1>1, <1>2, <1>3

\* No row leaves the table before the CDN has a package of its Agent.
LEMMA UnderWayStays ==
    ASSUME BatchInv, [BatchNext]_allVars, NEW did \in Agents, UnderWay(did)
    PROVE  UnderWay(did)'
<1>1. CASE UNCHANGED cdnSql
  BY <1>1, TableMoves DEF UnderWay
<1>2. ASSUME NEW p \in Procs, EnqueueCdnSql(p)
      PROVE  UnderWay(did)'
  BY <1>2, TableMoves DEF EnqueueCdnSql, Supersede, UnderWay
<1>3. ASSUME NEW w \in Publishers, DeleteCdnRow(w), UNCHANGED cdn
      PROVE  UnderWay(did)'
  <2>1. cdn[publisher[w].current.did] # NoPackage
    BY <1>3 DEF DeleteCdnRow, BatchInv, Carrying
  <2> QED
    BY <1>3, <2>1 DEF DeleteCdnRow, UnderWay
<1> QED
  BY <1>1, <1>2, <1>3, TableMoves

\* Only a handler that has enqueued a package goes on to the notifications, and
\* only one at the last table answers.
LEMMA AnsweringMoves ==
    ASSUME Inv, [OpenNext]_rootVars, UseSqlite
    PROVE  /\ \A p \in Procs : pc'[p] \in {"discovery_json", "discovery_sql"} =>
                /\ event'[p] = event[p] /\ event[p] \in AgentEvent
                /\ pc[p] \in {"discovery_json", "discovery_sql"} \/ EnqueueCdnSql(p)
           /\ \/ UNCHANGED answered
              \/ \E p \in Procs : /\ pc[p] = "discovery_sql" /\ EnqueueDiscoverySql(p)
                                  /\ answered' = answered \cup {ArchiveEntry(p)}
<1> USE DEF Inv, TypeOK, HandlersTypeOK
<1>1. CASE UNCHANGED rootVars \/ OthersQueue
  BY <1>1 DEF OthersQueue, rootVars, handlerVars, historyVars, Handlers, Serving, Distributing
<1>2. ASSUME NEW p \in Procs, NEW r \in Requests, Acquire(p, r)
      PROVE  UNCHANGED answered /\ \A q \in Procs :
               pc'[q] \in {"discovery_json", "discovery_sql"} => pc'[q] = pc[q] /\ event'[q] = event[q]
  BY <1>2 DEF Acquire, GoTo, historyVars
<1>3. CASE \E tears \in SUBSET Truncations : Restart(tears)
  BY <1>3 DEF Restart
<1>4. ASSUME NEW p \in Procs,
             \/ VerifyNonce(p) \/ VerifyRequest(p) \/ ReadBulletin(p) \/ WriteBulletin(p)
             \/ ArchiveVerified(p) \/ UpdateLatestVersion(p)
             \/ \E queue \in SUBSET cdnJson : EnqueueCdnJson(p, queue)
             \/ \E queue \in SUBSET discoveryJson : EnqueueDiscoveryJson(p, queue)
             \/ EnqueueCdnSql(p)
      PROVE  UNCHANGED answered /\ \A q \in Procs :
               pc'[q] \in {"discovery_json", "discovery_sql"} =>
                 /\ event'[q] = event[q]
                 /\ pc[q] \in {"discovery_json", "discovery_sql"} \/ EnqueueCdnSql(q)
  BY <1>4 DEF VerifyNonce, VerifyRequest, ReadBulletin, WriteBulletin, ArchiveVerified,
              UpdateLatestVersion, EnqueueCdnJson, EnqueueDiscoveryJson, EnqueueCdnSql, At, GoTo, historyVars
<1>5. ASSUME NEW p \in Procs, \/ RejectRequest(p) \/ FailRead(p) \/ UpdateAuthorization(p) \/ Abandon(p)
                              \/ EnqueueDiscoverySql(p)
      PROVE  /\ Return(p)
             /\ \/ UNCHANGED answered
                \/ /\ pc[p] = "discovery_sql" /\ EnqueueDiscoverySql(p)
                   /\ answered' = answered \cup {ArchiveEntry(p)}
  BY <1>5 DEF RejectRequest, FailRead, UpdateAuthorization, Abandon, EnqueueDiscoverySql, Respond, At,
              historyVars
<1>6. \A p \in Procs : /\ pc[p] \in {"discovery_json", "discovery_sql"} => event[p] \in AgentEvent
                       /\ EnqueueCdnSql(p) => event[p] \in AgentEvent
  BY DEF Handlers, Serving, Distributing, EnqueueCdnSql, At
<1>7. ASSUME NEW p \in Procs, Return(p), NEW q \in Procs
      PROVE  pc'[q] = "idle" \/ (pc'[q] = pc[q] /\ event'[q] = event[q])
  BY <1>7, ReturnIsLocal
<1> QED
  BY <1>1, <1>2, <1>3, <1>4, <1>5, <1>6, <1>7 DEF OpenNext, OpenStep

LEMMA NextKeepsDistribution == BatchInv /\ DistributionInv /\ [BatchNext]_allVars => DistributionInv'
<1> SUFFICES ASSUME BatchInv, DistributionInv, [BatchNext]_allVars, UseSqlite
             PROVE  DistributionInv'
  BY DEF DistributionInv
<1>1. Inv /\ [OpenNext]_rootVars
  BY BatchNextIsOpen DEF BatchInv
<1>2. \A x \in answered : x.did \in Agents
  BY <1>1 DEF Inv, TypeOK, HistoryTypeOK, VersionedPackage
<1>3. \A e \in AgentEvent : e.subject_did \in Agents
  BY DEF AgentEvent
<1>4. ASSUME NEW p \in Procs, pc'[p] \in {"discovery_json", "discovery_sql"}
      PROVE  UnderWay(event[p].subject_did)' /\ event'[p] = event[p]
  <2>1. /\ event'[p] = event[p] /\ event[p].subject_did \in Agents
        /\ pc[p] \in {"discovery_json", "discovery_sql"} \/ EnqueueCdnSql(p)
    BY <1>1, <1>3, <1>4, AnsweringMoves
  <2>2. CASE pc[p] \in {"discovery_json", "discovery_sql"}
    <3>1. UnderWay(event[p].subject_did)
      BY <2>2 DEF DistributionInv
    <3>2. \A did \in Agents : UnderWay(did) => UnderWay(did)'
      BY UnderWayStays
    <3> QED
      BY <2>1, <3>1, <3>2 DEF UnderWay
  <2>3. CASE EnqueueCdnSql(p)
    <3>1. PackageOf(p) \in cdnSql' /\ PackageOf(p).did = event[p].subject_did
      BY <2>3 DEF EnqueueCdnSql, Supersede, PackageOf
    <3> QED
      BY <2>1, <3>1 DEF UnderWay
  <2> QED
    BY <2>1, <2>2, <2>3
<1>5. ASSUME NEW x \in answered'
      PROVE  UnderWay(x.did)'
  <2>1. x.did \in Agents /\ UnderWay(x.did)
    <3>1. CASE x \in answered
      BY <1>2, <3>1 DEF DistributionInv
    <3>2. ASSUME NEW p \in Procs, pc[p] = "discovery_sql", x = ArchiveEntry(p)
          PROVE  x.did \in Agents /\ UnderWay(x.did)
      BY <1>1, <1>3, <3>2 DEF Inv, Handlers, Serving, Distributing, ArchiveEntry, DistributionInv
    <3> QED
      BY <1>1, <1>5, <3>1, <3>2, AnsweringMoves
  <2> QED
    BY <2>1, UnderWayStays
<1> QED
  BY <1>4, <1>5 DEF DistributionInv, UnderWay

\* No answered Agent drops out of distribution, whichever batches overlap, fail
\* or are cut short: a package of it is in the queue table or with the CDN
\* (publish_cdn_batch deletes a row only once its package was taken).
THEOREM QueuedOrServed == BatchSpec => []AnsweredAgentIsQueuedOrServed
<1>1. BatchInit => DistributionInv
  BY DEF BatchInit, Init, DistributionInv
<1>2. DistributionInv => AnsweredAgentIsQueuedOrServed
  BY DEF DistributionInv, AnsweredAgentIsQueuedOrServed, UnderWay
<1> QED
  BY <1>1, <1>2, NextKeepsDistribution, BatchInvariance, PTL DEF BatchSpec

-----------------------------------------------------------------------------
(* No notification is forgotten.                                           *)

\* The item is in the table, in a batch under way, or was in one that returned.
Remembered(item) ==
    \/ item \in discoverySql \cup considered
    \/ \E w \in Notifiers : item \in notifier[w].items

Item(x) == [did |-> x.did, didDocument |-> x.didDocument, sequence |-> x.sequence]

RememberedInv ==
    /\ \A w \in Notifiers : notifier[w].at = "idle" => notifier[w].items = {}
    /\ UseSqlite /\ faults = 0 => \A x \in answered : Remembered(Item(x))

\* Only a notifier's own step, or a failure, touches what is remembered.
LEMMA RememberedMoves ==
    ASSUME BatchInv, [BatchNext]_allVars
    PROVE  \/ \E w \in Notifiers : NotifierStep(w)
           \/ /\ UNCHANGED <<notifier, considered>> /\ discoverySql \subseteq discoverySql'
              /\ faults' = 0 => faults = 0
           \/ \E w \in Notifiers : AbandonNotify(w)
           \/ BatchCrash
<1>1. faults \in Nat
  BY DEF BatchInv, Inv, TypeOK, HistoryTypeOK
<1>2. CASE \E p \in Procs, r \in Requests : Acquire(p, r) /\ UNCHANGED <<batchVars, outVars>>
  BY <1>2 DEF Acquire, queueVars, historyVars, batchVars, outVars
<1>3. CASE \E p \in Procs : HandlerStep(p)
  BY <1>3 DEF HandlerStep, VerifyNonce, VerifyRequest, RejectRequest, ReadBulletin, FailRead,
     WriteBulletin, ArchiveVerified, UpdateLatestVersion, EnqueueCdnJson, EnqueueCdnSql,
     EnqueueDiscoveryJson, EnqueueDiscoverySql, Respond, UpdateAuthorization, queueVars, historyVars,
     batchVars, outVars
<1>4. CASE \E p \in Procs : Abandon(p) /\ UNCHANGED <<batchVars, outVars>>
  BY <1>1, <1>4 DEF Abandon, queueVars, batchVars, outVars
<1>5. CASE \E w \in Publishers : \/ PublisherStep(w)
                                 \/ \E x \in publisher[w].todo : SendFailed(w, x)
                                 \/ AbandonPublish(w)
  BY <1>1, <1>5 DEF PublisherStep, StartPublish, SendAccepted, DeleteCdnRow, ReadCdnFile, WriteCdnFile,
     SendFailed, AbandonPublish, rootVars, queueVars, historyVars, outVars
<1>6. CASE UNCHANGED allVars
  BY <1>6 DEF allVars, rootVars, queueVars, historyVars, batchVars, outVars
<1> QED
  BY <1>2, <1>3, <1>4, <1>5, <1>6 DEF BatchNext

\* A notifier deletes the rows of the items it holds, and gives up the items to
\* those considered.
LEMMA NotifierRemembers ==
    ASSUME BatchInv, RememberedInv, NEW w \in Notifiers, NotifierStep(w), NEW item, Remembered(item)
    PROVE  Remembered(item)'
<1>1. notifier \in [Notifiers -> NotifierState] /\ notifier[w].left \subseteq notifier[w].items
  BY DEF BatchInv, BatchTypeOK
<1>2. \A v \in Notifiers \ {w} : notifier'[v] = notifier[v]
  BY <1>1 DEF NotifierStep, StartNotify, DeleteDiscoveryRow, EmptyDiscoveryFile
<1>3. CASE \E v \in Notifiers \ {w} : item \in notifier[v].items
  BY <1>2, <1>3 DEF Remembered
<1>4. CASE item \in considered
  BY <1>4 DEF NotifierStep, StartNotify, DeleteDiscoveryRow, EmptyDiscoveryFile, outVars, Remembered
<1>5. CASE item \in discoverySql \/ item \in notifier[w].items
  <2>1. CASE StartNotify(w)
    <3>1. item \in discoverySql
      BY <1>5, <2>1 DEF StartNotify, RememberedInv
    <3> QED
      BY <2>1, <3>1 DEF StartNotify, rootVars, queueVars, Remembered
  <2>2. ASSUME NEW x \in notifier[w].left, DeleteDiscoveryRow(w, x)
        PROVE  Remembered(item)'
    <3>1. notifier'[w].items = notifier[w].items
      BY <1>1, <2>2 DEF DeleteDiscoveryRow, NotifierState
    <3>2. discoverySql' = discoverySql \ {x}
      BY <2>2 DEF DeleteDiscoveryRow
    <3> QED
      BY <1>1, <1>5, <2>2, <3>1, <3>2 DEF Remembered
  <2>3. CASE EmptyDiscoveryFile(w)
    BY <1>5, <2>3 DEF EmptyDiscoveryFile, Remembered
  <2> QED
    BY <2>1, <2>2, <2>3 DEF NotifierStep
<1> QED
  BY <1>3, <1>4, <1>5 DEF Remembered

LEMMA NextKeepsRemembered == BatchInv /\ RememberedInv /\ [BatchNext]_allVars => RememberedInv'
<1> SUFFICES ASSUME BatchInv, RememberedInv, [BatchNext]_allVars
             PROVE  RememberedInv'
  OBVIOUS
<1>1. Inv /\ [OpenNext]_rootVars
  BY BatchNextIsOpen DEF BatchInv
<1>2. faults \in Nat
  BY <1>1 DEF Inv, TypeOK, HistoryTypeOK
<1>3. \A w \in Notifiers : notifier'[w].at = "idle" => notifier'[w].items = {}
  <2>1. notifier \in [Notifiers -> NotifierState]
    BY DEF BatchInv, BatchTypeOK
  <2>2. ASSUME NEW w \in Notifiers, NotifierStep(w) \/ AbandonNotify(w)
        PROVE  \/ notifier' = [notifier EXCEPT ![w] = IdleNotifier]
               \/ notifier'[w].at # "idle" /\ \A v \in Notifiers \ {w} : notifier'[v] = notifier[v]
    <3>1. CASE StartNotify(w)
      BY <2>1, <3>1 DEF StartNotify
    <3>2. ASSUME NEW x \in notifier[w].left, DeleteDiscoveryRow(w, x)
          PROVE  notifier'[w].at # "idle" /\ \A v \in Notifiers \ {w} : notifier'[v] = notifier[v]
      <4>1. notifier[w] \in NotifierState /\ notifier[w].at = "delete_rows"
        BY <2>1, <3>2 DEF DeleteDiscoveryRow
      <4>2. notifier'[w].at \in {"delete_rows", "write_json"}
        BY <2>1, <3>2, <4>1 DEF DeleteDiscoveryRow, NotifierState
      <4> QED
        BY <2>1, <3>2, <4>2 DEF DeleteDiscoveryRow
    <3>3. CASE EmptyDiscoveryFile(w) \/ AbandonNotify(w)
      BY <3>3 DEF EmptyDiscoveryFile, AbandonNotify
    <3> QED
      BY <2>2, <3>1, <3>2, <3>3 DEF NotifierStep
  <2>3. CASE BatchCrash
    BY <2>3 DEF BatchCrash, IdleNotifier
  <2> QED
    BY <2>1, <2>2, <2>3, RememberedMoves DEF RememberedInv, IdleNotifier
<1>4. ASSUME UseSqlite, faults' = 0, NEW x \in answered'
      PROVE  Remembered(Item(x))'
  <2>1. /\ faults = 0
        /\ \/ \E w \in Notifiers : NotifierStep(w)
           \/ UNCHANGED <<notifier, considered>> /\ discoverySql \subseteq discoverySql'
    <3>1. \A w \in Notifiers : NotifierStep(w) => UNCHANGED faults
      BY DEF NotifierStep, StartNotify, DeleteDiscoveryRow, EmptyDiscoveryFile, rootVars, historyVars
    <3>2. \A w \in Notifiers : AbandonNotify(w) => faults' # 0
      BY <1>2 DEF AbandonNotify
    <3>3. BatchCrash => faults' # 0
      BY <1>2 DEF BatchCrash, Restart
    <3> QED
      BY <1>4, <3>1, <3>2, <3>3, RememberedMoves
  <2>2. CASE x \in answered
    <3>1. Remembered(Item(x))
      BY <1>4, <2>1, <2>2 DEF RememberedInv
    <3>2. CASE UNCHANGED <<notifier, considered>> /\ discoverySql \subseteq discoverySql'
      BY <3>1, <3>2 DEF Remembered, Item
    <3> QED
      BY <2>1, <3>1, <3>2, NotifierRemembers DEF Item
  <2>3. CASE x \notin answered
    <3>1. PICK p \in Procs : EnqueueDiscoverySql(p) /\ answered' = answered \cup {ArchiveEntry(p)}
      BY <1>1, <1>4, <2>3, AnsweringMoves
    <3>2. x = ArchiveEntry(p)
      BY <1>4, <2>3, <3>1
    <3>3. Item(x) = PackageOf(p)
      BY <3>2 DEF Item, ArchiveEntry, PackageOf
    <3>4. PackageOf(p) \in discoverySql'
      BY <3>1 DEF EnqueueDiscoverySql
    <3> QED
      BY <3>3, <3>4 DEF Remembered, Item
  <2> QED
    BY <2>2, <2>3
<1> QED
  BY <1>3, <1>4 DEF RememberedInv

\* With SQLite and as long as nothing fails no notification of an answered
\* request is forgotten, however many batches overlap with each other and with
\* the handlers (mark_discovery_queue_notified deletes the rows that were read).
THEOREM NothingForgotten == BatchSpec => []NoNotificationForgotten
<1>1. BatchInit => RememberedInv
  BY DEF BatchInit, Init, RememberedInv, IdleNotifier
<1>2. RememberedInv => NoNotificationForgotten
  BY DEF RememberedInv, NoNotificationForgotten, Remembered, Item
<1> QED
  BY <1>1, <1>2, NextKeepsRemembered, BatchInvariance, PTL DEF BatchSpec

-----------------------------------------------------------------------------
(* The CDN never goes back.                                                *)

OnePerAgent(S) == \A x, y \in S : x.did = y.did => x = y

InHand(w, did) ==
    /\ publisher[w].at \in {"delete_row", "read_json", "write_json"}
    /\ publisher[w].current.did = did

Newer(x) == x.sequence >= cdn[x.did].sequence

\* A queue, and a copy of it, holds one package of an Agent, and a handler's own
\* is the latest there is.
Shape ==
    /\ OnePerAgent(cdnJson) /\ OnePerAgent(cdnSql)
    /\ \A w \in Publishers :
         /\ OnePerAgent(publisher[w].queue) /\ OnePerAgent(publisher[w].todo)
         /\ publisher[w].at # "write_json" => publisher[w].queue = {}
    /\ \A p \in Procs : pc[p] \in Distributing => event[p].sequence = Len(bulletin)
    /\ \A a \in Agents : cdn[a] \in AnchoredPackages(bulletin) \cup {NoPackage}

\* Nothing that can be published is older than what the CDN has.  With the table,
\* what is left of a package just sent is on its way out; without it, an entry of
\* the file is not older than the one in the batch, so that it may stay behind.
InOrder(w) ==
    /\ \A x \in publisher[w].todo : Newer(x)
    /\ \A x \in cdnJson \cup publisher[w].queue :
         (UseSqlite /\ InHand(w, x.did)) \/ Newer(x)
    /\ UseSqlite => \A x \in cdnSql :
         (publisher[w].at = "delete_row" /\ publisher[w].current.did = x.did) \/ Newer(x)
    /\ ~UseSqlite => \A x \in cdnJson \cup publisher[w].queue, y \in publisher[w].todo :
         x.did = y.did => x.sequence >= y.sequence

OrderInv == Shape /\ ((UseSqlite => faults = 0) => \A w \in Publishers : InOrder(w))

\* No recorded package is numbered beyond the bulletin.
LEMMA AnchoredBound ==
    ASSUME Inv, NEW x \in AnchoredPackages(bulletin)
    PROVE  /\ x.did \in Agents /\ x.sequence \in Nat /\ x.sequence <= Len(bulletin)
           /\ Len(bulletin) \in Nat
BY LenProperties DEF AnchoredPackages, AnchoredIn, Package, Inv, TypeOK, FilesTypeOK

LEMMA CdnBound ==
    ASSUME Inv, Shape, NEW a \in Agents
    PROVE  cdn[a].sequence \in Nat /\ cdn[a].sequence <= Len(bulletin)
<1>1. Len(bulletin) \in Nat
  BY LenProperties DEF Inv, TypeOK, FilesTypeOK
<1>2. cdn[a] \in AnchoredPackages(bulletin) \/ cdn[a].sequence = 0
  BY DEF Shape, NoPackage
<1> QED
  BY <1>1, <1>2, AnchoredBound

\* The event a handler distributes is the last one: nobody appends meanwhile.
LEMMA NewestStays ==
    ASSUME Inv, [OpenNext]_rootVars,
           \A p \in Procs : pc[p] \in Distributing => event[p].sequence = Len(bulletin),
           NEW p \in Procs, pc'[p] \in Distributing
    PROVE  event'[p].sequence = Len(bulletin')
<1> USE DEF Inv, TypeOK, HandlersTypeOK
<1>1. ASSUME NEW q \in Procs, WriteBulletin(q)
      PROVE  event'[p].sequence = Len(bulletin')
  <2>1. pc[q] = "write" /\ event[q].sequence = Len(bulletin) + 1
    BY <1>1 DEF WriteBulletin, At, Handlers, Serving
  <2>2. \A r \in Procs \ {q} : pc'[r] = "idle"
    BY <1>1, <2>1, OneHandler DEF WriteBulletin, GoTo
  <2>3. p = q
    BY <2>2 DEF Distributing
  <2> QED
    BY <1>1, <2>1, <2>3, WriteKeepsBulletin DEF WriteBulletin
<1>2. ASSUME UNCHANGED bulletin
      PROVE  pc[p] \in Distributing /\ event'[p] = event[p]
  <2>1. CASE UNCHANGED rootVars \/ OthersQueue
    BY <2>1 DEF OthersQueue, rootVars, handlerVars
  <2>2. CASE \E q \in Procs, r \in Requests : Acquire(q, r)
    BY <2>2 DEF Acquire, GoTo, Distributing
  <2>3. CASE \E tears \in SUBSET Truncations : Restart(tears)
    BY <2>3 DEF Restart, Distributing
  <2>4. ASSUME NEW q \in Procs,
               \/ VerifyNonce(q) \/ VerifyRequest(q) \/ ReadBulletin(q)
               \/ ArchiveVerified(q) \/ UpdateLatestVersion(q)
               \/ \E queue \in SUBSET cdnJson : EnqueueCdnJson(q, queue)
               \/ EnqueueCdnSql(q)
        PROVE  pc[p] \in Distributing /\ event'[p] = event[p]
    BY <2>4 DEF VerifyNonce, VerifyRequest, ReadBulletin, ArchiveVerified, UpdateLatestVersion,
                EnqueueCdnJson, EnqueueCdnSql, At, GoTo, Distributing
  <2>5. ASSUME NEW q \in Procs,
               \/ RejectRequest(q) \/ FailRead(q) \/ UpdateAuthorization(q) \/ Abandon(q)
               \/ EnqueueDiscoverySql(q)
        PROVE  pc[p] \in Distributing /\ event'[p] = event[p]
    <3>1. Return(q)
      BY <2>5 DEF RejectRequest, FailRead, UpdateAuthorization, Abandon, EnqueueDiscoverySql, Respond
    <3> QED
      BY <3>1, ReturnIsLocal DEF Distributing
  <2>6. ASSUME NEW q \in Procs, NEW queue \in SUBSET discoveryJson, EnqueueDiscoveryJson(q, queue)
        PROVE  pc[p] \in Distributing /\ event'[p] = event[p]
    <3>1. CASE UseSqlite
      BY <2>6, <3>1 DEF EnqueueDiscoveryJson, At, GoTo, Distributing
    <3>2. CASE ~UseSqlite
      BY <2>6, <3>2, ReturnIsLocal DEF EnqueueDiscoveryJson, Respond, Distributing
    <3> QED
      BY <3>1, <3>2
  <2>7. ASSUME NEW q \in Procs, WriteBulletin(q)
        PROVE  FALSE
    <3>1. Len(bulletin') = Len(bulletin) + 1 /\ Len(bulletin) \in Nat
      BY <2>7, WriteKeepsBulletin, LenProperties DEF FilesTypeOK
    <3> QED
      BY <1>2, <3>1
  <2> QED
    BY <2>1, <2>2, <2>3, <2>4, <2>5, <2>6, <2>7 DEF OpenNext, OpenStep
<1> QED
  BY <1>1, <1>2, NextAppends

\* A queue that only shrinks, or gets the handler's own package for its Agent.
Refreshed(old, new, p) ==
    \/ new \subseteq old
    \/ \E queue \in SUBSET old : new = Supersede(queue, PackageOf(p))

LEMMA RefreshedShape ==
    ASSUME NEW old, NEW new, NEW p, Refreshed(old, new, p), OnePerAgent(old)
    PROVE  OnePerAgent(new) /\ new \subseteq old \cup {PackageOf(p)}
BY DEF Refreshed, Supersede, OnePerAgent

\* The shape does not depend on how many publishers there are.
LEMMA ShapeBesideBatches ==
    ASSUME BatchInv, Shape, [OpenNext]_rootVars, UNCHANGED <<publisher, cdn>>,
           OnePerAgent(cdnJson'), OnePerAgent(cdnSql')
    PROVE  Shape'
<1>1. Inv
  BY DEF BatchInv
<1>2. AnchoredPackages(bulletin) \subseteq AnchoredPackages(bulletin')
  BY <1>1, AnchoredPackagesGrow
<1>3. \A p \in Procs : pc'[p] \in Distributing => event'[p].sequence = Len(bulletin')
  BY <1>1, NewestStays DEF Shape
<1> QED
  BY <1>2, <1>3 DEF Shape

\* A handler's package is newer than anything queued or published.
LEMMA HandlerKeepsOrder ==
    ASSUME BatchInv, OrderInv, [OpenNext]_rootVars, UNCHANGED <<publisher, cdn>>,
           faults' = 0 => faults = 0, NEW p \in Procs,
           UNCHANGED <<cdnJson, cdnSql>> \/ pc[p] \in Distributing,
           Refreshed(cdnJson, cdnJson', p), Refreshed(cdnSql, cdnSql', p)
    PROVE  OrderInv'
<1> DEFINE new == PackageOf(p)
<1>1. Inv /\ Shape
  BY DEF BatchInv, OrderInv
<1>2. /\ OnePerAgent(cdnJson') /\ cdnJson' \subseteq cdnJson \cup {new}
      /\ OnePerAgent(cdnSql') /\ cdnSql' \subseteq cdnSql \cup {new}
  BY <1>1, RefreshedShape DEF Shape
<1>3. Shape'
  BY <1>1, <1>2, ShapeBesideBatches
<1>4. pc[p] \in Distributing =>
        /\ new \in AnchoredPackages(bulletin) /\ new.sequence = Len(bulletin)
  <2> SUFFICES ASSUME pc[p] \in Distributing
               PROVE  new \in AnchoredPackages(bulletin) /\ new.sequence = Len(bulletin)
    OBVIOUS
  <2>1. event[p] \in AgentEvent /\ AnchoredIn(bulletin, new.did, new.didDocument, new.sequence)
    BY <1>1, DistributedIsAnchored DEF AnchoredAs
  <2>2. new \in Package
    BY <2>1, DistributedTypes
  <2>3. new.sequence = Len(bulletin)
    BY <1>1 DEF Shape, PackageOf
  <2> QED
    BY <2>1, <2>2, <2>3 DEF AnchoredPackages
<1> HIDE DEF new
<1>5. pc[p] \in Distributing => Newer(new)
  BY <1>1, <1>4, AnchoredBound, CdnBound DEF Newer
<1>6. \A w \in Publishers : \A y \in publisher[w].todo : pc[p] \in Distributing => new.sequence >= y.sequence
  BY <1>1, <1>4, AnchoredBound DEF BatchInv, Carrying
<1>7. ASSUME NEW w \in Publishers, InOrder(w)
      PROVE  InOrder(w)'
  <2>1. \A x \in publisher[w].todo : Newer(x)'
    BY <1>7 DEF InOrder, Newer
  <2>2. \A x \in cdnJson' \cup publisher[w].queue : (UseSqlite /\ InHand(w, x.did)') \/ Newer(x)'
    BY <1>2, <1>5, <1>7 DEF InOrder, InHand, Newer
  <2>3. UseSqlite => \A x \in cdnSql' :
          (publisher[w].at = "delete_row" /\ publisher[w].current.did = x.did) \/ Newer(x)'
    BY <1>2, <1>5, <1>7 DEF InOrder, Newer
  <2>4. ~UseSqlite => \A x \in cdnJson' \cup publisher[w].queue, y \in publisher[w].todo :
          x.did = y.did => x.sequence >= y.sequence
    BY <1>2, <1>6, <1>7 DEF InOrder
  <2> QED
    BY <2>1, <2>2, <2>3, <2>4 DEF InOrder
<1> QED
  BY <1>3, <1>7 DEF OrderInv
LEMMA QuietKeepsOrder ==
    ASSUME BatchInv, OrderInv, [OpenNext]_rootVars, UNCHANGED <<publisher, cdn, cdnJson, cdnSql>>,
           faults' = 0 => faults = 0
    PROVE  OrderInv'
<1>1. Shape'
  BY ShapeBesideBatches DEF OrderInv, Shape
<1>2. ASSUME NEW w \in Publishers, InOrder(w)
      PROVE  InOrder(w)'
  BY <1>2 DEF InOrder, InHand, Newer
<1> QED
  BY <1>1, <1>2 DEF OrderInv

\* What a publisher's step keeps of the shape.
LEMMA ShapeOfPublisher ==
    ASSUME BatchInv, Shape, [OpenNext]_rootVars, UNCHANGED <<bulletin, handlerVars>>, NEW w \in Publishers,
           \A v \in Publishers \ {w} : publisher'[v] = publisher[v],
           OnePerAgent(cdnJson'), cdnSql' \subseteq cdnSql,
           OnePerAgent(publisher'[w].queue), OnePerAgent(publisher'[w].todo),
           publisher'[w].at # "write_json" => publisher'[w].queue = {},
           \/ UNCHANGED cdn
           \/ \E x \in publisher[w].todo : cdn' = [cdn EXCEPT ![x.did] = x]
    PROVE  Shape'
<1>1. OnePerAgent(cdnSql')
  BY DEF Shape, OnePerAgent
<1>2. \A a \in Agents : cdn'[a] \in AnchoredPackages(bulletin) \cup {NoPackage}
  BY DEF Shape, BatchInv, Carrying, BatchTypeOK
<1>3. \A p \in Procs : pc'[p] \in Distributing => event'[p].sequence = Len(bulletin')
  BY DEF handlerVars, Shape
<1> QED
  BY <1>1, <1>2, <1>3 DEF Shape
\* The steps of the only publisher.
LEMMA PublisherKeepsOrder ==
    ASSUME BatchInv, OrderInv, [OpenNext]_rootVars, NEW w \in Publishers, \A v \in Publishers : v = w,
           \/ PublisherStep(w)
           \/ \E x \in publisher[w].todo : SendFailed(w, x)
           \/ AbandonPublish(w)
    PROVE  OrderInv'
<1> DEFINE P == publisher[w]
<1>1. /\ Inv /\ Shape /\ publisher \in [Publishers -> PublisherState]
      /\ cdn \in [Agents -> Package \cup {NoPackage}]
      /\ P.todo \subseteq Package /\ P.queue \subseteq Package
      /\ faults \in Nat /\ OnePerAgent({})
  BY DEF BatchInv, BatchTypeOK, PublisherState, OrderInv, Inv, TypeOK, HistoryTypeOK, OnePerAgent
<1>2. /\ OnePerAgent(cdnJson) /\ OnePerAgent(cdnSql) /\ OnePerAgent(P.todo) /\ OnePerAgent(P.queue)
      /\ P.at # "write_json" => P.queue = {}
  BY <1>1 DEF Shape
<1>3. \A x \in Package : x.sequence \in Nat /\ x.did \in Agents
  BY DEF Package
<1>4. CASE StartPublish(w)
  <2>1. PICK queue \in SeenCdnQueue : \E todo \in Take(CdnBatch, queue) :
               publisher' = [publisher EXCEPT ![w].at = "send", ![w].todo = todo]
    BY <1>4 DEF StartPublish
  <2>2. PICK todo \in Take(CdnBatch, queue) :
               publisher' = [publisher EXCEPT ![w].at = "send", ![w].todo = todo]
    BY <2>1
  <2>3. todo \subseteq queue /\ (queue \subseteq cdnJson \/ (UseSqlite /\ queue = cdnSql))
    BY TakenIsQueued, SeenIsQueued DEF SeenCdnQueue
  <2>4. publisher'[w].at = "send" /\ publisher'[w].todo = todo /\ publisher'[w].queue = {} /\ P.at = "idle"
    BY <1>1, <1>2, <1>4, <2>2 DEF StartPublish, PublisherState
  <2>5. UNCHANGED <<bulletin, handlerVars, cdnJson, cdnSql, cdn, faults>>
    BY <1>4 DEF StartPublish, rootVars, fileVars, queueVars, handlerVars, historyVars, outVars
  <2>6. OnePerAgent(todo)
    BY <1>2, <2>3 DEF OnePerAgent
  <2>7. Shape'
    BY <1>1, <1>2, <2>4, <2>5, <2>6, ShapeOfPublisher
  <2>8. ASSUME InOrder(w)
        PROVE  InOrder(w)'
    <3>1. \A x \in cdnJson : Newer(x)
      BY <2>4, <2>8 DEF InOrder, InHand
    <3>2. UseSqlite => \A x \in cdnSql : Newer(x)
      BY <2>4, <2>8 DEF InOrder
    <3>3. ~UseSqlite => \A x \in cdnJson, y \in todo : x.did = y.did => x.sequence >= y.sequence
      <4>1. cdnJson \subseteq Package
        BY <1>1 DEF Inv, TypeOK, QueuesTypeOK
      <4> QED
        BY <1>2, <1>3, <2>3, <4>1 DEF OnePerAgent
    <3> QED
      BY <2>3, <2>4, <2>5, <3>1, <3>2, <3>3 DEF InOrder, InHand, Newer
  <2> QED
    BY <2>5, <2>7, <2>8 DEF OrderInv
<1>5. ASSUME NEW x \in P.todo, SendAccepted(w, x)
      PROVE  OrderInv'
  <2>1. /\ cdn' = [cdn EXCEPT ![x.did] = x] /\ P.at = "send"
        /\ UNCHANGED <<bulletin, handlerVars, cdnJson, cdnSql, faults>>
    BY <1>5 DEF SendAccepted, rootVars, fileVars, queueVars, handlerVars, historyVars
  <2>2. /\ publisher'[w].at = IF UseSqlite THEN "delete_row" ELSE "read_json"
        /\ publisher'[w].current = x
        /\ publisher'[w].todo = P.todo /\ publisher'[w].queue = {}
    BY <1>1, <1>2, <1>5, <2>1 DEF SendAccepted, PublisherState
  <2>3. Shape'
    BY <1>1, <1>2, <2>1, <2>2, ShapeOfPublisher
  <2>4. ASSUME InOrder(w)
        PROVE  InOrder(w)'
    <3>1. /\ x \in Package /\ x.did \in Agents /\ cdn'[x.did] = x
          /\ \A y \in Package : y.did # x.did => cdn'[y.did] = cdn[y.did]
      BY <1>1, <1>3, <1>5, <2>1
    <3>2. \A y \in P.todo : Newer(y)'
      <4>1. \A y \in P.todo : y.did = x.did => y = x
        BY <1>2, <1>5 DEF OnePerAgent
      <4> QED
        BY <1>1, <1>3, <2>4, <3>1, <4>1 DEF InOrder, Newer
    <3>3. cdnJson \subseteq Package /\ cdnSql \subseteq Package
      BY <1>1 DEF Inv, TypeOK, QueuesTypeOK
    <3>4. \A y \in cdnJson : (UseSqlite /\ y.did = x.did) \/ Newer(y)'
      BY <1>5, <2>1, <2>4, <3>1, <3>3 DEF InOrder, InHand, Newer
    <3>5. UseSqlite => \A y \in cdnSql : y.did = x.did \/ Newer(y)'
      BY <2>1, <2>4, <3>1, <3>3 DEF InOrder, Newer
    <3>6. ~UseSqlite => \A z \in cdnJson, y \in P.todo : z.did = y.did => z.sequence >= y.sequence
      BY <2>4 DEF InOrder
    <3>7. UseSqlite => \A y \in cdnJson : y.did = x.did => InHand(w, y.did)'
      BY <2>2 DEF InHand
    <3> QED
      BY <2>1, <2>2, <3>2, <3>4, <3>5, <3>6, <3>7 DEF InOrder
  <2> QED
    BY <2>1, <2>3, <2>4 DEF OrderInv
<1>6. CASE DeleteCdnRow(w) \/ ReadCdnFile(w)
  <2>1. /\ P.at \in {"delete_row", "read_json"} /\ publisher'[w].at \in {"read_json", "write_json"}
        /\ publisher'[w].current = P.current /\ publisher'[w].todo = P.todo
        /\ publisher'[w].queue \subseteq cdnJson
        /\ publisher'[w].at # "write_json" => publisher'[w].queue = {}
        /\ UNCHANGED <<bulletin, handlerVars, cdnJson, cdn, faults>>
        /\ \/ UNCHANGED cdnSql /\ P.at = "read_json"
           \/ cdnSql' = {x \in cdnSql : x.did # P.current.did}
    <3>1. CASE DeleteCdnRow(w)
      BY <1>1, <1>2, <3>1 DEF DeleteCdnRow, PublisherState, fileVars, historyVars, outVars
    <3>2. ASSUME NEW queue \in SeenCdnJson,
                 publisher' = [publisher EXCEPT ![w].at = "write_json", ![w].queue = queue]
          PROVE  /\ publisher'[w].at = "write_json" /\ publisher'[w].queue = queue
                 /\ publisher'[w].current = P.current /\ publisher'[w].todo = P.todo
                 /\ queue \subseteq cdnJson
      BY <1>1, <3>2, SeenIsQueued DEF PublisherState
    <3>3. CASE ReadCdnFile(w)
      BY <3>2, <3>3 DEF ReadCdnFile, rootVars, fileVars, queueVars, handlerVars, historyVars, outVars
    <3> QED
      BY <1>6, <3>1, <3>3
  <2>2. OnePerAgent(publisher'[w].queue)
    BY <1>2, <2>1 DEF OnePerAgent
  <2>3. Shape'
    <3>1. \A v \in Publishers \ {w} : publisher'[v] = publisher[v]
      OBVIOUS
    <3>2. cdnSql' \subseteq cdnSql
      BY <2>1
    <3> QED
      BY <1>1, <1>2, <2>1, <2>2, <3>1, <3>2, ShapeOfPublisher
  <2>4. ASSUME InOrder(w)
        PROVE  InOrder(w)'
    <3>1. \A x \in cdnJson : (UseSqlite /\ InHand(w, x.did)) \/ Newer(x)
      BY <2>4 DEF InOrder
    <3>2. \A x \in P.todo : Newer(x)
      BY <2>4 DEF InOrder
    <3>3. UseSqlite => \A x \in cdnSql' : Newer(x)
      BY <2>1, <2>4 DEF InOrder
    <3>4. ~UseSqlite => \A x \in cdnJson, y \in P.todo : x.did = y.did => x.sequence >= y.sequence
      BY <2>4 DEF InOrder
    <3>5. \A x : InHand(w, x.did) => InHand(w, x.did)'
      BY <2>1 DEF InHand
    <3> QED
      BY <2>1, <3>1, <3>2, <3>3, <3>4, <3>5 DEF InOrder, Newer
  <2> QED
    BY <2>1, <2>3, <2>4 DEF OrderInv
<1>7. CASE WriteCdnFile(w)
  <2>1. /\ P.at = "write_json"
        /\ cdnJson' = {x \in P.queue : x.did # P.current.did}
        /\ publisher' = [publisher EXCEPT ![w] = Done(w, P.current)]
        /\ UNCHANGED <<bulletin, handlerVars, cdnSql, cdn, faults>>
    BY <1>7 DEF WriteCdnFile, historyVars, outVars
  <2>2. /\ publisher'[w].at \in {"idle", "send"} /\ publisher'[w].queue = {}
        /\ publisher'[w].todo \subseteq P.todo
    BY <1>1, <2>1, DoneIs DEF BatchInv
  <2>3. OnePerAgent(cdnJson') /\ OnePerAgent(publisher'[w].todo)
    BY <1>2, <2>1, <2>2 DEF OnePerAgent
  <2>4. Shape'
    BY <1>1, <2>1, <2>2, <2>3, ShapeOfPublisher
  <2>5. ASSUME InOrder(w)
        PROVE  InOrder(w)'
    <3>1. \A x \in cdnJson' : Newer(x)
      BY <2>1, <2>5 DEF InOrder, InHand
    <3>2. UseSqlite => \A x \in cdnSql : Newer(x)
      BY <2>1, <2>5 DEF InOrder
    <3>3. ~UseSqlite => \A x \in cdnJson', y \in P.todo : x.did = y.did => x.sequence >= y.sequence
      BY <2>1, <2>5 DEF InOrder
    <3>4. \A x \in P.todo : Newer(x)
      BY <2>5 DEF InOrder
    <3> QED
      BY <2>1, <2>2, <3>1, <3>2, <3>3, <3>4 DEF InOrder, Newer
  <2> QED
    BY <2>1, <2>4, <2>5 DEF OrderInv
<1>8. ASSUME NEW state \in PublisherState, publisher' = [publisher EXCEPT ![w] = state],
             state.at \in {"idle", "send"}, state.queue = {}, state.todo \subseteq P.todo,
             UNCHANGED <<bulletin, handlerVars, cdnJson, cdnSql>>, faults' = faults + 1,
             \/ UNCHANGED cdn
             \/ \E x \in P.todo : cdn' = [cdn EXCEPT ![x.did] = x]
      PROVE  OrderInv'
  <2>1. publisher'[w] = state /\ \A v \in Publishers \ {w} : publisher'[v] = publisher[v]
    BY <1>1, <1>8
  <2>2. OnePerAgent(state.todo)
    BY <1>2, <1>8 DEF OnePerAgent
  <2>3. Shape'
    BY <1>1, <1>2, <1>8, <2>1, <2>2, ShapeOfPublisher
  <2>4. ASSUME ~UseSqlite, InOrder(w)
        PROVE  InOrder(w)'
    <3>1. cdnJson \subseteq Package
      BY <1>1 DEF Inv, TypeOK, QueuesTypeOK
    <3>2. /\ \A y \in P.todo : Newer(y)
          /\ \A z \in cdnJson : Newer(z) /\ \A y \in P.todo : z.did = y.did => z.sequence >= y.sequence
      BY <2>4 DEF InOrder
    <3>3. CASE UNCHANGED cdn
      BY <1>8, <2>1, <2>4, <3>2, <3>3 DEF InOrder, Newer
    <3>4. ASSUME NEW x \in P.todo, cdn' = [cdn EXCEPT ![x.did] = x]
          PROVE  InOrder(w)'
      <4>1. /\ x \in Package /\ x.did \in Agents /\ cdn'[x.did] = x
            /\ \A y \in Package : y.did # x.did => cdn'[y.did] = cdn[y.did]
        BY <1>1, <1>3, <3>4
      <4>2. \A y \in P.todo : Newer(y)'
        <5>1. \A y \in P.todo : y.did = x.did => y = x
          BY <1>2, <3>4 DEF OnePerAgent
        <5> QED
          BY <1>1, <1>3, <3>2, <4>1, <5>1 DEF Newer
      <4>3. \A z \in cdnJson : Newer(z)'
        BY <3>1, <3>2, <4>1 DEF Newer
      <4> QED
        BY <1>8, <2>1, <2>4, <3>2, <4>2, <4>3 DEF InOrder
    <3> QED
      BY <1>8, <3>3, <3>4
  <2> QED
    BY <1>1, <1>8, <2>3, <2>4 DEF OrderInv
<1>9. ASSUME NEW x \in P.todo, SendFailed(w, x)
      PROVE  OrderInv'
  <2>1. /\ publisher' = [publisher EXCEPT ![w] = Done(w, x)] /\ faults' = faults + 1
        /\ UNCHANGED <<bulletin, handlerVars, cdnJson, cdnSql>>
        /\ UNCHANGED cdn \/ cdn' = [cdn EXCEPT ![x.did] = x]
    BY <1>9 DEF SendFailed, fileVars, queueVars
  <2> QED
    BY <1>8, <2>1, DoneIs DEF BatchInv
<1>10. CASE AbandonPublish(w)
  <2>1. /\ IdlePublisher \in PublisherState /\ IdlePublisher.at = "idle"
        /\ IdlePublisher.todo = {} /\ IdlePublisher.queue = {}
    BY DEF IdlePublisher, PublisherState
  <2>2. /\ publisher' = [publisher EXCEPT ![w] = IdlePublisher] /\ faults' = faults + 1
        /\ UNCHANGED <<bulletin, handlerVars, cdnJson, cdnSql, cdn>>
    BY <1>10 DEF AbandonPublish, queueVars, outVars
  <2> QED
    BY <1>8, <2>1, <2>2
<1> QED
  BY <1>4, <1>5, <1>6, <1>7, <1>9, <1>10 DEF PublisherStep
LEMMA HandlerStepKeepsOrder ==
    ASSUME BatchInv, OrderInv, [OpenNext]_rootVars, NEW p \in Procs, HandlerStep(p)
    PROVE  OrderInv'
<1>1. UNCHANGED <<publisher, cdn>>
  BY DEF HandlerStep, batchVars, outVars
<1>2. UNCHANGED faults
  BY DEF HandlerStep, VerifyNonce, VerifyRequest, RejectRequest, ReadBulletin, FailRead, WriteBulletin,
         ArchiveVerified, UpdateLatestVersion, EnqueueCdnJson, EnqueueCdnSql, EnqueueDiscoveryJson,
         EnqueueDiscoverySql, Respond, UpdateAuthorization, historyVars
<1>3. ASSUME NEW queue \in SeenByHandler("cdn_queue", ReadCdnJson), EnqueueCdnJson(p, queue)
      PROVE  OrderInv'
  <2>1. pc[p] \in Distributing /\ cdnJson' = Supersede(queue, PackageOf(p)) /\ UNCHANGED cdnSql
    BY <1>3 DEF EnqueueCdnJson, At, Distributing
  <2>2. queue \in SUBSET cdnJson
    BY SeenIsQueued
  <2>3. Refreshed(cdnJson, cdnJson', p) /\ Refreshed(cdnSql, cdnSql', p)
    BY <2>1, <2>2 DEF Refreshed
  <2> QED
    BY <1>1, <1>2, <2>1, <2>3, HandlerKeepsOrder
<1>4. CASE EnqueueCdnSql(p)
  <2>1. pc[p] \in Distributing /\ cdnSql' = Supersede(cdnSql, PackageOf(p)) /\ UNCHANGED cdnJson
    BY <1>4 DEF EnqueueCdnSql, At, Distributing
  <2>2. Refreshed(cdnJson, cdnJson', p) /\ Refreshed(cdnSql, cdnSql', p)
    BY <2>1 DEF Refreshed
  <2> QED
    BY <1>1, <1>2, <2>1, <2>2, HandlerKeepsOrder
<1>5. CASE UNCHANGED <<cdnJson, cdnSql>>
  BY <1>1, <1>2, <1>5, QuietKeepsOrder
<1> QED
  BY <1>3, <1>4, <1>5
  DEF HandlerStep, VerifyNonce, VerifyRequest, RejectRequest, ReadBulletin, FailRead, WriteBulletin,
      ArchiveVerified, UpdateLatestVersion, EnqueueDiscoveryJson, EnqueueDiscoverySql,
      UpdateAuthorization, queueVars

LEMMA CrashKeepsOrder ==
    ASSUME BatchInv, OrderInv, [OpenNext]_rootVars, BatchCrash
    PROVE  OrderInv'
<1>1. /\ UNCHANGED <<bulletin, cdnJson, cdnSql, cdn>> /\ faults' = faults + 1 /\ faults \in Nat
      /\ \A w \in Publishers : publisher'[w] = IdlePublisher
      /\ \A p \in Procs : pc'[p] = "idle"
  BY DEF BatchCrash, Restart, queueVars, outVars, BatchInv, Inv, TypeOK, HistoryTypeOK
<1>2. Shape'
  BY <1>1 DEF OrderInv, Shape, IdlePublisher, OnePerAgent, Distributing
<1>3. ASSUME ~UseSqlite, NEW w \in Publishers, InOrder(w)
      PROVE  InOrder(w)'
  BY <1>1, <1>3 DEF InOrder, IdlePublisher, Newer
<1> QED
  BY <1>1, <1>2, <1>3 DEF OrderInv

LEMMA NextKeepsOrder ==
    ASSUME \A v, w \in Publishers : v = w
    PROVE  BatchInv /\ OrderInv /\ [BatchNext]_allVars => OrderInv'
<1> SUFFICES ASSUME BatchInv, OrderInv, [BatchNext]_allVars
             PROVE  OrderInv'
  OBVIOUS
<1>1. [OpenNext]_rootVars /\ faults \in Nat
  BY BatchNextIsOpen DEF BatchInv, Inv, TypeOK, HistoryTypeOK
<1>2. ASSUME \/ \E p \in Procs, r \in Requests : Acquire(p, r) /\ UNCHANGED <<batchVars, outVars>>
             \/ \E p \in Procs : Abandon(p) /\ UNCHANGED <<batchVars, outVars>>
             \/ \E w \in Notifiers : NotifierStep(w) \/ AbandonNotify(w)
             \/ UNCHANGED allVars
      PROVE  UNCHANGED <<publisher, cdn, cdnJson, cdnSql>> /\ faults' \in {faults, faults + 1}
  BY <1>2 DEF Acquire, Abandon, NotifierStep, StartNotify, DeleteDiscoveryRow, EmptyDiscoveryFile,
              AbandonNotify, allVars, rootVars, queueVars, historyVars, batchVars, outVars
<1>3. ASSUME NEW w \in Publishers,
             \/ PublisherStep(w)
             \/ \E x \in publisher[w].todo : SendFailed(w, x)
             \/ AbandonPublish(w)
      PROVE  OrderInv'
  BY <1>1, <1>3, PublisherKeepsOrder
<1> QED
  BY <1>1, <1>2, <1>3, HandlerStepKeepsOrder, CrashKeepsOrder, QuietKeepsOrder DEF BatchNext

\* With one publisher the CDN never goes back to an older package of an Agent:
\* without the table, whatever fails; with it, as long as nothing fails
\* (publish_cdn_batch works from a copy of the queue).
THEOREM NeverRegresses ==
    ASSUME \A v, w \in Publishers : v = w
    PROVE  BatchSpec => CdnNeverRegresses
<1>1. BatchInit => OrderInv
  <2> SUFFICES ASSUME BatchInit
               PROVE  OrderInv
    OBVIOUS
  <2>1. Shape
    BY DEF BatchInit, Init, Shape, IdlePublisher, OnePerAgent, Distributing
  <2>2. \A w \in Publishers : InOrder(w)
    BY DEF BatchInit, Init, InOrder, IdlePublisher
  <2> QED
    BY <2>1, <2>2 DEF OrderInv
<1>2. ASSUME BatchInv, OrderInv, [BatchNext]_allVars
      PROVE  [(UseSqlite => faults = 0) =>
                \A a \in Agents : cdn'[a].sequence >= cdn[a].sequence]_cdn
  <2> SUFFICES ASSUME UseSqlite => faults = 0, NEW a \in Agents, cdn' # cdn
               PROVE  cdn'[a].sequence >= cdn[a].sequence
    OBVIOUS
  <2>1. PICK w \in Publishers : \E x \in publisher[w].todo : SendAccepted(w, x) \/ SendFailed(w, x)
    BY <1>2 DEF BatchNext, HandlerStep, PublisherStep, StartPublish, DeleteCdnRow, ReadCdnFile,
       WriteCdnFile, AbandonPublish, NotifierStep, StartNotify, DeleteDiscoveryRow, EmptyDiscoveryFile,
       AbandonNotify, BatchCrash, allVars, outVars
  <2>2. PICK x \in publisher[w].todo : cdn' = [cdn EXCEPT ![x.did] = x]
    BY <2>1 DEF SendAccepted, SendFailed
  <2>3. Newer(x)
    BY <1>2 DEF OrderInv, InOrder
  <2>4. cdn[a].sequence \in Nat /\ cdn \in [Agents -> Package \cup {NoPackage}]
    BY <1>2, CdnBound DEF BatchInv, OrderInv, BatchTypeOK
  <2> QED
    BY <2>2, <2>3, <2>4 DEF Newer
<1> QED
  BY <1>1, <1>2, NextKeepsOrder, BatchInvariance, PTL DEF BatchSpec, CdnNeverRegresses

-----------------------------------------------------------------------------
(* Notifications follow the bulletin.                                      *)

\* Between two handlers, before anything failed, a batch reads the authorization
\* file as it is, although it does not hold the lock.
LEMMA SeenIsReplayed ==
    ASSUME Inv, ReplayInv, lock = NoProc, faults = 0, NEW a \in SeenAuthorization, NEW n \in Nodes
    PROVE  a.discovery_nodes[n] = [status |-> StatusFrom(DiscoveryGrants(n), n),
                                   authorizedDomains |-> DomainsFrom(DiscoveryGrants(n), n)]
<1>1. \A p \in Procs : pc[p] = "idle"
  BY ConstantsAssumption DEF Inv, Handlers, Serving
<1>2. ~HandlerWrites("authorization") /\ ~BatchWrites("authorization")
  BY <1>1 DEF HandlerWrites, BatchWrites, FileAt
<1>3. "authorization" \notin torn
  BY DEF ReplayInv, QueueFiles
<1>4. a = authorization
  BY <1>2, <1>3 DEF SeenAuthorization, SeenByBatch, Seen, LoadAuthorization
<1>5. Replays(authorization)
  BY <1>1 DEF ReplayInv
<1> QED
  BY <1>4, <1>5 DEF Replays

\* Only StartNotify puts a batch together.
LEMMA OnlyStartsNotify ==
    ASSUME BatchInv, [BatchNext]_allVars, NEW w \in Notifiers,
           notifier[w].at = "idle", notifier'[w].at # "idle"
    PROVE  StartNotify(w)
<1>1. notifier \in [Notifiers -> NotifierState]
  BY DEF BatchInv, BatchTypeOK
<1>2. ASSUME UNCHANGED notifier PROVE FALSE
  BY <1>2
<1>3. ASSUME BatchCrash PROVE FALSE
  BY <1>3 DEF BatchCrash, IdleNotifier
<1>4. ASSUME NEW v \in Notifiers, NotifierStep(v) \/ AbandonNotify(v), v # w PROVE FALSE
  <2>1. \E next : notifier' = [notifier EXCEPT ![v] = next]
    BY <1>4 DEF NotifierStep, StartNotify, DeleteDiscoveryRow, EmptyDiscoveryFile, AbandonNotify
  <2>2. notifier'[w] = notifier[w]
    BY <1>1, <1>4, <2>1
  <2> QED
    BY <2>2
<1>5. ASSUME AbandonNotify(w) \/ EmptyDiscoveryFile(w) \/ (\E x \in notifier[w].left : DeleteDiscoveryRow(w, x))
      PROVE  FALSE
  BY <1>5 DEF AbandonNotify, EmptyDiscoveryFile, DeleteDiscoveryRow
<1>6. UNCHANGED notifier \/ BatchCrash
      \/ \E v \in Notifiers : NotifierStep(v) \/ AbandonNotify(v)
  BY DEF BatchNext, Acquire, HandlerStep, Abandon, PublisherStep, StartPublish, SendAccepted, SendFailed,
         DeleteCdnRow, ReadCdnFile, WriteCdnFile, AbandonPublish, allVars, batchVars
<1>7. NotifierStep(w) \/ AbandonNotify(w)
  BY <1>2, <1>3, <1>4, <1>6
<1> QED
  BY <1>5, <1>7 DEF NotifierStep

\* A notification batch put together between two handlers, before anything failed,
\* tells only nodes that the bulletin authorizes, of documents within the domains
\* it gives them (notify_discovery_batch reads the authorization file, not the log).
THEOREM NotificationsFollow == BatchSpec => NotificationsFollowBulletin
<1>1. ASSUME BatchInv, ReplayInv, [BatchNext]_allVars, NEW w \in Notifiers,
             notifier[w].at = "idle", notifier'[w].at # "idle", lock = NoProc, faults = 0,
             NEW n \in Nodes, notifier'[w].batches[n] # {}
      PROVE  /\ StatusFrom(DiscoveryGrants(n), n) = "active"
             /\ \A x \in notifier'[w].batches[n] :
                  Matches(x.didDocument, DomainsFrom(DiscoveryGrants(n), n))
  <2>1. StartNotify(w) /\ notifier \in [Notifiers -> NotifierState] /\ Inv
    BY <1>1, OnlyStartsNotify DEF BatchInv, BatchTypeOK
  <2>2. PICK items \in SeenDiscoveryQueue, a \in SeenAuthorization :
          \E batches \in Batches(items, a) :
             notifier' = [notifier EXCEPT ![w] =
                [at      |-> IF UseSqlite /\ items # {} THEN "delete_rows" ELSE "write_json",
                 items   |-> items,
                 left    |-> IF UseSqlite THEN items ELSE {},
                 batches |-> batches]]
    BY <2>1 DEF StartNotify
  <2>3. PICK batches \in Batches(items, a) : notifier'[w].batches = batches
    BY <2>1, <2>2
  <2>4. batches[n] \in Take(NotifyBatch, Eligible(items, a.discovery_nodes[n]))
    BY <2>3 DEF Batches
  <2>5. batches[n] \subseteq Eligible(items, a.discovery_nodes[n])
    BY <2>4 DEF Take
  <2>6. a.discovery_nodes[n] = [status |-> StatusFrom(DiscoveryGrants(n), n),
                                authorizedDomains |-> DomainsFrom(DiscoveryGrants(n), n)]
    BY <1>1, <2>1, <2>2, SeenIsReplayed
  <2> QED
    BY <1>1, <2>3, <2>5, <2>6 DEF Eligible
<1>2. BatchInv /\ ReplayInv /\ [BatchNext]_allVars =>
        [\A w \in Notifiers :
           /\ notifier[w].at = "idle" /\ notifier'[w].at # "idle"
           /\ lock = NoProc /\ faults = 0
           => \A n \in Nodes : notifier'[w].batches[n] # {} =>
                /\ StatusFrom(DiscoveryGrants(n), n) = "active"
                /\ \A x \in notifier'[w].batches[n] :
                     Matches(x.didDocument, DomainsFrom(DiscoveryGrants(n), n))]_notifier
  BY <1>1
<1>3. BatchSpec => []ReplayInv
  BY BatchesAreOpen, ReplayInvariance, PTL
<1> QED
  BY <1>2, <1>3, BatchInvariance, PTL DEF BatchSpec, NotificationsFollowBulletin
=============================================================================
