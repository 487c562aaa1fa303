-------------------------- MODULE PropagationProofs --------------------------
(***************************************************************************)
(* Proofs about the workers of the reference Root, alone and composed with *)
(* its Discovery nodes, for any numbers of Agents, versions, nodes,        *)
(* workers, batches, page limits and failures, and any syncs that overlap  *)
(* at a node.                                                              *)
(*                                                                         *)
(* First the feed: its rows are numbered once and for all, so that the     *)
(* cursor of a version never moves.  Then the invariant of RootStep, that  *)
(* follows a version from its row over its job and its post to the         *)
(* watermarks.  Last what the nodes make of the feed.                      *)
(***************************************************************************)
EXTENDS Propagation, FiniteSetTheorems, SequenceTheorems, TLAPS

RowsOf(did) == {c \in DOMAIN feed : feed[c].did = did}

InFeed(version) == \E c \in DOMAIN feed : feed[c] = version

\* An Agent's versions are numbered without gap, and each has one row.
FeedNumbered ==
    /\ feed \in Seq(Version)
    /\ \A row \in Version : InFeed(row) => row.version <= Latest(row.did)
    /\ \A a \in Agents, k \in Nat : 1 <= k /\ k <= Latest(a) => InFeed([did |-> a, version |-> k])
    /\ \A c, e \in DOMAIN feed : feed[c] = feed[e] => c = e

LEMMA LatestIsNat ==
    ASSUME feed \in Seq(Version), NEW a
    PROVE  IsFiniteSet(RowsOf(a)) /\ Latest(a) \in Nat
<1>1. IsFiniteSet(1..Len(feed)) /\ DOMAIN feed = 1..Len(feed)
    BY FS_Interval
<1>2. IsFiniteSet(RowsOf(a))
    BY <1>1, FS_Subset DEF RowsOf
<1>3. Cardinality(RowsOf(a)) \in Nat
    BY <1>2, FS_CardinalityType
<1> QED
    BY <1>2, <1>3 DEF Latest, RowsOf

LEMMA VersionParts ==
    ASSUME NEW version \in Version
    PROVE  /\ version.did \in Agents /\ version.version \in Nat
           /\ version = [did |-> version.did, version |-> version.version]
    BY DEF Version

\* What the next row of an Agent changes.
LEMMA LatestGrows ==
    ASSUME feed \in Seq(Version), NEW version \in Version, feed' = Append(feed, version)
    PROVE  /\ feed' \in Seq(Version)
           /\ DOMAIN feed' = DOMAIN feed \union {Len(feed) + 1} /\ Len(feed) + 1 \notin DOMAIN feed
           /\ feed'[Len(feed) + 1] = version
           /\ \A c \in DOMAIN feed : feed'[c] = feed[c]
           /\ Latest(version.did)' = Latest(version.did) + 1
           /\ \A a : a # version.did => Latest(a)' = Latest(a)
<1>1. /\ feed' \in Seq(Version)
      /\ DOMAIN feed' = DOMAIN feed \union {Len(feed) + 1} /\ Len(feed) + 1 \notin DOMAIN feed
      /\ feed'[Len(feed) + 1] = version
      /\ \A c \in DOMAIN feed : feed'[c] = feed[c]
    OBVIOUS
<1>2. Latest(version.did)' = Latest(version.did) + 1
  <2>1. RowsOf(version.did)' = RowsOf(version.did) \union {Len(feed) + 1}
      BY <1>1 DEF RowsOf
  <2>2. Len(feed) + 1 \notin RowsOf(version.did) /\ IsFiniteSet(RowsOf(version.did))
      BY <1>1, LatestIsNat DEF RowsOf
  <2>3. Cardinality(RowsOf(version.did) \union {Len(feed) + 1}) = Cardinality(RowsOf(version.did)) + 1
      BY <2>2, FS_AddElement
  <2> QED
      BY <2>1, <2>3 DEF Latest, RowsOf
<1>3. ASSUME NEW a, a # version.did
      PROVE  Latest(a)' = Latest(a)
  <2>1. RowsOf(a)' = RowsOf(a)
      BY <1>1, <1>3 DEF RowsOf
  <2> QED
      BY <2>1 DEF Latest, RowsOf
<1> QED
    BY <1>1, <1>2, <1>3

LEMMA FeedGrows ==
    ASSUME FeedNumbered, NEW version \in Version, version.version = Latest(version.did) + 1,
           feed' = Append(feed, version)
    PROVE  FeedNumbered' /\ InFeed(version)' /\ \A v : InFeed(v) => InFeed(v)'
<1>1. /\ feed' \in Seq(Version)
      /\ DOMAIN feed' = DOMAIN feed \union {Len(feed) + 1} /\ Len(feed) + 1 \notin DOMAIN feed
      /\ feed'[Len(feed) + 1] = version
      /\ \A c \in DOMAIN feed : feed'[c] = feed[c]
      /\ Latest(version.did)' = Latest(version.did) + 1
      /\ \A a : a # version.did => Latest(a)' = Latest(a)
    BY LatestGrows DEF FeedNumbered
<1>2. \A a : Latest(a) \in Nat
    BY LatestIsNat DEF FeedNumbered
<1>3. InFeed(version)' /\ \A v : InFeed(v) => InFeed(v)'
    BY <1>1 DEF InFeed
<1>4. ASSUME NEW row \in Version, InFeed(row)'
      PROVE  row.version <= Latest(row.did)'
  <2>1. row = version \/ InFeed(row)
      BY <1>1, <1>4 DEF InFeed
  <2>2. CASE InFeed(row)
    <3>1. row.version <= Latest(row.did)
        BY <2>2 DEF FeedNumbered
    <3> QED
        BY <1>1, <1>2, <3>1, VersionParts
  <2>3. CASE row = version
      BY <1>1, <1>2, <2>3, VersionParts
  <2> QED
      BY <2>1, <2>2, <2>3
<1>5. ASSUME NEW a \in Agents, NEW k \in Nat, 1 <= k, k <= Latest(a)'
      PROVE  InFeed([did |-> a, version |-> k])'
  <2>1. CASE k <= Latest(a)
      BY <1>3, <1>5, <2>1 DEF FeedNumbered
  <2>2. CASE ~(k <= Latest(a))
    <3>1. a = version.did /\ k = Latest(version.did) + 1
        BY <1>1, <1>2, <1>5, <2>2
    <3>2. version = [did |-> a, version |-> k]
        BY <3>1, VersionParts
    <3> QED
        BY <1>3, <3>2
  <2> QED
      BY <2>1, <2>2
<1>6. ASSUME NEW c \in DOMAIN feed', NEW e \in DOMAIN feed', feed'[c] = feed'[e]
      PROVE  c = e
  <2>1. \A i \in DOMAIN feed : feed[i] # version
    <3>1. ASSUME NEW i \in DOMAIN feed, feed[i] = version
          PROVE  FALSE
        BY <1>2, <3>1, VersionParts DEF FeedNumbered, InFeed
    <3> QED
        BY <3>1
  <2> QED
      BY <1>1, <1>6, <2>1 DEF FeedNumbered
<1> QED
    BY <1>1, <1>3, <1>4, <1>5, <1>6 DEF FeedNumbered

\* The cursor of a version is its row.
LEMMA CursorIsRow ==
    ASSUME FeedNumbered, NEW version, InFeed(version)
    PROVE  Cursor(version) \in DOMAIN feed /\ feed[Cursor(version)] = version
    BY DEF Cursor, InFeed

\* The row of a version stays its row.
LEMMA CursorStays ==
    ASSUME FeedNumbered, FeedNumbered', NEW version, InFeed(version),
           \A c \in DOMAIN feed : c \in DOMAIN feed' /\ feed'[c] = feed[c]
    PROVE  Cursor(version)' = Cursor(version)
<1>1. Cursor(version) \in DOMAIN feed /\ feed[Cursor(version)] = version
    BY CursorIsRow
<1>2. InFeed(version)'
    BY <1>1 DEF InFeed
<1>3. Cursor(version)' \in DOMAIN feed' /\ feed'[Cursor(version)'] = version
    BY <1>2 DEF Cursor, InFeed
<1>4. feed'[Cursor(version)] = version
    BY <1>1
<1> QED
    BY <1>1, <1>3, <1>4 DEF FeedNumbered

----------------------------------------------------------------------------
(* The invariant *)

TaskShape(t) ==
    /\ DOMAIN t = {"worker", "job", "stage", "left"}
    /\ t.job \in Version /\ InFeed(t.job)
    /\ t.stage \in {"posting", "stored", "announcing"}
    /\ t.left \subseteq Discoveries

TargetShape(target) ==
    DOMAIN target = {"pending", "delivered", "status", "lease"} /\ target.pending \in Nat

Shapes ==
    /\ accepting \subseteq Version /\ late \subseteq Version
    /\ jobs \in [Version -> JobStatuses]
    /\ cdn \in [Agents -> Nat]
    /\ DOMAIN auth = Discoveries
    /\ DOMAIN targets = Discoveries /\ \A d \in Discoveries : TargetShape(targets[d])
    /\ \A t \in tasks : TaskShape(t)
    /\ \A v \in accepting : InFeed(v)
    /\ \A v \in Version : jobs[v] # "none" => InFeed(v)

\* What a task passed on after its post, and what a job was marked for, is at
\* the CDN, and so is what the CDN holds.
Posted ==
    /\ \A t \in tasks : t.stage \in {"stored", "announcing"} => t.job \in stored
    /\ \A v \in Version : jobs[v] = "succeeded" => v \in stored
    /\ \A a \in Agents : cdn[a] > 0 => [did |-> a, version |-> cdn[a]] \in stored

\* A watermark is the row of a version the CDN has stored.
Watermarks ==
    \A d \in Discoveries : targets[d].pending > 0 =>
        targets[d].pending \in DOMAIN feed /\ feed[targets[d].pending] \in stored

Told(version, d) == targets[d].pending >= Cursor(version)

\* A task tells every Discovery node it read, and it read those of the start.
Audience ==
    ~governed =>
      /\ \A d \in Discoveries : auth[d] = "active" <=> d \in Authorized
      /\ \A t \in tasks, d \in Authorized :
            t.stage = "announcing" /\ t.job.did \in Serves[d] => d \in t.left \/ Told(t.job, d)
      /\ \A v \in Version, d \in Authorized :
            jobs[v] = "succeeded" /\ v.did \in Serves[d] => Told(v, d)

RootInv == FeedNumbered /\ Shapes /\ Posted /\ Watermarks /\ Audience

LEMMA RootInvInit == RootInit => RootInv
<1> SUFFICES ASSUME RootInit PROVE RootInv
    OBVIOUS
<1>1. feed = <<>> /\ DOMAIN feed = {}
    BY DEF RootInit
<1>2. \A a : Latest(a) = 0
  <2> SUFFICES ASSUME NEW a PROVE Latest(a) = 0
      OBVIOUS
  <2>1. {c \in DOMAIN feed : feed[c].did = a} = {}
      BY <1>1
  <2> QED
      BY <2>1, FS_EmptySet DEF Latest
<1>3. FeedNumbered
    BY <1>1, <1>2 DEF FeedNumbered, InFeed
<1>4. Shapes
    BY DEF RootInit, Shapes, JobStatuses, TargetShape
<1>5. Posted
    BY DEF RootInit, Posted
<1>6. Watermarks
    BY DEF RootInit, Watermarks
<1>7. Audience
    BY WorkersAssumption DEF RootInit, Audience
<1> QED
    BY <1>3, <1>4, <1>5, <1>6, <1>7 DEF RootInv

\* As long as the feed stays, so do the cursors.
LEMMA SameFeed ==
    ASSUME UNCHANGED feed
    PROVE  /\ FeedNumbered <=> FeedNumbered'
           /\ \A v : (InFeed(v) <=> InFeed(v)') /\ Cursor(v)' = Cursor(v)
    BY DEF FeedNumbered, InFeed, Cursor, Latest

\* Steps that only give jobs and tasks up or begin posts.
LEMMA JobsPreserve ==
    ASSUME RootInv, UNCHANGED <<feed, cdn, auth, targets, governed, stored>>,
           accepting' \subseteq accepting, late' \subseteq Version,
           jobs' \in [Version -> JobStatuses],
           \A v \in Version : jobs'[v] # "none" => InFeed(v),
           \A v \in Version : jobs'[v] = "succeeded" => jobs[v] = "succeeded",
           \A t \in tasks' : t \in tasks \/ (TaskShape(t) /\ t.stage = "posting")
    PROVE  RootInv'
<1>1. FeedNumbered' /\ (\A v : (InFeed(v) <=> InFeed(v)') /\ Cursor(v)' = Cursor(v))
    BY SameFeed DEF RootInv
<1>2. \A t \in tasks' : TaskShape(t)'
    BY <1>1 DEF RootInv, Shapes, TaskShape
<1>3. Shapes'
    BY <1>1, <1>2 DEF RootInv, Shapes, TargetShape
<1>4. Posted'
    BY DEF RootInv, Posted
<1>5. Watermarks'
    BY DEF RootInv, Watermarks
<1>6. Audience'
    BY <1>1 DEF RootInv, Audience, Told
<1> QED
    BY <1>1, <1>3, <1>4, <1>5, <1>6 DEF RootInv

\* Steps that change leases, statuses and delivered watermarks of targets, or
\* the authorization file.
LEMMA TargetsPreserve ==
    ASSUME RootInv, UNCHANGED <<feed, jobs, accepting, tasks, late, cdn, stored>>,
           DOMAIN targets' = Discoveries,
           \A d \in Discoveries : TargetShape(targets'[d]) /\ targets'[d].pending = targets[d].pending,
           DOMAIN auth' = Discoveries,
           UNCHANGED <<auth, governed>> \/ governed' = TRUE
    PROVE  RootInv'
<1>1. FeedNumbered' /\ (\A v : (InFeed(v) <=> InFeed(v)') /\ Cursor(v)' = Cursor(v))
    BY SameFeed DEF RootInv
<1>2. \A t \in tasks' : TaskShape(t)'
    BY <1>1 DEF RootInv, Shapes, TaskShape
<1>3. Shapes'
    BY <1>1, <1>2 DEF RootInv, Shapes, TargetShape
<1>4. Posted'
    BY DEF RootInv, Posted
<1>5. Watermarks'
    BY DEF RootInv, Watermarks
<1>6. Audience'
    BY <1>1, WorkersAssumption DEF RootInv, Audience, Told
<1> QED
    BY <1>1, <1>3, <1>4, <1>5, <1>6 DEF RootInv

----------------------------------------------------------------------------
(* The steps *)

LEMMA CommitPreserves ==
    ASSUME RootInv, NEW version \in Version, Commit(version)
    PROVE  RootInv'
<1>1. /\ UNCHANGED <<jobs, tasks, late, cdn, auth, targets, governed, stored>>
      /\ accepting' = accepting \union {version}
    BY DEF Commit
<1>2. FeedNumbered' /\ InFeed(version)' /\ \A v : InFeed(v) => InFeed(v)'
  <2>1. CASE version.version = Latest(version.did) + 1 /\ feed' = Append(feed, version)
      BY <2>1, FeedGrows DEF RootInv
  <2>2. CASE version.version = Latest(version.did) /\ UNCHANGED feed
    <3>1. 1 <= version.version
        BY WorkersAssumption DEF Version
    <3>2. InFeed([did |-> version.did, version |-> version.version])
        BY <2>2, <3>1, VersionParts DEF RootInv, FeedNumbered
    <3>3. InFeed(version)
        BY <3>2, VersionParts
    <3> QED
        BY <2>2, <3>3, SameFeed DEF RootInv
  <2> QED
      BY <2>1, <2>2 DEF Commit
<1>3. \A c \in DOMAIN feed : c \in DOMAIN feed' /\ feed'[c] = feed[c]
  <2>1. CASE feed' = Append(feed, version)
      BY <2>1, LatestGrows DEF RootInv, FeedNumbered
  <2> QED
      BY <2>1 DEF Commit
<1>4. \A v : InFeed(v) => Cursor(v)' = Cursor(v)
    BY <1>2, <1>3, CursorStays DEF RootInv
<1>5. \A t \in tasks : TaskShape(t)'
    BY <1>2 DEF RootInv, Shapes, TaskShape
<1>6. Shapes'
    BY <1>1, <1>2, <1>5 DEF RootInv, Shapes, TargetShape
<1>7. Posted'
    BY <1>1 DEF RootInv, Posted
<1>8. Watermarks'
    BY <1>1, <1>3 DEF RootInv, Watermarks
<1>9. \A v : InFeed(v) => \A d \in Discoveries : Told(v, d) => Told(v, d)'
    BY <1>1, <1>4 DEF Told
<1>10. \A v \in Version : jobs[v] = "succeeded" => InFeed(v)
    BY DEF RootInv, Shapes
<1>11. Audience'
    BY <1>1, <1>9, <1>10, WorkersAssumption DEF RootInv, Audience, Shapes, TaskShape
<1> QED
    BY <1>2, <1>6, <1>7, <1>8, <1>11 DEF RootInv

\* The CDN stores a version that has a row.
LEMMA StoresKeeps ==
    ASSUME RootInv, NEW version \in Version, Stores(version),
           UNCHANGED <<feed, jobs, accepting, auth, targets, governed>>, late' \subseteq late
    PROVE  /\ FeedNumbered' /\ Watermarks' /\ stored \subseteq stored' /\ version \in stored'
           /\ \A v : (InFeed(v) <=> InFeed(v)') /\ Cursor(v)' = Cursor(v)
           /\ cdn' \in [Agents -> Nat]
           /\ \A a \in Agents : cdn'[a] > 0 => [did |-> a, version |-> cdn'[a]] \in stored'
<1>1. stored' = stored \union {version} /\ cdn' = [cdn EXCEPT ![version.did] = version.version]
    BY DEF Stores
<1>2. FeedNumbered' /\ \A v : (InFeed(v) <=> InFeed(v)') /\ Cursor(v)' = Cursor(v)
    BY SameFeed DEF RootInv
<1>3. Watermarks'
    BY <1>1 DEF RootInv, Watermarks
<1>4. cdn' \in [Agents -> Nat]
    BY <1>1, VersionParts DEF RootInv, Shapes
<1>5. \A a \in Agents : cdn'[a] > 0 => [did |-> a, version |-> cdn'[a]] \in stored'
  <2> SUFFICES ASSUME NEW a \in Agents, cdn'[a] > 0 PROVE [did |-> a, version |-> cdn'[a]] \in stored'
      OBVIOUS
  <2>1. CASE a = version.did
    <3>1. cdn'[a] = version.version
        BY <1>1, <2>1 DEF RootInv, Shapes
    <3>2. [did |-> a, version |-> cdn'[a]] = version
        BY <2>1, <3>1, VersionParts
    <3> QED
        BY <1>1, <3>2
  <2>2. CASE a # version.did
      BY <1>1, <2>2 DEF RootInv, Shapes, Posted
  <2> QED
      BY <2>1, <2>2
<1> QED
    BY <1>1, <1>2, <1>3, <1>4, <1>5

\* What a task that passes to another stage brings along.
LEMMA TaskGoesOn ==
    ASSUME NEW t, TaskShape(t), NEW stage, NEW left
    PROVE  LET becomes == [t EXCEPT !.stage = stage, !.left = left] IN
           /\ DOMAIN becomes = DOMAIN t /\ becomes.job = t.job
           /\ becomes.stage = stage /\ becomes.left = left
    BY DEF TaskShape

LEMMA CdnStoresPreserves ==
    ASSUME RootInv, NEW t, CdnStores(t)
    PROVE  RootInv'
<1>1. /\ UNCHANGED <<feed, jobs, accepting, late, auth, targets, governed>>
      /\ t \in tasks /\ Stores(t.job)
    BY DEF CdnStores
<1>2. TaskShape(t)
    BY <1>1 DEF RootInv, Shapes
<1>3. PICK u : u = [t EXCEPT !.stage = "stored"] /\ tasks' = (tasks \ {t}) \union {u}
    BY DEF CdnStores
<1>4. DOMAIN u = DOMAIN t /\ u.job = t.job /\ u.stage = "stored" /\ u.left = t.left
    BY <1>2, <1>3 DEF TaskShape
<1>5. /\ FeedNumbered' /\ Watermarks' /\ stored \subseteq stored' /\ t.job \in stored'
      /\ \A v : (InFeed(v) <=> InFeed(v)') /\ Cursor(v)' = Cursor(v)
      /\ cdn' \in [Agents -> Nat]
      /\ \A a \in Agents : cdn'[a] > 0 => [did |-> a, version |-> cdn'[a]] \in stored'
    BY <1>1, <1>2, StoresKeeps DEF TaskShape
<1>6. \A w \in tasks' : TaskShape(w)'
    BY <1>2, <1>3, <1>4, <1>5 DEF RootInv, Shapes, TaskShape
<1>7. Shapes'
    BY <1>1, <1>5, <1>6 DEF RootInv, Shapes, TargetShape
<1>8. Posted'
    BY <1>1, <1>3, <1>4, <1>5 DEF RootInv, Posted
<1>9. Audience'
    BY <1>1, <1>3, <1>4, <1>5 DEF RootInv, Audience, Told
<1> QED
    BY <1>5, <1>7, <1>8, <1>9 DEF RootInv

LEMMA CdnStoresLatePreserves ==
    ASSUME RootInv, NEW version, CdnStoresLate(version)
    PROVE  RootInv'
<1>1. /\ UNCHANGED <<feed, jobs, accepting, tasks, auth, targets, governed>>
      /\ late' \subseteq late /\ version \in Version /\ Stores(version)
    BY DEF CdnStoresLate, RootInv, Shapes
<1>2. /\ FeedNumbered' /\ Watermarks' /\ stored \subseteq stored' /\ version \in stored'
      /\ \A v : (InFeed(v) <=> InFeed(v)') /\ Cursor(v)' = Cursor(v)
      /\ cdn' \in [Agents -> Nat]
      /\ \A a \in Agents : cdn'[a] > 0 => [did |-> a, version |-> cdn'[a]] \in stored'
    BY <1>1, StoresKeeps
<1>3. \A w \in tasks' : TaskShape(w)'
    BY <1>1, <1>2 DEF RootInv, Shapes, TaskShape
<1>4. Shapes'
    BY <1>1, <1>2, <1>3 DEF RootInv, Shapes, TargetShape
<1>5. Posted'
    BY <1>1, <1>2 DEF RootInv, Posted
<1>6. Audience'
    BY <1>1, <1>2 DEF RootInv, Audience, Told
<1> QED
    BY <1>2, <1>4, <1>5, <1>6 DEF RootInv

LEMMA ReadAudiencePreserves ==
    ASSUME RootInv, NEW t, ReadAudience(t)
    PROVE  RootInv'
<1>1. /\ UNCHANGED <<feed, jobs, accepting, late, cdn, auth, targets, governed, stored>>
      /\ t \in tasks /\ t.stage = "stored"
    BY DEF ReadAudience
<1>2. TaskShape(t)
    BY <1>1 DEF RootInv, Shapes
<1>3. PICK audience : audience = {d \in Discoveries : auth[d] = "active" /\ t.job.did \in Serves[d]}
    OBVIOUS
<1>4. PICK u : u = [t EXCEPT !.stage = "announcing", !.left = audience] /\ tasks' = (tasks \ {t}) \union {u}
    BY <1>3 DEF ReadAudience
<1>5. DOMAIN u = DOMAIN t /\ u.job = t.job /\ u.stage = "announcing" /\ u.left = audience
    BY <1>2, <1>4, TaskGoesOn
<1>6. FeedNumbered' /\ \A v : (InFeed(v) <=> InFeed(v)') /\ Cursor(v)' = Cursor(v)
    BY <1>1, SameFeed DEF RootInv
<1>7. \A w \in tasks' : TaskShape(w)'
    BY <1>2, <1>3, <1>4, <1>5, <1>6 DEF RootInv, Shapes, TaskShape
<1>8. Shapes'
    BY <1>1, <1>6, <1>7 DEF RootInv, Shapes, TargetShape
<1>9. Posted'
    BY <1>1, <1>4, <1>5 DEF RootInv, Posted
<1>10. Watermarks'
    BY <1>1 DEF RootInv, Watermarks
<1>11. ~governed => \A d \in Authorized : t.job.did \in Serves[d] => d \in audience
    BY <1>3, WorkersAssumption DEF RootInv, Audience
<1>12. Audience'
    BY <1>1, <1>4, <1>5, <1>6, <1>11 DEF RootInv, Audience, Told
<1> QED
    BY <1>6, <1>8, <1>9, <1>10, <1>12 DEF RootInv

\* A watermark never falls, and it is raised to the row of the task's version.
LEMMA AnnouncePreserves ==
    ASSUME RootInv, NEW t, NEW d \in Discoveries, Announce(t, d)
    PROVE  RootInv'
<1>1. /\ UNCHANGED <<feed, jobs, accepting, late, cdn, auth, governed, stored>>
      /\ t \in tasks /\ t.stage = "announcing"
    BY DEF Announce
<1>2. TaskShape(t) /\ t.job \in stored
    BY <1>1 DEF RootInv, Shapes, Posted
<1>3. PICK u, c :
         /\ u = [t EXCEPT !.left = t.left \ {d}] /\ tasks' = (tasks \ {t}) \union {u}
         /\ c = Cursor(t.job)
    BY DEF Announce
<1>4. DOMAIN u = DOMAIN t /\ u.job = t.job /\ u.stage = "announcing" /\ u.left = t.left \ {d}
    BY <1>1, <1>2, <1>3 DEF TaskShape
<1>5. FeedNumbered' /\ \A v : (InFeed(v) <=> InFeed(v)') /\ Cursor(v)' = Cursor(v)
    BY <1>1, SameFeed DEF RootInv
<1>6. c \in DOMAIN feed /\ feed[c] = t.job /\ c \in Nat
  <2>1. c \in DOMAIN feed /\ feed[c] = t.job
      BY <1>2, <1>3, CursorIsRow DEF RootInv, TaskShape
  <2> QED
      BY <2>1 DEF RootInv, FeedNumbered
<1>7. PICK m : m = Max({targets[d].pending, c})
    OBVIOUS
<1>8. m \in {targets[d].pending, c} /\ m >= targets[d].pending /\ m >= c /\ m \in Nat
    BY <1>6, <1>7 DEF Max, RootInv, Shapes, TargetShape
<1>9. targets' = [targets EXCEPT ![d] = [targets[d] EXCEPT !.pending = m, !.status = "active"]]
    BY <1>3, <1>7 DEF Announce, Raised
<1>10. /\ DOMAIN targets' = Discoveries /\ TargetShape(targets'[d]) /\ targets'[d].pending = m
       /\ \A e \in Discoveries : e # d => targets'[e] = targets[e]
    BY <1>8, <1>9 DEF RootInv, Shapes, TargetShape
<1>11. \A w \in tasks' : TaskShape(w)'
    BY <1>2, <1>3, <1>4, <1>5 DEF RootInv, Shapes, TaskShape
<1>12. Shapes'
    BY <1>1, <1>5, <1>10, <1>11 DEF RootInv, Shapes, TargetShape
<1>13. Posted'
    BY <1>1, <1>2, <1>3, <1>4 DEF RootInv, Posted
<1>14. Watermarks'
    BY <1>1, <1>2, <1>6, <1>8, <1>10 DEF RootInv, Watermarks
<1>15. Told(t.job, d)'
    BY <1>3, <1>5, <1>8, <1>10 DEF Told
<1>16. \A v : \A e \in Discoveries : InFeed(v) /\ Told(v, e) => Told(v, e)'
  <2> SUFFICES ASSUME NEW v, NEW e \in Discoveries, InFeed(v), Told(v, e)
               PROVE  Told(v, e)'
      OBVIOUS
  <2>1. Cursor(v) \in Nat
      BY CursorIsRow DEF RootInv, FeedNumbered
  <2> QED
      BY <1>5, <1>8, <1>10, <2>1 DEF Told, RootInv, Shapes, TargetShape
<1>17. Audience'
    BY <1>1, <1>2, <1>3, <1>4, <1>15, <1>16, WorkersAssumption DEF RootInv, Audience, Shapes, TaskShape
<1> QED
    BY <1>5, <1>12, <1>13, <1>14, <1>17 DEF RootInv

LEMMA MarkPublishedPreserves ==
    ASSUME RootInv, NEW t, MarkPublished(t)
    PROVE  RootInv'
<1>1. /\ UNCHANGED <<feed, accepting, late, cdn, auth, targets, governed, stored>>
      /\ t \in tasks /\ t.stage = "announcing" /\ t.left = {} /\ tasks' = tasks \ {t}
      /\ jobs' = [jobs EXCEPT ![t.job] = "succeeded"]
    BY DEF MarkPublished, Acknowledges, Succeeded
<1>2. TaskShape(t) /\ t.job \in stored
    BY <1>1 DEF RootInv, Shapes, Posted
<1>3. FeedNumbered' /\ \A v : (InFeed(v) <=> InFeed(v)') /\ Cursor(v)' = Cursor(v)
    BY <1>1, SameFeed DEF RootInv
<1>4. /\ jobs' \in [Version -> JobStatuses]
      /\ \A v \in Version : jobs'[v] = jobs[v] \/ v = t.job
    BY <1>1, <1>2 DEF RootInv, Shapes, JobStatuses, TaskShape
<1>5. \A w \in tasks' : TaskShape(w)'
    BY <1>1, <1>3 DEF RootInv, Shapes, TaskShape
<1>6. Shapes'
    BY <1>1, <1>2, <1>3, <1>4, <1>5 DEF RootInv, Shapes, TargetShape, TaskShape
<1>7. Posted'
    BY <1>1, <1>2, <1>4 DEF RootInv, Posted
<1>8. Watermarks'
    BY <1>1 DEF RootInv, Watermarks
<1>9. ~governed => \A d \in Authorized : t.job.did \in Serves[d] => Told(t.job, d)
    BY <1>1 DEF RootInv, Audience
<1>10. Audience'
    BY <1>1, <1>3, <1>4, <1>9 DEF RootInv, Audience, Told
<1> QED
    BY <1>3, <1>6, <1>7, <1>8, <1>10 DEF RootInv

\* The jobs a worker leases exist, and are not done.
LEMMA LeasePreserves ==
    ASSUME RootInv, NEW w, NEW versions \in Claims(jobs, CdnBatch),
           StartCycle(w, versions) \/ CycleWithoutCdn(w, versions)
    PROVE  RootInv'
<1>1. versions \subseteq Version /\ \A v \in versions : IsDue(jobs[v])
    BY DEF Claims, DueJobs, RootInv, Shapes
<1>2. \A v \in versions : InFeed(v)
    BY <1>1 DEF IsDue, RootInv, Shapes
<1>3. /\ UNCHANGED <<feed, accepting, late, cdn, auth, targets, governed, stored>>
      /\ jobs' = Leased(jobs, versions)
    BY DEF StartCycle, CycleWithoutCdn
<1>4. /\ jobs' \in [Version -> JobStatuses]
      /\ \A v \in Version : jobs'[v] = IF v \in versions THEN "leased" ELSE jobs[v]
    BY <1>3 DEF Leased, RootInv, Shapes, JobStatuses
<1>5. \A v \in versions : TaskShape(PostOf(w, v)) /\ PostOf(w, v).stage = "posting"
    BY <1>1, <1>2 DEF TaskShape, PostOf
<1>6. \A t \in tasks' : t \in tasks \/ (TaskShape(t) /\ t.stage = "posting")
    BY <1>5 DEF StartCycle, CycleWithoutCdn
<1>7. /\ \A v \in Version : jobs'[v] # "none" => InFeed(v)
      /\ \A v \in Version : jobs'[v] = "succeeded" => jobs[v] = "succeeded"
    BY <1>2, <1>4 DEF RootInv, Shapes
<1> QED
    BY <1>3, <1>4, <1>6, <1>7, JobsPreserve DEF RootInv, Shapes

\* Steps that set one job aside: enqueued anew, put off, lapsed.
LEMMA OneJobPreserves ==
    ASSUME RootInv, NEW version \in Version, InFeed(version),
           UNCHANGED <<feed, cdn, auth, targets, governed, stored>>,
           accepting' \subseteq accepting, late' \subseteq late \union {version}, tasks' \subseteq tasks,
           NEW status \in JobStatuses \ {"succeeded"}, jobs' = [jobs EXCEPT ![version] = status]
    PROVE  RootInv'
<1>1. /\ jobs' \in [Version -> JobStatuses]
      /\ \A v \in Version : jobs'[v] = IF v = version THEN status ELSE jobs[v]
    BY DEF RootInv, Shapes
<1>2. late' \subseteq Version
    BY DEF RootInv, Shapes
<1>3. \A v \in Version : jobs'[v] # "none" => InFeed(v)
    BY <1>1 DEF RootInv, Shapes
<1>4. \A v \in Version : jobs'[v] = "succeeded" => jobs[v] = "succeeded"
    BY <1>1
<1> QED
    BY <1>1, <1>2, <1>3, <1>4, JobsPreserve

LEMMA RootStepPreserves ==
    ASSUME RootInv, RootStep
    PROVE  RootInv'
<1>1. ASSUME NEW v \in Version, EnqueueAccepted(v) PROVE RootInv'
    BY <1>1, OneJobPreserves DEF EnqueueAccepted, Enqueued, JobStatuses, RootInv, Shapes
<1>2. ASSUME NEW v \in Version, LapseJob(v) PROVE RootInv'
  <2>1. InFeed(v)
      BY <1>2 DEF LapseJob, RootInv, Shapes
  <2> QED
      BY <1>2, <2>1, OneJobPreserves DEF LapseJob, Lapsed, JobStatuses
<1>3. ASSUME NEW t \in tasks, PostFails(t) PROVE RootInv'
  <2>1. t.job \in Version /\ InFeed(t.job)
      BY DEF RootInv, Shapes, TaskShape
  <2> QED
      BY <1>3, <2>1, OneJobPreserves DEF PostFails, PutOff, JobStatuses
<1>4. ASSUME UNCHANGED <<feed, jobs, cdn, auth, targets, governed, stored>>,
             accepting' \subseteq accepting, late' \subseteq Version, tasks' \subseteq tasks
      PROVE  RootInv'
    BY <1>4, JobsPreserve DEF RootInv, Shapes
<1>5. ASSUME NEW v \in Version, FailEnqueue(v) PROVE RootInv'
    BY <1>4, <1>5 DEF FailEnqueue, RootInv, Shapes
<1>6. ASSUME NEW t \in tasks, TaskFails(t) PROVE RootInv'
    BY <1>4, <1>6 DEF TaskFails, RootInv, Shapes
<1>7. CASE Restart
  <2>1. \A t \in tasks : t.job \in Version
      BY DEF RootInv, Shapes, TaskShape
  <2> QED
      BY <1>4, <1>7, <2>1 DEF Restart, RootInv, Shapes
<1>8. ASSUME UNCHANGED <<feed, jobs, accepting, tasks, late, cdn, auth, governed, stored>>,
             DOMAIN targets' = Discoveries,
             \A d \in Discoveries : DOMAIN targets'[d] = DOMAIN targets[d]
                                     /\ targets'[d].pending = targets[d].pending
      PROVE  RootInv'
    BY <1>8, TargetsPreserve DEF RootInv, Shapes, TargetShape
<1>9. \A d \in Discoveries : DOMAIN targets[d] = {"pending", "delivered", "status", "lease"}
    BY DEF RootInv, Shapes, TargetShape
<1>10. DOMAIN targets = Discoveries
    BY DEF RootInv, Shapes
<1>11. ASSUME NEW n \in Notifiers, NEW ds \in SUBSET Discoveries, StartNotify(n, ds) PROVE RootInv'
    BY <1>8, <1>9, <1>10, <1>11 DEF StartNotify
<1>12. ASSUME NEW n \in Notifiers, MarkNotified(n) PROVE RootInv'
    BY <1>8, <1>9, <1>10, <1>12 DEF MarkNotified, Delivered
<1>13. ASSUME NEW n \in Notifiers, MarkTargetRetry(n) PROVE RootInv'
    BY <1>8, <1>9, <1>10, <1>13 DEF MarkTargetRetry
<1>14. ASSUME NEW d \in Discoveries, LapseTarget(d) PROVE RootInv'
    BY <1>8, <1>9, <1>10, <1>14 DEF LapseTarget
<1>15. ASSUME NEW d \in Discoveries, SyncTarget(d) PROVE RootInv'
    BY <1>8, <1>9, <1>10, <1>15 DEF SyncTarget
<1>16. ASSUME NEW n \in Notifiers, NEW l, Call(n, l) PROVE RootInv'
    BY <1>8, <1>10, <1>16 DEF Call
<1>17. ASSUME NEW d \in Discoveries, NEW status, Govern(d, status) PROVE RootInv'
    BY <1>17, TargetsPreserve DEF Govern, RootInv, Shapes
<1> QED
    BY <1>1, <1>2, <1>3, <1>5, <1>6, <1>7, <1>11, <1>12, <1>13, <1>14, <1>15, <1>16, <1>17,
       CommitPreserves, CdnStoresPreserves, CdnStoresLatePreserves, ReadAudiencePreserves,
       AnnouncePreserves, MarkPublishedPreserves, LeasePreserves
    DEF RootStep

\* Steps that are not Root's leave it as it is.
LEMMA RootStays ==
    ASSUME RootInv,
           UNCHANGED <<feed, jobs, accepting, tasks, late, cdn, auth, targets, governed, stored>>
    PROVE  RootInv'
    BY JobsPreserve DEF RootInv, Shapes

-----------------------------------------------------------------------------
(* The Discovery nodes.                                                    *)

\* Of the rows up to n that lie in the node's domains the Agent is indexed.
Covered(d, n) ==
    \A c \in 1..n : feed[c].did \in Serves[d] => index[d][feed[c].did].version > 0

\* A page is a run of rows.
PageOfFeed(page) ==
    /\ page \in Seq(Nat)
    /\ \A i \in 1..Len(page) : page[i] \in DOMAIN feed
    /\ \A i \in 1..Len(page) : i + 1 \in 1..Len(page) => page[i + 1] = page[i] + 1

SyncShape(s) ==
    /\ DOMAIN s = {"at", "after", "page", "reached", "held", "limit"}
    /\ s.at \in {"idle", "feed", "entry", "held"}
    /\ s.limit \in Nat
    /\ s.after \in 0..Len(feed) /\ s.reached \in 0..Len(feed)
    /\ PageOfFeed(s.page)

\* What a sync has behind it is covered: the rows up to where it started, up to
\* where it would move the cursor, and up to the next entry of its page.
SyncSound(d, s) ==
    /\ SyncShape(s)
    /\ Covered(d, s.after) /\ Covered(d, s.reached)
    /\ s.page # <<>> => Covered(d, s.page[1] - 1)
    /\ s.at = "held" =>
         /\ s.page # <<>>
         /\ feed[s.page[1]].did \in Serves[d]
         /\ s.held \in Nat /\ s.held > 0
         /\ [did |-> feed[s.page[1]].did, version |-> s.held] \in stored

DiscoveryInv ==
    /\ cursor \in [Discoveries -> 0..Len(feed)]
    /\ index \in [Discoveries -> [Agents -> [version : Nat, cursor : Nat]]]
    /\ DOMAIN syncs = Discoveries
    /\ \A d \in Discoveries : DOMAIN syncs[d] = Callers
    /\ \A d \in Discoveries, c \in Callers : \A s : s = syncs[d][c] => SyncSound(d, s)
    /\ \A d \in Discoveries : \A n : n = cursor[d] => Covered(d, n)
    /\ IndexedIsStored

LEMMA DiscoveryInvInit == Init => DiscoveryInv
<1> SUFFICES ASSUME Init PROVE DiscoveryInv
    OBVIOUS
<1>1. feed = <<>>
    BY DEF Init, RootInit
<1>2. \A d : Covered(d, 0)
    BY DEF Covered
<1>3. SyncShape(Asleep) /\ Asleep.after = 0 /\ Asleep.reached = 0 /\ Asleep.page = <<>> /\ Asleep.at = "idle"
    BY <1>1 DEF SyncShape, Asleep, PageOfFeed
<1>4. \A d : SyncSound(d, Asleep)
    BY <1>2, <1>3 DEF SyncSound
<1> QED
    BY <1>1, <1>2, <1>4 DEF Init, DiscoveryInv, IndexedIsStored, NotIndexed

\* What the Discovery nodes rely on only grows.
LEMMA CoveredStays ==
    ASSUME feed \in Seq(Version),
           \A c \in DOMAIN feed : c \in DOMAIN feed' /\ feed'[c] = feed[c],
           NEW d, \A a \in Agents : index[d][a].version > 0 => index'[d][a].version > 0,
           NEW n \in 0..Len(feed), Covered(d, n)
    PROVE  Covered(d, n)'
<1> SUFFICES ASSUME NEW c \in 1..n, feed'[c].did \in Serves[d]
             PROVE  index'[d][feed'[c].did].version > 0
    BY DEF Covered
<1>1. c \in DOMAIN feed /\ feed'[c] = feed[c]
    OBVIOUS
<1>2. feed[c].did \in Agents
    BY <1>1, VersionParts
<1> QED
    BY <1>1, <1>2 DEF Covered

LEMMA SyncStays ==
    ASSUME feed \in Seq(Version), feed' \in Seq(Version), stored \subseteq stored',
           \A c \in DOMAIN feed : c \in DOMAIN feed' /\ feed'[c] = feed[c],
           NEW d, \A a \in Agents : index[d][a].version > 0 => index'[d][a].version > 0,
           NEW s, SyncSound(d, s)
    PROVE  SyncSound(d, s)'
<1>1. Len(feed) <= Len(feed')
  <2>1. CASE Len(feed) = 0
      BY <2>1
  <2>2. CASE Len(feed) # 0
    <3>1. Len(feed) \in DOMAIN feed
        BY <2>2
    <3>2. Len(feed) \in DOMAIN feed'
        BY <3>1
    <3> QED
        BY <3>2
  <2> QED
      BY <2>1, <2>2
<1>2. PageOfFeed(s.page)'
    BY DEF SyncSound, SyncShape, PageOfFeed
<1>3. SyncShape(s)'
    BY <1>1, <1>2 DEF SyncSound, SyncShape
<1>4. Covered(d, s.after)' /\ Covered(d, s.reached)'
    BY CoveredStays DEF SyncSound, SyncShape
<1>5. s.page # <<>> => s.page[1] \in DOMAIN feed
    BY DEF SyncSound, SyncShape, PageOfFeed
<1>6. s.page # <<>> => Covered(d, s.page[1] - 1)'
  <2> SUFFICES ASSUME s.page # <<>> PROVE Covered(d, s.page[1] - 1)'
      OBVIOUS
  <2>1. s.page[1] - 1 \in 0..Len(feed)
      BY <1>5
  <2> QED
      BY <2>1, CoveredStays DEF SyncSound
<1> QED
    BY <1>3, <1>4, <1>5, <1>6 DEF SyncSound

\* Steps that move syncs, the cursor and the index of one node.
LEMMA SyncMoves ==
    ASSUME DiscoveryInv, feed \in Seq(Version), UNCHANGED <<feed, stored>>,
           NEW d, NEW c, NEW s, syncs' = [syncs EXCEPT ![d][c] = s],
           d \in Discoveries => SyncSound(d, s)',
           cursor' \in [Discoveries -> 0..Len(feed)],
           index' \in [Discoveries -> [Agents -> [version : Nat, cursor : Nat]]],
           \A e \in Discoveries, a \in Agents : index[e][a].version > 0 => index'[e][a].version > 0,
           \A e \in Discoveries : \A n : n = cursor'[e] => n = cursor[e] \/ Covered(e, n)',
           IndexedIsStored'
    PROVE  DiscoveryInv'
<1>1. /\ DOMAIN syncs' = Discoveries
      /\ \A e \in Discoveries : DOMAIN syncs'[e] = Callers
      /\ \A e \in Discoveries, b \in Callers : syncs'[e][b] = syncs[e][b] \/ (e = d /\ syncs'[e][b] = s)
    BY DEF DiscoveryInv
<1>2. \A e \in Discoveries : \A r : SyncSound(e, r) => SyncSound(e, r)'
    BY SyncStays
<1>3. ASSUME NEW e \in Discoveries, NEW b \in Callers, NEW r, r = syncs'[e][b]
      PROVE  SyncSound(e, r)'
    BY <1>1, <1>2, <1>3 DEF DiscoveryInv
<1>4. ASSUME NEW e \in Discoveries, NEW n, n = cursor'[e]
      PROVE  Covered(e, n)'
  <2>1. CASE n = cursor[e]
    <3>1. Covered(e, n) /\ n \in 0..Len(feed)
        BY <2>1 DEF DiscoveryInv
    <3> QED
        BY <3>1, CoveredStays
  <2> QED
      BY <1>4, <2>1
<1> QED
    BY <1>1, <1>3, <1>4 DEF DiscoveryInv

\* Steps of Root.
LEMMA RootStepKeeps ==
    ASSUME RootInv, RootStep
    PROVE  /\ feed \in Seq(Version) /\ feed' \in Seq(Version) /\ stored \subseteq stored'
           /\ \A c \in DOMAIN feed : c \in DOMAIN feed' /\ feed'[c] = feed[c]
<1>1. feed \in Seq(Version) /\ feed' \in Seq(Version)
    BY RootStepPreserves DEF RootInv, FeedNumbered
<1>2. stored \subseteq stored'
    BY DEF RootStep, Commit, EnqueueAccepted, FailEnqueue, LapseJob, CdnStoresLate, StartCycle,
           CycleWithoutCdn, CdnStores, Stores, PostFails, ReadAudience, MarkPublished, TaskFails, Announce,
           StartNotify, Call, MarkNotified, MarkTargetRetry, LapseTarget, SyncTarget, Govern, Restart
<1>3. UNCHANGED feed \/ \E v \in Version : feed' = Append(feed, v)
    BY DEF RootStep, Commit, EnqueueAccepted, FailEnqueue, LapseJob, CdnStoresLate, StartCycle,
           CycleWithoutCdn, CdnStores, Stores, PostFails, ReadAudience, MarkPublished, TaskFails, Announce,
           StartNotify, Call, MarkNotified, MarkTargetRetry, LapseTarget, SyncTarget, Govern, Restart
<1>4. \A c \in DOMAIN feed : c \in DOMAIN feed' /\ feed'[c] = feed[c]
    BY <1>1, <1>3, LatestGrows
<1> QED
    BY <1>1, <1>2, <1>4

LEMMA RootStepKeepsDiscovery ==
    ASSUME RootInv, DiscoveryInv, RootStep, UNCHANGED discoveryVars
    PROVE  DiscoveryInv'
<1>1. /\ feed \in Seq(Version) /\ feed' \in Seq(Version) /\ stored \subseteq stored'
      /\ \A c \in DOMAIN feed : c \in DOMAIN feed' /\ feed'[c] = feed[c]
    BY RootStepKeeps
<1>2. UNCHANGED <<cursor, index, syncs>>
    BY DEF discoveryVars
<1>3. \A d \in Discoveries : \A r : SyncSound(d, r) => SyncSound(d, r)'
    BY <1>1, <1>2, SyncStays
<1>4. 0..Len(feed) \subseteq 0..Len(feed')
  <2>1. CASE Len(feed) = 0
      BY <1>1, <2>1
  <2>2. CASE Len(feed) # 0
    <3>1. Len(feed) \in DOMAIN feed
        BY <1>1, <2>2
    <3>2. Len(feed) \in DOMAIN feed'
        BY <1>1, <3>1
    <3> QED
        BY <1>1, <3>2
  <2> QED
      BY <2>1, <2>2
<1>5. \A d \in Discoveries : \A n : n = cursor[d] => Covered(d, n)'
    BY <1>1, <1>2, CoveredStays DEF DiscoveryInv
<1>6. IndexedIsStored'
    BY <1>1, <1>2 DEF DiscoveryInv, IndexedIsStored
<1> QED
    BY <1>2, <1>3, <1>4, <1>5, <1>6 DEF DiscoveryInv

----------------------------------------------------------------------------
(* The steps of a Discovery node *)

\* A sync that changes nothing but its own state.
LEMMA OnlySyncMoves ==
    ASSUME DiscoveryInv, feed \in Seq(Version), UNCHANGED <<feed, stored, cursor, index>>,
           NEW d, NEW c, NEW s, syncs' = [syncs EXCEPT ![d][c] = s],
           d \in Discoveries => SyncSound(d, s)
    PROVE  DiscoveryInv'
<1>1. d \in Discoveries => SyncSound(d, s)'
    BY SyncStays
<1>2. IndexedIsStored'
    BY DEF DiscoveryInv, IndexedIsStored
<1> QED
    BY <1>1, <1>2, SyncMoves DEF DiscoveryInv

LEMMA AsleepIsSound ==
    ASSUME feed \in Seq(Version), NEW d
    PROVE  SyncSound(d, Asleep)
<1>1. /\ DOMAIN Asleep = {"at", "after", "page", "reached", "held", "limit"}
      /\ Asleep.at = "idle" /\ Asleep.limit = 0 /\ Asleep.after = 0 /\ Asleep.reached = 0
      /\ Asleep.page = <<>>
    BY DEF Asleep
<1>2. PageOfFeed(Asleep.page)
    BY <1>1 DEF PageOfFeed
<1>3. Covered(d, 0)
    BY DEF Covered
<1> QED
    BY <1>1, <1>2, <1>3 DEF SyncSound, SyncShape

LEMMA BeginPreserves ==
    ASSUME RootInv, DiscoveryInv, UNCHANGED <<feed, stored>>, NEW d, NEW c \in Callers,
           NEW limit \in Nat, NEW hinted, NEW hint, Begin(d, c, limit, hinted, hint)
    PROVE  DiscoveryInv'
<1>1. feed \in Seq(Version) /\ UNCHANGED <<cursor, index>>
    BY DEF RootInv, FeedNumbered, Begin
<1>2. CASE UNCHANGED syncs
  <2>1. /\ \A e \in Discoveries : \A r : SyncSound(e, r) => SyncSound(e, r)'
        /\ \A e \in Discoveries : \A n : n = cursor[e] => Covered(e, n)'
      BY <1>1, SyncStays, CoveredStays DEF DiscoveryInv
  <2> QED
      BY <1>1, <1>2, <2>1 DEF DiscoveryInv, IndexedIsStored
<1>3. CASE ~UNCHANGED syncs
  <2>1. PICK s :
           /\ s = [Asleep EXCEPT !.at = "feed", !.after = cursor[d], !.reached = cursor[d], !.limit = limit]
           /\ syncs' = [syncs EXCEPT ![d][c] = s]
      BY <1>3 DEF Begin, Becomes
  <2>2. /\ DOMAIN s = {"at", "after", "page", "reached", "held", "limit"}
        /\ s.at = "feed" /\ s.limit = limit /\ s.after = cursor[d] /\ s.reached = cursor[d]
        /\ s.page = <<>>
      BY <2>1 DEF Asleep
  <2>3. PageOfFeed(s.page)
      BY <2>2 DEF PageOfFeed
  <2>4. d \in Discoveries => SyncSound(d, s)
      BY <2>2, <2>3 DEF SyncSound, SyncShape, DiscoveryInv
  <2> QED
      BY <1>1, <2>1, <2>4, OnlySyncMoves
<1> QED
    BY <1>2, <1>3

\* The next page begins right after the rows that are covered.
LEMMA FetchFeedPreserves ==
    ASSUME RootInv, DiscoveryInv, NEW d \in Discoveries, NEW c \in Callers, FetchFeed(d, c)
    PROVE  DiscoveryInv'
<1>1. feed \in Seq(Version) /\ UNCHANGED <<feed, stored, cursor, index>>
    BY DEF RootInv, FeedNumbered, FetchFeed, RootIdle
<1>2. PICK r, page, s :
         /\ r = syncs[d][c] /\ page = Publications(r.after, r.limit)
         /\ s = [r EXCEPT !.at = "entry", !.page = page]
         /\ syncs' = [syncs EXCEPT ![d][c] = s]
    BY DEF FetchFeed, Becomes
<1>3. SyncSound(d, r) /\ r.at = "feed"
    BY <1>2 DEF DiscoveryInv, FetchFeed
<1>4. r.after \in 0..Len(feed) /\ r.limit \in Nat
    BY <1>3 DEF SyncSound, SyncShape
<1>5. PICK m : m = Min({r.limit, Len(feed) - r.after})
    OBVIOUS
<1>6. m \in Nat /\ m <= Len(feed) - r.after
  <2>1. \E x \in {r.limit, Len(feed) - r.after} : \A y \in {r.limit, Len(feed) - r.after} : x =< y
      BY <1>1, <1>4
  <2>2. m \in {r.limit, Len(feed) - r.after} /\ \A y \in {r.limit, Len(feed) - r.after} : m =< y
      BY <1>5, <2>1 DEF Min
  <2> QED
      BY <1>1, <1>4, <2>2
<1>7. page = [i \in 1..m |-> r.after + i]
    BY <1>2, <1>5 DEF Publications
<1>8. page \in Seq(Nat) /\ Len(page) = m /\ \A i \in 1..m : page[i] = r.after + i
    BY <1>4, <1>6, <1>7
<1>9. PageOfFeed(page)
    BY <1>1, <1>4, <1>6, <1>8 DEF PageOfFeed
<1>10. page # <<>> => page[1] - 1 = r.after
    BY <1>4, <1>6, <1>8
<1>11. /\ DOMAIN s = DOMAIN r /\ s.at = "entry" /\ s.page = page
       /\ s.after = r.after /\ s.reached = r.reached /\ s.limit = r.limit
    BY <1>2, <1>3 DEF SyncSound, SyncShape
<1>12. SyncSound(d, s)
    BY <1>3, <1>9, <1>10, <1>11 DEF SyncSound, SyncShape
<1> QED
    BY <1>1, <1>2, <1>12, OnlySyncMoves

LEMMA TailOfPage ==
    ASSUME NEW page, PageOfFeed(page), page # <<>>
    PROVE  /\ PageOfFeed(Tail(page)) /\ page[1] \in DOMAIN feed /\ page[1] \in Nat
           /\ Tail(page) # <<>> => Tail(page)[1] = page[1] + 1
           /\ Head(page) = page[1]
<1>1. page \in Seq(Nat) /\ Len(page) \in Nat \ {0}
    BY DEF PageOfFeed
<1>2. /\ Tail(page) \in Seq(Nat) /\ Len(Tail(page)) = Len(page) - 1
      /\ \A i \in 1..Len(Tail(page)) : Tail(page)[i] = page[i + 1]
    BY <1>1
<1>3. page[1] \in DOMAIN feed /\ page[1] \in Nat /\ Head(page) = page[1]
    BY <1>1 DEF PageOfFeed
<1>4. Tail(page) # <<>> => Tail(page)[1] = page[1] + 1
  <2> SUFFICES ASSUME Tail(page) # <<>> PROVE Tail(page)[1] = page[1] + 1
      OBVIOUS
  <2>1. Len(page) >= 2
      BY <1>1, <1>2
  <2> QED
      BY <1>1, <1>2, <2>1 DEF PageOfFeed
<1>5. PageOfFeed(Tail(page))
    BY <1>1, <1>2 DEF PageOfFeed
<1> QED
    BY <1>3, <1>4, <1>5

\* An entry is passed over only if the node does not serve its Agent.
LEMMA FetchPackagePreserves ==
    ASSUME RootInv, DiscoveryInv, NEW d \in Discoveries, NEW c \in Callers, FetchPackage(d, c)
    PROVE  DiscoveryInv'
<1>1. feed \in Seq(Version) /\ UNCHANGED <<feed, stored, cursor, index>>
    BY DEF RootInv, FeedNumbered, FetchPackage, RootIdle
<1>2. PICK r, agent :
         /\ r = syncs[d][c] /\ agent = feed[Head(r.page)].did
         /\ r.at = "entry" /\ r.page # <<>>
         /\ syncs' = [syncs EXCEPT ![d][c] =
               IF cdn[agent] = 0 THEN MissingEnds(r)
               ELSE IF ~Indexable(d, agent) THEN [r EXCEPT !.page = Tail(@)]
               ELSE [r EXCEPT !.at = "held", !.held = cdn[agent]]]
    BY DEF FetchPackage, Becomes, Entry
<1>3. SyncSound(d, r) /\ SyncShape(r) /\ PageOfFeed(r.page)
    BY <1>2 DEF DiscoveryInv, SyncSound, SyncShape
<1>4. /\ PageOfFeed(Tail(r.page)) /\ r.page[1] \in DOMAIN feed /\ r.page[1] \in Nat
      /\ Tail(r.page) # <<>> => Tail(r.page)[1] = r.page[1] + 1
      /\ Head(r.page) = r.page[1]
    BY <1>2, <1>3, TailOfPage
<1>5. CASE cdn[agent] = 0
  <2>1. PICK s : s = [r EXCEPT !.page = <<>>] /\ syncs' = [syncs EXCEPT ![d][c] = s]
      BY <1>2, <1>5 DEF MissingEnds
  <2>2. /\ DOMAIN s = DOMAIN r /\ s.at = r.at /\ s.page = <<>>
        /\ s.after = r.after /\ s.reached = r.reached /\ s.limit = r.limit
      BY <1>3, <2>1 DEF SyncShape
  <2>3. PageOfFeed(<<>>)
      BY DEF PageOfFeed
  <2>4. SyncSound(d, s)
      BY <1>2, <1>3, <2>2, <2>3 DEF SyncSound, SyncShape
  <2> QED
      BY <1>1, <2>1, <2>4, OnlySyncMoves
<1>6. CASE cdn[agent] # 0 /\ ~Indexable(d, agent)
  <2>1. PICK s : s = [r EXCEPT !.page = Tail(r.page)] /\ syncs' = [syncs EXCEPT ![d][c] = s]
      BY <1>2, <1>6
  <2>2. /\ DOMAIN s = DOMAIN r /\ s.at = r.at /\ s.page = Tail(r.page)
        /\ s.after = r.after /\ s.reached = r.reached /\ s.limit = r.limit
      BY <1>3, <2>1 DEF SyncShape
  <2>3. Covered(d, r.page[1])
      BY <1>2, <1>3, <1>4, <1>6 DEF SyncSound, Covered, Indexable
  <2>4. s.page # <<>> => Covered(d, s.page[1] - 1)
      BY <1>4, <2>2, <2>3
  <2>5. SyncSound(d, s)
      BY <1>2, <1>3, <1>4, <2>2, <2>4 DEF SyncSound, SyncShape
  <2> QED
      BY <1>1, <2>1, <2>5, OnlySyncMoves
<1>7. CASE cdn[agent] # 0 /\ Indexable(d, agent)
  <2>1. PICK s : s = [r EXCEPT !.at = "held", !.held = cdn[agent]] /\ syncs' = [syncs EXCEPT ![d][c] = s]
      BY <1>2, <1>7
  <2>2. /\ DOMAIN s = DOMAIN r /\ s.at = "held" /\ s.held = cdn[agent] /\ s.page = r.page
        /\ s.after = r.after /\ s.reached = r.reached /\ s.limit = r.limit
      BY <1>3, <2>1 DEF SyncShape
  <2>3. agent \in Agents
      BY <1>1, <1>2, <1>4, VersionParts
  <2>4. cdn[agent] \in Nat /\ cdn[agent] > 0 /\ [did |-> agent, version |-> cdn[agent]] \in stored
      BY <1>7, <2>3 DEF RootInv, Shapes, Posted
  <2>5. SyncSound(d, s)
      BY <1>2, <1>3, <1>4, <1>7, <2>2, <2>4 DEF SyncSound, SyncShape, Indexable
  <2> QED
      BY <1>1, <2>1, <2>5, OnlySyncMoves
<1> QED
    BY <1>5, <1>6, <1>7

\* What is indexed covers one row more.
LEMMA IndexPackagePreserves ==
    ASSUME RootInv, DiscoveryInv, NEW d \in Discoveries, NEW c \in Callers, IndexPackage(d, c)
    PROVE  DiscoveryInv'
<1>1. feed \in Seq(Version) /\ UNCHANGED <<feed, stored, cursor>>
    BY DEF RootInv, FeedNumbered, IndexPackage, RootIdle
<1>2. PICK r, row, agent, s :
         /\ r = syncs[d][c] /\ row = Head(r.page) /\ agent = feed[row].did /\ r.at = "held"
         /\ index' = [index EXCEPT ![d][agent] = [version |-> r.held, cursor |-> row]]
         /\ s = [r EXCEPT !.at = "entry", !.page = Tail(@), !.reached = row, !.held = 0]
         /\ syncs' = [syncs EXCEPT ![d][c] = s]
    BY DEF IndexPackage, Becomes, Entry
<1>3. SyncSound(d, r) /\ SyncShape(r) /\ PageOfFeed(r.page) /\ r.page # <<>>
    BY <1>2 DEF DiscoveryInv, SyncSound, SyncShape
<1>4. /\ PageOfFeed(Tail(r.page)) /\ row \in DOMAIN feed /\ row \in Nat /\ row = r.page[1]
      /\ Tail(r.page) # <<>> => Tail(r.page)[1] = row + 1
    BY <1>2, <1>3, TailOfPage
<1>5. agent \in Agents
    BY <1>1, <1>2, <1>4, VersionParts
<1>6. /\ r.held \in Nat /\ r.held > 0 /\ agent \in Serves[d]
      /\ [did |-> agent, version |-> r.held] \in stored
    BY <1>2, <1>3, <1>4 DEF SyncSound
<1>7. /\ index' \in [Discoveries -> [Agents -> [version : Nat, cursor : Nat]]]
      /\ index'[d][agent].version = r.held
      /\ \A e \in Discoveries, a \in Agents : index'[e][a] = index[e][a] \/ (e = d /\ a = agent)
    BY <1>2, <1>4, <1>5, <1>6 DEF DiscoveryInv
<1>8. \A e \in Discoveries, a \in Agents : index[e][a].version > 0 => index'[e][a].version > 0
    BY <1>6, <1>7
<1>9. IndexedIsStored'
  <2>1. ASSUME NEW e \in Discoveries, NEW a \in Agents, index'[e][a].version > 0
        PROVE  a \in Serves[e] /\ [did |-> a, version |-> index'[e][a].version] \in stored
    <3>1. CASE e = d /\ a = agent
        BY <1>6, <1>7, <3>1
    <3>2. CASE index'[e][a] = index[e][a]
        BY <2>1, <3>2 DEF DiscoveryInv, IndexedIsStored
    <3> QED
        BY <1>7, <3>1, <3>2
  <2> QED
      BY <1>1, <2>1 DEF IndexedIsStored
<1>10. /\ DOMAIN s = DOMAIN r /\ s.at = "entry" /\ s.page = Tail(r.page)
       /\ s.after = r.after /\ s.reached = row /\ s.limit = r.limit
    BY <1>2, <1>3 DEF SyncShape
<1>11. Covered(d, r.after)'
    BY <1>1, <1>3, <1>8, CoveredStays DEF SyncSound, SyncShape
<1>12. Covered(d, row)'
  <2>1. row - 1 \in 0..Len(feed) /\ row \in 1..Len(feed)
      BY <1>1, <1>4
  <2>2. Covered(d, row - 1)
      BY <1>3, <1>4 DEF SyncSound
  <2>3. ASSUME NEW k \in 1..row, feed'[k].did \in Serves[d]
        PROVE  index'[d][feed'[k].did].version > 0
    <3>1. CASE k = row
        BY <1>1, <1>2, <1>6, <1>7, <3>1
    <3>2. CASE k # row
      <4>1. k \in 1..(row - 1) /\ k \in DOMAIN feed
          BY <1>1, <2>1, <3>2
      <4>2. index[d][feed[k].did].version > 0
          BY <1>1, <2>2, <2>3, <4>1 DEF Covered
      <4>3. feed[k].did \in Agents
          BY <1>1, <4>1, VersionParts
      <4> QED
          BY <1>1, <1>8, <4>2, <4>3
    <3> QED
        BY <3>1, <3>2
  <2> QED
      BY <2>3 DEF Covered
<1>13. s.page # <<>> => s.page[1] - 1 = row
    BY <1>4, <1>10
<1>14. SyncShape(s)'
  <2>1. /\ DOMAIN s = {"at", "after", "page", "reached", "held", "limit"}
        /\ s.at = "entry" /\ s.limit \in Nat
        /\ s.after \in 0..Len(feed) /\ s.reached \in 0..Len(feed)
      BY <1>1, <1>3, <1>4, <1>10 DEF SyncShape
  <2>2. PageOfFeed(s.page)
      BY <1>4, <1>10
  <2>3. PageOfFeed(s.page)'
      BY <1>1, <2>2 DEF PageOfFeed
  <2> QED
      BY <1>1, <2>1, <2>3 DEF SyncShape
<1>15. s.page # <<>> => Covered(d, s.page[1] - 1)'
    BY <1>12, <1>13 DEF Covered
<1>16. SyncSound(d, s)'
    BY <1>10, <1>11, <1>12, <1>14, <1>15 DEF SyncSound, Covered
<1>17. cursor' \in [Discoveries -> 0..Len(feed)]
    BY <1>1 DEF DiscoveryInv
<1> QED
    BY <1>1, <1>2, <1>7, <1>8, <1>9, <1>16, <1>17, SyncMoves

\* The cursor moves to rows that are covered, or stays.
LEMMA FinishSyncPreserves ==
    ASSUME RootInv, DiscoveryInv, NEW d \in Discoveries, NEW c \in Callers, FinishSync(d, c)
    PROVE  DiscoveryInv'
<1>1. feed \in Seq(Version) /\ UNCHANGED <<feed, stored, index>>
    BY DEF RootInv, FeedNumbered, FinishSync, RootIdle
<1>2. PICK r, s :
         /\ r = syncs[d][c] /\ s = Asleep
         /\ cursor' = IF r.reached > r.after THEN [cursor EXCEPT ![d] = r.reached] ELSE cursor
         /\ syncs' = [syncs EXCEPT ![d][c] = s]
    BY DEF FinishSync, Ends, Becomes
<1>3. SyncSound(d, r)
    BY <1>2 DEF DiscoveryInv
<1>4. r.reached \in 0..Len(feed) /\ Covered(d, r.reached)
    BY <1>3 DEF SyncSound, SyncShape
<1>5. Covered(d, r.reached)'
    BY <1>1, <1>4, CoveredStays
<1>6. cursor' \in [Discoveries -> 0..Len(feed)]
    BY <1>2, <1>4 DEF DiscoveryInv
<1>7. \A e \in Discoveries : cursor'[e] = cursor[e] \/ (e = d /\ cursor'[e] = r.reached)
    BY <1>2 DEF DiscoveryInv
<1>8. ASSUME NEW e \in Discoveries, NEW n, n = cursor'[e]
      PROVE  n = cursor[e] \/ Covered(e, n)'
  <2>1. CASE n = cursor[e]
      BY <2>1
  <2>2. CASE e = d /\ n = r.reached
      BY <1>5, <2>2 DEF Covered
  <2> QED
      BY <1>7, <1>8, <2>1, <2>2
<1>9. SyncSound(d, s)
    BY <1>1, <1>2, AsleepIsSound
<1>10. SyncSound(d, s)'
    BY <1>1, <1>9, SyncStays
<1>11. IndexedIsStored'
    BY <1>1 DEF DiscoveryInv, IndexedIsStored
<1>12. index' \in [Discoveries -> [Agents -> [version : Nat, cursor : Nat]]]
    BY <1>1 DEF DiscoveryInv
<1> QED
    BY <1>1, <1>2, <1>6, <1>8, <1>10, <1>11, <1>12, SyncMoves

LEMMA FailSyncPreserves ==
    ASSUME RootInv, DiscoveryInv, NEW d \in Discoveries, NEW c \in Callers, FailSync(d, c)
    PROVE  DiscoveryInv'
<1>1. feed \in Seq(Version) /\ UNCHANGED <<feed, stored, cursor, index>>
    BY DEF RootInv, FeedNumbered, FailSync, RootIdle
<1>2. PICK s : s = Asleep /\ syncs' = [syncs EXCEPT ![d][c] = s]
    BY DEF FailSync, Ends, Becomes
<1>3. SyncSound(d, s)
    BY <1>1, <1>2, AsleepIsSound
<1> QED
    BY <1>1, <1>2, <1>3, OnlySyncMoves

LEMMA RestartDiscoveryPreserves ==
    ASSUME RootInv, DiscoveryInv, NEW d \in Discoveries, RestartDiscovery(d)
    PROVE  DiscoveryInv'
<1>1. feed \in Seq(Version) /\ UNCHANGED <<feed, stored, cursor, index>>
    BY DEF RootInv, FeedNumbered, RestartDiscovery, RootIdle
<1>2. PICK z : z = Asleep
    OBVIOUS
<1>3. syncs' = [syncs EXCEPT ![d] = [c \in Callers |-> z]]
    BY <1>2 DEF RestartDiscovery
<1>4. /\ DOMAIN syncs' = Discoveries /\ \A e \in Discoveries : DOMAIN syncs'[e] = Callers
      /\ \A e \in Discoveries, c \in Callers : syncs'[e][c] = syncs[e][c] \/ syncs'[e][c] = z
    BY <1>3 DEF DiscoveryInv
<1>5. \A e \in Discoveries : SyncSound(e, z)
    BY <1>1, <1>2, AsleepIsSound
<1>6. \A e \in Discoveries : \A r : SyncSound(e, r) => SyncSound(e, r)'
    BY <1>1, SyncStays
<1>7. ASSUME NEW e \in Discoveries, NEW c \in Callers, NEW r, r = syncs'[e][c]
      PROVE  SyncSound(e, r)'
    BY <1>4, <1>5, <1>6, <1>7 DEF DiscoveryInv
<1>8. \A e \in Discoveries : \A n : n = cursor[e] => Covered(e, n)'
    BY <1>1, CoveredStays DEF DiscoveryInv
<1>9. IndexedIsStored'
    BY <1>1 DEF DiscoveryInv, IndexedIsStored
<1> QED
    BY <1>1, <1>4, <1>7, <1>8, <1>9 DEF DiscoveryInv

----------------------------------------------------------------------------
(* The composed system *)

Inv == RootInv /\ DiscoveryInv

LEMMA SyncStepPreserves ==
    ASSUME Inv, NEW d \in Discoveries, NEW c \in Callers, SyncStep(d, c) \/ FailSync(d, c)
    PROVE  Inv'
<1>1. RootIdle
    BY DEF SyncStep, FetchFeed, FetchPackage, IndexPackage, FinishSync, FailSync
<1>2. RootInv'
    BY <1>1, RootStays DEF Inv, RootIdle
<1>3. DiscoveryInv'
    BY FetchFeedPreserves, FetchPackagePreserves, IndexPackagePreserves, FinishSyncPreserves,
       FailSyncPreserves DEF Inv, SyncStep
<1> QED
    BY <1>2, <1>3 DEF Inv

LEMMA CallPreserves ==
    ASSUME Inv, NEW n \in Notifiers, TakeCall(n)
    PROVE  Inv'
<1>1. RootIdle
    BY DEF TakeCall
<1>2. RootInv'
    BY <1>1, RootStays DEF Inv, RootIdle
<1>3. n \in Callers /\ NotifyBatch \in Nat
    BY WorkersAssumption DEF Callers
<1>4. PICK d, hint : Begin(d, n, NotifyBatch, TRUE, hint)
    BY DEF TakeCall
<1>5. DiscoveryInv'
    BY <1>1, <1>3, <1>4, BeginPreserves DEF Inv, RootIdle
<1> QED
    BY <1>2, <1>5 DEF Inv

LEMMA OperatorPreserves ==
    ASSUME Inv, NEW d \in Discoveries, NEW o \in Operators, StartSync(d, o)
    PROVE  Inv'
<1>1. RootIdle /\ Begin(d, o, PageLimit, FALSE, 0)
    BY DEF StartSync
<1>2. RootInv'
    BY <1>1, RootStays DEF Inv, RootIdle
<1>3. o \in Callers /\ PageLimit \in Nat
    BY PropagationAssumption DEF Callers
<1>4. DiscoveryInv'
    BY <1>1, <1>3, BeginPreserves DEF Inv, RootIdle
<1> QED
    BY <1>2, <1>4 DEF Inv

LEMMA StutterPreserves ==
    ASSUME Inv, UNCHANGED vars
    PROVE  Inv'
<1>1. RootInv'
    BY RootStays DEF Inv, vars, rootVars
<1>2. UNCHANGED <<feed, stored, cursor, index, syncs>> /\ feed \in Seq(Version)
    BY DEF Inv, RootInv, FeedNumbered, vars, rootVars, discoveryVars
<1>3. /\ \A d \in Discoveries : \A r : SyncSound(d, r) => SyncSound(d, r)'
      /\ \A d \in Discoveries : \A n : n = cursor[d] => Covered(d, n)'
    BY <1>2, SyncStays, CoveredStays DEF Inv, DiscoveryInv
<1>4. DiscoveryInv'
    BY <1>2, <1>3 DEF Inv, DiscoveryInv, IndexedIsStored
<1> QED
    BY <1>1, <1>4 DEF Inv

LEMMA InvPreserved ==
    ASSUME Inv, [Next]_vars
    PROVE  Inv'
<1>1. CASE RootStep /\ UNCHANGED discoveryVars
    BY <1>1, RootStepPreserves, RootStepKeepsDiscovery DEF Inv
<1>2. CASE \E n \in Notifiers : TakeCall(n)
    BY <1>2, CallPreserves
<1>3. CASE \E d \in Discoveries, o \in Operators : StartSync(d, o)
    BY <1>3, OperatorPreserves
<1>4. CASE \E d \in Discoveries, c \in Callers : SyncStep(d, c) \/ FailSync(d, c)
    BY <1>4, SyncStepPreserves
<1>5. CASE \E d \in Discoveries : RestartDiscovery(d)
    BY <1>5, RestartDiscoveryPreserves, RootStays DEF Inv, RestartDiscovery, RootIdle
<1>6. CASE UNCHANGED vars
    BY <1>6, StutterPreserves
<1> QED
    BY <1>1, <1>2, <1>3, <1>4, <1>5, <1>6 DEF Next

\* The invariant of the composed system: rows, posts and watermarks at the
\* Root, and syncs and indexes that rely on them at the Discovery nodes.
THEOREM InvAlways == Spec => []Inv
<1>1. Init => Inv
    BY RootInvInit, DiscoveryInvInit DEF Inv, Init
<1>2. Inv /\ [Next]_vars => Inv'
    BY InvPreserved
<1> QED
    BY <1>1, <1>2, PTL DEF Spec

----------------------------------------------------------------------------
(* What it comes to *)

\* A publish job is done only when the CDN has stored its version.
THEOREM PublishedIsStored == Spec => []DoneIsStored
<1>1. Inv => DoneIsStored
    BY DEF Inv, RootInv, Posted, DoneIsStored
<1> QED
    BY <1>1, InvAlways, PTL

\* No Discovery node is asked to sync up to a version the CDN was not given.
THEOREM WatermarkIsStored == Spec => []AnnouncedIsStored
<1>1. Inv => AnnouncedIsStored
    BY DEF Inv, RootInv, Watermarks, AnnouncedIsStored
<1> QED
    BY <1>1, InvAlways, PTL

\* What the Root takes for published, or tells Discovery nodes is, the CDN has.
THEOREM ClaimsAreStored == Spec => []ClaimedIsStored
<1>1. DoneIsStored /\ AnnouncedIsStored => ClaimedIsStored
    BY DEF ClaimedIsStored
<1> QED
    BY <1>1, PublishedIsStored, WatermarkIsStored, PTL

\* As long as no administrator interferes, a job that is done was announced to
\* every Discovery node it concerns.
THEOREM PublishedIsAnnounced == Spec => []DoneIsAnnounced
<1>1. Inv => DoneIsAnnounced
    BY DEF Inv, RootInv, Audience, Told, DoneIsAnnounced
<1> QED
    BY <1>1, InvAlways, PTL

\* A Discovery node indexes only what the CDN has stored, within its domains.
THEOREM IndexIsStored == Spec => []IndexedIsStored
<1>1. Inv => IndexedIsStored
    BY DEF Inv, DiscoveryInv
<1> QED
    BY <1>1, InvAlways, PTL

\* The cursor of a Discovery node never passes a row of its domains that it
\* has not indexed, whichever syncs overlap, fail or are restarted.
THEOREM CursorSkipsNothing == Spec => []NothingSkipped
<1>1. Inv => NothingSkipped
    BY DEF Inv, DiscoveryInv, Covered, NothingSkipped
<1> QED
    BY <1>1, InvAlways, PTL
============================================================================
