----------------------------- MODULE ReferenceProofs -----------------------------
(***************************************************************************)
(* Proofs about the CDN of the reference services, and about their Root:   *)
(* its governance, and its JSON files; for any number of posts, Agents,    *)
(* versions, events, failures, exports and restarts.                       *)
(***************************************************************************)
EXTENDS ReferenceCdn, GovernanceViews, RootFiles, SequenceTheorems, TLAPS

----------------------------------------------------------------------------
(* The CDN *)

Stages == Kinds \union {"manifest", "history"}

\* A post at this stage has written its file of this kind.
Written(kind, stage) ==
    \/ kind = "documents" /\ stage \in {"metadata", "packages", "manifest", "history"}
    \/ kind = "metadata" /\ stage \in {"packages", "manifest", "history"}
    \/ kind = "packages" /\ stage \in {"manifest", "history"}

LEMMA StagesFollow ==
    /\ AfterStage("documents") = "metadata"
    /\ AfterStage("metadata") = "packages"
    /\ AfterStage("packages") = "manifest"
    /\ AfterStage("manifest") = "history"
    /\ AfterStage("history") = "done"
    BY DEF AfterStage, NextStage

CdnFile == [version : Nat, torn : BOOLEAN, sound : BOOLEAN]

Typed ==
    /\ files \in [Kinds -> [CdnAgents -> CdnFile]]
    /\ entries \in [CdnAgents -> Nat]
    /\ DOMAIN posts = Posts
    /\ \A p \in Posts : posts[p] # NoPost =>
          /\ posts[p].at \in Stages
          /\ posts[p].package.did \in CdnAgents
          /\ posts[p].package.version \in CdnVersions
          /\ posts[p].package.sound = TRUE

LEMMA FilesReplaced ==
    ASSUME NEW k \in Kinds, NEW a \in CdnAgents, NEW file \in CdnFile,
           files \in [Kinds -> [CdnAgents -> CdnFile]],
           files' = [files EXCEPT ![k][a] = file]
    PROVE  /\ files' \in [Kinds -> [CdnAgents -> CdnFile]]
           /\ files'[k][a] = file
           /\ \A l \in Kinds, b \in CdnAgents : l # k \/ b # a => files'[l][b] = files[l][b]
    OBVIOUS

LEMMA TypedInit == CdnNodeInit => Typed
    BY DEF CdnNodeInit, Typed, CdnFile

\* A post that goes on keeps its package; after the history it is answered.
LEMMA PostGoesOn ==
    ASSUME Typed, NEW p \in Posts, posts[p] # NoPost, Reached(p)
    PROVE  /\ DOMAIN posts' = Posts
           /\ \A q \in Posts \ {p} : posts'[q] = posts[q]
           /\ posts[p].at = "history" => posts'[p] = NoPost
           /\ posts[p].at # "history" =>
                 posts'[p].at = AfterStage(posts[p].at) /\ posts'[p].package = posts[p].package
<1>1. AfterStage(posts[p].at) = "done" <=> posts[p].at = "history"
    BY StagesFollow DEF Typed, Stages, Kinds
<1> QED
    BY <1>1 DEF Reached, Typed

\* A post that truncates a file stays where it is.
LEMMA TruncatedPostStays ==
    ASSUME Typed, NEW p \in Posts, TruncateFile(p)
    PROVE  /\ \A q \in Posts \ {p} : posts'[q] = posts[q]
           /\ posts'[p].at = posts[p].at /\ posts'[p].package = posts[p].package
           /\ posts[p] # NoPost /\ posts'[p] # NoPost
<1>1. posts' = [posts EXCEPT ![p] = [posts[p] EXCEPT !.torn = TRUE]]
    BY DEF TruncateFile
<1>2. posts[p] # NoPost
    BY DEF TruncateFile, Kinds, NoPost
<1>3. posts'[p].at = posts[p].at /\ posts'[p].package = posts[p].package
    BY <1>1, <1>2 DEF Typed
<1>4. posts'[p] # NoPost
    BY <1>3 DEF TruncateFile, Kinds, NoPost
<1> QED
    BY <1>1, <1>2, <1>3, <1>4 DEF Typed

\* What truncating and writing do to the files.
LEMMA FileTorn ==
    ASSUME Typed, NEW p \in Posts, TruncateFile(p)
    PROVE  LET k == posts[p].at
               a == posts[p].package.did
           IN  /\ k \in Kinds /\ a \in CdnAgents
               /\ files' \in [Kinds -> [CdnAgents -> CdnFile]]
               /\ files'[k][a].version = files[k][a].version
               /\ files'[k][a].sound = files[k][a].sound
               /\ \A l \in Kinds, b \in CdnAgents : l # k \/ b # a => files'[l][b] = files[l][b]
<1>1. posts[p].at \in Kinds /\ posts[p].package.did \in CdnAgents
    BY TruncatedPostStays DEF TruncateFile, Typed
<1>2. files[posts[p].at][posts[p].package.did] \in CdnFile
    BY <1>1 DEF Typed
<1>3. DEFINE cut == [files[posts[p].at][posts[p].package.did] EXCEPT !.torn = TRUE]
<1>4. cut \in CdnFile /\ cut.version = files[posts[p].at][posts[p].package.did].version
                     /\ cut.sound = files[posts[p].at][posts[p].package.did].sound
    BY <1>2 DEF CdnFile
<1>5. files' = [files EXCEPT ![posts[p].at][posts[p].package.did] = cut]
    BY DEF TruncateFile
<1> HIDE DEF cut
<1> QED
    BY <1>1, <1>4, <1>5, FilesReplaced DEF Typed

LEMMA FileWritten ==
    ASSUME CdnVersions \subseteq Nat, Typed, NEW p \in Posts, WriteFile(p)
    PROVE  LET k == posts[p].at
               a == posts[p].package.did
           IN  /\ k \in Kinds /\ a \in CdnAgents /\ posts[p] # NoPost
               /\ files' \in [Kinds -> [CdnAgents -> CdnFile]]
               /\ files'[k][a].version = posts[p].package.version
               /\ files'[k][a].sound = TRUE
               /\ files'[k][a].torn = FALSE
               /\ \A l \in Kinds, b \in CdnAgents : l # k \/ b # a => files'[l][b] = files[l][b]
<1>1. posts[p].at \in Kinds /\ posts[p] # NoPost
    BY DEF WriteFile, Kinds, NoPost
<1>2. posts[p].package.did \in CdnAgents /\ posts[p].package.version \in Nat /\ posts[p].package.sound = TRUE
    BY <1>1 DEF Typed
<1>3. DEFINE written == [version |-> posts[p].package.version, torn |-> FALSE, sound |-> posts[p].package.sound]
<1>4. written \in CdnFile /\ written.version = posts[p].package.version
                        /\ written.sound = TRUE /\ written.torn = FALSE
    BY <1>2 DEF CdnFile
<1>5. files' = [files EXCEPT ![posts[p].at][posts[p].package.did] = written]
    BY DEF WriteFile
<1> HIDE DEF written
<1> QED
    BY <1>1, <1>2, <1>4, <1>5, FilesReplaced DEF Typed

LEMMA TypedStep ==
    ASSUME CdnVersions \subseteq Nat, Typed, [CdnNodeNext]_cdnNodeVars
    PROVE  Typed'
<1> USE DEF Typed
<1>1. ASSUME NEW p \in Posts, NEW package \in Package, ReceivePost(p, package)
      PROVE  Typed'
  <2>1. \A q \in Posts \ {p} : posts'[q] = posts[q]
      BY <1>1 DEF ReceivePost
  <2>2. CASE Verified(package)
    <3>1. posts'[p] = [at |-> "documents", package |-> package, torn |-> FALSE]
        BY <1>1, <2>2 DEF ReceivePost
    <3>2. posts'[p].at = "documents" /\ posts'[p].package = package
        BY <3>1
    <3>3. package.did \in CdnAgents /\ package.version \in CdnVersions /\ package.sound = TRUE
        BY <2>2 DEF Verified, Package
    <3>4. DOMAIN posts' = Posts /\ UNCHANGED <<files, entries>>
        BY <1>1 DEF ReceivePost
    <3> QED
        BY <2>1, <3>2, <3>3, <3>4 DEF Stages, Kinds
  <2>3. CASE ~Verified(package)
      BY <1>1, <2>1, <2>3 DEF ReceivePost
  <2> QED
      BY <2>2, <2>3
<1>2. ASSUME NEW p \in Posts, TruncateFile(p)
      PROVE  Typed'
    BY <1>2, TruncatedPostStays, FileTorn DEF TruncateFile
<1>3. ASSUME NEW p \in Posts, posts[p] # NoPost, Reached(p)
      PROVE  /\ DOMAIN posts' = Posts
             /\ \A q \in Posts : posts'[q] # NoPost =>
                  /\ posts'[q].at \in Stages
                  /\ posts'[q].package.did \in CdnAgents
                  /\ posts'[q].package.version \in CdnVersions
                  /\ posts'[q].package.sound = TRUE
  <2>1. posts[p].at # "history" => AfterStage(posts[p].at) \in Stages
      BY <1>3, StagesFollow DEF Stages, Kinds
  <2>2. /\ DOMAIN posts' = Posts
        /\ \A q \in Posts \ {p} : posts'[q] = posts[q]
        /\ posts[p].at = "history" => posts'[p] = NoPost
        /\ posts[p].at # "history" =>
              posts'[p].at = AfterStage(posts[p].at) /\ posts'[p].package = posts[p].package
      BY <1>3, PostGoesOn
  <2> QED
      BY <1>3, <2>1, <2>2
<1>4. ASSUME NEW p \in Posts, WriteFile(p)
      PROVE  Typed'
    BY <1>3, <1>4, FileWritten DEF WriteFile
<1>5. ASSUME NEW p \in Posts, UpsertEntry(p)
      PROVE  Typed'
  <2>0. posts[p] # NoPost
      BY <1>5 DEF UpsertEntry, NoPost
  <2>1. posts[p] # NoPost /\ posts[p].package.did \in CdnAgents /\ posts[p].package.version \in Nat
      BY <2>0
  <2> QED
      BY <1>3, <1>5, <2>1 DEF UpsertEntry, Entry
<1>6. ASSUME NEW p \in Posts, AppendHistory(p)
      PROVE  Typed'
  <2>1. posts[p] # NoPost
      BY <1>6 DEF AppendHistory, NoPost
  <2> QED
      BY <1>3, <1>6, <2>1 DEF AppendHistory
<1>7. ASSUME NEW p \in Posts, StopPost(p)
      PROVE  Typed'
    BY <1>7 DEF StopPost
<1>8. CASE RestartCdn
    BY <1>8 DEF RestartCdn
<1>9. CASE ExportManifest \/ ExportHistory \/ UNCHANGED cdnNodeVars
    BY <1>9 DEF ExportManifest, ExportHistory, cdnNodeVars
<1> QED
    BY <1>1, <1>2, <1>4, <1>5, <1>6, <1>7, <1>8, <1>9 DEF CdnNodeNext

----------------------------------------------------------------------------
(* Served, listed, published *)

LEMMA SoundStep ==
    ASSUME CdnVersions \subseteq Nat, Typed, ServedWasVerified, [CdnNodeNext]_cdnNodeVars
    PROVE  ServedWasVerified'
<1> USE DEF ServedWasVerified
<1>1. CASE UNCHANGED files
    BY <1>1
<1>2. ASSUME NEW p \in Posts, TruncateFile(p)
      PROVE  ServedWasVerified'
    BY <1>2, FileTorn
<1>3. ASSUME NEW p \in Posts, WriteFile(p)
      PROVE  ServedWasVerified'
    BY <1>3, FileWritten
<1>4. CASE UNCHANGED cdnNodeVars
    BY <1>4, <1>1 DEF cdnNodeVars
<1> QED
    BY <1>1, <1>2, <1>3, <1>4
    DEF CdnNodeNext, ReceivePost, UpsertEntry, AppendHistory, StopPost, RestartCdn,
        ExportManifest, ExportHistory

\* What a post has written is there, and the order in which it writes carries
\* that over: files, then the manifest entry, then the history.
Complete ==
    /\ DOMAIN copied = {"manifest", "history"}
    /\ \A p \in Posts : posts[p] # NoPost =>
          /\ \A k \in Kinds : Written(k, posts[p].at) => files[k][posts[p].package.did].version > 0
          /\ posts[p].at = "history" => entries[posts[p].package.did] > 0
    /\ \A a \in CdnAgents, k \in Kinds : entries[a] > 0 => files[k][a].version > 0
    /\ \A item \in published \union copied.manifest \union copied.history :
          item.did \in CdnAgents /\ entries[item.did] > 0

LEMMA CompleteInit == CdnNodeInit => Complete
    BY DEF CdnNodeInit, Complete

\* A post goes on after a step that took no file and no entry away.
LEMMA CompleteGoesOn ==
    ASSUME Typed, Complete, NEW p \in Posts, posts[p] # NoPost, Reached(p),
           \A k \in Kinds, a \in CdnAgents : files[k][a].version > 0 => files'[k][a].version > 0,
           \A a \in CdnAgents : entries[a] > 0 => entries'[a] > 0,
           posts[p].at \in Kinds => files'[posts[p].at][posts[p].package.did].version > 0,
           posts[p].at = "manifest" => entries'[posts[p].package.did] > 0
    PROVE  \A q \in Posts : posts'[q] # NoPost =>
              /\ \A k \in Kinds : Written(k, posts'[q].at) => files'[k][posts'[q].package.did].version > 0
              /\ posts'[q].at = "history" => entries'[posts'[q].package.did] > 0
<1>1. /\ \A q \in Posts \ {p} : posts'[q] = posts[q]
      /\ posts[p].at = "history" => posts'[p] = NoPost
      /\ posts[p].at # "history" =>
            posts'[p].at = AfterStage(posts[p].at) /\ posts'[p].package = posts[p].package
    BY PostGoesOn
<1>2. posts[p].package.did \in CdnAgents /\ posts[p].at \in Stages
    BY DEF Typed
<1>3. ASSUME NEW k \in Kinds, posts[p].at # "history", Written(k, AfterStage(posts[p].at))
      PROVE  files'[k][posts[p].package.did].version > 0
  <2>1. Written(k, posts[p].at) \/ k = posts[p].at
      BY <1>2, <1>3, StagesFollow DEF Written, Stages, Kinds
  <2> QED
      BY <1>2, <2>1 DEF Complete
<1>4. posts[p].at # "history" /\ AfterStage(posts[p].at) = "history" => entries'[posts[p].package.did] > 0
    BY <1>2, StagesFollow DEF Stages, Kinds
<1>5. ASSUME NEW q \in Posts \ {p}, posts[q] # NoPost
      PROVE  /\ \A k \in Kinds : Written(k, posts[q].at) => files'[k][posts[q].package.did].version > 0
             /\ posts[q].at = "history" => entries'[posts[q].package.did] > 0
    BY <1>5 DEF Complete, Typed
<1> QED
    BY <1>1, <1>3, <1>4, <1>5

LEMMA CompleteStep ==
    ASSUME CdnVersions \subseteq Nat \ {0}, Typed, Complete, [CdnNodeNext]_cdnNodeVars
    PROVE  Complete'
<1>0. CdnVersions \subseteq Nat /\ \A v \in CdnVersions : v > 0
    OBVIOUS
<1>1. ASSUME NEW p \in Posts, NEW package \in Package, ReceivePost(p, package)
      PROVE  Complete'
  <2>1. UNCHANGED <<files, entries, published, copied>>
      BY <1>1 DEF ReceivePost
  <2>2. \A q \in Posts : posts'[q] = posts[q] \/ posts'[q] = NoPost \/ posts'[q].at = "documents"
      BY <1>1 DEF ReceivePost, Typed
  <2> QED
      BY <2>1, <2>2 DEF Complete, Written
<1>2. ASSUME NEW p \in Posts, TruncateFile(p)
      PROVE  Complete'
  <2>1. UNCHANGED <<entries, published, copied>>
      BY <1>2 DEF TruncateFile
  <2>2. \A k \in Kinds, a \in CdnAgents : files'[k][a].version = files[k][a].version
      BY <1>2, FileTorn
  <2>3. \A q \in Posts : posts'[q] # NoPost =>
           posts[q] # NoPost /\ posts'[q].at = posts[q].at /\ posts'[q].package = posts[q].package
      BY <1>2, TruncatedPostStays
  <2>4. \A q \in Posts : posts'[q] # NoPost =>
          /\ \A k \in Kinds : Written(k, posts'[q].at) => files'[k][posts'[q].package.did].version > 0
          /\ posts'[q].at = "history" => entries'[posts'[q].package.did] > 0
      BY <2>1, <2>2, <2>3 DEF Complete, Typed
  <2>5. \A a \in CdnAgents, k \in Kinds : entries'[a] > 0 => files'[k][a].version > 0
      BY <2>1, <2>2 DEF Complete
  <2> QED
      BY <2>1, <2>4, <2>5 DEF Complete
<1>3. ASSUME NEW p \in Posts, WriteFile(p)
      PROVE  Complete'
  <2>1. UNCHANGED <<entries, published, copied>> /\ Reached(p) /\ posts[p].at \in Kinds /\ posts[p] # NoPost
      BY <1>0, <1>3, FileWritten DEF WriteFile
  <2>2. posts[p].package.version > 0
    <3>1. posts[p].package.version \in CdnVersions
        BY <2>1 DEF Typed
    <3> QED
        BY <1>0, <3>1
  <2>3. /\ \A k \in Kinds, a \in CdnAgents : files[k][a].version > 0 => files'[k][a].version > 0
        /\ files'[posts[p].at][posts[p].package.did].version > 0
      BY <1>0, <1>3, <2>2, FileWritten
  <2>4. posts[p].at # "manifest"
      BY <2>1 DEF Kinds
  <2>5. \A q \in Posts : posts'[q] # NoPost =>
              /\ \A k \in Kinds : Written(k, posts'[q].at) => files'[k][posts'[q].package.did].version > 0
              /\ posts'[q].at = "history" => entries'[posts'[q].package.did] > 0
      BY <2>1, <2>3, <2>4, CompleteGoesOn
  <2> QED
      BY <2>1, <2>3, <2>5 DEF Complete
<1>4. ASSUME NEW p \in Posts, UpsertEntry(p)
      PROVE  Complete'
  <2>1. UNCHANGED <<files, published, copied>> /\ Reached(p) /\ posts[p].at = "manifest" /\ posts[p] # NoPost
      BY <1>4 DEF UpsertEntry, NoPost
  <2>2. posts[p].package.version > 0 /\ posts[p].package.did \in CdnAgents
    <3>1. posts[p].package.version \in CdnVersions /\ posts[p].package.did \in CdnAgents
        BY <2>1 DEF Typed
    <3> QED
        BY <1>0, <3>1
  <2>3. /\ entries'[posts[p].package.did] > 0
        /\ \A a \in CdnAgents : a # posts[p].package.did => entries'[a] = entries[a]
      BY <1>4, <2>2 DEF UpsertEntry, Entry, Typed
  <2>4. posts[p].at \notin Kinds
      BY <2>1 DEF Kinds
  <2>5. \A q \in Posts : posts'[q] # NoPost =>
              /\ \A k \in Kinds : Written(k, posts'[q].at) => files'[k][posts'[q].package.did].version > 0
              /\ posts'[q].at = "history" => entries'[posts'[q].package.did] > 0
      BY <2>1, <2>3, <2>4, CompleteGoesOn
  <2>6. \A k \in Kinds : files[k][posts[p].package.did].version > 0
      BY <2>1 DEF Complete, Written, Kinds
  <2> QED
      BY <2>1, <2>3, <2>5, <2>6 DEF Complete
<1>5. ASSUME NEW p \in Posts, AppendHistory(p)
      PROVE  Complete'
  <2>1. UNCHANGED <<files, entries, copied>> /\ Reached(p) /\ posts[p].at = "history" /\ posts[p] # NoPost
      BY <1>5 DEF AppendHistory, NoPost
  <2>2. entries[posts[p].package.did] > 0 /\ posts[p].package.did \in CdnAgents
      BY <2>1 DEF Complete, Typed
  <2>3. \A q \in Posts : posts'[q] = posts[q] \/ posts'[q] = NoPost
      BY <2>1, PostGoesOn
  <2>4. \A item \in published' : item \in published \/ item.did = posts[p].package.did
      BY <1>5 DEF AppendHistory
  <2> QED
      BY <2>1, <2>2, <2>3, <2>4 DEF Complete
<1>6. ASSUME \A q \in Posts : posts'[q] = posts[q] \/ posts'[q] = NoPost,
             UNCHANGED <<files, entries, published, copied>>
      PROVE  Complete'
    BY <1>6 DEF Complete
<1>7. ASSUME NEW p \in Posts, StopPost(p)
      PROVE  Complete'
    BY <1>6, <1>7 DEF StopPost, Typed
<1>8. CASE RestartCdn
    BY <1>6, <1>8 DEF RestartCdn
<1>9. CASE UNCHANGED cdnNodeVars
    BY <1>6, <1>9 DEF cdnNodeVars
<1>10. CASE ExportManifest
  <2>1. \A item \in copied'.manifest : item.did \in CdnAgents /\ entries[item.did] > 0
      BY <1>10 DEF ExportManifest, read_manifest, Complete
  <2> QED
      BY <1>10, <2>1 DEF ExportManifest, Complete
<1>11. CASE ExportHistory
  <2>1. copied'.history = published /\ copied'.manifest = copied.manifest
      BY <1>11 DEF ExportHistory, Complete
  <2> QED
      BY <1>11, <2>1 DEF ExportHistory, Complete
<1> QED
    BY <1>1, <1>2, <1>3, <1>4, <1>5, <1>7, <1>8, <1>9, <1>10, <1>11 DEF CdnNodeNext

\* Every file the CDN keeps comes from a package whose envelope and hashes
\* verified: publish_document refuses the others before it writes.
THEOREM VerifiedServed ==
    ASSUME CdnVersions \subseteq Nat
    PROVE  CdnNodeSpec => []ServedWasVerified
<1>1. CdnNodeInit => Typed /\ ServedWasVerified
    BY TypedInit DEF CdnNodeInit, ServedWasVerified
<1>2. Typed /\ ServedWasVerified /\ [CdnNodeNext]_cdnNodeVars => (Typed /\ ServedWasVerified)'
    BY TypedStep, SoundStep
<1> QED
    BY <1>1, <1>2, PTL DEF CdnNodeSpec

LEMMA CompleteAlways ==
    ASSUME CdnVersions \subseteq Nat \ {0}
    PROVE  CdnNodeSpec => [](Typed /\ Complete)
<1>1. CdnNodeInit => Typed /\ Complete
    BY TypedInit, CompleteInit
<1>2. Typed /\ Complete /\ [CdnNodeNext]_cdnNodeVars => (Typed /\ Complete)'
    BY TypedStep, CompleteStep
<1> QED
    BY <1>1, <1>2, PTL DEF CdnNodeSpec

\* An Agent in the manifest of the CDN, or in the copy export_cdn_debug_snapshot
\* made of it, has all three files, whatever posts overlapped, failed or were
\* ended by a restart.
THEOREM ListedServed ==
    ASSUME CdnVersions \subseteq Nat \ {0}
    PROVE  CdnNodeSpec => []ListedIsServed
<1>1. Typed /\ Complete => ListedIsServed
    BY DEF Complete, ListedIsServed, read_manifest
<1> QED
    BY <1>1, CompleteAlways, PTL

\* What the publish history, or its copy, names is in the manifest.
THEOREM PublishedListed ==
    ASSUME CdnVersions \subseteq Nat \ {0}
    PROVE  CdnNodeSpec => []PublishedIsListed
<1>1. Typed /\ Complete => PublishedIsListed
  <2> SUFFICES ASSUME Complete, NEW item \in published \union copied.history
               PROVE  \E listed \in read_manifest : listed.did = item.did
      BY DEF PublishedIsListed
  <2>1. item.did \in CdnAgents /\ entries[item.did] > 0
      BY DEF Complete
  <2>2. [did |-> item.did, version |-> entries[item.did]] \in read_manifest
      BY <2>1 DEF read_manifest
  <2> QED
      BY <2>2
<1> QED
    BY <1>1, CompleteAlways, PTL

----------------------------------------------------------------------------
(* A post that runs alone *)

Busy(p, a) == posts[p] # NoPost /\ posts[p].package.did = a

Agreed(kind, a, version) == files[kind][a].version = version /\ files[kind][a].torn = FALSE

\* The one post of such an Agent has written its own version so far; without a
\* post, files and entry agree.
AloneAt(a) ==
    /\ \A p, q \in Posts : Busy(p, a) /\ Busy(q, a) => p = q
    /\ \A p \in Posts : Busy(p, a) =>
          /\ \A k \in Kinds : Written(k, posts[p].at) => Agreed(k, a, posts[p].package.version)
          /\ posts[p].at = "history" => entries[a] = posts[p].package.version
    /\ (\A p \in Posts : ~Busy(p, a)) => \A k \in Kinds : Agreed(k, a, entries[a])

Alone == \A a \in CdnAgents : a \notin mixed => AloneAt(a)

LEMMA AloneInit == CdnNodeInit => Alone
    BY DEF CdnNodeInit, Alone, AloneAt, Busy, Agreed

\* Nothing changes for an Agent whose files, entry and posts stay.
LEMMA AloneElsewhere ==
    ASSUME NEW a \in CdnAgents, AloneAt(a),
           \A k \in Kinds : files'[k][a] = files[k][a],
           entries'[a] = entries[a],
           \A q \in Posts : posts'[q] = posts[q] \/ (~Busy(q, a) /\ ~Busy(q, a)')
    PROVE  AloneAt(a)'
<1>1. \A q \in Posts : Busy(q, a)' <=> Busy(q, a)
    BY DEF Busy
<1>2. \A q \in Posts : Busy(q, a)' => posts'[q] = posts[q]
    BY <1>1
<1> QED
    BY <1>1, <1>2 DEF AloneAt, Agreed

LEMMA AloneStep ==
    ASSUME CdnVersions \subseteq Nat, Typed, Alone, [CdnNodeNext]_cdnNodeVars
    PROVE  Alone'
<1>1. ASSUME NEW p \in Posts, NEW package \in Package, ReceivePost(p, package),
             NEW a \in CdnAgents, a \notin mixed'
      PROVE  AloneAt(a)'
  <2>1. /\ UNCHANGED <<files, entries>> /\ posts[p] = NoPost
        /\ \A q \in Posts \ {p} : posts'[q] = posts[q]
      BY <1>1 DEF ReceivePost
  <2>2. CASE ~Verified(package)
    <3>1. posts'[p] = NoPost /\ a \notin mixed
        BY <1>1, <2>2 DEF ReceivePost, Typed
    <3> QED
        BY <2>1, <3>1, AloneElsewhere DEF Alone
  <2>3. CASE Verified(package)
    <3>1. posts'[p] = [at |-> "documents", package |-> package, torn |-> FALSE]
        BY <1>1, <2>3 DEF ReceivePost, Typed
    <3>2. posts'[p].at = "documents" /\ posts'[p].package = package
        BY <3>1
    <3>3. posts'[p] # NoPost
        BY <3>2 DEF NoPost
    <3>4. CASE package.did # a
      <4>1. a \notin mixed
          BY <1>1, <2>3, <3>4 DEF ReceivePost
      <4>2. ~Busy(p, a) /\ ~Busy(p, a)'
          BY <2>1, <3>2, <3>4 DEF Busy
      <4> QED
          BY <2>1, <4>1, <4>2, AloneElsewhere DEF Alone
    <3>5. CASE package.did = a
      <4>1. Running(a) = {}
          BY <1>1, <2>3, <3>5 DEF ReceivePost
      <4>2. \A q \in Posts : Busy(q, a)' <=> q = p
          BY <2>1, <3>2, <3>3, <3>5, <4>1 DEF Busy, Running
      <4>3. \A k \in Kinds : ~Written(k, posts'[p].at)
          BY <3>2 DEF Written
      <4> QED
          BY <3>2, <4>2, <4>3 DEF AloneAt
    <3> QED
        BY <3>4, <3>5
  <2> QED
      BY <2>2, <2>3
<1>2. ASSUME NEW p \in Posts, TruncateFile(p), NEW a \in CdnAgents, a \notin mixed'
      PROVE  AloneAt(a)'
  <2>1. UNCHANGED <<entries, mixed>>
      BY <1>2 DEF TruncateFile
  <2>2. AloneAt(a)
      BY <1>2, <2>1 DEF Alone
  <2>3. /\ \A q \in Posts \ {p} : posts'[q] = posts[q]
        /\ posts'[p].at = posts[p].at /\ posts'[p].package = posts[p].package
        /\ posts[p] # NoPost /\ posts'[p] # NoPost
      BY <1>2, TruncatedPostStays
  <2>4. /\ posts[p].at \in Kinds
        /\ \A k \in Kinds, b \in CdnAgents :
              k # posts[p].at \/ b # posts[p].package.did => files'[k][b] = files[k][b]
      BY <1>2, FileTorn
  <2>5. CASE posts[p].package.did # a
    <3>1. ~Busy(p, a) /\ ~Busy(p, a)'
        BY <2>3, <2>5 DEF Busy
    <3> QED
        BY <2>1, <2>2, <2>3, <2>4, <2>5, <3>1, AloneElsewhere
  <2>6. CASE posts[p].package.did = a
    <3>1. Busy(p, a) /\ Busy(p, a)'
        BY <2>3, <2>6 DEF Busy
    <3>2. \A q \in Posts : Busy(q, a)' => q = p
        BY <2>2, <2>3, <3>1 DEF AloneAt, Busy
    <3>3. ~Written(posts[p].at, posts[p].at) /\ posts[p].at # "history"
        BY <2>4 DEF Written, Kinds
    <3>4. \A k \in Kinds : Written(k, posts[p].at) => Agreed(k, a, posts[p].package.version)'
        BY <2>2, <2>3, <2>4, <3>1, <3>3 DEF AloneAt, Agreed
    <3> QED
        BY <2>3, <3>1, <3>2, <3>3, <3>4 DEF AloneAt, Agreed
  <2> QED
      BY <2>5, <2>6
\* A post that goes on, having written what its stage is for.
<1>3. ASSUME NEW p \in Posts, posts[p] # NoPost, Reached(p), NEW a \in CdnAgents, a \notin mixed,
             posts[p].package.did = a, NEW v, v = posts[p].package.version,
             \A k \in Kinds : k # posts[p].at => files'[k][a] = files[k][a],
             posts[p].at \in Kinds => /\ files'[posts[p].at][a].version = v
                                       /\ files'[posts[p].at][a].torn = FALSE,
             posts[p].at = "manifest" => entries'[a] = v,
             posts[p].at # "manifest" => entries'[a] = entries[a]
      PROVE  AloneAt(a)'
  <2>1. AloneAt(a) /\ Busy(p, a)
      BY <1>3 DEF Alone, Busy
  <2>2. /\ \A q \in Posts \ {p} : posts'[q] = posts[q]
        /\ posts[p].at = "history" => posts'[p] = NoPost
        /\ posts[p].at # "history" =>
              posts'[p].at = AfterStage(posts[p].at) /\ posts'[p].package = posts[p].package
      BY <1>3, PostGoesOn
  <2>3. posts[p].at \in Stages
      BY <1>3 DEF Typed
  <2>4. \A q \in Posts : Busy(q, a)' => q = p
      BY <2>1, <2>2 DEF AloneAt, Busy
  <2>5. \A k \in Kinds : Written(k, posts[p].at) \/ k = posts[p].at =>
           Agreed(k, a, v)'
      BY <1>3, <2>1, <2>2 DEF AloneAt, Agreed
  <2>6. CASE posts[p].at = "history"
    <3>1. \A k \in Kinds : Agreed(k, a, v)'
        BY <2>5, <2>6 DEF Written, Kinds
    <3>2. entries'[a] = v
        BY <1>3, <2>1, <2>6 DEF AloneAt
    <3>3. \A q \in Posts : ~Busy(q, a)'
        BY <2>2, <2>4, <2>6 DEF Busy
    <3> QED
        BY <3>1, <3>2, <3>3 DEF AloneAt, Agreed
  <2>7. CASE posts[p].at # "history"
    <3>1. \A k \in Kinds : Written(k, AfterStage(posts[p].at)) => Written(k, posts[p].at) \/ k = posts[p].at
        BY <2>3, <2>7, StagesFollow DEF Written, Stages, Kinds
    <3>2. AfterStage(posts[p].at) = "history" => entries'[a] = v
        BY <1>3, <2>3, StagesFollow DEF Stages, Kinds
    <3>3. posts'[p] # NoPost
        BY <2>2, <2>3, <2>7, StagesFollow DEF Stages, Kinds, NoPost
    <3>4. Busy(p, a)'
        BY <1>3, <2>2, <2>7, <3>3 DEF Busy
    <3>5. posts'[p].package.version = v
        BY <1>3, <2>2, <2>7
    <3>6. \A k \in Kinds : Written(k, posts'[p].at) => Agreed(k, a, posts[p].package.version)'
        BY <2>2, <2>5, <2>7, <3>1, <3>5 DEF Agreed
    <3>7. posts'[p].at = "history" => entries'[a] = posts'[p].package.version
        BY <2>2, <2>7, <3>2, <3>5
    <3> QED
        BY <2>4, <3>4, <3>6, <3>7 DEF AloneAt, Agreed
  <2> QED
      BY <2>6, <2>7
\* The Agents of other posts than one that goes on.
<1>4. ASSUME NEW p \in Posts, posts[p] # NoPost, Reached(p), NEW a \in CdnAgents, a \notin mixed,
             posts[p].package.did # a, \A k \in Kinds : files'[k][a] = files[k][a], entries'[a] = entries[a]
      PROVE  AloneAt(a)'
  <2>1. \A q \in Posts \ {p} : posts'[q] = posts[q]
      BY <1>4, PostGoesOn
  <2>2. posts'[p] # NoPost => posts'[p].package = posts[p].package
      BY <1>4, PostGoesOn
  <2>3. ~Busy(p, a) /\ ~Busy(p, a)'
      BY <1>4, <2>2 DEF Busy
  <2> QED
      BY <1>4, <2>1, <2>3, AloneElsewhere DEF Alone
<1>5. ASSUME NEW p \in Posts, WriteFile(p), NEW a \in CdnAgents, a \notin mixed'
      PROVE  AloneAt(a)'
  <2>0. PICK v : v = posts[p].package.version
      OBVIOUS
  <2>1. UNCHANGED <<entries, mixed>> /\ Reached(p)
      BY <1>5 DEF WriteFile
  <2>2. /\ posts[p].at \in Kinds /\ posts[p].package.did \in CdnAgents /\ posts[p] # NoPost
        /\ files'[posts[p].at][posts[p].package.did].version = v
        /\ files'[posts[p].at][posts[p].package.did].torn = FALSE
        /\ \A l \in Kinds, b \in CdnAgents :
              l # posts[p].at \/ b # posts[p].package.did => files'[l][b] = files[l][b]
      BY <1>5, <2>0, FileWritten
  <2>3. posts[p].at # "manifest"
      BY <2>2 DEF Kinds
  <2>4. CASE posts[p].package.did = a
      BY <1>3, <1>5, <2>0, <2>1, <2>2, <2>3, <2>4
  <2>5. CASE posts[p].package.did # a
      BY <1>4, <1>5, <2>1, <2>2, <2>5
  <2> QED
      BY <2>4, <2>5
<1>6. ASSUME NEW p \in Posts, UpsertEntry(p), NEW a \in CdnAgents, a \notin mixed'
      PROVE  AloneAt(a)'
  <2>1. UNCHANGED <<files, mixed>> /\ Reached(p) /\ posts[p].at = "manifest" /\ posts[p] # NoPost
      BY <1>6 DEF UpsertEntry, NoPost
  <2>2. posts[p].package.did \in CdnAgents
      BY <2>1 DEF Typed
  <2>3. /\ entries'[posts[p].package.did] = posts[p].package.version
        /\ \A b \in CdnAgents : b # posts[p].package.did => entries'[b] = entries[b]
      BY <1>6, <2>2 DEF UpsertEntry, Entry, Typed
  <2>4. posts[p].at \notin Kinds
      BY <2>1 DEF Kinds
  <2> QED
      BY <1>3, <1>4, <1>6, <2>1, <2>3, <2>4
<1>7. ASSUME NEW p \in Posts, AppendHistory(p), NEW a \in CdnAgents, a \notin mixed'
      PROVE  AloneAt(a)'
  <2>1. UNCHANGED <<files, entries, mixed>> /\ Reached(p) /\ posts[p].at = "history" /\ posts[p] # NoPost
      BY <1>7 DEF AppendHistory, NoPost
  <2>2. posts[p].at \notin Kinds /\ posts[p].at # "manifest"
      BY <2>1 DEF Kinds
  <2> QED
      BY <1>3, <1>4, <1>7, <2>1, <2>2
<1>8. ASSUME NEW p \in Posts, StopPost(p), NEW a \in CdnAgents, a \notin mixed'
      PROVE  AloneAt(a)'
  <2>1. /\ UNCHANGED <<files, entries>>
        /\ posts'[p] = NoPost /\ \A q \in Posts \ {p} : posts'[q] = posts[q]
        /\ a \notin mixed /\ posts[p].package.did # a
      BY <1>8 DEF StopPost, Typed
  <2>2. ~Busy(p, a) /\ ~Busy(p, a)'
      BY <2>1 DEF Busy
  <2> QED
      BY <2>1, <2>2, AloneElsewhere DEF Alone
<1>9. ASSUME RestartCdn, NEW a \in CdnAgents, a \notin mixed'
      PROVE  AloneAt(a)'
  <2>1. UNCHANGED <<files, entries>> /\ a \notin mixed /\ Running(a) = {}
      BY <1>9 DEF RestartCdn
  <2>2. \A q \in Posts : ~Busy(q, a) /\ ~Busy(q, a)'
      BY <1>9, <2>1 DEF RestartCdn, Running, Busy
  <2> QED
      BY <2>1, <2>2, AloneElsewhere DEF Alone
<1>10. CASE UNCHANGED <<files, entries, posts, mixed>>
    BY <1>10 DEF Alone, AloneAt, Busy, Agreed
<1>11. CASE ExportManifest \/ ExportHistory \/ UNCHANGED cdnNodeVars
    BY <1>10, <1>11 DEF ExportManifest, ExportHistory, cdnNodeVars
<1> QED
    BY <1>1, <1>2, <1>5, <1>6, <1>7, <1>8, <1>9, <1>11 DEF CdnNodeNext, Alone

\* A post of an Agent that ran alone, from its verification to its answer,
\* leaves three whole files and an entry of one version, its own, whatever
\* earlier posts tore or left at different versions.
THEOREM AlonePostAgrees ==
    ASSUME CdnVersions \subseteq Nat
    PROVE  CdnNodeSpec => []AloneAgrees
<1>1. CdnNodeInit => Typed /\ Alone
    BY TypedInit, AloneInit
<1>2. Typed /\ Alone /\ [CdnNodeNext]_cdnNodeVars => (Typed /\ Alone)'
    BY TypedStep, AloneStep
<1>3. Alone => AloneAgrees
  <2> SUFFICES ASSUME Alone, NEW a \in CdnAgents \ mixed, Running(a) = {}, NEW k \in Kinds
               PROVE  read_by_did(k, a) = entries[a]
      BY DEF AloneAgrees
  <2>1. \A p \in Posts : ~Busy(p, a)
      BY DEF Running, Busy
  <2>2. Agreed(k, a, entries[a])
      BY <2>1 DEF Alone, AloneAt
  <2> QED
      BY <2>2 DEF Agreed, read_by_did
<1> QED
    BY <1>1, <1>2, <1>3, PTL DEF CdnNodeSpec

\* Files, manifest and history of publish_package agree, for any number of
\* posts, Agents and versions.
THEOREM CdnAgrees ==
    ASSUME CdnVersions \subseteq Nat \ {0}
    PROVE  CdnNodeSpec => []FilesAndTablesAgree
<1>1. CdnVersions \subseteq Nat
    OBVIOUS
<1>2. ListedIsServed /\ PublishedIsListed /\ AloneAgrees => FilesAndTablesAgree
    BY DEF FilesAndTablesAgree
<1>3. CdnNodeSpec => []ListedIsServed
    BY ListedServed
<1>4. CdnNodeSpec => []PublishedIsListed
    BY PublishedListed
<1>5. CdnNodeSpec => []AloneAgrees
    BY <1>1, AlonePostAgrees
<1> QED
    BY <1>2, <1>3, <1>4, <1>5, PTL

----------------------------------------------------------------------------
(* Governance of Root *)

\* What the bulletin needs and the code does not see to: governance requests
\* come one after the other.
OneAdministrator == \A a, b \in Admins : a = b

Events == [hash : Nat, previous : Nat, operation : Operations, node : GovernedNodes]
Entries == [GovernedNodes -> {"none", "active", "revoked"}]
Sealing == [at : {"sealed", "published"}, sequence : Nat, event : Events]
Filing == [at : {"loaded", "writing"}, event : Events, entries : Entries]
Requests == {NoRequest} \union Sealing \union Filing

GovernanceTyped ==
    /\ rows \in Seq(Events) /\ sealed \in Nat
    /\ export \in [value : Seq(Events), torn : BOOLEAN]
    /\ exporting \in {[at |-> "idle"]} \union [at : {"read", "writing"}, rows : Seq(Events)]
    /\ authorization \in [value : Entries, torn : BOOLEAN] /\ snapshot \in Entries
    /\ admin \in [Admins -> Requests]
    /\ running \in BOOLEAN
    /\ settled \subseteq GovernedNodes /\ honoured \subseteq GovernedNodes /\ accepted \subseteq GovernedNodes
    /\ ~running => (\A a \in Admins : admin[a] = NoRequest) /\ exporting = [at |-> "idle"] /\ accepted = {}

Begins(part, whole) == Len(part) <= Len(whole) /\ \A i \in 1..Len(part) : whole[i] = part[i]
HasEvent(operation, node) ==
    \E i \in 1..Len(rows) : rows[i].operation = operation /\ rows[i].node = node

\* The event a request has sealed still follows the newest one.
Follows(r) ==
    r.at = "sealed" => r.sequence = Len(rows) + 1 /\ r.event.previous = PreviousHash(rows)

\* Whatever was read from the bulletin is still at its beginning, and the event
\* that was sealed still follows the newest one.
BulletinKept ==
    /\ HashChainVerifies(rows)
    /\ Begins(export.value, rows)
    /\ exporting.at # "idle" => Begins(exporting.rows, rows)
    /\ \A a \in Admins : Follows(admin[a])

Granted(n) == HasEvent("authorize registrar", n)

\* The event of a request is in the bulletin once it is written, and the
\* entries it writes rest on the bulletin.
RequestGrants(r) ==
    /\ r.at \in {"published", "loaded", "writing"} => HasEvent(r.event.operation, r.event.node)
    /\ r.at \in {"loaded", "writing"} => \A n \in GovernedNodes : r.entries[n] = "active" => Granted(n)

GrantsKept ==
    /\ \A n \in GovernedNodes :
          authorization.value[n] = "active" \/ snapshot[n] = "active" \/ n \in accepted => Granted(n)
    /\ \A a \in Admins : RequestGrants(admin[a])

HonouredKept ==
    /\ honoured \subseteq settled /\ RevocationsAreHonoured
    /\ \A n \in honoured : snapshot[n] # "active"

SettledKept == \A n \in settled : authorization.value[n] # "active" /\ HasEvent("revoke", n)

\* A torn file with no request that writes it was torn when Root started.
TornAtStart ==
    running /\ authorization.torn => snapshot = NoEntries \/ \E a \in Admins : admin[a].at = "writing"

\* What the request does with a revocation that was answered, or is its own.
RequestRevokes(r) ==
    /\ r.at # "idle" /\ r.event.operation = "authorize registrar" => r.event.node \notin settled
    /\ r.at \in {"loaded", "writing"} =>
          /\ \A n \in settled : r.entries[n] # "active"
          /\ r.event.operation = "revoke" => r.entries[r.event.node] # "active"

RevocationsKept == HonouredKept /\ SettledKept /\ TornAtStart /\ \A a \in Admins : RequestRevokes(admin[a])

GovernanceInv == GovernanceTyped /\ BulletinKept /\ GrantsKept /\ RevocationsKept

LEMMA NoRequestSound ==
    NoRequest \in Requests /\ Follows(NoRequest) /\ RequestGrants(NoRequest) /\ RequestRevokes(NoRequest)
BY DEF NoRequest, Requests, Follows, RequestGrants, RequestRevokes

LEMMA GovernanceInvInit == GovernanceInit => GovernanceInv
<1> SUFFICES ASSUME GovernanceInit PROVE GovernanceInv
    OBVIOUS
<1> USE DEF GovernanceInit, File, NoEntries
<1>1. GovernanceTyped
    BY NoRequestSound DEF GovernanceTyped, Entries
<1>2. BulletinKept
    BY NoRequestSound DEF BulletinKept, HashChainVerifies, Begins
<1>3. GrantsKept
    BY NoRequestSound DEF GrantsKept
<1>4. RevocationsKept
    BY NoRequestSound DEF RevocationsKept, HonouredKept, SettledKept, TornAtStart, RevocationsAreHonoured
<1> QED
    BY <1>1, <1>2, <1>3, <1>4 DEF GovernanceInv

----------------------------------------------------------------------------
(* The requests *)

LEMMA RequestKinds ==
    ASSUME GovernanceTyped, NEW a \in Admins
    PROVE  /\ admin[a] \in Requests
           /\ admin[a].at \in {"sealed", "published"} => admin[a] \in Sealing
           /\ admin[a].at \in {"loaded", "writing"} => admin[a] \in Filing
           /\ admin[a].at = "idle" => admin[a] = NoRequest
           /\ admin[a].at # "idle" => running /\ admin[a].event \in Events
BY DEF GovernanceTyped, Requests, Sealing, Filing, NoRequest

\* The table keeps what it has: its beginnings, its events.
LEMMA SameTable ==
    ASSUME rows' = rows
    PROVE  /\ HashChainVerifies(rows)' <=> HashChainVerifies(rows)
           /\ PreviousHash(rows)' = PreviousHash(rows)
           /\ \A o, n : HasEvent(o, n)' <=> HasEvent(o, n)
           /\ \A s : Begins(s, rows)' <=> Begins(s, rows)
BY DEF HasEvent

LEMMA LastTyped ==
    ASSUME NEW S, NEW s \in Seq(S), s # <<>>
    PROVE  s[Len(s)] \in S
<1>1. Len(s) \in Nat \ {0} /\ \A i \in 1..Len(s) : s[i] \in S
    BY EmptySeq, ElementOfSeq
<1> QED
    BY <1>1

\* The request that runs is the only one.
LEMMA OnlyRequest ==
    ASSUME OneAdministrator, GovernanceTyped, NEW a \in Admins, NEW request \in Requests,
           admin' = [admin EXCEPT ![a] = request]
    PROVE  /\ admin' \in [Admins -> Requests]
           /\ admin'[a] = request
           /\ \A b \in Admins : admin'[b] = request
BY DEF OneAdministrator, GovernanceTyped

LEMMA SealKeeps ==
    ASSUME OneAdministrator, GovernanceInv, NEW a \in Admins, NEW o \in Operations, NEW n \in GovernedNodes,
           SealEvent(a, o, n)
    PROVE  GovernanceInv'
<1>1. PICK event : event = [hash |-> sealed + 1, previous |-> PreviousHash(rows), operation |-> o, node |-> n]
    OBVIOUS
<1>2. PICK request : request = [at |-> "sealed", sequence |-> Len(rows) + 1, event |-> event]
    OBVIOUS
<1>3. /\ running' = running /\ running
      /\ UNCHANGED <<rows, export, exporting, authorization, snapshot, accepted>>
    BY DEF SealEvent
<1>4. /\ sealed' = sealed + 1 /\ rows \in Seq(Events) /\ sealed \in Nat
    BY DEF SealEvent, GovernanceInv, GovernanceTyped
<1>5. /\ settled' = (IF o = "authorize registrar" THEN settled \ {n} ELSE settled)
      /\ honoured' = (IF o = "authorize registrar" THEN honoured \ {n} ELSE honoured)
    BY DEF SealEvent
<1>6. admin' = [admin EXCEPT ![a] = request] /\ admin[a] = NoRequest
    BY <1>1, <1>2 DEF SealEvent, FollowingSequence
<1>7. PreviousHash(rows) \in Nat
  <2>1. rows # <<>> => rows[Len(rows)] \in Events
    BY <1>4, LastTyped
  <2> QED
    BY <2>1 DEF PreviousHash, Last, Events
<1>8. event \in Events /\ event.previous = PreviousHash(rows) /\ event.operation = o /\ event.node = n
    BY <1>1, <1>4, <1>7 DEF Events
<1>9. /\ request \in Requests /\ request.at = "sealed"
      /\ request.sequence = Len(rows) + 1 /\ request.event = event
  <2>1. Len(rows) + 1 \in Nat
    BY <1>4
  <2> QED
    BY <1>2, <1>8, <2>1 DEF Requests, Sealing
<1>10. admin' \in [Admins -> Requests] /\ \A b \in Admins : admin'[b] = request
    BY <1>6, <1>9, OnlyRequest DEF GovernanceInv
<1>11. GovernanceTyped'
  <2>1. settled' \subseteq settled /\ honoured' \subseteq honoured
    BY <1>5
  <2>2. sealed' \in Nat
    BY <1>4
  <2> QED
    BY <1>3, <1>10, <2>1, <2>2 DEF GovernanceInv, GovernanceTyped
<1>12. BulletinKept'
  <2>1. Follows(request)'
    BY <1>3, <1>8, <1>9, SameTable DEF Follows
  <2> QED
    BY <1>3, <1>10, <2>1, SameTable DEF GovernanceInv, BulletinKept
<1>13. GrantsKept'
  <2>1. RequestGrants(request)'
    BY <1>9 DEF RequestGrants
  <2> QED
    BY <1>3, <1>10, <2>1, SameTable DEF GovernanceInv, GrantsKept, Granted
<1>14. RevocationsKept'
  <2>1. HonouredKept' /\ SettledKept'
    BY <1>3, <1>5, SameTable DEF GovernanceInv, RevocationsKept, HonouredKept, SettledKept, RevocationsAreHonoured
  <2>2. \A b \in Admins : admin[b].at = "idle"
    BY <1>6 DEF NoRequest, OneAdministrator
  <2>3. TornAtStart'
    BY <1>3, <2>2 DEF GovernanceInv, RevocationsKept, TornAtStart
  <2>4. RequestRevokes(request)'
    BY <1>5, <1>8, <1>9 DEF RequestRevokes
  <2> QED
    BY <1>10, <2>1, <2>3, <2>4 DEF RevocationsKept
<1> QED
    BY <1>11, <1>12, <1>13, <1>14 DEF GovernanceInv

LEMMA Lengthened ==
    ASSUME NEW s \in Seq(Events), NEW e \in Events
    PROVE  /\ Append(s, e) \in Seq(Events) /\ Len(Append(s, e)) = Len(s) + 1 /\ Len(s) \in Nat
           /\ Append(s, e)[Len(s) + 1] = e
           /\ \A i \in 1..Len(s) : Append(s, e)[i] = s[i]
BY AppendProperties, LenProperties

LEMMA LongerTable ==
    ASSUME NEW e \in Events, rows \in Seq(Events), rows' = Append(rows, e), e.previous = PreviousHash(rows)
    PROVE  /\ HashChainVerifies(rows) => HashChainVerifies(rows)'
           /\ \A o, n : HasEvent(o, n) => HasEvent(o, n)'
           /\ HasEvent(e.operation, e.node)'
           /\ \A s \in Seq(Events) : Begins(s, rows) => Begins(s, rows')
<1>1. /\ Len(rows') = Len(rows) + 1 /\ Len(rows) \in Nat /\ rows'[Len(rows) + 1] = e
      /\ \A i \in 1..Len(rows) : rows'[i] = rows[i]
    BY Lengthened
<1>2. HashChainVerifies(rows) => HashChainVerifies(rows)'
  <2> SUFFICES ASSUME HashChainVerifies(rows), NEW i \in 1..Len(rows')
               PROVE  rows'[i].previous = IF i = 1 THEN 0 ELSE rows'[i - 1].hash
    BY DEF HashChainVerifies
  <2>1. CASE i \in 1..Len(rows)
    <3>1. i # 1 => i - 1 \in 1..Len(rows)
        BY <2>1, <1>1
    <3> QED
        BY <2>1, <3>1, <1>1 DEF HashChainVerifies
  <2>2. CASE i = Len(rows) + 1
    <3>1. CASE rows = <<>>
        BY <1>1, <2>2, <3>1 DEF PreviousHash
    <3>2. CASE rows # <<>>
        <4>1. Len(rows) # 0 /\ Len(rows) \in 1..Len(rows)
            BY <1>1, <3>2, EmptySeq
        <4> QED
            BY <1>1, <2>2, <3>2, <4>1 DEF PreviousHash, Last
    <3> QED
        BY <3>1, <3>2
  <2> QED
    BY <1>1, <2>1, <2>2
<1>3. \A o, n : HasEvent(o, n) => HasEvent(o, n)'
    BY <1>1 DEF HasEvent
<1>4. HasEvent(e.operation, e.node)'
  <2>1. Len(rows) + 1 \in 1..Len(rows')
    BY <1>1
  <2> QED
    BY <1>1, <2>1 DEF HasEvent
<1>5. \A s \in Seq(Events) : Begins(s, rows) => Begins(s, rows')
  <2> SUFFICES ASSUME NEW s \in Seq(Events), Begins(s, rows) PROVE Begins(s, rows')
    OBVIOUS
  <2>1. Len(s) \in Nat
    BY LenProperties
  <2> QED
    BY <1>1, <2>1 DEF Begins
<1> QED
    BY <1>2, <1>3, <1>4, <1>5

LEMMA PersistKeeps ==
    ASSUME OneAdministrator, GovernanceInv, NEW a \in Admins, PersistEvent(a)
    PROVE  GovernanceInv'
<1>1. PICK event : event = admin[a].event
    OBVIOUS
<1>2. PICK request : request = [admin[a] EXCEPT !.at = "published"]
    OBVIOUS
<1>3. admin[a].at = "sealed" /\ admin[a] \in Sealing /\ running /\ event \in Events
    BY <1>1, RequestKinds DEF PersistEvent, GovernanceInv
<1>4. rows \in Seq(Events) /\ admin \in [Admins -> Requests]
    BY DEF GovernanceInv, GovernanceTyped
<1>5. /\ Follows(admin[a]) /\ RequestRevokes(admin[a])
      /\ admin[a].sequence = Len(rows) + 1 /\ event.previous = PreviousHash(rows)
    BY <1>1, <1>3 DEF GovernanceInv, BulletinKept, RevocationsKept, Follows
<1>6. rows' = Append(rows, event)
  <2>1. ~(admin[a].sequence <= Len(rows))
    BY <1>4, <1>5, LenProperties
  <2> QED
    BY <1>1, <2>1 DEF PersistEvent, Upserted
<1>7. /\ admin' = [admin EXCEPT ![a] = request] /\ rows' \in Seq(Events)
      /\ UNCHANGED <<sealed, export, exporting, authorization, snapshot, running, settled, honoured, accepted>>
    BY <1>2, <1>3, <1>4, <1>6 DEF PersistEvent
<1>8. request \in Requests /\ request.at = "published" /\ request.event = event
    BY <1>1, <1>2, <1>3 DEF Sealing, Requests
<1>9. admin' \in [Admins -> Requests] /\ \A b \in Admins : admin'[b] = request
    BY <1>7, <1>8, OnlyRequest DEF GovernanceInv
<1>10. /\ HashChainVerifies(rows) => HashChainVerifies(rows)'
       /\ \A o, n : HasEvent(o, n) => HasEvent(o, n)'
       /\ HasEvent(event.operation, event.node)'
       /\ \A s \in Seq(Events) : Begins(s, rows) => Begins(s, rows')
    BY <1>3, <1>4, <1>5, <1>6, LongerTable
<1>11. GovernanceTyped'
    BY <1>3, <1>7, <1>9 DEF GovernanceInv, GovernanceTyped
<1>12. BulletinKept'
  <2>1. export.value \in Seq(Events) /\ (exporting.at # "idle" => exporting.rows \in Seq(Events))
    BY DEF GovernanceInv, GovernanceTyped
  <2>2. Follows(request)'
    BY <1>8 DEF Follows
  <2> QED
    BY <1>7, <1>9, <1>10, <2>1, <2>2 DEF GovernanceInv, BulletinKept
<1>13. GrantsKept'
  <2>1. RequestGrants(request)'
    BY <1>8, <1>10 DEF RequestGrants
  <2> QED
    BY <1>7, <1>9, <1>10, <2>1 DEF GovernanceInv, GrantsKept, Granted
<1>14. RevocationsKept'
  <2>1. HonouredKept' /\ SettledKept'
    BY <1>7, <1>10 DEF GovernanceInv, RevocationsKept, HonouredKept, SettledKept, RevocationsAreHonoured
  <2>2. \A b \in Admins : admin[b].at # "writing"
    BY <1>3 DEF OneAdministrator
  <2>3. TornAtStart'
    BY <1>7, <2>2 DEF GovernanceInv, RevocationsKept, TornAtStart
  <2>4. RequestRevokes(request)'
    BY <1>1, <1>3, <1>5, <1>7, <1>8 DEF RequestRevokes
  <2> QED
    BY <1>9, <2>1, <2>3, <2>4 DEF RevocationsKept
<1> QED
    BY <1>11, <1>12, <1>13, <1>14 DEF GovernanceInv

LEMMA EntriesAfterTyped ==
    ASSUME NEW list \in Entries, NEW e \in Events, NEW next, next = EntriesAfter(list, e)
    PROVE  /\ next \in Entries
           /\ \A n \in GovernedNodes : next[n] = "active" =>
                 list[n] = "active" \/ (e.operation = "authorize registrar" /\ n = e.node)
           /\ e.operation = "revoke" => next[e.node] # "active"
           /\ e.node \in GovernedNodes
<1>1. e.operation \in Operations /\ e.node \in GovernedNodes
    BY DEF Events
<1>2. CASE e.operation = "authorize registrar"
    BY <1>1, <1>2 DEF EntriesAfter, Entries
<1>3. CASE e.operation = "revoke"
    BY <1>1, <1>3 DEF EntriesAfter, Entries
<1>4. CASE e.operation = "authorize other"
    BY <1>1, <1>4 DEF EntriesAfter, Entries
<1> QED
    BY <1>1, <1>2, <1>3, <1>4 DEF Operations

LEMMA LoadKeeps ==
    ASSUME OneAdministrator, GovernanceInv, NEW a \in Admins, LoadEntries(a)
    PROVE  GovernanceInv'
<1>1. PICK event : event = admin[a].event
    OBVIOUS
<1>2. PICK list : list = SeenEntries
    OBVIOUS
<1>3. PICK next : next = EntriesAfter(list, event)
    OBVIOUS
<1>4. PICK request : request = [at |-> "loaded", event |-> event, entries |-> next]
    OBVIOUS
<1>5. admin[a].at = "published" /\ running /\ event \in Events
    BY <1>1, RequestKinds DEF LoadEntries, GovernanceInv
<1>6. /\ admin' = [admin EXCEPT ![a] = request]
      /\ UNCHANGED <<rows, sealed, export, exporting, authorization, snapshot, running, settled, honoured, accepted>>
    BY <1>1, <1>2, <1>3, <1>4 DEF LoadEntries
<1>7. list \in Entries
    BY <1>2 DEF GovernanceInv, GovernanceTyped, SeenEntries
<1>8. /\ next \in Entries
      /\ \A n \in GovernedNodes : next[n] = "active" =>
            list[n] = "active" \/ (event.operation = "authorize registrar" /\ n = event.node)
      /\ event.operation = "revoke" => next[event.node] # "active"
      /\ event.node \in GovernedNodes
  <2>1. event \in Events
    BY <1>5
  <2> QED
    BY <1>3, <1>7, <2>1, EntriesAfterTyped, Zenon
<1>9. /\ request \in Requests /\ request.at = "loaded" /\ request.event = event /\ request.entries = next
    BY <1>4, <1>5, <1>8 DEF Requests, Filing
<1>10. admin' \in [Admins -> Requests] /\ \A b \in Admins : admin'[b] = request
    BY <1>6, <1>9, OnlyRequest DEF GovernanceInv
<1>11. GovernanceTyped'
    BY <1>5, <1>6, <1>10 DEF GovernanceInv, GovernanceTyped
<1>12. BulletinKept'
  <2>1. Follows(request)'
    BY <1>9 DEF Follows
  <2> QED
    BY <1>6, <1>10, <2>1, SameTable DEF GovernanceInv, BulletinKept
<1>13. GrantsKept'
  <2>1. \A n \in GovernedNodes : list[n] = "active" => Granted(n)
    BY <1>2 DEF GovernanceInv, GrantsKept, SeenEntries
  <2>2. RequestGrants(admin[a]) /\ HasEvent(event.operation, event.node)
    BY <1>1, <1>5 DEF GovernanceInv, GrantsKept, RequestGrants
  <2>3. \A n \in GovernedNodes : next[n] = "active" => Granted(n)
    BY <1>8, <2>1, <2>2 DEF Granted
  <2>4. RequestGrants(request)'
    BY <1>6, <1>9, <2>2, <2>3, SameTable DEF RequestGrants, Granted
  <2> QED
    BY <1>6, <1>10, <2>4, SameTable DEF GovernanceInv, GrantsKept, Granted
<1>14. RevocationsKept'
  <2>1. HonouredKept' /\ SettledKept'
    BY <1>6, SameTable DEF GovernanceInv, RevocationsKept, HonouredKept, SettledKept, RevocationsAreHonoured
  <2>2. \A b \in Admins : admin[b].at # "writing"
    BY <1>5 DEF OneAdministrator
  <2>3. authorization.torn => snapshot = NoEntries
    BY <1>5, <2>2 DEF GovernanceInv, RevocationsKept, TornAtStart
  <2>4. TornAtStart'
    BY <1>6, <2>3 DEF TornAtStart
  <2>5. settled \subseteq GovernedNodes /\ \A n \in settled : list[n] # "active"
    BY <1>2, <2>3 DEF GovernanceInv, GovernanceTyped, RevocationsKept, SettledKept, SeenEntries, NoEntries
  <2>6. event.operation = "authorize registrar" => event.node \notin settled
    BY <1>1, <1>5 DEF GovernanceInv, RevocationsKept, RequestRevokes
  <2>7. \A n \in settled : next[n] # "active"
    BY <1>8, <2>5, <2>6
  <2>8. RequestRevokes(request)'
    BY <1>6, <1>8, <1>9, <2>6, <2>7 DEF RequestRevokes
  <2> QED
    BY <1>10, <2>1, <2>4, <2>8 DEF RevocationsKept
<1> QED
    BY <1>11, <1>12, <1>13, <1>14 DEF GovernanceInv

LEMMA TruncateKeeps ==
    ASSUME OneAdministrator, GovernanceInv, NEW a \in Admins, TruncateEntries(a)
    PROVE  GovernanceInv'
<1>1. PICK request : request = [admin[a] EXCEPT !.at = "writing"]
    OBVIOUS
<1>2. admin[a].at = "loaded" /\ admin[a] \in Filing /\ running
    BY RequestKinds DEF TruncateEntries, GovernanceInv
<1>3. /\ admin' = [admin EXCEPT ![a] = request]
      /\ UNCHANGED <<rows, sealed, export, exporting, snapshot, running, settled, honoured, accepted>>
    BY <1>1 DEF TruncateEntries
<1>4. authorization' \in [value : Entries, torn : BOOLEAN] /\ authorization'.value = authorization.value
    BY DEF TruncateEntries, Truncated, GovernanceInv, GovernanceTyped
<1>5. /\ request \in Requests /\ request.at = "writing"
      /\ request.event = admin[a].event /\ request.entries = admin[a].entries
    BY <1>1, <1>2 DEF Filing, Requests
<1>6. admin' \in [Admins -> Requests] /\ \A b \in Admins : admin'[b] = request
    BY <1>3, <1>5, OnlyRequest DEF GovernanceInv
<1>7. GovernanceTyped'
    BY <1>2, <1>3, <1>4, <1>6 DEF GovernanceInv, GovernanceTyped
<1>8. BulletinKept'
  <2>1. Follows(request)'
    BY <1>5 DEF Follows
  <2> QED
    BY <1>3, <1>6, <2>1, SameTable DEF GovernanceInv, BulletinKept
<1>9. GrantsKept'
  <2>1. RequestGrants(request)'
    BY <1>2, <1>3, <1>5, SameTable DEF GovernanceInv, GrantsKept, RequestGrants, Granted
  <2> QED
    BY <1>3, <1>4, <1>6, <2>1, SameTable DEF GovernanceInv, GrantsKept, Granted
<1>10. RevocationsKept'
  <2>1. HonouredKept' /\ SettledKept'
    BY <1>3, <1>4, SameTable DEF GovernanceInv, RevocationsKept, HonouredKept, SettledKept, RevocationsAreHonoured
  <2>2. TornAtStart'
    BY <1>5, <1>6 DEF TornAtStart
  <2>3. RequestRevokes(admin[a])
    BY DEF GovernanceInv, RevocationsKept
  <2>4. RequestRevokes(request)'
    BY <1>2, <1>3, <1>5, <2>3 DEF RequestRevokes
  <2> QED
    BY <1>6, <2>1, <2>2, <2>4 DEF RevocationsKept
<1> QED
    BY <1>7, <1>8, <1>9, <1>10 DEF GovernanceInv

LEMMA WriteKeeps ==
    ASSUME OneAdministrator, GovernanceInv, NEW a \in Admins, WriteEntries(a)
    PROVE  GovernanceInv'
<1>1. PICK request : request = admin[a]
    OBVIOUS
<1>2. /\ request.at = "writing" /\ request \in Filing /\ running
      /\ request.event \in Events /\ request.entries \in Entries
    BY <1>1, RequestKinds DEF WriteEntries, GovernanceInv, Filing
<1>3. /\ admin' = [admin EXCEPT ![a] = NoRequest]
      /\ UNCHANGED <<rows, sealed, export, exporting, snapshot, running, honoured, accepted>>
      /\ settled' = (IF request.event.operation = "revoke" THEN settled \union {request.event.node} ELSE settled)
    BY <1>1 DEF WriteEntries
<1>4. /\ authorization' = [value |-> request.entries, torn |-> FALSE]
      /\ authorization' \in [value : Entries, torn : BOOLEAN]
      /\ authorization'.value = request.entries /\ ~authorization'.torn
    BY <1>1, <1>2 DEF WriteEntries, File
<1>5. admin' \in [Admins -> Requests] /\ \A b \in Admins : admin'[b] = NoRequest
    BY <1>3, NoRequestSound, OnlyRequest DEF GovernanceInv
<1>6. GovernanceTyped'
  <2>1. request.event.node \in GovernedNodes
    BY <1>2 DEF Events
  <2> QED
    BY <1>2, <1>3, <1>4, <1>5, <2>1 DEF GovernanceInv, GovernanceTyped
<1>7. RequestGrants(request) /\ RequestRevokes(request)
    BY <1>1 DEF GovernanceInv, GrantsKept, RevocationsKept
<1>8. BulletinKept'
    BY <1>3, <1>5, SameTable DEF GovernanceInv, BulletinKept, Follows, NoRequest
<1>9. GrantsKept'
  <2>1. \A b \in Admins : RequestGrants(admin[b])'
    BY <1>5 DEF RequestGrants, NoRequest
  <2> QED
    BY <1>2, <1>3, <1>4, <1>7, <2>1, SameTable DEF GovernanceInv, GrantsKept, RequestGrants, Granted
<1>10. RevocationsKept'
  <2>1. HonouredKept'
    BY <1>3 DEF GovernanceInv, RevocationsKept, HonouredKept, RevocationsAreHonoured
  <2>2. SettledKept'
    <3> SUFFICES ASSUME NEW n \in settled' PROVE authorization'.value[n] # "active" /\ HasEvent("revoke", n)'
      BY DEF SettledKept
    <3>1. CASE n \in settled
      BY <1>2, <1>3, <1>4, <1>7, <3>1, SameTable DEF GovernanceInv, RevocationsKept, SettledKept, RequestRevokes
    <3>2. CASE request.event.operation = "revoke" /\ n = request.event.node
      BY <1>2, <1>3, <1>4, <1>7, <3>2, SameTable DEF RequestGrants, RequestRevokes
    <3> QED
      BY <1>3, <3>1, <3>2
  <2>3. TornAtStart'
    BY <1>4 DEF TornAtStart
  <2>4. \A b \in Admins : RequestRevokes(admin[b])'
    <3> SUFFICES ASSUME NEW b \in Admins PROVE RequestRevokes(admin[b])'
      OBVIOUS
    <3>1. admin'[b].at = "idle"
      BY <1>5 DEF NoRequest
    <3> QED
      BY <3>1 DEF RequestRevokes
  <2> QED
    BY <2>1, <2>2, <2>3, <2>4 DEF RevocationsKept
<1> QED
    BY <1>6, <1>8, <1>9, <1>10 DEF GovernanceInv

----------------------------------------------------------------------------
(* Registrations, the export and restarts *)

LEMMA AcceptKeeps ==
    ASSUME GovernanceInv, NEW n \in GovernedNodes, AcceptRegistrar(n)
    PROVE  GovernanceInv'
<1>1. /\ running /\ SeenEntries[n] = "active" /\ accepted' = accepted \union {n}
      /\ UNCHANGED <<rows, sealed, export, exporting, authorization, snapshot, admin, running, settled, honoured>>
    BY DEF AcceptRegistrar
<1>2. GovernanceTyped'
    BY <1>1 DEF GovernanceInv, GovernanceTyped
<1>3. BulletinKept'
    BY <1>1, SameTable DEF GovernanceInv, BulletinKept, Follows
<1>4. GrantsKept'
  <2>1. \A a \in Admins : RequestGrants(admin[a])'
    BY <1>1, SameTable DEF GovernanceInv, GrantsKept, RequestGrants, Granted
  <2>2. Granted(n)
    BY <1>1 DEF GovernanceInv, GrantsKept, SeenEntries
  <2> QED
    BY <1>1, <2>1, <2>2, SameTable DEF GovernanceInv, GrantsKept, Granted
<1>5. RevocationsKept'
  <2>1. n \notin honoured
    BY <1>1 DEF GovernanceInv, RevocationsKept, HonouredKept, SettledKept, SeenEntries
  <2>2. HonouredKept' /\ SettledKept' /\ TornAtStart'
    BY <1>1, <2>1, SameTable
    DEF GovernanceInv, RevocationsKept, HonouredKept, SettledKept, TornAtStart, RevocationsAreHonoured
  <2>3. \A a \in Admins : RequestRevokes(admin[a])'
    BY <1>1 DEF GovernanceInv, RevocationsKept, RequestRevokes
  <2> QED
    BY <2>2, <2>3 DEF RevocationsKept
<1> QED
    BY <1>2, <1>3, <1>4, <1>5 DEF GovernanceInv

LEMMA ExportKeeps ==
    ASSUME GovernanceInv, ReadBulletinRows \/ TruncateExport \/ WriteExport
    PROVE  GovernanceInv'
<1>1. UNCHANGED <<rows, sealed, authorization, snapshot, admin, running, settled, honoured, accepted>>
    BY DEF ReadBulletinRows, TruncateExport, WriteExport
<1>2. /\ rows \in Seq(Events) /\ export \in [value : Seq(Events), torn : BOOLEAN] /\ Begins(export.value, rows)
      /\ exporting \in {[at |-> "idle"]} \union [at : {"read", "writing"}, rows : Seq(Events)]
      /\ exporting.at # "idle" => Begins(exporting.rows, rows) /\ running
    BY DEF GovernanceInv, GovernanceTyped, BulletinKept
<1>3. /\ export' \in [value : Seq(Events), torn : BOOLEAN] /\ Begins(export'.value, rows)
      /\ exporting' \in {[at |-> "idle"]} \union [at : {"read", "writing"}, rows : Seq(Events)]
      /\ exporting'.at # "idle" => Begins(exporting'.rows, rows)
      /\ running
  <2>1. CASE ReadBulletinRows
    <3>1. Begins(rows, rows)
        BY <1>2, LenProperties DEF Begins
    <3> QED
        BY <1>2, <2>1, <3>1 DEF ReadBulletinRows
  <2>2. CASE TruncateExport
    <3>1. export' = [export EXCEPT !.torn = TRUE] /\ exporting' = [exporting EXCEPT !.at = "writing"]
        BY <2>2 DEF TruncateExport, Truncated
    <3>2. exporting \in [at : {"read", "writing"}, rows : Seq(Events)]
        BY <1>2, <2>2 DEF TruncateExport
    <3>3. /\ export' \in [value : Seq(Events), torn : BOOLEAN] /\ export'.value = export.value
        BY <1>2, <3>1
    <3>4. /\ exporting' \in [at : {"read", "writing"}, rows : Seq(Events)] /\ exporting'.rows = exporting.rows
        BY <3>1, <3>2
    <3>5. exporting.at # "idle"
        BY <2>2 DEF TruncateExport
    <3> QED
        BY <1>2, <3>3, <3>4, <3>5
  <2>3. CASE WriteExport
    BY <1>2, <2>3 DEF WriteExport, File
  <2> QED
    BY <2>1, <2>2, <2>3
<1>4. GovernanceTyped'
    BY <1>1, <1>3 DEF GovernanceInv, GovernanceTyped
<1>5. BulletinKept'
    BY <1>1, <1>3, SameTable DEF GovernanceInv, BulletinKept, Follows
<1>6. GrantsKept'
  <2>1. \A a \in Admins : RequestGrants(admin[a])'
    BY <1>1, SameTable DEF GovernanceInv, GrantsKept, RequestGrants, Granted
  <2> QED
    BY <1>1, <2>1, SameTable DEF GovernanceInv, GrantsKept, Granted
<1>7. RevocationsKept'
  <2>1. HonouredKept' /\ SettledKept' /\ TornAtStart'
    BY <1>1, SameTable DEF GovernanceInv, RevocationsKept, HonouredKept, SettledKept, TornAtStart, RevocationsAreHonoured
  <2>2. \A a \in Admins : RequestRevokes(admin[a])'
    BY <1>1 DEF GovernanceInv, RevocationsKept, RequestRevokes
  <2> QED
    BY <2>1, <2>2 DEF RevocationsKept
<1> QED
    BY <1>4, <1>5, <1>6, <1>7 DEF GovernanceInv

LEMMA StopKeeps ==
    ASSUME GovernanceInv, StopRoot
    PROVE  GovernanceInv'
<1>1. /\ running' = FALSE /\ accepted' = {} /\ exporting' = [at |-> "idle"]
      /\ admin' = [a \in Admins |-> NoRequest]
      /\ UNCHANGED <<rows, sealed, export, authorization, snapshot, settled, honoured>>
    BY DEF StopRoot
<1>2. GovernanceTyped'
    BY <1>1, NoRequestSound DEF GovernanceInv, GovernanceTyped
<1>3. BulletinKept'
    BY <1>1, SameTable DEF GovernanceInv, BulletinKept, Follows, NoRequest
<1>4. GrantsKept'
  <2>1. \A a \in Admins : RequestGrants(admin[a])'
    BY <1>1 DEF RequestGrants, NoRequest
  <2> QED
    BY <1>1, <2>1, SameTable DEF GovernanceInv, GrantsKept, Granted
<1>5. RevocationsKept'
  <2>1. HonouredKept' /\ SettledKept' /\ TornAtStart'
    BY <1>1, SameTable DEF GovernanceInv, RevocationsKept, HonouredKept, SettledKept, TornAtStart, RevocationsAreHonoured
  <2>2. \A a \in Admins : RequestRevokes(admin[a])'
    BY <1>1 DEF RequestRevokes, NoRequest
  <2> QED
    BY <2>1, <2>2 DEF RevocationsKept
<1> QED
    BY <1>2, <1>3, <1>4, <1>5 DEF GovernanceInv

LEMMA MaxOfTwo ==
    ASSUME NEW m \in Nat, NEW n \in Nat, m <= n
    PROVE  Max({n, m}) = n
<1>1. n \in {n, m} /\ \A y \in {n, m} : n >= y
    OBVIOUS
<1>2. \A x \in {n, m} : (\A y \in {n, m} : x >= y) => x = n
    OBVIOUS
<1> QED
    BY <1>1, <1>2 DEF Max

\* The start of Root puts nothing into the table that is not there.
LEMMA BootstrapIsIdle ==
    ASSUME rows \in Seq(Events), export.value \in Seq(Events), Begins(export.value, rows)
    PROVE  BootstrappedRows = rows
<1>1. /\ Len(rows) \in Nat /\ Len(export.value) \in Nat /\ Len(export.value) <= Len(rows)
      /\ rows = [i \in 1..Len(rows) |-> rows[i]]
      /\ \A i \in 1..Len(export.value) : export.value[i] = rows[i]
    BY LenProperties DEF Begins
<1>2. Max({Len(rows), Len(export.value)}) = Len(rows)
    BY <1>1, MaxOfTwo
<1>3. BootstrappedRows =
        [i \in 1..Len(rows) |-> IF i <= Len(export.value) THEN export.value[i] ELSE rows[i]]
    BY <1>2 DEF BootstrappedRows
<1>4. \A i \in 1..Len(rows) : (IF i <= Len(export.value) THEN export.value[i] ELSE rows[i]) = rows[i]
    BY <1>1
<1> QED
    BY <1>1, <1>3, <1>4

LEMMA StartRootKeeps ==
    ASSUME GovernanceInv, StartRoot
    PROVE  GovernanceInv'
<1>1. /\ ~running /\ running' = TRUE /\ honoured' = settled
      /\ snapshot' = IF authorization.torn THEN NoEntries ELSE authorization.value
      /\ UNCHANGED <<sealed, export, exporting, authorization, admin, settled, accepted>>
    BY DEF StartRoot
<1>2. /\ rows \in Seq(Events) /\ export.value \in Seq(Events) /\ Begins(export.value, rows)
      /\ authorization.value \in Entries /\ settled \subseteq GovernedNodes
      /\ accepted = {} /\ \A a \in Admins : admin[a] = NoRequest
    BY <1>1 DEF GovernanceInv, GovernanceTyped, BulletinKept
<1>3. rows' = rows
    BY <1>2, BootstrapIsIdle DEF StartRoot
<1>4. snapshot' \in Entries
    BY <1>1, <1>2 DEF NoEntries, Entries
<1>5. GovernanceTyped'
    BY <1>1, <1>2, <1>3, <1>4 DEF GovernanceInv, GovernanceTyped
<1>6. BulletinKept'
    BY <1>1, <1>2, <1>3, SameTable DEF GovernanceInv, BulletinKept, Follows, NoRequest
<1>7. GrantsKept'
  <2>1. \A a \in Admins : RequestGrants(admin[a])'
    BY <1>1, <1>2 DEF RequestGrants, NoRequest
  <2>2. \A n \in GovernedNodes : snapshot'[n] = "active" => authorization.value[n] = "active"
    BY <1>1 DEF NoEntries
  <2> QED
    BY <1>1, <1>3, <2>1, <2>2, SameTable DEF GovernanceInv, GrantsKept, Granted
<1>8. RevocationsKept'
  <2>1. \A n \in settled : snapshot'[n] # "active"
    BY <1>1, <1>2 DEF NoEntries, GovernanceInv, RevocationsKept, SettledKept
  <2>2. HonouredKept'
    BY <1>1, <1>2, <2>1 DEF HonouredKept, RevocationsAreHonoured
  <2>3. SettledKept'
    BY <1>1, <1>3, SameTable DEF GovernanceInv, RevocationsKept, SettledKept
  <2>4. TornAtStart'
    BY <1>1 DEF TornAtStart, NoEntries
  <2>5. \A a \in Admins : RequestRevokes(admin[a])'
    <3> SUFFICES ASSUME NEW a \in Admins PROVE RequestRevokes(admin[a])'
      OBVIOUS
    <3>1. admin'[a].at = "idle"
      BY <1>1, <1>2 DEF NoRequest
    <3> QED
      BY <3>1 DEF RequestRevokes
  <2> QED
    BY <2>2, <2>3, <2>4, <2>5 DEF RevocationsKept
<1> QED
    BY <1>5, <1>6, <1>7, <1>8 DEF GovernanceInv

LEMMA GovernanceInvNext ==
    ASSUME OneAdministrator, GovernanceInv, [GovernanceNext]_governanceVars
    PROVE  GovernanceInv'
<1>1. CASE UNCHANGED governanceVars
  <2>1. UNCHANGED <<rows, sealed, export, exporting, authorization, snapshot, admin, running,
                    settled, honoured, accepted>>
    BY <1>1 DEF governanceVars
  <2>2. GovernanceTyped' /\ BulletinKept'
    BY <2>1, SameTable DEF GovernanceInv, GovernanceTyped, BulletinKept, Follows
  <2>3. \A a \in Admins : RequestGrants(admin[a])' /\ RequestRevokes(admin[a])'
    BY <2>1, SameTable
    DEF GovernanceInv, GrantsKept, RevocationsKept, RequestGrants, RequestRevokes, Granted
  <2>4. GrantsKept'
    BY <2>1, <2>3, SameTable DEF GovernanceInv, GrantsKept, Granted
  <2>5. RevocationsKept'
    BY <2>1, <2>3, SameTable
    DEF GovernanceInv, RevocationsKept, HonouredKept, SettledKept, TornAtStart, RevocationsAreHonoured
  <2> QED
    BY <2>2, <2>4, <2>5 DEF GovernanceInv
<1>2. CASE GovernanceNext
    BY <1>2, SealKeeps, PersistKeeps, LoadKeeps, TruncateKeeps, WriteKeeps, AcceptKeeps, ExportKeeps,
       StopKeeps, StartRootKeeps DEF GovernanceNext
<1> QED
    BY <1>1, <1>2

LEMMA GovernanceInvariance == ASSUME OneAdministrator PROVE GovernanceSpec => []GovernanceInv
<1>1. GovernanceInv /\ [GovernanceNext]_governanceVars => GovernanceInv'
    BY GovernanceInvNext
<1> QED
    BY <1>1, GovernanceInvInit, PTL DEF GovernanceSpec

LEMMA InvHoldsBulletin == GovernanceInv => BulletinHolds
<1> SUFFICES ASSUME GovernanceInv PROVE BulletinHolds
    OBVIOUS
<1>1. ExportedIsKept
    BY DEF GovernanceInv, BulletinKept, Begins, ExportedIsKept
<1>2. HashChainVerifies(export.value)
  <2> SUFFICES ASSUME NEW i \in 1..Len(export.value)
               PROVE  export.value[i].previous = IF i = 1 THEN 0 ELSE export.value[i - 1].hash
    BY DEF HashChainVerifies
  <2>1. Len(rows) \in Nat /\ Len(export.value) \in Nat
    BY LenProperties DEF GovernanceInv, GovernanceTyped
  <2>2. i \in 1..Len(rows) /\ rows[i] = export.value[i]
        /\ (i # 1 => i - 1 \in 1..Len(export.value) /\ rows[i - 1] = export.value[i - 1])
    BY <1>1, <2>1 DEF ExportedIsKept
  <2>3. rows[i].previous = IF i = 1 THEN 0 ELSE rows[i - 1].hash
    BY <2>2 DEF GovernanceInv, BulletinKept, HashChainVerifies
  <2> QED
    BY <2>2, <2>3
<1>3. GrantsHaveEvents
    BY DEF GovernanceInv, GrantsKept, Granted, HasEvent, GrantsHaveEvents
<1> QED
    BY <1>1, <1>2, <1>3 DEF GovernanceInv, BulletinKept, BulletinHolds, BulletinVerifies

LEMMA InvShowsRevocations == GovernanceInv => RevocationsHold
<1> SUFFICES ASSUME GovernanceInv PROVE RevocationsHold
    OBVIOUS
<1>1. RevocationsAreHonoured
    BY DEF GovernanceInv, RevocationsKept, HonouredKept
<1>2. RevokedIsShown
  <2> SUFFICES ASSUME NEW n \in settled, running
               PROVE  /\ latest_node_status(n) = "revoked"
                      /\ ~authorization.torn => [did |-> n, status |-> "active"] \notin api_registrars
                      /\ \E item \in RegistrarRootAuthorization(n).authorization : item.operation = "revoke"
                      /\ DiscoveryRootAuthorization(n).status = "active"
    BY DEF RevokedIsShown
  <2>1. /\ authorization.value[n] # "active" /\ HasEvent("revoke", n)
        /\ rows \in Seq(Events)
    BY DEF GovernanceInv, GovernanceTyped, RevocationsKept, SettledKept
  <2>2. PICK i \in DOMAIN rows : rows[i].operation = "revoke" /\ rows[i].node = n
    BY <2>1 DEF HasEvent
  <2>3. latest_node_status(n) = "revoked"
    BY <2>2 DEF latest_node_status, EventsOf
  <2>4. ~authorization.torn => [did |-> n, status |-> "active"] \notin api_registrars
    BY <2>1 DEF api_registrars, SeenEntries
  <2>5. \E item \in RegistrarRootAuthorization(n).authorization : item.operation = "revoke"
    <3>1. RegistrarRootAuthorization(n).authorization = api_registrar_detail(n)
      BY DEF RegistrarRootAuthorization
    <3>2. i \in EventsOf(n)
      BY <2>2 DEF EventsOf
    <3>3. [sequence |-> i, operation |-> rows[i].operation] \in api_registrar_detail(n)
      BY <3>2 DEF api_registrar_detail
    <3> QED
      BY <2>2, <3>1, <3>3
  <2>6. \A j \in DOMAIN rows : rows[j].operation # "revoke discovery"
    <3> SUFFICES ASSUME NEW j \in DOMAIN rows PROVE rows[j].operation # "revoke discovery"
      OBVIOUS
    <3>1. rows[j] \in Events
      BY <2>1, ElementOfSeq, LenProperties
    <3> QED
      BY <3>1 DEF Events, Operations
  <2>7. DiscoveryRootAuthorization(n).status = "active"
    BY <2>6 DEF DiscoveryRootAuthorization, discovery_authorization_status, fetch_bulletin
  <2> QED
    BY <2>3, <2>4, <2>5, <2>7
<1> QED
    BY <1>1, <1>2 DEF RevocationsHold

\* As long as governance requests come one after the other, the bulletin of the
\* reference Root verifies in the table and in the exported file, what was
\* exported is never replaced, and nobody may register Agents without an event
\* that says so, for any number of nodes, events and restarts (append_event,
\* the export loop, and the start that fills the table from the export).
THEOREM BulletinOfOneAdministrator == ASSUME OneAdministrator PROVE GovernanceSpec => []BulletinHolds
BY GovernanceInvariance, InvHoldsBulletin, PTL

\* And a revocation that was answered holds: Root, started again after it, does
\* not accept the Registrar, whether the authorization file was left truncated
\* or not, and the views of Root and the Registrar show it.
THEOREM RevocationsOfOneAdministrator == ASSUME OneAdministrator PROVE GovernanceSpec => []RevocationsHold
BY GovernanceInvariance, InvShowsRevocations, PTL

----------------------------------------------------------------------------
(* The Root without SQLite *)

\* The packages and the entries of the index.
FilePackages == [did : FileAgents, version : 1..MaxFiled, document : FileDocuments]
IndexEntries == {NotFiled} \cup [version : 1..MaxFiled, document : FileDocuments]
PostingTasks == [package : FilePackages, at : {"post", "mark", "marking"}, seen : SUBSET FilePackages]

OnePerAgent(queue) == \A one, other \in queue : one.did = other.did => one = other

\* No version is above the number of registrations begun.
Within(index, n) == index \in [FileAgents -> IndexEntries] /\ \A a \in FileAgents : index[a].version <= n

FilingHolds(f, n) ==
    /\ f.at \in {"idle", "index", "indexing", "queue", "enqueuing", "archive"}
    /\ f.at = "idle" => f = NotFiling
    /\ f.at # "idle" => f.package \in FilePackages /\ f.package.version <= n
    /\ f.at = "indexing" => Within(f.seen, n)
    /\ f.at = "enqueuing" => f.seen \subseteq FilePackages /\ OnePerAgent(f.seen)

FilesTypeOK ==
    /\ filed \in 0..MaxFiled /\ Within(latest, filed)
    /\ queued \subseteq FilePackages /\ OnePerAgent(queued)
    /\ answers \subseteq FilePackages
    /\ archived \in [FileAgents -> [1..MaxFiled -> FileDocuments \cup {"none"}]]
    /\ DOMAIN filing = FileTasks /\ \A t \in FileTasks : FilingHolds(filing[t], filed)
    /\ posting \in [FileTasks -> SUBSET PostingTasks]
    /\ \A t \in FileTasks : \A task \in posting[t] : OnePerAgent(task.seen)
    /\ cdnHas \in [FileAgents -> 0..MaxFiled]

\* An entry of the index that names a package, and one that it comes after.
Names(entry, package) == entry.version = package.version /\ entry.document = package.document
ComesAfter(package, entry) == Names(entry, package) \/ package.version = entry.version + 1

\* Registrations that did not overlap on the index, nor were cut short there.
IndexHolds ==
    /\ \A t, u \in FileTasks :
          filing[t].at # "idle" /\ filing[u].at # "idle" /\ filing[t].package.did = filing[u].package.did => t = u
    /\ \A t \in FileTasks : filing[t].at = "indexing" => "latest" \in torn /\ filing[t].seen = latest
    /\ \A t, u \in FileTasks : filing[t].at = "indexing" /\ filing[u].at = "indexing" => t = u
    /\ \A t \in FileTasks : filing[t].at \in {"index", "indexing"} =>
          ComesAfter(filing[t].package, latest[filing[t].package.did])
    /\ \A t \in FileTasks : filing[t].at \in {"queue", "enqueuing", "archive"} =>
          Names(latest[filing[t].package.did], filing[t].package)
    /\ \A one \in answers :
          /\ one.version <= latest[one.did].version
          /\ one.version = latest[one.did].version => Names(latest[one.did], one)
          /\ archived[one.did][one.version] = one.document

\* Changes of the queue that did not overlap, nor were cut short.
QueueHolds ==
    /\ \A t \in FileTasks : filing[t].at = "enqueuing" => "queue" \in torn /\ filing[t].seen = queued
    /\ \A t \in FileTasks : \A task \in posting[t] :
          task.at = "marking" => "queue" \in torn /\ task.seen = queued
    /\ \A t, u \in FileTasks : filing[t].at = "enqueuing" /\ filing[u].at = "enqueuing" => t = u
    /\ \A t, u \in FileTasks : \A task \in posting[t], other \in posting[u] :
          task.at = "marking" /\ other.at = "marking" => t = u /\ task = other
    /\ \A t, u \in FileTasks : \A task \in posting[u] :
          ~(filing[t].at = "enqueuing" /\ task.at = "marking")

\* What was answered, or only has to be archived before it is.
Due == answers \cup {filing[t].package : t \in {u \in FileTasks : filing[u].at = "archive"}}

\* Nothing is ahead of the index, and nothing due is ahead of the queue.
OrderHolds ==
    /\ \A a \in FileAgents : cdnHas[a] <= latest[a].version
    /\ \A waiting \in queued :
          /\ waiting.version <= latest[waiting.did].version
          /\ cdnHas[waiting.did] <= waiting.version
          /\ \A one \in Due : one.did = waiting.did => one.version <= waiting.version
          /\ \A t \in FileTasks : \A task \in posting[t] :
                task.package.did = waiting.did => task.package.version <= waiting.version
    /\ \A t \in FileTasks : \A task \in posting[t] :
          task.package.version <= latest[task.package.did].version

\* While nothing was queued under a cycle that carried the Agent, the cycle carries
\* what is due, and what was posted has reached the CDN.
AgentHolds(a) ==
    /\ \A one \in Due : one.did = a =>
          one.version <= cdnHas[a] \/ \E waiting \in queued : waiting.did = a
    /\ \A t \in FileTasks : \A task \in posting[t] : \A one \in Due :
          task.package.did = a /\ one.did = a =>
             /\ one.version <= task.package.version
             /\ task.at # "post" => one.version <= cdnHas[a]

\* Cycles that did not overlap.
CyclesHold ==
    /\ \A t, u \in FileTasks : posting[t] # {} /\ posting[u] # {} => t = u
    /\ \A t \in FileTasks : \A task, other \in posting[t] : task.package.did = other.package.did => task = other
    /\ \A t \in FileTasks : \A task \in posting[t] :
          task.at = "post" => cdnHas[task.package.did] <= task.package.version

FilesInv ==
    /\ FilesTypeOK
    /\ "latest" \notin disturbed => IndexHolds
    /\ "queue" \notin disturbed => QueueHolds
    /\ {"latest", "queue"} \cap disturbed = {} =>
          /\ OrderHolds
          /\ \A a \in FileAgents : a \notin disturbed => AgentHolds(a)
          /\ "cycles" \notin disturbed => CyclesHold

LEMMA FilesInvInit == FilesInit => FilesInv
<1> SUFFICES ASSUME FilesInit PROVE FilesInv
    OBVIOUS
<1> USE FilesAssumption DEF FilesInit
<1>1. \A t \in FileTasks : filing[t] = NotFiling /\ filing[t].at = "idle" /\ posting[t] = {}
    BY DEF NotFiling
<1>2. Due = {}
    BY <1>1 DEF Due
<1>3. FilesTypeOK
  <2>1. Within(latest, filed) /\ cdnHas \in [FileAgents -> 0..MaxFiled]
      BY DEF Within, IndexEntries, NotFiled
  <2>2. \A t \in FileTasks : FilingHolds(filing[t], filed)
      BY <1>1 DEF FilingHolds
  <2>3. archived \in [FileAgents -> [1..MaxFiled -> FileDocuments \cup {"none"}]]
      OBVIOUS
  <2>4. posting \in [FileTasks -> SUBSET PostingTasks]
      OBVIOUS
  <2> QED
      BY <1>1, <2>1, <2>2, <2>3, <2>4 DEF FilesTypeOK, OnePerAgent
<1>4. IndexHolds
    BY <1>1 DEF IndexHolds
<1>5. QueueHolds
    BY <1>1 DEF QueueHolds
<1>6. OrderHolds
    BY <1>1, <1>2 DEF OrderHolds, NotFiled
<1>7. \A a \in FileAgents : AgentHolds(a)
    BY <1>1, <1>2 DEF AgentHolds
<1>8. CyclesHold
    BY <1>1 DEF CyclesHold
<1> QED
    BY <1>3, <1>4, <1>5, <1>6, <1>7, <1>8 DEF FilesInv

----------------------------------------------------------------------------
(* What a step leaves as it was *)

LEMMA WithinGrows ==
    ASSUME NEW index, NEW n \in Nat, NEW m \in Nat, n <= m, Within(index, n)
    PROVE  Within(index, m)
<1>1. index \in [FileAgents -> IndexEntries] /\ \A a \in FileAgents : index[a].version <= n
    BY DEF Within
<1>2. \A a \in FileAgents : index[a].version \in Nat
    BY <1>1, FilesAssumption DEF IndexEntries, NotFiled
<1> QED
    BY <1>1, <1>2 DEF Within

LEMMA FilingGrows ==
    ASSUME NEW f, NEW n \in Nat, NEW m \in Nat, n <= m, FilingHolds(f, n)
    PROVE  FilingHolds(f, m)
<1> USE FilesAssumption
<1>1. f.at = "indexing" => Within(f.seen, m)
    BY WithinGrows DEF FilingHolds
<1>2. f.at # "idle" => f.package \in FilePackages /\ f.package.version <= m
  <2> SUFFICES ASSUME f.at # "idle" PROVE f.package \in FilePackages /\ f.package.version <= m
      OBVIOUS
  <2>1. f.package \in FilePackages /\ f.package.version <= n
      BY DEF FilingHolds
  <2>2. f.package.version \in Nat
      BY <2>1 DEF FilePackages
  <2> QED
      BY <2>1, <2>2
<1> QED
    BY <1>1, <1>2 DEF FilingHolds

\* A registration that is over, or as it was, or further on with the index written.
SameFiling(g, f) ==
    \/ g.at = "idle" \/ g = f
    \/ g.package = f.package /\ {f.at, g.at} \subseteq {"queue", "enqueuing", "archive"}

LEMMA IndexKept ==
    ASSUME IndexHolds, UNCHANGED <<latest, answers, archived>>, "latest" \in torn => "latest" \in torn',
           \A t \in FileTasks : SameFiling(filing'[t], filing[t])
    PROVE  IndexHolds'
<1>1. \A t \in FileTasks : filing'[t].at # "idle" =>
          filing[t].at # "idle" /\ filing'[t].package = filing[t].package
    BY DEF SameFiling
<1>2. \A t \in FileTasks : filing'[t].at \in {"index", "indexing"} => filing'[t] = filing[t]
    BY DEF SameFiling
<1>3. \A t \in FileTasks : filing'[t].at \in {"queue", "enqueuing", "archive"} =>
          filing[t].at \in {"queue", "enqueuing", "archive"} /\ filing'[t].package = filing[t].package
    BY DEF SameFiling
<1>4. (\A t, u \in FileTasks :
          filing[t].at # "idle" /\ filing[u].at # "idle" /\ filing[t].package.did = filing[u].package.did => t = u)'
    BY <1>1 DEF IndexHolds
<1>5. (\A t \in FileTasks : filing[t].at = "indexing" => "latest" \in torn /\ filing[t].seen = latest)'
    BY <1>2 DEF IndexHolds
<1>6. (\A t, u \in FileTasks : filing[t].at = "indexing" /\ filing[u].at = "indexing" => t = u)'
    BY <1>2 DEF IndexHolds
<1>7. (\A t \in FileTasks : filing[t].at \in {"index", "indexing"} =>
          ComesAfter(filing[t].package, latest[filing[t].package.did]))'
    BY <1>2 DEF IndexHolds, ComesAfter, Names
<1>8. (\A t \in FileTasks : filing[t].at \in {"queue", "enqueuing", "archive"} =>
          Names(latest[filing[t].package.did], filing[t].package))'
    BY <1>3 DEF IndexHolds, Names
<1>9. (\A one \in answers :
          /\ one.version <= latest[one.did].version
          /\ one.version = latest[one.did].version => Names(latest[one.did], one)
          /\ archived[one.did][one.version] = one.document)'
    BY DEF IndexHolds, Names
<1> QED
    BY <1>4, <1>5, <1>6, <1>7, <1>8, <1>9 DEF IndexHolds

LEMMA QueueKept ==
    ASSUME QueueHolds, queued' = queued, "queue" \in torn => "queue" \in torn',
           \A t \in FileTasks : filing'[t].at = "enqueuing" => filing'[t] = filing[t],
           \A t \in FileTasks : \A task \in posting'[t] : task.at = "marking" => task \in posting[t]
    PROVE  QueueHolds'
<1>1. (\A t \in FileTasks : filing[t].at = "enqueuing" => "queue" \in torn /\ filing[t].seen = queued)'
    BY DEF QueueHolds
<1>2. (\A t \in FileTasks : \A task \in posting[t] :
          task.at = "marking" => "queue" \in torn /\ task.seen = queued)'
    BY DEF QueueHolds
<1>3. (\A t, u \in FileTasks : filing[t].at = "enqueuing" /\ filing[u].at = "enqueuing" => t = u)'
    BY DEF QueueHolds
<1>4. (\A t, u \in FileTasks : \A task \in posting[t], other \in posting[u] :
          task.at = "marking" /\ other.at = "marking" => t = u /\ task = other)'
    BY DEF QueueHolds
<1>5. (\A t, u \in FileTasks : \A task \in posting[u] :
          ~(filing[t].at = "enqueuing" /\ task.at = "marking"))'
    BY DEF QueueHolds
<1> QED
    BY <1>1, <1>2, <1>3, <1>4, <1>5 DEF QueueHolds

\* Every task was one before, at the same package.
FromBefore ==
    \A t \in FileTasks : \A task \in posting'[t] : \E other \in posting[t] :
        other.package = task.package /\ (task.at # "post" => other.at # "post")

LEMMA OrderKept ==
    ASSUME FilesTypeOK, FilesTypeOK', OrderHolds, cdnHas' = cdnHas, queued' \subseteq queued, Due' \subseteq Due,
           FromBefore, \A a \in FileAgents : latest[a].version <= latest'[a].version
    PROVE  OrderHolds'
<1>1. \A a \in FileAgents : cdnHas[a] \in Nat /\ latest[a].version \in Nat /\ latest'[a].version \in Nat
    BY FilesAssumption DEF FilesTypeOK, Within, IndexEntries, NotFiled
<1>2. \A waiting \in queued : waiting.version \in Nat /\ waiting.did \in FileAgents
    BY FilesAssumption DEF FilesTypeOK, FilePackages
<1>3. \A t \in FileTasks : \A task \in posting[t] :
          task.package.version \in Nat /\ task.package.did \in FileAgents
    BY FilesAssumption DEF FilesTypeOK, FilePackages, PostingTasks
<1>4. (\A a \in FileAgents : cdnHas[a] <= latest[a].version)'
    BY <1>1 DEF OrderHolds
<1>5. ASSUME NEW waiting \in queued'
      PROVE  /\ waiting.version <= latest'[waiting.did].version
             /\ cdnHas'[waiting.did] <= waiting.version
             /\ \A one \in Due' : one.did = waiting.did => one.version <= waiting.version
             /\ \A t \in FileTasks : \A task \in posting'[t] :
                   task.package.did = waiting.did => task.package.version <= waiting.version
    BY <1>1, <1>2 DEF OrderHolds, FromBefore
<1>6. ASSUME NEW t \in FileTasks, NEW task \in posting'[t]
      PROVE  task.package.version <= latest'[task.package.did].version
    BY <1>1, <1>3 DEF OrderHolds, FromBefore
<1> QED
    BY <1>4, <1>5, <1>6 DEF OrderHolds

LEMMA AgentKept ==
    ASSUME NEW a \in FileAgents, AgentHolds(a), cdnHas' = cdnHas, queued \subseteq queued', Due' \subseteq Due,
           FromBefore
    PROVE  AgentHolds(a)'
<1>1. (\A one \in Due : one.did = a =>
          one.version <= cdnHas[a] \/ \E waiting \in queued : waiting.did = a)'
    BY DEF AgentHolds
<1>2. (\A t \in FileTasks : \A task \in posting[t] : \A one \in Due :
          task.package.did = a /\ one.did = a =>
             /\ one.version <= task.package.version
             /\ task.at # "post" => one.version <= cdnHas[a])'
    BY DEF AgentHolds, FromBefore
<1> QED
    BY <1>1, <1>2 DEF AgentHolds

LEMMA CyclesKept ==
    ASSUME CyclesHold, cdnHas' = cdnHas, \A t \in FileTasks : posting'[t] \subseteq posting[t]
    PROVE  CyclesHold'
    BY DEF CyclesHold

LEMMA RestKept ==
    ASSUME FilesInv, FilesTypeOK', disturbed \subseteq disturbed', UNCHANGED <<cdnHas, queued>>, Due' \subseteq Due,
           \A t \in FileTasks : posting'[t] \subseteq posting[t],
           "latest" \notin disturbed' =>
              IndexHolds' /\ \A a \in FileAgents : latest[a].version <= latest'[a].version,
           "queue" \notin disturbed' => QueueHolds'
    PROVE  FilesInv'
<1>1. FromBefore
    BY DEF FromBefore
<1>2. ASSUME {"latest", "queue"} \cap disturbed' = {}
      PROVE  /\ OrderHolds'
             /\ \A a \in FileAgents : a \notin disturbed' => AgentHolds(a)'
             /\ "cycles" \notin disturbed' => CyclesHold'
  <2>1. {"latest", "queue"} \cap disturbed = {}
      BY <1>2
  <2>2. OrderHolds'
    <3>1. OrderHolds /\ FilesTypeOK
        BY <2>1 DEF FilesInv
    <3> QED
        BY <1>1, <1>2, <3>1, OrderKept
  <2>3. ASSUME NEW a \in FileAgents, a \notin disturbed' PROVE AgentHolds(a)'
    <3>1. AgentHolds(a)
        BY <2>1, <2>3 DEF FilesInv
    <3> QED
        BY <1>1, <3>1, AgentKept
  <2>4. ASSUME "cycles" \notin disturbed' PROVE CyclesHold'
    <3>1. CyclesHold
        BY <2>1, <2>4 DEF FilesInv
    <3> QED
        BY <3>1, CyclesKept
  <2> QED
      BY <2>2, <2>3, <2>4
<1> QED
    BY <1>2 DEF FilesInv

\* A step of one registration.
LEMMA NewFiling ==
    ASSUME FilesTypeOK, NEW t \in FileTasks, NEW g, filing' = [filing EXCEPT ![t] = g],
           filed' \in 0..MaxFiled, filed <= filed', FilingHolds(g, filed')
    PROVE  /\ DOMAIN filing' = FileTasks /\ filing'[t] = g
           /\ \A u \in FileTasks : u # t => filing'[u] = filing[u]
           /\ (\A u \in FileTasks : FilingHolds(filing[u], filed))'
<1>1. DOMAIN filing = FileTasks /\ filed \in Nat /\ filed' \in Nat
    BY FilesAssumption DEF FilesTypeOK
<1>2. filing'[t] = g /\ \A u \in FileTasks : u # t => filing'[u] = filing[u]
    BY <1>1
<1>3. ASSUME NEW u \in FileTasks PROVE FilingHolds(filing'[u], filed')
  <2>1. FilingHolds(filing[u], filed)
      BY DEF FilesTypeOK
  <2>2. FilingHolds(filing[u], filed')
      BY <1>1, <2>1, FilingGrows
  <2> QED
      BY <1>2, <2>2
<1>4. (\A u \in FileTasks : FilingHolds(filing[u], filed))'
    BY <1>3 DEF FilingHolds
<1> QED
    BY <1>1, <1>2, <1>4

LEMMA NothingMoreDue ==
    ASSUME NEW t \in FileTasks, \A u \in FileTasks : u # t => filing'[u] = filing[u],
           filing'[t].at # "archive", answers' = answers
    PROVE  Due' \subseteq Due
    BY DEF Due

LEMMA SeenIndex ==
    ASSUME FilesTypeOK
    PROVE  Within(LatestSeen, filed) /\ Within(latest, filed)
    BY FilesAssumption DEF FilesTypeOK, LatestSeen, Within, IndexEntries, NotFiled

LEMMA LoadLatestStep ==
    ASSUME FilesInv, NEW t \in FileTasks, NEW a \in FileAgents, NEW d \in FileDocuments, LoadLatest(t, a, d)
    PROVE  FilesInv'
<1>1. PICK seen : seen = LatestSeen[a]
    OBVIOUS
<1>2. PICK new : new = [did |-> a, version |-> NextVersionOf(seen, d), document |-> d]
    OBVIOUS
<1>3. /\ filing[t] = NotFiling /\ filed < MaxFiled /\ filed' = filed + 1
      /\ filing' = [filing EXCEPT ![t] = [at |-> "index", package |-> new]]
      /\ disturbed' = disturbed \cup Disturbs("latest")
            \cup (IF \E u \in FileTasks : filing[u] # NotFiling /\ filing[u].package.did = a
                  THEN {"latest"} ELSE {})
      /\ UNCHANGED <<latest, queued, archived, torn, posting, cdnHas, fileFaults, answers>>
    BY <1>1, <1>2 DEF LoadLatest
<1>4. FilesTypeOK /\ filed \in Nat /\ MaxFiled \in Nat /\ filed' \in 0..MaxFiled /\ filed <= filed'
    BY <1>3, FilesAssumption DEF FilesInv, FilesTypeOK
<1>5. seen \in IndexEntries /\ seen.version <= filed /\ seen.version \in Nat
  <2>1. seen \in IndexEntries /\ seen.version <= filed
      BY <1>1, <1>4, SeenIndex DEF Within
  <2> QED
      BY <2>1 DEF IndexEntries, NotFiled
<1>6. new \in FilePackages /\ new.version <= filed'
  <2>1. d # "none"
      BY FilesAssumption
  <2>2. NextVersionOf(seen, d) \in 1..MaxFiled /\ NextVersionOf(seen, d) <= filed + 1
    <3>1. CASE d = seen.document
      <4>1. seen # NotFiled
          BY <2>1, <3>1 DEF NotFiled
      <4>2. seen.version \in 1..MaxFiled
          BY <1>5, <4>1 DEF IndexEntries
      <4> QED
          BY <1>3, <1>4, <1>5, <3>1, <4>2 DEF NextVersionOf
    <3>2. CASE d # seen.document
        BY <1>3, <1>4, <1>5, <3>2 DEF NextVersionOf
    <3> QED
        BY <3>1, <3>2
  <2> QED
      BY <1>2, <1>3, <2>2 DEF FilePackages
<1>7. PICK g : g = [at |-> "index", package |-> new]
    OBVIOUS
<1>8. FilingHolds(g, filed')
    BY <1>6, <1>7 DEF FilingHolds
<1>9. /\ DOMAIN filing' = FileTasks /\ filing'[t] = g /\ \A u \in FileTasks : u # t => filing'[u] = filing[u]
      /\ (\A u \in FileTasks : FilingHolds(filing[u], filed))'
    BY <1>3, <1>4, <1>7, <1>8, NewFiling
<1>10. FilesTypeOK'
  <2>1. Within(latest, filed')
      BY <1>4, WithinGrows DEF FilesTypeOK
  <2>2. Within(latest, filed)'
      BY <1>3, <2>1 DEF Within
  <2> QED
      BY <1>3, <1>4, <1>9, <2>2 DEF FilesTypeOK
<1>11. Due' \subseteq Due
    BY <1>3, <1>7, <1>9, NothingMoreDue
<1>12. ASSUME "latest" \notin disturbed' PROVE IndexHolds'
  <2>1. "latest" \notin disturbed /\ IndexHolds
      BY <1>3, <1>12 DEF FilesInv
  <2>2. "latest" \notin torn
      BY <1>3, <1>12 DEF Disturbs
  <2>3. \A u \in FileTasks : filing[u].at # "idle" => filing[u].package.did # a
      BY <1>3, <1>12 DEF NotFiling
  <2>4. ComesAfter(new, latest[a])
    <3>1. seen = latest[a]
        BY <1>1, <2>2 DEF LatestSeen
    <3> QED
        BY <1>2, <1>5, <3>1 DEF ComesAfter, Names, NextVersionOf
  <2>5. filing'[t].at = "index" /\ filing'[t].package = new /\ new.did = a
      BY <1>2, <1>7, <1>9
  <2>6. (\A v, u \in FileTasks :
            filing[v].at # "idle" /\ filing[u].at # "idle" /\ filing[v].package.did = filing[u].package.did => v = u)'
      BY <1>9, <2>1, <2>3, <2>5 DEF IndexHolds
  <2>7. (\A u \in FileTasks : filing[u].at = "indexing" => "latest" \in torn /\ filing[u].seen = latest)'
      BY <1>3, <1>9, <2>1, <2>5 DEF IndexHolds
  <2>8. (\A v, u \in FileTasks : filing[v].at = "indexing" /\ filing[u].at = "indexing" => v = u)'
      BY <1>9, <2>1, <2>5 DEF IndexHolds
  <2>9. (\A u \in FileTasks : filing[u].at \in {"index", "indexing"} =>
            ComesAfter(filing[u].package, latest[filing[u].package.did]))'
      BY <1>3, <1>9, <2>1, <2>4, <2>5 DEF IndexHolds, ComesAfter, Names
  <2>10. (\A u \in FileTasks : filing[u].at \in {"queue", "enqueuing", "archive"} =>
            Names(latest[filing[u].package.did], filing[u].package))'
      BY <1>3, <1>9, <2>1, <2>5 DEF IndexHolds, Names
  <2>11. (\A one \in answers :
            /\ one.version <= latest[one.did].version
            /\ one.version = latest[one.did].version => Names(latest[one.did], one)
            /\ archived[one.did][one.version] = one.document)'
      BY <1>3, <2>1 DEF IndexHolds, Names
  <2> QED
      BY <2>6, <2>7, <2>8, <2>9, <2>10, <2>11 DEF IndexHolds
<1>13. ASSUME "queue" \notin disturbed' PROVE QueueHolds'
  <2>1. QueueHolds
      BY <1>3, <1>13 DEF FilesInv
  <2>2. filing'[t].at # "enqueuing"
      BY <1>7, <1>9
  <2> QED
      BY <1>3, <1>9, <2>1, <2>2, QueueKept
<1>14. \A b \in FileAgents : latest[b].version <= latest'[b].version
    BY <1>3, <1>10, SeenIndex DEF FilesTypeOK, Within, IndexEntries, NotFiled
<1>15. \A u \in FileTasks : posting'[u] \subseteq posting[u]
    BY <1>3
<1> QED
    BY <1>3, <1>10, <1>11, <1>12, <1>13, <1>14, <1>15, RestKept

LEMMA BeginIndexStep ==
    ASSUME FilesInv, NEW t \in FileTasks, BeginIndex(t)
    PROVE  FilesInv'
<1>1. PICK new : new = filing[t].package
    OBVIOUS
<1>2. PICK seen : seen = LatestSeen
    OBVIOUS
<1>3. PICK g : g = [at |-> "indexing", package |-> new, seen |-> seen]
    OBVIOUS
<1>4. FilesTypeOK /\ DOMAIN filing = FileTasks /\ FilingHolds(filing[t], filed) /\ filing[t].at = "index"
    BY DEF FilesInv, FilesTypeOK, BeginIndex
<1>5. /\ filing' = [filing EXCEPT ![t] = g]
      /\ torn' = torn \cup {"latest"} /\ disturbed' = disturbed \cup Disturbs("latest")
      /\ UNCHANGED <<latest, queued, archived, posting, cdnHas, filed, fileFaults, answers>>
    BY <1>1, <1>2, <1>3, <1>4 DEF BeginIndex
<1>6. FilingHolds(g, filed) /\ filed' = filed /\ filed \in Nat /\ filed \in 0..MaxFiled
    BY <1>1, <1>2, <1>3, <1>4, <1>5, FilesAssumption, SeenIndex DEF FilingHolds, FilesTypeOK
<1>7. /\ DOMAIN filing' = FileTasks /\ filing'[t] = g /\ \A u \in FileTasks : u # t => filing'[u] = filing[u]
      /\ (\A u \in FileTasks : FilingHolds(filing[u], filed))'
  <2>1. filed' \in 0..MaxFiled /\ filed <= filed' /\ FilingHolds(g, filed')
      BY <1>6
  <2> QED
      BY <1>4, <1>5, <2>1, NewFiling
<1>8. FilesTypeOK'
  <2>1. Within(latest, filed)'
      BY <1>4, <1>5 DEF FilesTypeOK, Within
  <2> QED
      BY <1>4, <1>5, <1>7, <2>1 DEF FilesTypeOK
<1>9. Due' \subseteq Due
    BY <1>3, <1>5, <1>7, NothingMoreDue
<1>10. ASSUME "latest" \notin disturbed' PROVE IndexHolds'
  <2>1. "latest" \notin disturbed /\ IndexHolds
      BY <1>5, <1>10 DEF FilesInv
  <2>2. "latest" \notin torn /\ "latest" \in torn'
      BY <1>5, <1>10 DEF Disturbs
  <2>3. \A u \in FileTasks : filing[u].at # "indexing"
      BY <2>1, <2>2 DEF IndexHolds
  <2>4. filing'[t].at = "indexing" /\ filing'[t].package = new /\ filing'[t].seen = latest
      BY <1>2, <1>3, <1>7, <2>2 DEF LatestSeen
  <2>5. (\A v, u \in FileTasks :
            filing[v].at # "idle" /\ filing[u].at # "idle" /\ filing[v].package.did = filing[u].package.did => v = u)'
    <3>1. \A u \in FileTasks : filing'[u].package = filing[u].package
        BY <1>1, <1>7, <2>4
    <3>2. \A u \in FileTasks : filing'[u].at # "idle" => filing[u].at # "idle"
        BY <1>4, <1>7
    <3> QED
        BY <2>1, <3>1, <3>2 DEF IndexHolds
  <2>6. (\A u \in FileTasks : filing[u].at = "indexing" => "latest" \in torn /\ filing[u].seen = latest)'
      BY <1>5, <1>7, <2>2, <2>3, <2>4
  <2>7. (\A v, u \in FileTasks : filing[v].at = "indexing" /\ filing[u].at = "indexing" => v = u)'
      BY <1>7, <2>3
  <2>8. (\A u \in FileTasks : filing[u].at \in {"index", "indexing"} =>
            ComesAfter(filing[u].package, latest[filing[u].package.did]))'
      BY <1>1, <1>4, <1>5, <1>7, <2>1, <2>4 DEF IndexHolds, ComesAfter, Names
  <2>9. (\A u \in FileTasks : filing[u].at \in {"queue", "enqueuing", "archive"} =>
            Names(latest[filing[u].package.did], filing[u].package))'
      BY <1>5, <1>7, <2>1, <2>4 DEF IndexHolds, Names
  <2>10. (\A one \in answers :
            /\ one.version <= latest[one.did].version
            /\ one.version = latest[one.did].version => Names(latest[one.did], one)
            /\ archived[one.did][one.version] = one.document)'
      BY <1>5, <2>1 DEF IndexHolds, Names
  <2> QED
      BY <2>5, <2>6, <2>7, <2>8, <2>9, <2>10 DEF IndexHolds
<1>11. ASSUME "queue" \notin disturbed' PROVE QueueHolds'
  <2>1. QueueHolds
      BY <1>5, <1>11 DEF FilesInv
  <2>2. filing'[t].at # "enqueuing" /\ ("queue" \in torn => "queue" \in torn')
      BY <1>3, <1>5, <1>7
  <2> QED
      BY <1>5, <1>7, <2>1, <2>2, QueueKept
<1>12. \A b \in FileAgents : latest[b].version <= latest'[b].version
    BY <1>5, <1>8 DEF FilesTypeOK, Within, IndexEntries, NotFiled
<1>13. \A u \in FileTasks : posting'[u] \subseteq posting[u]
    BY <1>5
<1> QED
    BY <1>5, <1>8, <1>9, <1>10, <1>11, <1>12, <1>13, RestKept

LEMMA UpdateLatestStep ==
    ASSUME FilesInv, NEW t \in FileTasks, update_latest_version(t)
    PROVE  FilesInv'
<1>1. PICK new : new = filing[t].package
    OBVIOUS
<1>2. PICK seen : seen = filing[t].seen
    OBVIOUS
<1>3. PICK entry : entry = [version |-> new.version, document |-> new.document]
    OBVIOUS
<1>4. PICK g : g = [at |-> "queue", package |-> new]
    OBVIOUS
<1>5. FilesTypeOK /\ DOMAIN filing = FileTasks /\ FilingHolds(filing[t], filed) /\ filing[t].at = "indexing"
    BY DEF FilesInv, FilesTypeOK, update_latest_version
<1>6. /\ latest' = [seen EXCEPT ![new.did] = entry]
      /\ torn' = torn \ {"latest"}
      /\ filing' = [filing EXCEPT ![t] = g]
      /\ UNCHANGED <<queued, archived, posting, cdnHas, filed, fileFaults, answers, disturbed>>
    BY <1>1, <1>2, <1>3, <1>4 DEF update_latest_version
<1>7. filed' = filed /\ filed \in Nat /\ filed \in 0..MaxFiled
    BY <1>5, <1>6, FilesAssumption DEF FilesTypeOK
<1>8. new \in FilePackages /\ new.version <= filed /\ Within(seen, filed)
    BY <1>1, <1>2, <1>5 DEF FilingHolds
<1>9. new.did \in FileAgents /\ new.version \in 1..MaxFiled /\ entry \in IndexEntries /\ entry.version = new.version
    BY <1>3, <1>8 DEF FilePackages, IndexEntries
<1>10. FilingHolds(g, filed)
    BY <1>4, <1>8 DEF FilingHolds
<1>11. /\ DOMAIN filing' = FileTasks /\ filing'[t] = g /\ \A u \in FileTasks : u # t => filing'[u] = filing[u]
       /\ (\A u \in FileTasks : FilingHolds(filing[u], filed))'
  <2>1. filed' \in 0..MaxFiled /\ filed <= filed' /\ FilingHolds(g, filed')
      BY <1>7, <1>10
  <2> QED
      BY <1>5, <1>6, <2>1, NewFiling
<1>12. latest' \in [FileAgents -> IndexEntries] /\ latest'[new.did] = entry
       /\ \A a \in FileAgents : a # new.did => latest'[a] = seen[a]
    BY <1>6, <1>8, <1>9 DEF Within
<1>13. FilesTypeOK'
  <2>1. Within(latest, filed)'
    <3>1. \A a \in FileAgents : latest'[a].version <= filed
        BY <1>8, <1>9, <1>12 DEF Within
    <3> QED
        BY <1>7, <1>12, <3>1 DEF Within
  <2> QED
      BY <1>5, <1>6, <1>11, <2>1 DEF FilesTypeOK
<1>14. Due' \subseteq Due
    BY <1>4, <1>6, <1>11, NothingMoreDue
<1>15. ASSUME "latest" \notin disturbed'
       PROVE  IndexHolds' /\ \A a \in FileAgents : latest[a].version <= latest'[a].version
  <2>1. "latest" \notin disturbed /\ IndexHolds
      BY <1>6, <1>15 DEF FilesInv
  <2>2. seen = latest /\ ComesAfter(new, latest[new.did])
      BY <1>1, <1>2, <1>5, <2>1 DEF IndexHolds
  <2>3. \A a \in FileAgents : latest[a].version \in Nat
      BY <1>5, FilesAssumption DEF FilesTypeOK, Within, IndexEntries, NotFiled
  <2>4. \A a \in FileAgents : latest[a].version <= latest'[a].version
      BY <1>9, <1>12, <2>2, <2>3 DEF ComesAfter, Names
  <2>5. \A u \in FileTasks : u # t /\ filing[u].at # "idle" => filing[u].package.did # new.did
      BY <1>1, <1>5, <2>1 DEF IndexHolds
  <2>6. \A u \in FileTasks : u # t => filing[u].at # "indexing"
      BY <1>5, <2>1 DEF IndexHolds
  <2>7. filing'[t].at = "queue" /\ filing'[t].package = new
      BY <1>4, <1>11
  <2>8. (\A v, u \in FileTasks :
            filing[v].at # "idle" /\ filing[u].at # "idle" /\ filing[v].package.did = filing[u].package.did => v = u)'
    <3>1. \A u \in FileTasks : filing'[u].package = filing[u].package
        BY <1>1, <1>11, <2>7
    <3>2. \A u \in FileTasks : filing'[u].at # "idle" => filing[u].at # "idle"
        BY <1>5, <1>11
    <3> QED
        BY <2>1, <3>1, <3>2 DEF IndexHolds
  <2>9. \A u \in FileTasks : filing'[u].at # "indexing"
      BY <1>11, <2>6, <2>7
  <2>10. \A u \in FileTasks : u # t /\ filing[u].at # "idle" =>
            filing[u].package.did \in FileAgents /\ latest'[filing[u].package.did] = latest[filing[u].package.did]
      BY <1>5, <1>12, <2>2, <2>5 DEF FilesTypeOK, FilingHolds, FilePackages
  <2>11. (\A u \in FileTasks : filing[u].at \in {"index", "indexing"} =>
            ComesAfter(filing[u].package, latest[filing[u].package.did]))'
      BY <1>11, <2>1, <2>7, <2>10 DEF IndexHolds, ComesAfter, Names
  <2>12. (\A u \in FileTasks : filing[u].at \in {"queue", "enqueuing", "archive"} =>
            Names(latest[filing[u].package.did], filing[u].package))'
      BY <1>3, <1>11, <1>12, <2>1, <2>7, <2>10 DEF IndexHolds, Names
  <2>13. ASSUME NEW one \in answers'
         PROVE  /\ one.version <= latest'[one.did].version
                /\ one.version = latest'[one.did].version => Names(latest'[one.did], one)
                /\ archived'[one.did][one.version] = one.document
    <3>1. /\ one.did \in FileAgents /\ one.version \in Nat
          /\ one.version <= latest[one.did].version
          /\ one.version = latest[one.did].version => Names(latest[one.did], one)
          /\ archived'[one.did][one.version] = one.document
        BY <1>5, <1>6, <2>1, <2>13, FilesAssumption DEF IndexHolds, FilesTypeOK, FilePackages
    <3>2. one.did # new.did => latest'[one.did] = latest[one.did]
        BY <1>12, <2>2, <3>1
    <3>3. one.did = new.did /\ one.version = latest'[one.did].version => Names(latest[one.did], new)
        BY <1>9, <1>12, <2>2, <2>3, <3>1 DEF ComesAfter, Names
    <3>4. CASE one.did = new.did
      <4>1. one.version <= latest'[one.did].version
        <5>1. latest'[one.did].version \in Nat
            BY <1>12, <3>1, FilesAssumption DEF IndexEntries, NotFiled
        <5> QED
            BY <2>3, <2>4, <3>1, <5>1
      <4>2. one.version = latest'[one.did].version => Names(latest'[one.did], one)
        <5> SUFFICES ASSUME one.version = latest'[one.did].version PROVE Names(latest'[one.did], one)
            OBVIOUS
        <5>1. latest'[one.did] = entry /\ one.version = new.version
            BY <1>9, <1>12, <3>4
        <5>2. latest[one.did].version = new.version /\ latest[one.did].document = new.document
            BY <3>3, <3>4, <5>1 DEF Names
        <5>3. one.document = new.document
            BY <3>1, <5>1, <5>2 DEF Names
        <5> QED
            BY <1>3, <5>1, <5>3 DEF Names
      <4> QED
          BY <3>1, <4>1, <4>2
    <3> QED
        BY <3>1, <3>2, <3>4
  <2>14. (\A one \in answers :
            /\ one.version <= latest[one.did].version
            /\ one.version = latest[one.did].version => Names(latest[one.did], one)
            /\ archived[one.did][one.version] = one.document)'
      BY <2>13 DEF Names
  <2>15. IndexHolds'
      BY <2>8, <2>9, <2>11, <2>12, <2>14 DEF IndexHolds
  <2> QED
      BY <2>4, <2>15
<1>16. ASSUME "queue" \notin disturbed' PROVE QueueHolds'
  <2>1. QueueHolds
      BY <1>6, <1>16 DEF FilesInv
  <2>2. filing'[t].at # "enqueuing" /\ ("queue" \in torn => "queue" \in torn')
      BY <1>4, <1>6, <1>11
  <2> QED
      BY <1>6, <1>11, <2>1, <2>2, QueueKept
<1>17. \A u \in FileTasks : posting'[u] \subseteq posting[u]
    BY <1>6
<1> QED
    BY <1>6, <1>13, <1>14, <1>15, <1>16, <1>17, RestKept

LEMMA SeenQueue ==
    ASSUME FilesTypeOK
    PROVE  QueueSeen \subseteq FilePackages /\ OnePerAgent(QueueSeen)
    BY DEF FilesTypeOK, QueueSeen, OnePerAgent

LEMMA BeginEnqueueStep ==
    ASSUME FilesInv, NEW t \in FileTasks, BeginEnqueue(t)
    PROVE  FilesInv'
<1>1. PICK new : new = filing[t].package
    OBVIOUS
<1>2. PICK seen : seen = QueueSeen
    OBVIOUS
<1>3. PICK g : g = [at |-> "enqueuing", package |-> new, seen |-> seen]
    OBVIOUS
<1>4. FilesTypeOK /\ DOMAIN filing = FileTasks /\ FilingHolds(filing[t], filed) /\ filing[t].at = "queue"
    BY DEF FilesInv, FilesTypeOK, BeginEnqueue
<1>5. /\ filing' = [filing EXCEPT ![t] = g]
      /\ torn' = torn \cup {"queue"} /\ disturbed' = disturbed \cup Disturbs("queue")
      /\ UNCHANGED <<latest, queued, archived, posting, cdnHas, filed, fileFaults, answers>>
    BY <1>1, <1>2, <1>3, <1>4 DEF BeginEnqueue
<1>6. FilingHolds(g, filed) /\ filed' = filed /\ filed \in Nat /\ filed \in 0..MaxFiled
    BY <1>1, <1>2, <1>3, <1>4, <1>5, FilesAssumption, SeenQueue DEF FilingHolds, FilesTypeOK
<1>7. /\ DOMAIN filing' = FileTasks /\ filing'[t] = g /\ \A u \in FileTasks : u # t => filing'[u] = filing[u]
      /\ (\A u \in FileTasks : FilingHolds(filing[u], filed))'
  <2>1. filed' \in 0..MaxFiled /\ filed <= filed' /\ FilingHolds(g, filed')
      BY <1>6
  <2> QED
      BY <1>4, <1>5, <2>1, NewFiling
<1>8. FilesTypeOK'
  <2>1. Within(latest, filed)'
      BY <1>4, <1>5 DEF FilesTypeOK, Within
  <2> QED
      BY <1>4, <1>5, <1>7, <2>1 DEF FilesTypeOK
<1>9. Due' \subseteq Due
    BY <1>3, <1>5, <1>7, NothingMoreDue
<1>10. ASSUME "latest" \notin disturbed' PROVE IndexHolds'
  <2>1. IndexHolds
      BY <1>5, <1>10 DEF FilesInv
  <2>2. \A u \in FileTasks : SameFiling(filing'[u], filing[u])
      BY <1>1, <1>3, <1>4, <1>7 DEF SameFiling
  <2> QED
      BY <1>5, <2>1, <2>2, IndexKept
<1>11. ASSUME "queue" \notin disturbed' PROVE QueueHolds'
  <2>1. "queue" \notin disturbed /\ QueueHolds
      BY <1>5, <1>11 DEF FilesInv
  <2>2. "queue" \notin torn /\ "queue" \in torn'
      BY <1>5, <1>11 DEF Disturbs
  <2>3. /\ \A u \in FileTasks : filing[u].at # "enqueuing"
        /\ \A u \in FileTasks : \A task \in posting[u] : task.at # "marking"
      BY <2>1, <2>2 DEF QueueHolds
  <2>4. filing'[t].at = "enqueuing" /\ filing'[t].seen = queued
      BY <1>2, <1>3, <1>7, <2>2 DEF QueueSeen
  <2>5. (\A u \in FileTasks : filing[u].at = "enqueuing" => "queue" \in torn /\ filing[u].seen = queued)'
      BY <1>5, <1>7, <2>2, <2>3, <2>4
  <2>6. (\A v, u \in FileTasks : filing[v].at = "enqueuing" /\ filing[u].at = "enqueuing" => v = u)'
      BY <1>7, <2>3
  <2>7. \A u \in FileTasks : \A task \in posting'[u] : task.at # "marking"
      BY <1>5, <2>3
  <2> QED
      BY <2>5, <2>6, <2>7 DEF QueueHolds
<1>12. \A b \in FileAgents : latest[b].version <= latest'[b].version
    BY <1>5, <1>8, FilesAssumption DEF FilesTypeOK, Within, IndexEntries, NotFiled
<1>13. \A u \in FileTasks : posting'[u] \subseteq posting[u]
    BY <1>5
<1> QED
    BY <1>5, <1>8, <1>9, <1>10, <1>11, <1>12, <1>13, RestKept

LEMMA ArchiveVerifiedStep ==
    ASSUME FilesInv, NEW t \in FileTasks, archive_verified(t)
    PROVE  FilesInv'
<1>1. PICK new : new = filing[t].package
    OBVIOUS
<1>2. FilesTypeOK /\ DOMAIN filing = FileTasks /\ FilingHolds(filing[t], filed) /\ filing[t].at = "archive"
    BY DEF FilesInv, FilesTypeOK, archive_verified
<1>3. /\ archived' = [archived EXCEPT ![new.did][new.version] = new.document]
      /\ answers' = answers \cup {new}
      /\ filing' = [filing EXCEPT ![t] = NotFiling]
      /\ UNCHANGED <<latest, queued, torn, posting, cdnHas, filed, fileFaults, disturbed>>
    BY <1>1 DEF archive_verified
<1>4. new \in FilePackages /\ filed' = filed /\ filed \in Nat /\ filed \in 0..MaxFiled
    BY <1>1, <1>2, <1>3, FilesAssumption DEF FilingHolds, FilesTypeOK
<1>5. /\ DOMAIN filing' = FileTasks /\ filing'[t] = NotFiling
      /\ \A u \in FileTasks : u # t => filing'[u] = filing[u]
      /\ (\A u \in FileTasks : FilingHolds(filing[u], filed))'
  <2>1. filed' \in 0..MaxFiled /\ filed <= filed' /\ FilingHolds(NotFiling, filed')
      BY <1>4 DEF FilingHolds, NotFiling
  <2> QED
      BY <1>2, <1>3, <2>1, NewFiling
<1>6. new.did \in FileAgents /\ new.version \in 1..MaxFiled /\ new.document \in FileDocuments
    BY <1>4 DEF FilePackages
<1>7. /\ archived' \in [FileAgents -> [1..MaxFiled -> FileDocuments \cup {"none"}]]
      /\ archived'[new.did][new.version] = new.document
      /\ \A a \in FileAgents, v \in 1..MaxFiled :
            a # new.did \/ v # new.version => archived'[a][v] = archived[a][v]
  <2>1. archived \in [FileAgents -> [1..MaxFiled -> FileDocuments \cup {"none"}]]
      BY <1>2 DEF FilesTypeOK
  <2> QED
      BY <1>3, <1>6, <2>1
<1>8. FilesTypeOK'
  <2>1. Within(latest, filed)'
      BY <1>2, <1>3 DEF FilesTypeOK, Within
  <2> QED
      BY <1>2, <1>3, <1>4, <1>5, <1>7, <2>1 DEF FilesTypeOK
<1>9. filing'[t].at = "idle"
    BY <1>5 DEF NotFiling
<1>10. Due' \subseteq Due
    BY <1>1, <1>2, <1>3, <1>5, <1>9 DEF Due
<1>11. ASSUME "latest" \notin disturbed' PROVE IndexHolds'
  <2>1. IndexHolds
      BY <1>3, <1>11 DEF FilesInv
  <2>2. Names(latest[new.did], new)
      BY <1>1, <1>2, <2>1 DEF IndexHolds
  <2>3. (\A v, u \in FileTasks :
            filing[v].at # "idle" /\ filing[u].at # "idle" /\ filing[v].package.did = filing[u].package.did => v = u)'
      BY <1>5, <1>9, <2>1 DEF IndexHolds
  <2>4. (\A u \in FileTasks : filing[u].at = "indexing" => "latest" \in torn /\ filing[u].seen = latest)'
      BY <1>3, <1>5, <1>9, <2>1 DEF IndexHolds
  <2>5. (\A v, u \in FileTasks : filing[v].at = "indexing" /\ filing[u].at = "indexing" => v = u)'
      BY <1>5, <1>9, <2>1 DEF IndexHolds
  <2>6. (\A u \in FileTasks : filing[u].at \in {"index", "indexing"} =>
            ComesAfter(filing[u].package, latest[filing[u].package.did]))'
      BY <1>3, <1>5, <1>9, <2>1 DEF IndexHolds, ComesAfter, Names
  <2>7. (\A u \in FileTasks : filing[u].at \in {"queue", "enqueuing", "archive"} =>
            Names(latest[filing[u].package.did], filing[u].package))'
      BY <1>3, <1>5, <1>9, <2>1 DEF IndexHolds, Names
  <2>8. ASSUME NEW one \in answers'
        PROVE  /\ one.version <= latest'[one.did].version
               /\ one.version = latest'[one.did].version => Names(latest'[one.did], one)
               /\ archived'[one.did][one.version] = one.document
    <3>1. CASE one = new
        BY <1>3, <1>6, <1>7, <2>2, <3>1, FilesAssumption DEF Names
    <3>2. CASE one \in answers
      <4>1. /\ one.version <= latest[one.did].version
            /\ one.version = latest[one.did].version => Names(latest[one.did], one)
            /\ archived[one.did][one.version] = one.document
          BY <2>1, <3>2 DEF IndexHolds
      <4>2. one.did \in FileAgents /\ one.version \in 1..MaxFiled
          BY <1>2, <3>2 DEF FilesTypeOK, FilePackages
      <4>3. one.did = new.did /\ one.version = new.version => one.document = new.document
          BY <2>2, <4>1 DEF Names
      <4> QED
          BY <1>3, <1>7, <4>1, <4>2, <4>3
    <3> QED
        BY <1>3, <2>8, <3>1, <3>2
  <2>9. (\A one \in answers :
            /\ one.version <= latest[one.did].version
            /\ one.version = latest[one.did].version => Names(latest[one.did], one)
            /\ archived[one.did][one.version] = one.document)'
      BY <2>8 DEF Names
  <2> QED
      BY <2>3, <2>4, <2>5, <2>6, <2>7, <2>9 DEF IndexHolds
<1>12. ASSUME "queue" \notin disturbed' PROVE QueueHolds'
  <2>1. QueueHolds
      BY <1>3, <1>12 DEF FilesInv
  <2> QED
      BY <1>3, <1>5, <1>9, <2>1, QueueKept
<1>13. \A b \in FileAgents : latest[b].version <= latest'[b].version
    BY <1>3, <1>8, FilesAssumption DEF FilesTypeOK, Within, IndexEntries, NotFiled
<1>14. \A u \in FileTasks : posting'[u] \subseteq posting[u]
    BY <1>3
<1> QED
    BY <1>3, <1>8, <1>10, <1>11, <1>12, <1>13, <1>14, RestKept

LEMMA DueTyped ==
    ASSUME FilesTypeOK
    PROVE  Due \subseteq FilePackages
    BY DEF FilesTypeOK, FilingHolds, Due

\* Nothing due is ahead of the index.
LEMMA DueIndexed ==
    ASSUME FilesTypeOK, IndexHolds, NEW one \in Due
    PROVE  one.version <= latest[one.did].version
<1>1. CASE one \in answers
    BY <1>1 DEF IndexHolds
<1>2. CASE one \notin answers
  <2>1. PICK t \in FileTasks : filing[t].at = "archive" /\ one = filing[t].package
      BY <1>2 DEF Due
  <2>2. Names(latest[one.did], one) /\ one \in FilePackages
      BY <2>1 DEF IndexHolds, FilesTypeOK, FilingHolds
  <2> QED
      BY <2>2, FilesAssumption DEF Names, FilePackages
<1> QED
    BY <1>1, <1>2

LEMMA EnqueueStep ==
    ASSUME FilesInv, NEW t \in FileTasks, enqueue_cdn_legacy(t)
    PROVE  FilesInv'
<1>1. PICK new : new = filing[t].package
    OBVIOUS
<1>2. PICK seen : seen = filing[t].seen
    OBVIOUS
<1>3. PICK g : g = [at |-> "archive", package |-> new]
    OBVIOUS
<1>4. FilesTypeOK /\ DOMAIN filing = FileTasks /\ FilingHolds(filing[t], filed) /\ filing[t].at = "enqueuing"
    BY DEF FilesInv, FilesTypeOK, enqueue_cdn_legacy
<1>5. /\ queued' = Requeued(seen, new) /\ torn' = torn \ {"queue"}
      /\ filing' = [filing EXCEPT ![t] = g]
      /\ disturbed' = disturbed \cup
            {new.did : u \in {v \in FileTasks : \E task \in posting[v] : task.package.did = new.did}}
      /\ UNCHANGED <<latest, archived, posting, cdnHas, filed, fileFaults, answers>>
    BY <1>1, <1>2, <1>3 DEF enqueue_cdn_legacy
<1>6. new \in FilePackages /\ new.version <= filed /\ seen \subseteq FilePackages /\ OnePerAgent(seen)
    BY <1>1, <1>2, <1>4 DEF FilingHolds
<1>7. new.did \in FileAgents /\ new.version \in Nat
    BY <1>6, FilesAssumption DEF FilePackages
<1>8. FilingHolds(g, filed) /\ filed' = filed /\ filed \in Nat /\ filed \in 0..MaxFiled
    BY <1>3, <1>4, <1>5, <1>6, FilesAssumption DEF FilingHolds, FilesTypeOK
<1>9. /\ DOMAIN filing' = FileTasks /\ filing'[t] = g /\ \A u \in FileTasks : u # t => filing'[u] = filing[u]
      /\ (\A u \in FileTasks : FilingHolds(filing[u], filed))'
  <2>1. filed' \in 0..MaxFiled /\ filed <= filed' /\ FilingHolds(g, filed')
      BY <1>8
  <2> QED
      BY <1>4, <1>5, <2>1, NewFiling
<1>10. FilesTypeOK'
  <2>1. Within(latest, filed)'
      BY <1>4, <1>5 DEF FilesTypeOK, Within
  <2>2. queued' \subseteq FilePackages /\ (OnePerAgent(queued))'
      BY <1>5, <1>6 DEF Requeued, OnePerAgent
  <2> QED
      BY <1>4, <1>5, <1>9, <2>1, <2>2 DEF FilesTypeOK
<1>11. Due' \subseteq Due \cup {new}
    BY <1>3, <1>5, <1>9 DEF Due
<1>12. ASSUME "latest" \notin disturbed' PROVE IndexHolds'
  <2>1. IndexHolds
      BY <1>5, <1>12 DEF FilesInv
  <2>2. \A u \in FileTasks : SameFiling(filing'[u], filing[u])
      BY <1>1, <1>3, <1>4, <1>9 DEF SameFiling
  <2>3. "latest" \in torn => "latest" \in torn'
      BY <1>5
  <2> QED
      BY <1>5, <2>1, <2>2, <2>3, IndexKept
<1>13. ASSUME "queue" \notin disturbed' PROVE QueueHolds' /\ seen = queued
  <2>1. QueueHolds
      BY <1>5, <1>13 DEF FilesInv
  <2>2. seen = queued
      BY <1>2, <1>4, <2>1 DEF QueueHolds
  <2>3. filing'[t].at = "archive"
      BY <1>3, <1>9
  <2>4. \A u \in FileTasks : filing'[u].at # "enqueuing"
      BY <1>4, <1>9, <2>1, <2>3 DEF QueueHolds
  <2>5. \A u \in FileTasks : \A task \in posting'[u] : task.at # "marking"
      BY <1>4, <1>5, <2>1 DEF QueueHolds
  <2>6. QueueHolds'
      BY <2>4, <2>5 DEF QueueHolds
  <2> QED
      BY <2>2, <2>6
<1>14. ASSUME {"latest", "queue"} \cap disturbed' = {}
       PROVE  /\ OrderHolds'
              /\ \A a \in FileAgents : a \notin disturbed' => AgentHolds(a)'
              /\ "cycles" \notin disturbed' => CyclesHold'
  <2>1. {"latest", "queue"} \cap disturbed = {} /\ "latest" \notin disturbed /\ "queue" \notin disturbed'
      BY <1>5, <1>14
  <2>2. OrderHolds /\ IndexHolds /\ seen = queued
      BY <1>13, <2>1 DEF FilesInv
  <2>3. queued' = {old \in queued : old.did # new.did} \cup {new}
      BY <1>5, <2>2 DEF Requeued
  <2>4. Names(latest[new.did], new)
      BY <1>1, <1>4, <2>2 DEF IndexHolds
  <2>5. \A one \in Due' : one.did = new.did => one.version <= new.version
      BY <1>4, <1>7, <1>11, <2>2, <2>4, DueIndexed DEF Names
  <2>6. OrderHolds'
    <3>1. (\A a \in FileAgents : cdnHas[a] <= latest[a].version)'
        BY <1>5, <2>2 DEF OrderHolds
    <3>2. ASSUME NEW waiting \in queued'
          PROVE  /\ waiting.version <= latest'[waiting.did].version
                 /\ cdnHas'[waiting.did] <= waiting.version
                 /\ \A one \in Due' : one.did = waiting.did => one.version <= waiting.version
                 /\ \A u \in FileTasks : \A task \in posting'[u] :
                       task.package.did = waiting.did => task.package.version <= waiting.version
      <4>1. CASE waiting = new
          BY <1>5, <1>7, <2>2, <2>4, <2>5, <4>1 DEF OrderHolds, Names
      <4>2. CASE waiting \in queued /\ waiting.did # new.did
          BY <1>5, <1>11, <2>2, <4>2 DEF OrderHolds
      <4> QED
          BY <2>3, <4>1, <4>2
    <3>3. (\A u \in FileTasks : \A task \in posting[u] :
              task.package.version <= latest[task.package.did].version)'
        BY <1>5, <2>2 DEF OrderHolds
    <3> QED
        BY <3>1, <3>2, <3>3 DEF OrderHolds
  <2>7. ASSUME NEW a \in FileAgents, a \notin disturbed' PROVE AgentHolds(a)'
    <3>1. AgentHolds(a)
        BY <1>5, <2>1, <2>7 DEF FilesInv
    <3>2. CASE a = new.did
      <4>1. \A u \in FileTasks : \A task \in posting'[u] : task.package.did # a
          BY <1>5, <2>7, <3>2
      <4>2. \E waiting \in queued' : waiting.did = a
          BY <2>3, <3>2
      <4> QED
          BY <4>1, <4>2 DEF AgentHolds
    <3>3. CASE a # new.did
      <4>1. \A one \in Due' : one.did = a => one \in Due
          BY <1>11, <3>3
      <4>2. \A waiting \in queued : waiting.did = a => waiting \in queued'
          BY <2>3, <3>3
      <4>3. (\A one \in Due : one.did = a =>
                one.version <= cdnHas[a] \/ \E waiting \in queued : waiting.did = a)'
          BY <1>5, <3>1, <4>1, <4>2 DEF AgentHolds
      <4>4. (\A u \in FileTasks : \A task \in posting[u] : \A one \in Due :
                task.package.did = a /\ one.did = a =>
                   /\ one.version <= task.package.version
                   /\ task.at # "post" => one.version <= cdnHas[a])'
          BY <1>5, <3>1, <4>1 DEF AgentHolds
      <4> QED
          BY <4>3, <4>4 DEF AgentHolds
    <3> QED
        BY <3>2, <3>3
  <2>8. ASSUME "cycles" \notin disturbed' PROVE CyclesHold'
    <3>1. CyclesHold
        BY <1>5, <2>1, <2>8 DEF FilesInv
    <3>2. \A u \in FileTasks : posting'[u] \subseteq posting[u]
        BY <1>5
    <3> QED
        BY <1>5, <3>1, <3>2, CyclesKept
  <2> QED
      BY <2>6, <2>7, <2>8
<1> QED
    BY <1>10, <1>12, <1>13, <1>14 DEF FilesInv

\* A cycle takes on what is queued; no one is writing the queue then, or it would
\* read as empty.
LEMMA ClaimQueueStep ==
    ASSUME FilesInv, NEW t \in FileTasks, ClaimQueue(t)
    PROVE  FilesInv'
<1>1. PICK tasks : tasks = {[package |-> new, at |-> "post", seen |-> {}] : new \in QueueSeen}
    OBVIOUS
<1>2. /\ posting[t] = {} /\ QueueSeen # {} /\ posting' = [posting EXCEPT ![t] = tasks]
      /\ disturbed' = disturbed \cup IF \E u \in FileTasks : posting[u] # {} THEN {"cycles"} ELSE {}
      /\ UNCHANGED <<latest, queued, archived, torn, filing, cdnHas, filed, fileFaults, answers>>
    BY <1>1 DEF ClaimQueue
<1>3. FilesTypeOK /\ posting \in [FileTasks -> SUBSET PostingTasks] /\ OnePerAgent(queued) /\ queued \subseteq FilePackages
    BY DEF FilesInv, FilesTypeOK
<1>4. QueueSeen = queued
    BY <1>2 DEF QueueSeen
<1>5. /\ \A task \in tasks : task.package \in queued /\ task.at = "post" /\ task.seen = {} /\ task \in PostingTasks
      /\ \A task, other \in tasks : task.package = other.package => task = other
  <2>1. \A new \in queued : [package |-> new, at |-> "post", seen |-> {}] \in PostingTasks
      BY <1>3 DEF PostingTasks
  <2> QED
      BY <1>1, <1>4, <2>1
<1>6. posting'[t] = tasks /\ \A u \in FileTasks : u # t => posting'[u] = posting[u]
    BY <1>2, <1>3
<1>7. FilesTypeOK'
  <2>1. posting' \in [FileTasks -> SUBSET PostingTasks]
      BY <1>2, <1>3, <1>5
  <2>2. \A u \in FileTasks : \A task \in posting'[u] : OnePerAgent(task.seen)
      BY <1>3, <1>5, <1>6 DEF FilesTypeOK, OnePerAgent
  <2>3. Within(latest, filed)' /\ (\A u \in FileTasks : FilingHolds(filing[u], filed))'
      BY <1>2, <1>3 DEF FilesTypeOK, Within, FilingHolds
  <2>4. (OnePerAgent(queued))' /\ (\A u \in FileTasks : \A task \in posting[u] : OnePerAgent(task.seen))'
      BY <1>2, <1>3, <2>2 DEF OnePerAgent
  <2> QED
      BY <1>2, <1>3, <2>1, <2>3, <2>4 DEF FilesTypeOK
<1>8. Due' = Due
    BY <1>2 DEF Due
<1>9. ASSUME "latest" \notin disturbed' PROVE IndexHolds'
  <2>1. IndexHolds
      BY <1>2, <1>9 DEF FilesInv
  <2>2. \A u \in FileTasks : SameFiling(filing'[u], filing[u])
      BY <1>2 DEF SameFiling
  <2> QED
      BY <1>2, <2>1, <2>2, IndexKept
<1>10. ASSUME "queue" \notin disturbed' PROVE QueueHolds'
  <2>1. QueueHolds
      BY <1>2, <1>10 DEF FilesInv
  <2>2. \A u \in FileTasks : \A task \in posting'[u] : task.at = "marking" => task \in posting[u]
      BY <1>5, <1>6
  <2>3. \A u \in FileTasks : filing'[u].at = "enqueuing" => filing'[u] = filing[u]
      BY <1>2
  <2> QED
      BY <1>2, <2>1, <2>2, <2>3, QueueKept
<1>11. ASSUME {"latest", "queue"} \cap disturbed' = {}
       PROVE  /\ OrderHolds'
              /\ \A a \in FileAgents : a \notin disturbed' => AgentHolds(a)'
              /\ "cycles" \notin disturbed' => CyclesHold'
  <2>1. {"latest", "queue"} \cap disturbed = {}
      BY <1>2, <1>11
  <2>2. OrderHolds
      BY <2>1 DEF FilesInv
  <2>3. \A waiting \in queued : waiting.version \in Nat
      BY <1>3, FilesAssumption DEF FilePackages
  <2>4. OrderHolds'
    <3>1. (\A a \in FileAgents : cdnHas[a] <= latest[a].version)'
        BY <1>2, <2>2 DEF OrderHolds
    <3>2. ASSUME NEW waiting \in queued', NEW u \in FileTasks, NEW task \in posting'[u],
                 task.package.did = waiting.did
          PROVE  task.package.version <= waiting.version
      <4>1. CASE u = t
        <5>1. task.package = waiting
            BY <1>2, <1>3, <1>5, <1>6, <3>2, <4>1 DEF OnePerAgent
        <5> QED
            BY <1>2, <2>3, <5>1
      <4>2. CASE u # t
          BY <1>2, <1>6, <2>2, <3>2, <4>2 DEF OrderHolds
      <4> QED
          BY <4>1, <4>2
    <3>3. (\A waiting \in queued :
              /\ waiting.version <= latest[waiting.did].version
              /\ cdnHas[waiting.did] <= waiting.version
              /\ \A one \in Due : one.did = waiting.did => one.version <= waiting.version
              /\ \A u \in FileTasks : \A task \in posting[u] :
                    task.package.did = waiting.did => task.package.version <= waiting.version)'
        BY <1>2, <1>8, <2>2, <3>2 DEF OrderHolds
    <3>4. ASSUME NEW u \in FileTasks, NEW task \in posting'[u]
          PROVE  task.package.version <= latest'[task.package.did].version
        BY <1>2, <1>5, <1>6, <2>2 DEF OrderHolds
    <3> QED
        BY <3>1, <3>3, <3>4 DEF OrderHolds
  <2>5. ASSUME NEW a \in FileAgents, a \notin disturbed' PROVE AgentHolds(a)'
    <3>1. AgentHolds(a)
        BY <1>2, <2>1, <2>5 DEF FilesInv
    <3>2. (\A one \in Due : one.did = a =>
              one.version <= cdnHas[a] \/ \E waiting \in queued : waiting.did = a)'
        BY <1>2, <1>8, <3>1 DEF AgentHolds
    <3>3. ASSUME NEW u \in FileTasks, NEW task \in posting'[u], NEW one \in Due',
                 task.package.did = a, one.did = a
          PROVE  one.version <= task.package.version /\ (task.at # "post" => one.version <= cdnHas'[a])
        BY <1>2, <1>5, <1>6, <1>8, <2>2, <3>1, <3>3 DEF AgentHolds, OrderHolds
    <3> QED
        BY <3>2, <3>3 DEF AgentHolds
  <2>6. ASSUME "cycles" \notin disturbed' PROVE CyclesHold'
    <3>1. \A u \in FileTasks : posting[u] = {}
        BY <1>2, <2>6
    <3>2. \A u \in FileTasks : posting'[u] # {} => u = t
        BY <1>6, <3>1
    <3>3. \A u \in FileTasks : \A task, other \in posting'[u] : task.package.did = other.package.did => task = other
        BY <1>3, <1>5, <1>6, <3>2 DEF OnePerAgent
    <3>4. \A u \in FileTasks : \A task \in posting'[u] : task.at = "post" => cdnHas'[task.package.did] <= task.package.version
        BY <1>2, <1>5, <1>6, <2>2, <3>2 DEF OrderHolds
    <3> QED
        BY <3>2, <3>3, <3>4 DEF CyclesHold
  <2> QED
      BY <2>4, <2>5, <2>6
<1> QED
    BY <1>7, <1>9, <1>10, <1>11 DEF FilesInv

\* A step of one task of a cycle.
LEMMA NewPosting ==
    ASSUME FilesTypeOK, NEW t \in FileTasks, NEW task \in posting[t], NEW on \in SUBSET PostingTasks,
           \A other \in on : OnePerAgent(other.seen), Moves(t, task, on),
           UNCHANGED <<latest, archived, filing, filed, answers>>,
           NEW queue, queued' = queue, queue \subseteq FilePackages, OnePerAgent(queue),
           cdnHas' \in [FileAgents -> 0..MaxFiled]
    PROVE  /\ posting'[t] = (posting[t] \ {task}) \cup on
           /\ \A u \in FileTasks : u # t => posting'[u] = posting[u]
           /\ FilesTypeOK' /\ Due' = Due
<1>1. posting \in [FileTasks -> SUBSET PostingTasks]
    BY DEF FilesTypeOK
<1>2. /\ posting'[t] = (posting[t] \ {task}) \cup on
      /\ \A u \in FileTasks : u # t => posting'[u] = posting[u]
      /\ posting' \in [FileTasks -> SUBSET PostingTasks]
    BY <1>1 DEF Moves
<1>3. \A u \in FileTasks : \A other \in posting'[u] : OnePerAgent(other.seen)
    BY <1>2 DEF FilesTypeOK
<1>4. (OnePerAgent(queued))' /\ (\A u \in FileTasks : \A other \in posting[u] : OnePerAgent(other.seen))'
    BY <1>3 DEF OnePerAgent
<1>5. Within(latest, filed)' /\ (\A u \in FileTasks : FilingHolds(filing[u], filed))'
    BY DEF FilesTypeOK, Within, FilingHolds
<1>6. FilesTypeOK'
    BY <1>2, <1>4, <1>5 DEF FilesTypeOK
<1> QED
    BY <1>2, <1>6 DEF Due

LEMMA FilingKept ==
    ASSUME FilesInv, UNCHANGED <<latest, answers, archived, filing>>, "latest" \in torn => "latest" \in torn',
           disturbed \subseteq disturbed', "latest" \notin disturbed'
    PROVE  IndexHolds'
<1>1. IndexHolds
    BY DEF FilesInv
<1>2. \A t \in FileTasks : SameFiling(filing'[t], filing[t])
    BY DEF SameFiling
<1> QED
    BY <1>1, <1>2, IndexKept

LEMMA TaskTyped ==
    ASSUME FilesTypeOK, NEW t \in FileTasks, NEW task \in posting[t]
    PROVE  /\ task \in PostingTasks /\ task.package \in FilePackages
           /\ task.package.did \in FileAgents /\ task.package.version \in 0..MaxFiled
           /\ task.package.version \in Nat
           /\ task.seen \subseteq FilePackages /\ OnePerAgent(task.seen)
    BY FilesAssumption DEF FilesTypeOK, PostingTasks, FilePackages

LEMMA PostPackageStep ==
    ASSUME FilesInv, NEW t \in FileTasks, NEW task \in posting[t], PostPackage(t, task)
    PROVE  FilesInv'
<1> DEFINE did == task.package.did
           version == task.package.version
<1>1. PICK moved : moved = [task EXCEPT !.at = "mark"]
    OBVIOUS
<1>2. /\ task.at = "post" /\ cdnHas' = [cdnHas EXCEPT ![did] = version]
      /\ Moves(t, task, {moved})
      /\ UNCHANGED <<latest, queued, archived, torn, filing, filed, fileFaults, answers, disturbed>>
    BY <1>1 DEF PostPackage
<1>3. FilesTypeOK
    BY DEF FilesInv
<1>4. task \in PostingTasks /\ did \in FileAgents /\ version \in 0..MaxFiled /\ version \in Nat /\ OnePerAgent(task.seen)
    BY <1>3, TaskTyped
<1>5. moved \in PostingTasks /\ moved.package = task.package /\ moved.at = "mark" /\ moved.seen = task.seen
    BY <1>1, <1>4 DEF PostingTasks
<1>6. /\ cdnHas' \in [FileAgents -> 0..MaxFiled] /\ cdnHas'[did] = version
      /\ \A a \in FileAgents : a # did => cdnHas'[a] = cdnHas[a]
    BY <1>2, <1>3, <1>4 DEF FilesTypeOK
<1> HIDE DEF did, version
<1>7. /\ posting'[t] = (posting[t] \ {task}) \cup {moved}
      /\ \A u \in FileTasks : u # t => posting'[u] = posting[u]
      /\ FilesTypeOK' /\ Due' = Due
  <2>1. {moved} \in SUBSET PostingTasks /\ \A other \in {moved} : OnePerAgent(other.seen)
      BY <1>4, <1>5
  <2>2. queued' = queued /\ queued \subseteq FilePackages /\ OnePerAgent(queued)
      BY <1>2, <1>3 DEF FilesTypeOK
  <2>3. PICK queue : queue = queued
      OBVIOUS
  <2> QED
      BY <1>2, <1>3, <1>6, <2>1, <2>2, <2>3, NewPosting
<1>8. \A u \in FileTasks : \A other \in posting'[u] :
          (u = t /\ other = moved) \/ (other \in posting[u] /\ (u # t \/ other # task))
    BY <1>7
<1>9. ASSUME "latest" \notin disturbed' PROVE IndexHolds'
    BY <1>2, <1>9, FilingKept
<1>10. ASSUME "queue" \notin disturbed' PROVE QueueHolds'
  <2>1. QueueHolds
      BY <1>2, <1>10 DEF FilesInv
  <2>2. \A u \in FileTasks : \A other \in posting'[u] : other.at = "marking" => other \in posting[u]
      BY <1>5, <1>8
  <2> QED
      BY <1>2, <2>1, <2>2, QueueKept
<1>11. ASSUME {"latest", "queue"} \cap disturbed' = {}
       PROVE  /\ OrderHolds'
              /\ \A a \in FileAgents : a \notin disturbed' => AgentHolds(a)'
              /\ "cycles" \notin disturbed' => CyclesHold'
  <2>1. {"latest", "queue"} \cap disturbed = {}
      BY <1>2, <1>11
  <2>2. OrderHolds
      BY <2>1 DEF FilesInv
  <2>3. \A u \in FileTasks : \A other \in posting'[u] : \E former \in posting[u] : former.package = other.package
      BY <1>5, <1>8
  <2>4. OrderHolds'
    <3>1. (\A a \in FileAgents : cdnHas[a] <= latest[a].version)'
      <4> SUFFICES ASSUME NEW a \in FileAgents PROVE cdnHas'[a] <= latest'[a].version
          OBVIOUS
      <4>1. CASE a = did
          BY <1>2, <1>6, <2>2, <4>1 DEF OrderHolds, did, version
      <4>2. CASE a # did
          BY <1>2, <1>6, <2>2, <4>2 DEF OrderHolds
      <4> QED
          BY <4>1, <4>2
    <3>2. ASSUME NEW waiting \in queued' PROVE cdnHas'[waiting.did] <= waiting.version
      <4>1. waiting \in queued /\ waiting.did \in FileAgents
          BY <1>2, <1>3, <3>2 DEF FilesTypeOK, FilePackages
      <4>2. CASE waiting.did = did
          BY <1>6, <2>2, <4>1, <4>2 DEF OrderHolds, did, version
      <4>3. CASE waiting.did # did
          BY <1>6, <2>2, <4>1, <4>3 DEF OrderHolds
      <4> QED
          BY <4>2, <4>3
    <3>3. (\A waiting \in queued :
              /\ waiting.version <= latest[waiting.did].version
              /\ cdnHas[waiting.did] <= waiting.version
              /\ \A one \in Due : one.did = waiting.did => one.version <= waiting.version
              /\ \A u \in FileTasks : \A other \in posting[u] :
                    other.package.did = waiting.did => other.package.version <= waiting.version)'
        BY <1>2, <1>7, <2>2, <2>3, <3>2 DEF OrderHolds
    <3>4. (\A u \in FileTasks : \A other \in posting[u] :
              other.package.version <= latest[other.package.did].version)'
        BY <1>2, <2>2, <2>3 DEF OrderHolds
    <3> QED
        BY <3>1, <3>3, <3>4 DEF OrderHolds
  <2>5. ASSUME NEW a \in FileAgents, a \notin disturbed' PROVE AgentHolds(a)'
    <3>1. AgentHolds(a)
        BY <1>2, <2>1, <2>5 DEF FilesInv
    <3>2. a = did => \A one \in Due : one.did = a => one.version <= cdnHas'[a]
        BY <1>6, <3>1 DEF AgentHolds, did, version
    <3>3. (\A one \in Due : one.did = a =>
              one.version <= cdnHas[a] \/ \E waiting \in queued : waiting.did = a)'
        BY <1>2, <1>6, <1>7, <3>1, <3>2 DEF AgentHolds
    <3>4. ASSUME NEW u \in FileTasks, NEW other \in posting'[u], NEW one \in Due',
                 other.package.did = a, one.did = a
          PROVE  one.version <= other.package.version /\ (other.at # "post" => one.version <= cdnHas'[a])
      <4>1. CASE u = t /\ other = moved
        <5>1. a = did
            BY <1>5, <3>4, <4>1 DEF did
        <5> QED
            BY <1>5, <1>7, <3>1, <3>2, <3>4, <4>1, <5>1 DEF AgentHolds
      <4>2. CASE other \in posting[u]
        <5>1. one.version <= other.package.version /\ (other.at # "post" => one.version <= cdnHas[a])
            BY <1>7, <3>1, <3>4, <4>2 DEF AgentHolds
        <5> QED
            BY <1>6, <1>7, <3>2, <3>4, <5>1
      <4> QED
          BY <1>8, <4>1, <4>2
    <3> QED
        BY <3>3, <3>4 DEF AgentHolds
  <2>6. ASSUME "cycles" \notin disturbed' PROVE CyclesHold'
    <3>1. CyclesHold
        BY <1>2, <2>1, <2>6 DEF FilesInv
    <3>2. \A u \in FileTasks : posting'[u] # {} => posting[u] # {}
        BY <1>8
    <3>3. (\A v, u \in FileTasks : posting[v] # {} /\ posting[u] # {} => v = u)'
        BY <3>1, <3>2 DEF CyclesHold
    <3>4. (\A u \in FileTasks : \A one, other \in posting[u] : one.package.did = other.package.did => one = other)'
        BY <1>5, <1>8, <3>1 DEF CyclesHold
    <3>5. ASSUME NEW u \in FileTasks, NEW other \in posting'[u], other.at = "post"
          PROVE  cdnHas'[other.package.did] <= other.package.version
      <4>1. other \in posting[u] /\ (u # t \/ other # task)
          BY <1>5, <1>8, <3>5
      <4>2. other.package.did # did
          BY <3>1, <4>1 DEF CyclesHold, did
      <4>3. other.package.did \in FileAgents
          BY <1>3, <4>1, TaskTyped
      <4> QED
          BY <1>6, <3>1, <3>5, <4>1, <4>2, <4>3 DEF CyclesHold
    <3> QED
        BY <3>3, <3>4, <3>5 DEF CyclesHold
  <2> QED
      BY <2>4, <2>5, <2>6
<1> QED
    BY <1>7, <1>9, <1>10, <1>11 DEF FilesInv

LEMMA MarkRetryStep ==
    ASSUME FilesInv, NEW t \in FileTasks, NEW task \in posting[t], mark_cdn_job_retry(t, task)
    PROVE  FilesInv'
<1>1. /\ Moves(t, task, {})
      /\ UNCHANGED <<latest, queued, archived, torn, filing, cdnHas, filed, answers, disturbed>>
    BY DEF mark_cdn_job_retry
<1>2. FilesTypeOK
    BY DEF FilesInv
<1>3. /\ posting'[t] = (posting[t] \ {task}) \cup {}
      /\ \A u \in FileTasks : u # t => posting'[u] = posting[u]
      /\ FilesTypeOK' /\ Due' = Due
  <2>1. PICK queue : queue = queued
      OBVIOUS
  <2>2. queued' = queue /\ queue \subseteq FilePackages /\ OnePerAgent(queue) /\ cdnHas' \in [FileAgents -> 0..MaxFiled]
      BY <1>1, <1>2, <2>1 DEF FilesTypeOK
  <2>3. {} \in SUBSET PostingTasks /\ \A other \in {} : OnePerAgent(other.seen)
      OBVIOUS
  <2> QED
      BY <1>1, <1>2, <2>2, <2>3, NewPosting
<1>4. \A u \in FileTasks : posting'[u] \subseteq posting[u]
    BY <1>3
<1>5. ASSUME "latest" \notin disturbed'
      PROVE  IndexHolds' /\ \A a \in FileAgents : latest[a].version <= latest'[a].version
  <2>1. IndexHolds'
      BY <1>1, <1>5, FilingKept
  <2> QED
      BY <1>1, <1>2, <2>1, FilesAssumption DEF FilesTypeOK, Within, IndexEntries, NotFiled
<1>6. ASSUME "queue" \notin disturbed' PROVE QueueHolds'
  <2>1. QueueHolds
      BY <1>1, <1>6 DEF FilesInv
  <2> QED
      BY <1>1, <1>4, <2>1, QueueKept
<1> QED
    BY <1>1, <1>3, <1>4, <1>5, <1>6, RestKept

LEMMA BeginMarkStep ==
    ASSUME FilesInv, NEW t \in FileTasks, NEW task \in posting[t], BeginMark(t, task)
    PROVE  FilesInv'
<1>1. PICK queue : queue = QueueSeen
    OBVIOUS
<1>2. PICK moved : moved = [task EXCEPT !.at = "marking", !.seen = queue]
    OBVIOUS
<1>3. /\ task.at = "mark" /\ Moves(t, task, {moved})
      /\ torn' = torn \cup {"queue"} /\ disturbed' = disturbed \cup Disturbs("queue")
      /\ UNCHANGED <<latest, queued, archived, filing, cdnHas, filed, fileFaults, answers>>
    BY <1>1, <1>2 DEF BeginMark
<1>4. FilesTypeOK
    BY DEF FilesInv
<1>5. task \in PostingTasks
    BY <1>4, TaskTyped
<1>6. queue \subseteq FilePackages /\ OnePerAgent(queue)
    BY <1>1, <1>4, SeenQueue
<1>7. moved \in PostingTasks /\ moved.package = task.package /\ moved.at = "marking" /\ moved.seen = queue
    BY <1>2, <1>5, <1>6 DEF PostingTasks
<1>8. /\ posting'[t] = (posting[t] \ {task}) \cup {moved}
      /\ \A u \in FileTasks : u # t => posting'[u] = posting[u]
      /\ FilesTypeOK' /\ Due' = Due
  <2>1. {moved} \in SUBSET PostingTasks /\ \A other \in {moved} : OnePerAgent(other.seen)
      BY <1>6, <1>7
  <2>2. PICK same : same = queued
      OBVIOUS
  <2>3. queued' = same /\ same \subseteq FilePackages /\ OnePerAgent(same) /\ cdnHas' \in [FileAgents -> 0..MaxFiled]
      BY <1>3, <1>4, <2>2 DEF FilesTypeOK
  <2> QED
      BY <1>3, <1>4, <2>1, <2>3, NewPosting
<1>9. \A u \in FileTasks : \A other \in posting'[u] :
          (u = t /\ other = moved) \/ (other \in posting[u] /\ (u # t \/ other # task))
    BY <1>8
<1>10. FromBefore
  <2> SUFFICES ASSUME NEW u \in FileTasks, NEW other \in posting'[u]
               PROVE  \E former \in posting[u] :
                         former.package = other.package /\ (other.at # "post" => former.at # "post")
      BY DEF FromBefore
  <2>1. CASE u = t /\ other = moved
      BY <1>3, <1>7, <2>1
  <2> QED
      BY <1>9, <2>1
<1>11. ASSUME "latest" \notin disturbed' PROVE IndexHolds'
  <2>1. disturbed \subseteq disturbed' /\ ("latest" \in torn => "latest" \in torn')
      BY <1>3
  <2> QED
      BY <1>3, <1>11, <2>1, FilingKept
<1>12. ASSUME "queue" \notin disturbed' PROVE QueueHolds'
  <2>1. "queue" \notin disturbed /\ QueueHolds
      BY <1>3, <1>12 DEF FilesInv
  <2>2. "queue" \notin torn /\ "queue" \in torn'
      BY <1>3, <1>12 DEF Disturbs
  <2>3. /\ \A u \in FileTasks : filing[u].at # "enqueuing"
        /\ \A u \in FileTasks : \A other \in posting[u] : other.at # "marking"
      BY <2>1, <2>2 DEF QueueHolds
  <2>4. queue = queued
      BY <1>1, <2>2 DEF QueueSeen
  <2>5. \A u \in FileTasks : filing'[u].at # "enqueuing"
      BY <1>3, <2>3
  <2>6. \A u \in FileTasks : \A other \in posting'[u] : other.at = "marking" => u = t /\ other = moved
      BY <1>9, <2>3
  <2>7. (\A u \in FileTasks : \A other \in posting[u] :
            other.at = "marking" => "queue" \in torn /\ other.seen = queued)'
      BY <1>3, <1>7, <2>2, <2>4, <2>6
  <2> QED
      BY <2>5, <2>6, <2>7 DEF QueueHolds
<1>13. ASSUME {"latest", "queue"} \cap disturbed' = {}
       PROVE  /\ OrderHolds'
              /\ \A a \in FileAgents : a \notin disturbed' => AgentHolds(a)'
              /\ "cycles" \notin disturbed' => CyclesHold'
  <2>1. {"latest", "queue"} \cap disturbed = {}
      BY <1>3, <1>13
  <2>2. OrderHolds'
    <3>1. OrderHolds
        BY <2>1 DEF FilesInv
    <3>2. \A a \in FileAgents : latest[a].version <= latest'[a].version
        BY <1>3, <1>4, FilesAssumption DEF FilesTypeOK, Within, IndexEntries, NotFiled
    <3>3. queued' \subseteq queued /\ cdnHas' = cdnHas
        BY <1>3
    <3> QED
        BY <1>4, <1>8, <1>10, <3>1, <3>2, <3>3, OrderKept
  <2>3. ASSUME NEW a \in FileAgents, a \notin disturbed' PROVE AgentHolds(a)'
    <3>1. AgentHolds(a) /\ cdnHas' = cdnHas /\ queued \subseteq queued'
        BY <1>3, <2>1, <2>3 DEF FilesInv
    <3> QED
        BY <1>8, <1>10, <3>1, AgentKept
  <2>4. ASSUME "cycles" \notin disturbed' PROVE CyclesHold'
    <3>1. CyclesHold
        BY <1>3, <2>1, <2>4 DEF FilesInv
    <3>2. \A u \in FileTasks : posting'[u] # {} => posting[u] # {}
        BY <1>9
    <3>3. (\A v, u \in FileTasks : posting[v] # {} /\ posting[u] # {} => v = u)'
        BY <3>1, <3>2 DEF CyclesHold
    <3>4. (\A u \in FileTasks : \A one, other \in posting[u] : one.package.did = other.package.did => one = other)'
        BY <1>7, <1>9, <3>1 DEF CyclesHold
    <3>5. (\A u \in FileTasks : \A other \in posting[u] :
              other.at = "post" => cdnHas[other.package.did] <= other.package.version)'
        BY <1>3, <1>7, <1>9, <3>1 DEF CyclesHold
    <3> QED
        BY <3>3, <3>4, <3>5 DEF CyclesHold
  <2> QED
      BY <2>2, <2>3, <2>4
<1> QED
    BY <1>8, <1>11, <1>12, <1>13 DEF FilesInv

\* What leaves the queue has reached the CDN, unless a newer package was put in its
\* place.
LEMMA MarkPublishedStep ==
    ASSUME FilesInv, NEW t \in FileTasks, NEW task \in posting[t], mark_cdn_queue_published(t, task)
    PROVE  FilesInv'
<1>1. PICK did : did = task.package.did
    OBVIOUS
<1>2. PICK queue : queue = Taken(task.seen, did)
    OBVIOUS
<1>3. /\ task.at = "marking" /\ Moves(t, task, {}) /\ queued' = queue /\ torn' = torn \ {"queue"}
      /\ UNCHANGED <<latest, archived, filing, cdnHas, filed, fileFaults, answers, disturbed>>
    BY <1>1, <1>2 DEF mark_cdn_queue_published
<1>4. FilesTypeOK
    BY DEF FilesInv
<1>5. queue \subseteq FilePackages /\ OnePerAgent(queue)
    BY <1>2, <1>4, TaskTyped DEF Taken, OnePerAgent
<1>6. /\ posting'[t] = (posting[t] \ {task}) \cup {}
      /\ \A u \in FileTasks : u # t => posting'[u] = posting[u]
      /\ FilesTypeOK' /\ Due' = Due
  <2>1. {} \in SUBSET PostingTasks /\ \A other \in {} : OnePerAgent(other.seen)
      OBVIOUS
  <2>2. cdnHas' \in [FileAgents -> 0..MaxFiled]
      BY <1>3, <1>4 DEF FilesTypeOK
  <2> QED
      BY <1>3, <1>4, <1>5, <2>1, <2>2, NewPosting
<1>7. \A u \in FileTasks : posting'[u] \subseteq posting[u]
    BY <1>6
<1>8. FromBefore
    BY <1>7 DEF FromBefore
<1>9. ASSUME "latest" \notin disturbed' PROVE IndexHolds'
  <2>1. disturbed \subseteq disturbed' /\ ("latest" \in torn => "latest" \in torn')
      BY <1>3
  <2> QED
      BY <1>3, <1>9, <2>1, FilingKept
<1>10. ASSUME "queue" \notin disturbed' PROVE QueueHolds' /\ task.seen = queued
  <2>1. QueueHolds
      BY <1>3, <1>10 DEF FilesInv
  <2>2. task.seen = queued
      BY <1>3, <2>1 DEF QueueHolds
  <2>3. \A u \in FileTasks : filing'[u].at # "enqueuing"
      BY <1>3, <2>1 DEF QueueHolds
  <2>4. \A u \in FileTasks : \A other \in posting'[u] : other.at # "marking"
      BY <1>3, <1>6, <1>7, <2>1 DEF QueueHolds
  <2>5. QueueHolds'
      BY <2>3, <2>4 DEF QueueHolds
  <2> QED
      BY <2>2, <2>5
<1>11. ASSUME {"latest", "queue"} \cap disturbed' = {}
       PROVE  /\ OrderHolds'
              /\ \A a \in FileAgents : a \notin disturbed' => AgentHolds(a)'
              /\ "cycles" \notin disturbed' => CyclesHold'
  <2>1. {"latest", "queue"} \cap disturbed = {} /\ task.seen = queued
      BY <1>3, <1>10, <1>11
  <2>2. queued' = {old \in queued : old.did # did}
      BY <1>2, <1>3, <2>1 DEF Taken
  <2>3. OrderHolds'
    <3>1. OrderHolds
        BY <2>1 DEF FilesInv
    <3>2. \A a \in FileAgents : latest[a].version <= latest'[a].version
        BY <1>3, <1>4, FilesAssumption DEF FilesTypeOK, Within, IndexEntries, NotFiled
    <3>3. queued' \subseteq queued /\ cdnHas' = cdnHas
        BY <1>3, <2>2
    <3> QED
        BY <1>4, <1>6, <1>8, <3>1, <3>2, <3>3, OrderKept
  <2>4. ASSUME NEW a \in FileAgents, a \notin disturbed' PROVE AgentHolds(a)'
    <3>1. AgentHolds(a)
        BY <1>3, <2>1, <2>4 DEF FilesInv
    <3>2. a = did => \A one \in Due : one.did = a => one.version <= cdnHas[a]
        BY <1>1, <1>3, <3>1 DEF AgentHolds
    <3>3. a # did => \A waiting \in queued : waiting.did = a => waiting \in queued'
        BY <2>2
    <3>4. (\A one \in Due : one.did = a =>
              one.version <= cdnHas[a] \/ \E waiting \in queued : waiting.did = a)'
        BY <1>3, <1>6, <3>1, <3>2, <3>3 DEF AgentHolds
    <3>5. (\A u \in FileTasks : \A other \in posting[u] : \A one \in Due :
              other.package.did = a /\ one.did = a =>
                 /\ one.version <= other.package.version
                 /\ other.at # "post" => one.version <= cdnHas[a])'
        BY <1>3, <1>6, <1>7, <3>1 DEF AgentHolds
    <3> QED
        BY <3>4, <3>5 DEF AgentHolds
  <2>5. ASSUME "cycles" \notin disturbed' PROVE CyclesHold'
    <3>1. CyclesHold
        BY <1>3, <2>1, <2>5 DEF FilesInv
    <3> QED
        BY <1>3, <1>7, <3>1, CyclesKept
  <2> QED
      BY <2>3, <2>4, <2>5
<1> QED
    BY <1>6, <1>9, <1>10, <1>11 DEF FilesInv

LEMMA RestartFilesStep ==
    ASSUME FilesInv, RestartFiles
    PROVE  FilesInv'
<1>1. /\ filing' = [t \in FileTasks |-> NotFiling] /\ posting' = [t \in FileTasks |-> {}]
      /\ disturbed' = disturbed \cup torn
      /\ UNCHANGED <<latest, queued, archived, torn, cdnHas, filed, answers>>
    BY DEF RestartFiles
<1>2. FilesTypeOK
    BY DEF FilesInv
<1>3. \A t \in FileTasks : filing'[t] = NotFiling /\ filing'[t].at = "idle" /\ posting'[t] = {}
    BY <1>1 DEF NotFiling
<1>4. FilesTypeOK'
  <2>1. Within(latest, filed)' /\ (OnePerAgent(queued))'
      BY <1>1, <1>2 DEF FilesTypeOK, Within, OnePerAgent
  <2>2. (\A t \in FileTasks : FilingHolds(filing[t], filed))'
      BY <1>3 DEF FilingHolds, NotFiling
  <2>3. (\A t \in FileTasks : \A task \in posting[t] : OnePerAgent(task.seen))'
      BY <1>3
  <2>4. DOMAIN filing' = FileTasks /\ posting' \in [FileTasks -> SUBSET PostingTasks]
      BY <1>1
  <2> QED
      BY <1>1, <1>2, <2>1, <2>2, <2>3, <2>4 DEF FilesTypeOK
<1>5. Due' \subseteq Due
    BY <1>1, <1>3 DEF Due
<1>6. ASSUME "latest" \notin disturbed'
      PROVE  IndexHolds' /\ \A a \in FileAgents : latest[a].version <= latest'[a].version
  <2>1. IndexHolds
      BY <1>1, <1>6 DEF FilesInv
  <2>2. \A t \in FileTasks : SameFiling(filing'[t], filing[t])
      BY <1>3 DEF SameFiling
  <2>3. IndexHolds'
      BY <1>1, <2>1, <2>2, IndexKept
  <2>4. \A a \in FileAgents : latest[a].version <= latest'[a].version
      BY <1>1, <1>2, FilesAssumption DEF FilesTypeOK, Within, IndexEntries, NotFiled
  <2> QED
      BY <2>3, <2>4
<1>7. ASSUME "queue" \notin disturbed' PROVE QueueHolds'
    BY <1>3 DEF QueueHolds
<1>8. \A t \in FileTasks : posting'[t] \subseteq posting[t]
    BY <1>3
<1> QED
    BY <1>1, <1>4, <1>5, <1>6, <1>7, <1>8, RestKept

LEMMA FilesInvStep == FilesInv /\ [FilesNext]_fileVars => FilesInv'
<1> SUFFICES ASSUME FilesInv, [FilesNext]_fileVars
             PROVE  FilesInv'
    OBVIOUS
<1>1. CASE FilesNext
    BY <1>1, LoadLatestStep, BeginIndexStep, UpdateLatestStep, BeginEnqueueStep, EnqueueStep, ArchiveVerifiedStep,
       ClaimQueueStep, PostPackageStep, MarkRetryStep, BeginMarkStep, MarkPublishedStep, RestartFilesStep
       DEF FilesNext
<1>2. CASE UNCHANGED fileVars
    BY <1>2 DEF fileVars, FilesInv, FilesTypeOK, IndexHolds, QueueHolds, OrderHolds, AgentHolds, CyclesHold, Due,
                FilingHolds, Within, OnePerAgent, ComesAfter, Names
<1> QED
    BY <1>1, <1>2

LEMMA FilesInvServes == FilesInv => AnsweredIsServed
<1> SUFFICES ASSUME FilesInv PROVE AnsweredIsServed
    OBVIOUS
<1>1. FilesTypeOK /\ answers \subseteq Due
    BY DEF FilesInv, Due
<1>2. FiledOnce
  <2> SUFFICES ASSUME "latest" \notin disturbed
               PROVE  \A one \in answers : archived[one.did][one.version] = one.document
      BY DEF FiledOnce
  <2> QED
      BY DEF FilesInv, IndexHolds
<1>3. NewestIsQueuedOrServed
  <2> SUFFICES ASSUME NEW one \in answers, {"latest", "queue", one.did} \cap disturbed = {}
               PROVE  \/ cdnHas[one.did] >= one.version
                      \/ \E waiting \in queued : waiting.did = one.did /\ waiting.version >= one.version
      BY DEF NewestIsQueuedOrServed
  <2>1. {"latest", "queue"} \cap disturbed = {} /\ one.did \notin disturbed
      OBVIOUS
  <2>2. one.did \in FileAgents /\ one.version \in Nat /\ one \in Due
      BY <1>1, FilesAssumption DEF FilesTypeOK, FilePackages
  <2>3. OrderHolds /\ AgentHolds(one.did)
      BY <2>1, <2>2 DEF FilesInv
  <2>4. one.version <= cdnHas[one.did] \/ \E waiting \in queued : waiting.did = one.did
      BY <2>2, <2>3 DEF AgentHolds
  <2>5. cdnHas[one.did] \in Nat /\ \A waiting \in queued : waiting.version \in Nat
      BY <1>1, <2>2, FilesAssumption DEF FilesTypeOK, FilePackages
  <2>6. \A waiting \in queued : waiting.did = one.did => one.version <= waiting.version
      BY <2>2, <2>3 DEF OrderHolds
  <2> QED
      BY <2>2, <2>4, <2>5, <2>6
<1>4. QueueIsAhead
  <2> SUFFICES ASSUME {"latest", "queue"} \cap disturbed = {}
               PROVE  /\ \A waiting \in queued : waiting.version >= cdnHas[waiting.did]
                      /\ "cycles" \notin disturbed =>
                            \A t \in FileTasks : \A task \in posting[t] :
                               task.at = "post" => task.package.version >= cdnHas[task.package.did]
      BY DEF QueueIsAhead
  <2>1. /\ \A waiting \in queued : waiting.version \in Nat /\ cdnHas[waiting.did] \in Nat
        /\ \A t \in FileTasks : \A task \in posting[t] :
              task.package.version \in Nat /\ cdnHas[task.package.did] \in Nat
      BY <1>1, TaskTyped, FilesAssumption DEF FilesTypeOK, FilePackages
  <2>2. OrderHolds /\ ("cycles" \notin disturbed => CyclesHold)
      BY DEF FilesInv
  <2>3. \A waiting \in queued : waiting.version >= cdnHas[waiting.did]
      BY <2>1, <2>2 DEF OrderHolds
  <2>4. "cycles" \notin disturbed =>
            \A t \in FileTasks : \A task \in posting[t] :
               task.at = "post" => task.package.version >= cdnHas[task.package.did]
      BY <2>1, <2>2 DEF CyclesHold
  <2> QED
      BY <2>3, <2>4
<1> QED
    BY <1>2, <1>3, <1>4 DEF AnsweredIsServed

\* However many registrations and cycles run on the two files, and wherever Root is
\* stopped: unless changes of a file overlap, or one is cut short, what
\* verify_and_publish has answered is filed under a version of its own, and its
\* newest version waits for the CDN or has reached it.
THEOREM AnsweredStaysServed == FilesSpec => []AnsweredIsServed
<1>1. FilesInit => FilesInv
    BY FilesInvInit
<1>2. FilesInv /\ [FilesNext]_fileVars => FilesInv'
    BY FilesInvStep
<1>3. FilesInv => AnsweredIsServed
    BY FilesInvServes
<1> QED
    BY <1>1, <1>2, <1>3, PTL DEF FilesSpec
=============================================================================
