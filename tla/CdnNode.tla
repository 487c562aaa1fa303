------------------------------- MODULE CdnNode -------------------------------
(***************************************************************************)
(* The CDN node: POST /cdn/packages writes three files named after the     *)
(* Agent and then the manifest, under AppState.lock; every reader goes     *)
(* without it.                                                             *)
(*                                                                         *)
(* A file under documents/, metadata/ or packages/ stands for the package  *)
(* it was taken from.  A file is rewritten as a whole by fs::write; an     *)
(* interrupted write can leave it torn, and a reader beside a write may    *)
(* find it so.  There is no await between the lock and the answer.         *)
(***************************************************************************)
EXTENDS Integers, Sequences, FiniteSets

CONSTANTS
    Agents,       \* DIDs of Agents
    Documents,    \* Agent DID Documents, each standing for its hash
    CdnTasks,     \* tasks that serve POST /cdn/packages
    NoTask,
    Absent, Torn, \* what a reader finds instead of a file's content
    Altered,      \* packages on the CDN that Root did not produce so
    CdnTearable,  \* kinds of files whose interrupted write leaves them torn
    MaxFaults     \* bound: crashes, failed writes, lost answers

Kinds == {"documents", "metadata", "packages"}
Flaws == {"not_indexable", "invalid_did_document_hash", "invalid_metadata_hash",
          "invalid_signature"}

\* sequence is that of the event rootProof.bulletinEventHash names, 0 when it
\* names none.  flaws are the checks of the package alone that fail.
Package == [did : Agents, didDocument : Documents, sequence : Nat,
            flaws : SUBSET Flaws]

ManifestEntry == [did : Agents, didDocumentHash : Documents]

ASSUME CdnAssumption ==
    /\ NoTask \notin CdnTasks
    /\ Absent \notin Package /\ Torn \notin Package /\ Absent # Torn
    /\ \A entries \in SUBSET ManifestEntry : entries # Absent /\ entries # Torn
    /\ Altered \subseteq Package
    /\ CdnTearable \subseteq Kinds \cup {"manifest"}
    /\ MaxFaults \in Nat

VARIABLES
    files,    \* per kind and Agent: the file's content
    manifest, \* manifest.json
    cdnLock,  \* AppState.lock: its holder
    cdnPc,    \* per task: the file it writes next
    cdnReq,   \* per task: the package it was sent
    accepted, \* history: per Agent, the last package Root knows was published
    faults

fileVars == <<files, manifest>>
taskVars == <<cdnLock, cdnPc, cdnReq>>
cdnVars == <<fileVars, taskVars, accepted, faults>>

NoPackage == [sequence |-> 0]

EntryOf(package) ==
    [did |-> package.did, didDocumentHash |-> package.didDocument]

Readable(file) == file \notin {Absent, Torn}

ReadManifest == IF Readable(manifest) THEN manifest ELSE {}

Listed(a) == \E e \in ReadManifest : e.did = a

\* The CDN starts out empty, or with one package that was put there otherwise.
CdnInit ==
    /\ \E found \in SUBSET Altered :
         /\ Cardinality(found) <= 1
         /\ files = [kind \in Kinds |-> [a \in Agents |->
              IF \E x \in found : x.did = a THEN CHOOSE x \in found : x.did = a
              ELSE Absent]]
         /\ manifest = IF found = {} THEN Absent ELSE {EntryOf(x) : x \in found}
    /\ cdnLock = NoTask
    /\ cdnPc = [t \in CdnTasks |-> "idle"]
    /\ cdnReq = [t \in CdnTasks |-> NoPackage]
    /\ accepted = [a \in Agents |-> NoPackage]
    /\ faults = 0

Answer(t) ==
    /\ cdnLock' = NoTask
    /\ cdnPc' = [cdnPc EXCEPT ![t] = "idle"]
    /\ cdnReq' = [cdnReq EXCEPT ![t] = NoPackage]

ReceiveUnguarded(t, package) ==
    /\ cdnPc[t] = "idle"
    /\ cdnLock' = t
    /\ cdnPc' = [cdnPc EXCEPT ![t] = "documents"]
    /\ cdnReq' = [cdnReq EXCEPT ![t] = package]
    /\ UNCHANGED <<fileVars, accepted, faults>>

\* let _guard = state.lock.lock().await
Receive(t, package) ==
    /\ cdnPc[t] = "idle"
    /\ cdnLock = NoTask
    /\ cdnLock' = t
    /\ cdnPc' = [cdnPc EXCEPT ![t] = "documents"]
    /\ cdnReq' = [cdnReq EXCEPT ![t] = package]
    /\ UNCHANGED <<fileVars, accepted, faults>>

Following == [documents |-> "metadata", metadata |-> "packages",
              packages |-> "manifest"]

\* documents/<did>, metadata/<did>, packages/<did>, in this order
WriteFile(t) ==
    /\ cdnPc[t] \in Kinds
    /\ files' = [files EXCEPT ![cdnPc[t]][cdnReq[t].did] = cdnReq[t]]
    /\ cdnPc' = [cdnPc EXCEPT ![t] = Following[@]]
    /\ UNCHANGED <<manifest, cdnLock, cdnReq, accepted, faults>>

\* An unreadable manifest is taken for an empty one.
Relist(package) ==
    {e \in ReadManifest : e.did # package.did} \cup {EntryOf(package)}

WriteManifest(t) ==
    /\ cdnPc[t] = "manifest"
    /\ manifest' = Relist(cdnReq[t])
    /\ Answer(t)
    /\ UNCHANGED files

Publish(t) ==
    /\ WriteManifest(t)
    /\ accepted' = [accepted EXCEPT ![cdnReq[t].did] = cdnReq[t]]
    /\ UNCHANGED faults

\* Root does not get the answer, and will send the package again.
LoseAnswer(t) ==
    /\ faults < MaxFaults
    /\ faults' = faults + 1
    /\ WriteManifest(t)
    /\ UNCHANGED accepted

\* What an interrupted write of task t may leave behind.
Interrupted(t) ==
    \/ UNCHANGED fileVars
    \/ /\ cdnPc[t] \in CdnTearable
       /\ IF cdnPc[t] = "manifest"
            THEN manifest' = Torn /\ UNCHANGED files
            ELSE /\ files' = [files EXCEPT ![cdnPc[t]][cdnReq[t].did] = Torn]
                 /\ UNCHANGED manifest

\* A write fails and the handler answers with an internal error, or the process
\* dies at that point and is started again: only one handler is ever under way.
InterruptPublish(t) ==
    /\ faults < MaxFaults
    /\ faults' = faults + 1
    /\ cdnPc[t] # "idle"
    /\ Interrupted(t)
    /\ Answer(t)
    /\ UNCHANGED accepted

-----------------------------------------------------------------------------
(* The readers: GET /cdn/manifest and GET /cdn/packages/<did>.             *)

Rewriting(file) ==
    file \in CdnTearable /\ \E t \in CdnTasks : cdnPc[t] = file

SeenManifest == {manifest} \cup (IF Rewriting("manifest") THEN {Torn} ELSE {})

SeenPackage(a) ==
    {files["packages"][a]} \cup
      (IF /\ Rewriting("packages")
          /\ \E t \in CdnTasks : cdnReq[t] # NoPackage /\ cdnReq[t].did = a
       THEN {Torn} ELSE {})

-----------------------------------------------------------------------------
(* Properties                                                              *)

\* Every variable of the CDN has its type.
CdnTypeOK ==
    /\ files \in [Kinds -> [Agents -> Package \cup {Absent, Torn}]]
    /\ manifest \in {Absent, Torn} \/ manifest \subseteq ManifestEntry
    /\ cdnLock \in CdnTasks \cup {NoTask}
    /\ cdnPc \in [CdnTasks -> Kinds \cup {"idle", "manifest"}]
    /\ cdnReq \in [CdnTasks -> Package \cup {NoPackage}]
    /\ accepted \in [Agents -> Package \cup {NoPackage}]

\* Between two publications the four places agree, for every package Root knows
\* was published and whose files were not touched by a failed one since: manifest
\* entry, document, metadata and package are those of the same publication.
PublishedTogether ==
    faults = 0 /\ cdnLock = NoTask =>
        \A a \in Agents : accepted[a] # NoPackage =>
            /\ \A kind \in Kinds : files[kind][a] = accepted[a]
            /\ {e \in manifest : e.did = a} = {EntryOf(accepted[a])}

\* A publication never unlists another Agent: once Root knows an Agent was
\* published it stays in the manifest and its package file stays there, whatever
\* is interrupted, as long as the manifest itself is never left torn.
AcceptedStaysListed ==
    "manifest" \notin CdnTearable =>
        \A a \in Agents : accepted[a] # NoPackage =>
            Listed(a) /\ files["packages"][a] # Absent

\* A publication is whole and stays: all of it or, when it was interrupted,
\* at least the earlier ones.
PublicationsHold == PublishedTogether /\ AcceptedStaysListed
=============================================================================
