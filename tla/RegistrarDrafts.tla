--------------------------- MODULE RegistrarDrafts ---------------------------
(***************************************************************************)
(* The Registrar of the reference services: the life of one draft, from    *)
(* its document over the proof that its subject controls it and the        *)
(* registration credential to the Root that accepts it.                    *)
(*                                                                         *)
(* A draft is three rows: its core, its control row and its credential.    *)
(* Every handler reads the three, one after the other, works on that copy  *)
(* and writes back the rows it is about, again one after the other; a      *)
(* submission writes all three back when Root has answered.  Nothing keeps *)
(* two handlers apart but the admission of submissions.                    *)
(*                                                                         *)
(* The documents are those of one Agent; a document stands for its hash,   *)
(* and a challenge for the signature of it its subject gives.              *)
(***************************************************************************)
EXTENDS Naturals, Sequences, FiniteSets

CONSTANTS
    DraftDocuments,  \* the documents the Agent may submit
    ValidDocuments,  \* those validate_mvp accepts
    NoDraft,         \* no document, no hash
    Calls,           \* the requests that may run at a time
    MaxInFlight,     \* max_in_flight of submissions
    MaxCalls,        \* bound on the requests
    MaxAbandoned     \* bound on the requests cut short, by a lost client, a failed statement
                     \* or a restart, and on answers that do not come

VARIABLES
    core,       \* registrar_draft_core
    control,    \* registrar_subject_control
    credential, \* registrar_credential
    calls,      \* each request: the rows it has read, what it writes
    inflight,   \* the submit requests that hold a permit
    sent,       \* submissions on the way to Root, or verified there
    submissions, \* the submission records, by number
    challenges, \* how many challenges were made
    started, abandoned,
    proved,     \* history: the challenges whose proof the Registrar verified
    issued,     \* history: the credentials the Registrar signed
    acceptances \* history: what Root accepted

draftVars == <<core, control, credential, calls, inflight, sent, submissions, challenges,
               started, abandoned, proved, issued, acceptances>>

NoChallenge == [document |-> NoDraft, serial |-> 0]
NoCredential == [document |-> NoDraft, proof |-> NoChallenge]
NotStarted == [status |-> "not-started", challenge |-> NoChallenge, proof |-> NoChallenge]
NoCore == [document |-> NoDraft, hash |-> NoDraft, review |-> "draft", status |-> "none"]
Resting == [op |-> "none", at |-> "idle", core |-> NoCore, control |-> NotStarted,
            credential |-> NoCredential, writes |-> <<>>, number |-> 0]

\* No draft yet.
EmptyDraft ==
    /\ core = NoCore /\ control = NotStarted /\ credential = NoCredential
    /\ challenges = 0 /\ proved = {} /\ issued = {}

\* A draft of this document that went through all the steps before submission.
IssuedDraft(document) ==
    LET proof == [document |-> document, serial |-> 1] IN
    /\ core = [document |-> document, hash |-> document, review |-> "validated", status |-> "credential-issued"]
    /\ control = [status |-> "verified", challenge |-> proof, proof |-> proof]
    /\ credential = [document |-> document, proof |-> proof]
    /\ challenges = 1 /\ proved = {proof} /\ issued = {credential}

DraftsInit ==
    /\ EmptyDraft \/ \E d \in ValidDocuments : IssuedDraft(d)
    /\ calls = [c \in Calls |-> Resting]
    /\ inflight = {} /\ sent = {} /\ submissions = <<>>
    /\ started = 0 /\ abandoned = 0 /\ acceptances = {}

Rows == <<core, control, credential>>
History == <<proved, issued, acceptances>>

----------------------------------------------------------------------------
(* Requests begin and read *)

\* acquire_submit_admission: a permit, and none in flight for this draft.
Admitted(c) == Cardinality(inflight) < MaxInFlight /\ inflight = {}

StartCall(c, op) ==
    /\ calls[c] = Resting /\ started < MaxCalls /\ started' = started + 1
    /\ IF op = "submit" THEN Admitted(c) /\ inflight' = inflight \union {c} ELSE UNCHANGED inflight
    /\ calls' = [calls EXCEPT ![c].op = op, ![c].at = IF op = "create" THEN "act" ELSE "core"]
    /\ UNCHANGED <<Rows, sent, submissions, challenges, abandoned, History>>

\* read_draft: without a core there is no draft, which only an update mends;
\* a missing control row or credential is taken as not started, and none.
Reads(c, row, seen) ==
    /\ calls[c].at = row /\ calls' = [calls EXCEPT ![c] = seen]
    /\ UNCHANGED <<Rows, inflight, sent, submissions, challenges, started, abandoned, History>>
ReadCore(c) ==
    Reads(c, "core", [calls[c] EXCEPT !.core = core, !.at = IF core = NoCore THEN "act" ELSE "control"])
ReadControl(c) == Reads(c, "control", [calls[c] EXCEPT !.control = control, !.at = "credential"])
ReadCredential(c) == Reads(c, "credential", [calls[c] EXCEPT !.credential = credential, !.at = "act"])

----------------------------------------------------------------------------
(* What each handler makes of the draft it has read *)

\* The request goes on to write these rows, from this draft.
Writes(c, op, draft, rows) ==
    /\ calls[c].at = "act" /\ calls[c].op = op
    /\ calls' = [calls EXCEPT ![c] = [draft EXCEPT !.at = "write", !.writes = rows]]
    /\ UNCHANGED <<Rows, inflight, sent, submissions, started, abandoned, acceptances>>

\* A draft created again keeps its old credential row.
CreateDraft(c, document) ==
    /\ Writes(c, "create", [calls[c] EXCEPT !.core = [NoCore EXCEPT !.document = document, !.status = "draft"],
                                            !.control = NotStarted], <<"core", "control">>)
    /\ UNCHANGED <<challenges, proved, issued>>

\* A new document takes the proof away; the review and the credential stay.
UpdateDocument(c, document) ==
    LET old == calls[c].core IN
    /\ Writes(c, "update", [calls[c] EXCEPT
            !.core = [old EXCEPT !.document = document, !.hash = document,
                                 !.status = IF old.status = "none" THEN "draft" ELSE old.status],
            !.control = NotStarted], <<"core", "control">>)
    /\ UNCHANGED <<challenges, proved, issued>>

\* The caller brings a credential: one that was issued to it, or one it made up.
UpdateCredential(c, brought) ==
    /\ Writes(c, "update", [calls[c] EXCEPT !.credential = brought,
            !.core.status = IF @ = "none" THEN "draft" ELSE @], <<"credential", "core", "control">>)
    /\ UNCHANGED <<challenges, proved, issued>>

ValidateDraft(c) ==
    /\ calls[c].core # NoCore
    /\ Writes(c, "validate", [calls[c] EXCEPT !.core.review =
            IF calls[c].core.document \in ValidDocuments THEN "validated" ELSE "draft"], <<"core">>)
    /\ UNCHANGED <<challenges, proved, issued>>

\* A draft made by create has no hash yet: it is that of its document.
HashOf(seen) == IF seen.hash = NoDraft THEN seen.document ELSE seen.hash

Challenged(c, challenge) == [status |-> "challenged", challenge |-> challenge, proof |-> NoChallenge]

CreateChallenge(c) ==
    LET challenge == [document |-> HashOf(calls[c].core), serial |-> challenges + 1] IN
    /\ calls[c].core.document # NoDraft
    /\ challenges' = challenges + 1
    /\ Writes(c, "challenge", [calls[c] EXCEPT
            !.core.hash = HashOf(calls[c].core),
            !.control = Challenged(c, challenge)],
          <<"control", "core">>)
    /\ UNCHANGED <<proved, issued>>

\* verify_subject_control_proof: the challenge was made for this document.
Proves(proof, document) == proof # NoChallenge /\ proof.document = document

SubmitProof(c) ==
    LET challenge == calls[c].control.challenge IN
    /\ calls[c].core.document # NoDraft
    /\ Proves(challenge, HashOf(calls[c].core))
    /\ proved' = proved \union {challenge}
    /\ Writes(c, "proof", [calls[c] EXCEPT
            !.core.status = "control-verified",
            !.control = [status |-> "verified", challenge |-> challenge, proof |-> challenge]],
          <<"control", "core">>)
    /\ UNCHANGED <<challenges, issued>>

IssueCredential(c) ==
    LET signed == [document |-> calls[c].core.hash, proof |-> calls[c].control.proof] IN
    /\ calls[c].core.review = "validated" /\ calls[c].core.hash # NoDraft
    /\ calls[c].control.status = "verified" /\ calls[c].control.proof # NoChallenge
    /\ issued' = issued \union {signed}
    /\ Writes(c, "issue", [calls[c] EXCEPT !.credential = signed, !.core.status = "credential-issued"],
          <<"credential", "core">>)
    /\ UNCHANGED <<challenges, proved>>

\* build_verify_and_publish_request, and the record of the submission.
BuildSubmission(c) ==
    /\ calls[c].at = "act" /\ calls[c].op = "submit"
    /\ calls[c].core.document # NoDraft
    /\ calls[c].credential # NoCredential /\ calls[c].control.proof # NoChallenge
    /\ submissions' = Append(submissions, "ready")
    /\ calls' = [calls EXCEPT ![c].at = "ready", ![c].number = Len(submissions) + 1]
    /\ UNCHANGED <<Rows, inflight, sent, challenges, started, abandoned, History>>

----------------------------------------------------------------------------
(* Writing rows, and ending *)

\* The SubmitAdmission is dropped with its request.
Released(c) == inflight \ {c}
Ends(c) ==
    /\ calls' = [calls EXCEPT ![c] = Resting]
    /\ inflight' = Released(c)

\* The next row is written; after the last one the request is answered.
WritesRow(c, row) ==
    /\ calls[c].at = "write" /\ Head(calls[c].writes) = row
    /\ IF Len(calls[c].writes) = 1
       THEN Ends(c)
       ELSE calls' = [calls EXCEPT ![c].writes = Tail(@)] /\ UNCHANGED inflight
    /\ UNCHANGED <<sent, submissions, challenges, started, abandoned, History>>
WriteCore(c) == WritesRow(c, "core") /\ core' = calls[c].core /\ UNCHANGED <<control, credential>>
WriteControl(c) == WritesRow(c, "control") /\ control' = calls[c].control /\ UNCHANGED <<core, credential>>
WriteCredential(c) ==
    WritesRow(c, "credential") /\ credential' = calls[c].credential /\ UNCHANGED <<core, control>>

\* The guards of a handler fail: an error answer.
RefuseCall(c) ==
    /\ calls[c].at = "act" /\ calls[c].op \notin {"create", "update"}
    /\ Ends(c)
    /\ UNCHANGED <<Rows, sent, submissions, challenges, started, abandoned, History>>

\* The request stops anywhere; what it wrote, or sent, stays.
AbandonCall(c) ==
    /\ calls[c] # Resting
    /\ abandoned < MaxAbandoned /\ abandoned' = abandoned + 1
    /\ Ends(c)
    /\ UNCHANGED <<Rows, sent, submissions, challenges, started, History>>

\* The Registrar starts again: requests and permits are gone, submissions are
\* left as they were recorded.
RestartRegistrar ==
    /\ abandoned < MaxAbandoned /\ abandoned' = abandoned + 1
    /\ calls' = [c \in Calls |-> Resting] /\ inflight' = {}
    /\ UNCHANGED <<Rows, sent, submissions, challenges, started, History>>

----------------------------------------------------------------------------
(* Submission to Root *)

PostSubmission(c) ==
    /\ calls[c].at = "ready"
    /\ sent' = sent \union {[number |-> calls[c].number, document |-> calls[c].core.document,
          hash |-> HashOf(calls[c].core), credential |-> calls[c].credential,
          proof |-> calls[c].control.proof, verdict |-> "none"]}
    /\ calls' = [calls EXCEPT ![c].at = "posted"]
    /\ UNCHANGED <<Rows, inflight, submissions, challenges, started, abandoned, History>>

\* Mutant: Root takes the Registrar's word for the proof.
AcceptsBound(m) ==
    /\ m.hash = m.document /\ m.document \in ValidDocuments
    /\ m.credential \in issued /\ m.credential.document = m.hash /\ m.credential.proof = m.proof

\* verify_request: the hash is the document's, the proof is about it, and the
\* credential bears the Registrar's signature, over this hash and this proof.
RootAccepts(m) ==
    /\ m.hash = m.document /\ m.document \in ValidDocuments
    /\ Proves(m.proof, m.hash)
    /\ m.credential \in issued /\ m.credential.document = m.hash /\ m.credential.proof = m.proof

RootVerifies(m) ==
    /\ m \in sent /\ m.verdict = "none"
    /\ IF RootAccepts(m)
       THEN /\ acceptances' = acceptances \union {m}
            /\ sent' = (sent \ {m}) \union {[m EXCEPT !.verdict = "accepted"]}
       ELSE /\ UNCHANGED acceptances
            /\ sent' = (sent \ {m}) \union {[m EXCEPT !.verdict = "rejected"]}
    /\ UNCHANGED <<Rows, calls, inflight, submissions, challenges, started, abandoned, proved, issued>>

\* The answer is recorded, or that none came in time (Root may have accepted,
\* or accept later), and the draft of before the post is written back whole.
Record(c, outcome, status) ==
    /\ submissions' = [submissions EXCEPT ![calls[c].number] = outcome]
    /\ calls' = [calls EXCEPT ![c].at = "write", ![c].core.status = status,
                    ![c].writes = <<"core", "control", "credential">>]
    /\ UNCHANGED <<Rows, inflight, sent, challenges, started, History>>
ReceiveAnswer(c) ==
    /\ calls[c].at = "posted"
    /\ \E m \in sent : /\ m.number = calls[c].number /\ m.verdict # "none"
                       /\ Record(c, m.verdict, IF m.verdict = "accepted" THEN "submitted" ELSE "submit-failed")
    /\ UNCHANGED abandoned

\* Mutant: an answer that did not come is a refusal.
NoAnswerRefuses == "rejected"

NoAnswer == "transport-failed"
PostTimesOut(c) ==
    /\ calls[c].at = "posted"
    /\ abandoned < MaxAbandoned /\ abandoned' = abandoned + 1
    /\ Record(c, NoAnswer, "submit-failed")

\* The submissions as the Registrar lists them, the newest first.
read_submission_values ==
    [i \in DOMAIN submissions |-> [number |-> Len(submissions) + 1 - i,
                                   status |-> submissions[Len(submissions) + 1 - i]]]

DraftsNext ==
    \/ \E c \in Calls, op \in {"create", "update", "validate", "challenge", "proof", "issue", "submit"} : StartCall(c, op)
    \/ \E c \in Calls : \/ ReadCore(c) \/ ReadControl(c) \/ ReadCredential(c)
                        \/ WriteCore(c) \/ WriteControl(c) \/ WriteCredential(c)
                        \/ RefuseCall(c) \/ AbandonCall(c)
    \/ RestartRegistrar
    \/ \E c \in Calls, d \in DraftDocuments : CreateDraft(c, d) \/ UpdateDocument(c, d)
    \/ \E c \in Calls : \E brought \in issued \union {[document |-> core.document, proof |-> control.proof]} :
          UpdateCredential(c, brought)
    \/ \E c \in Calls : \/ ValidateDraft(c) \/ CreateChallenge(c) \/ SubmitProof(c) \/ IssueCredential(c)
                        \/ BuildSubmission(c) \/ PostSubmission(c) \/ ReceiveAnswer(c) \/ PostTimesOut(c)
    \/ \E m \in sent : RootVerifies(m)

DraftsSpec == DraftsInit /\ [][DraftsNext]_draftVars

----------------------------------------------------------------------------
(* Properties *)

\* Whatever requests ran beside each other on the draft: what Root accepts is
\* a valid document whose subject proved control of this very document to the
\* Registrar, with a credential the Registrar signed over that proof.
AcceptedWasProved ==
    \A m \in acceptances :
        /\ m.document \in ValidDocuments
        /\ m.proof \in proved /\ m.proof.document = m.document
        /\ m.credential = [document |-> m.document, proof |-> m.proof] /\ m.credential \in issued

\* At most one submission of the draft runs, and the admission is held by
\* nobody but it: it is given back on every way out.
OneSubmissionAtATime ==
    /\ Cardinality(inflight) <= 1
    /\ \A c \in inflight : calls[c].op = "submit"

\* What the Registrar lists as accepted Root accepted, and what it lists as
\* rejected Root did not, nor will: no answer in time is neither.
ListedOutcomeIsRoots ==
    \A i \in DOMAIN read_submission_values :
        LET item == read_submission_values[i] IN
        item.status \in {"accepted", "rejected"} =>
            \E m \in sent : m.number = item.number /\ m.verdict = item.status

\* Submissions of a draft follow one another, and none is listed with another
\* outcome than its own, also when its answer came too late.
SubmissionsHold == OneSubmissionAtATime /\ ListedOutcomeIsRoots
============================================================================
