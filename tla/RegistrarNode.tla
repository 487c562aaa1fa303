---------------------------- MODULE RegistrarNode ----------------------------
(***************************************************************************)
(* The Registrar node: one draft, the records of the Agents it registers,  *)
(* and what it sends to Root.  A draft is one JSON file that each handler  *)
(* reads, changes and writes back without a lock; a mirror in SQLite, when *)
(* there is one, follows each write.  A file that is being rewritten is    *)
(* torn, and stays so if the Registrar stops; an update that meets a torn  *)
(* or missing draft begins a new one.  The registration itself records the *)
(* Agent, in its file and in the mirror, before it asks Root.              *)
(*                                                                         *)
(* A document stands for its Agent and whether validate_mvp accepts it.    *)
(***************************************************************************)
EXTENDS Naturals, Sequences, FiniteSets

CONSTANTS
    Subjects,     \* the Agents
    NoSubject,    \* no Agent
    Handlers,     \* the requests that may run at a time
    MaxHandled,   \* bound on the requests
    MaxDropped    \* bound on the requests cut short by an error, a lost client or a stop

VARIABLES
    draft,        \* drafts/<draft>.json: the draft, and whether the file is torn
    draftMirror,  \* registrar.drafts
    records,      \* records_dir: the document recorded for an Agent, and whether torn
    recordMirror, \* registrar.records
    handlers,     \* what each request is doing
    signed,       \* history: the credentials the Registrar signed
    requests,        \* registrations sent to Root, with Root's verdict
    registered,     \* history: the registrations Root accepted
    handled, dropped

registrarVars == <<draft, draftMirror, records, recordMirror, handlers, signed, requests, registered,
                   handled, dropped>>

Document == [owner : Subjects, sound : BOOLEAN]
NoDocument == [owner |-> NoSubject, sound |-> FALSE]
\* A credential of this Registrar, or one that somebody made up.
\* (Without an Agent the draft's, and the credential's, is "unknown".)
Certificate == [subject : Subjects \union {NoSubject}, signed : BOOLEAN]
NoCertificate == [subject |-> NoSubject, signed |-> FALSE]
DraftRecord == [agent : Subjects \union {NoSubject}, document : Document \union {NoDocument},
                certificate : Certificate]
FreshDraft(agent) == [agent |-> agent, document |-> NoDocument, certificate |-> NoCertificate]
Idle == [at |-> "idle"]

RegistrarInit ==
    /\ draft = [some |-> FALSE, torn |-> FALSE, value |-> FreshDraft(NoSubject)]
    /\ draftMirror = FreshDraft(NoSubject)
    /\ records = [s \in Subjects |-> [value |-> NoDocument, torn |-> FALSE]]
    /\ recordMirror = [s \in Subjects |-> NoDocument]
    /\ handlers = [h \in Handlers |-> Idle]
    /\ signed = {} /\ requests = {} /\ registered = {}
    /\ handled = 0 /\ dropped = 0

----------------------------------------------------------------------------
(* Drafts *)

\* read_draft
Readable == draft.some /\ ~draft.torn
Saves(value) == [at |-> "truncate draft", value |-> value]

Handle(h, begins) ==
    /\ handlers[h] = Idle /\ handled < MaxHandled /\ handled' = handled + 1
    /\ handlers' = [handlers EXCEPT ![h] = begins]
    /\ UNCHANGED <<draft, draftMirror, records, recordMirror, requests, registered, dropped>>

\* api_create_draft: whatever was under this draft_id is replaced.
api_create_draft(h, agent, document, certificate) ==
    /\ Handle(h, Saves([agent |-> IF document # NoDocument THEN document.owner ELSE agent,
                        document |-> document, certificate |-> certificate]))
    /\ UNCHANGED signed

\* api_update_draft: of the payload's parts, those that are there are taken.
Base == IF Readable THEN draft.value ELSE FreshDraft(NoSubject)
UpdateDraftAgent(h, agent) == Handle(h, Saves([Base EXCEPT !.agent = agent])) /\ UNCHANGED signed
UpdateDraftDocument(h, document) ==   \* one that cannot be parsed takes the old one away
    /\ Handle(h, Saves([Base EXCEPT !.document = document,
                          !.agent = IF document = NoDocument THEN @ ELSE document.owner]))
    /\ UNCHANGED signed
UpdateDraftCertificate(h, certificate) ==
    /\ Handle(h, Saves([Base EXCEPT !.certificate = certificate]))
    /\ UNCHANGED signed

\* api_issue_registration_credential, for the Agent the draft names.
api_issue_registration_credential(h) ==
    LET certificate == [subject |-> draft.value.agent, signed |-> TRUE] IN
    /\ Readable
    /\ Handle(h, Saves([draft.value EXCEPT !.certificate = certificate]))
    /\ signed' = signed \union {certificate}

TruncateDraft(h) ==
    /\ handlers[h].at = "truncate draft"
    /\ draft' = [draft EXCEPT !.torn = TRUE, !.some = TRUE]
    /\ handlers' = [handlers EXCEPT ![h].at = "write draft"]
    /\ UNCHANGED <<draftMirror, records, recordMirror, signed, requests, registered, handled, dropped>>
WriteDraft(h) ==
    /\ handlers[h].at = "write draft"
    /\ draft' = [some |-> TRUE, torn |-> FALSE, value |-> handlers[h].value]
    /\ handlers' = [handlers EXCEPT ![h].at = "mirror draft"]
    /\ UNCHANGED <<draftMirror, records, recordMirror, signed, requests, registered, handled, dropped>>
MirrorDraft(h) ==
    /\ handlers[h].at = "mirror draft"
    /\ draftMirror' = handlers[h].value
    /\ handlers' = [handlers EXCEPT ![h] = Idle]
    /\ UNCHANGED <<draft, records, recordMirror, signed, requests, registered, handled, dropped>>

----------------------------------------------------------------------------
(* Registration *)

\* register_agent, as far as it refuses.
Registrable(agent, document) == document.owner = agent /\ document.sound

Registers(agent, document, certificate) ==
    [at |-> "truncate record", document |-> document, certificate |-> certificate]

register_agent(h, agent, document, certificate) ==
    /\ Registrable(agent, document)
    /\ Handle(h, Registers(agent, document, certificate))
    /\ UNCHANGED signed

\* api_submit_draft
api_submit_draft(h) ==
    /\ Readable /\ draft.value.document # NoDocument /\ draft.value.certificate # NoCertificate
    /\ Registrable(draft.value.agent, draft.value.document)
    /\ Handle(h, Registers(draft.value.agent, draft.value.document, draft.value.certificate))
    /\ UNCHANGED signed

TruncateRecord(h) ==
    /\ handlers[h].at = "truncate record"
    /\ records' = [records EXCEPT ![handlers[h].document.owner].torn = TRUE]
    /\ handlers' = [handlers EXCEPT ![h].at = "write record"]
    /\ UNCHANGED <<draft, draftMirror, recordMirror, signed, requests, registered, handled, dropped>>

\* Mutant: the record goes to Root before the mirror has it.
PostAtOnce == "post"
AfterRecord == "mirror record"

WriteRecord(h) ==
    /\ handlers[h].at = "write record"
    /\ records' = [records EXCEPT ![handlers[h].document.owner] =
                      [value |-> handlers[h].document, torn |-> FALSE]]
    /\ handlers' = [handlers EXCEPT ![h].at = AfterRecord]
    /\ UNCHANGED <<draft, draftMirror, recordMirror, signed, requests, registered, handled, dropped>>
MirrorRecord(h) ==
    /\ handlers[h].at = "mirror record"
    /\ recordMirror' = [recordMirror EXCEPT ![handlers[h].document.owner] = handlers[h].document]
    /\ handlers' = [handlers EXCEPT ![h].at = "post"]
    /\ UNCHANGED <<draft, draftMirror, records, signed, requests, registered, handled, dropped>>
PostToRoot(h) ==
    /\ handlers[h].at = "post"
    /\ requests' = requests \union {[by |-> h, number |-> Cardinality(requests), verdict |-> "none",
                               document |-> handlers[h].document, certificate |-> handlers[h].certificate]}
    /\ handlers' = [handlers EXCEPT ![h] = [at |-> "posted", number |-> Cardinality(requests)]]
    /\ UNCHANGED <<draft, draftMirror, records, recordMirror, signed, registered, handled, dropped>>

\* verify_request of Root, for an authorized Registrar.
RootRegisters(post) ==
    post.document.sound /\ post.certificate.signed /\ post.certificate.subject = post.document.owner
RootAnswers(post) ==
    /\ post \in requests /\ post.verdict = "none"
    /\ requests' = (requests \ {post}) \union {[post EXCEPT !.verdict = IF RootRegisters(post) THEN "accepted" ELSE "rejected"]}
    /\ registered' = IF RootRegisters(post) THEN registered \union {[document |-> post.document, certificate |-> post.certificate]} ELSE registered
    /\ UNCHANGED <<draft, draftMirror, records, recordMirror, handlers, signed, handled, dropped>>

ReceiveRootAnswer(h) ==
    /\ handlers[h].at = "posted"
    /\ \E post \in requests : post.number = handlers[h].number /\ post.verdict # "none"
    /\ handlers' = [handlers EXCEPT ![h] = Idle]
    /\ UNCHANGED <<draft, draftMirror, records, recordMirror, signed, requests, registered, handled, dropped>>

DropRequest(h) ==
    /\ handlers[h] # Idle /\ dropped < MaxDropped /\ dropped' = dropped + 1
    /\ handlers' = [handlers EXCEPT ![h] = Idle]
    /\ UNCHANGED <<draft, draftMirror, records, recordMirror, signed, requests, registered, handled>>

\* What callers bring: a credential they were given, or one they made up.
Brought == signed \union {[subject |-> s, signed |-> FALSE] : s \in Subjects}

RegistrarNext ==
    \/ \E h \in Handlers, s \in Subjects, d \in Document \union {NoDocument}, c \in Brought \union {NoCertificate} :
          api_create_draft(h, s, d, c)
    \/ \E h \in Handlers, s \in Subjects : UpdateDraftAgent(h, s)
    \/ \E h \in Handlers, d \in Document \union {NoDocument} : UpdateDraftDocument(h, d)
    \/ \E h \in Handlers, c \in Brought : UpdateDraftCertificate(h, c)
    \/ \E h \in Handlers, s \in Subjects, d \in Document, c \in Brought : register_agent(h, s, d, c)
    \/ \E h \in Handlers : \/ api_issue_registration_credential(h) \/ api_submit_draft(h)
                           \/ TruncateDraft(h) \/ WriteDraft(h) \/ MirrorDraft(h)
                           \/ TruncateRecord(h) \/ WriteRecord(h) \/ MirrorRecord(h)
                           \/ PostToRoot(h) \/ ReceiveRootAnswer(h) \/ DropRequest(h)
    \/ \E post \in requests : RootAnswers(post)

RegistrarSpec == RegistrarInit /\ [][RegistrarNext]_registrarVars

----------------------------------------------------------------------------
(* Properties *)

\* Whatever updates raced the issue of a credential: what Root accepts bears a
\* credential this Registrar signed, for the Agent of the very document.
AcceptedIsCertified ==
    \A r \in registered : r.certificate \in signed /\ r.certificate.subject = r.document.owner

\* The Registrar knows what it registered: of an Agent that Root accepted from
\* it there is a record, in the file and in the mirror, wherever the request
\* was cut short.
AcceptedIsRecorded ==
    \A r \in registered :
        /\ records[r.document.owner].value \in Document
        /\ recordMirror[r.document.owner] \in Document

\* An Agent that Root accepted is certified and on record.
RegisteredIsKnown == AcceptedIsCertified /\ AcceptedIsRecorded
============================================================================
