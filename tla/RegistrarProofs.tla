----------------------------- MODULE RegistrarProofs -----------------------------
(***************************************************************************)
(* Proofs about the two Registrars: of the services, for any number of     *)
(* handlers, Agents and requests, and of the reference services, for any   *)
(* number of requests beside each other on a draft.                        *)
(***************************************************************************)
EXTENDS RegistrarNode, RegistrarDrafts, FiniteSetTheorems, SequenceTheorems, TLAPS

----------------------------------------------------------------------------
(* The Registrar of the services *)

\* A credential is the Registrar's own, or one without its signature.
Genuine(certificate) == certificate \in signed \/ certificate.signed = FALSE

SoundDraft(value) ==
    /\ DOMAIN value = {"agent", "document", "certificate"}
    /\ value.document \in Document \union {NoDocument}
    /\ Genuine(value.certificate)

Drafting == {"truncate draft", "write draft", "mirror draft"}
Recording == {"truncate record", "write record", "mirror record", "post"}

Recorded(document) == records[document.owner].value \in Document
Mirrored(document) == recordMirror[document.owner] \in Document

HandlerSound(h) ==
    /\ "at" \in DOMAIN handlers[h]
    /\ handlers[h].at \in Drafting =>
          DOMAIN handlers[h] = {"at", "value"} /\ SoundDraft(handlers[h].value)
    /\ handlers[h].at \in Recording =>
          /\ DOMAIN handlers[h] = {"at", "document", "certificate"}
          /\ handlers[h].document \in Document /\ Genuine(handlers[h].certificate)
    /\ handlers[h].at \in {"mirror record", "post"} => Recorded(handlers[h].document)
    /\ handlers[h].at = "post" => Mirrored(handlers[h].document)

Shaped ==
    /\ DOMAIN draft = {"some", "torn", "value"}
    /\ DOMAIN handlers = Handlers
    /\ DOMAIN recordMirror = Subjects
    /\ DOMAIN records = Subjects
    /\ \A s \in Subjects : DOMAIN records[s] = {"value", "torn"}

\* Wherever a registration is on its way, its credential is genuine, and from
\* the two writes on there is a record; what Root accepted came that way.
RegistrarInv ==
    /\ Shaped
    /\ SoundDraft(draft.value)
    /\ \A h \in Handlers : HandlerSound(h)
    /\ \A post \in requests :
          /\ DOMAIN post = {"by", "number", "verdict", "document", "certificate"}
          /\ post.document \in Document /\ Genuine(post.certificate)
          /\ Recorded(post.document) /\ Mirrored(post.document)
    /\ \A r \in registered : r.document \in Document /\ Recorded(r.document) /\ Mirrored(r.document)
    /\ AcceptedIsCertified

LEMMA OwnerIsSubject ==
    ASSUME NEW document \in Document
    PROVE  document.owner \in Subjects
    BY DEF Document

LEMMA RegistrarInvInit == RegistrarInit => RegistrarInv
<1> SUFFICES ASSUME RegistrarInit PROVE RegistrarInv
    OBVIOUS
<1>1. SoundDraft(draft.value)
  <2>1. draft.value = FreshDraft(NoSubject)
      BY DEF RegistrarInit
  <2> QED
      BY <2>1 DEF FreshDraft, SoundDraft, Genuine, NoCertificate
<1>2. Shaped
    BY DEF RegistrarInit, Shaped
<1>3. \A h \in Handlers : HandlerSound(h)
    BY DEF RegistrarInit, HandlerSound, Idle, Drafting, Recording
<1> QED
    BY <1>1, <1>2, <1>3 DEF RegistrarInit, RegistrarInv, AcceptedIsCertified

\* A step of one handler that takes no record and no signature away.
LEMMA HandlerChanges ==
    ASSUME RegistrarInv, NEW h \in Handlers, NEW becomes, "at" \in DOMAIN becomes,
           handlers' = [handlers EXCEPT ![h] = becomes],
           Shaped', SoundDraft(draft.value)', signed \subseteq signed',
           \A document \in Document :
              (Recorded(document) => Recorded(document)') /\ (Mirrored(document) => Mirrored(document)'),
           becomes.at \in Drafting => DOMAIN becomes = {"at", "value"} /\ SoundDraft(becomes.value)',
           becomes.at \in Recording => /\ DOMAIN becomes = {"at", "document", "certificate"}
                                       /\ becomes.document \in Document /\ Genuine(becomes.certificate)',
           becomes.at \in {"mirror record", "post"} => Recorded(becomes.document)',
           becomes.at = "post" => Mirrored(becomes.document)',
           \A post \in requests' : post \in requests \/
              (/\ DOMAIN post = {"by", "number", "verdict", "document", "certificate"}
               /\ post.document \in Document /\ Genuine(post.certificate)
               /\ Recorded(post.document) /\ Mirrored(post.document))',
           UNCHANGED registered
    PROVE  RegistrarInv'
<1>1. handlers'[h] = becomes /\ \A g \in Handlers \ {h} : handlers'[g] = handlers[g]
    BY DEF RegistrarInv, Shaped
<1>2. ASSUME NEW g \in Handlers \ {h}
      PROVE  HandlerSound(g)'
  <2>1. HandlerSound(g)
      BY DEF RegistrarInv
  <2>2. Genuine(handlers[g].certificate) => Genuine(handlers[g].certificate)'
      BY <1>1 DEF Genuine
  <2>3. SoundDraft(handlers[g].value) => SoundDraft(handlers[g].value)'
      BY <1>1 DEF SoundDraft, Genuine
  <2>4. handlers[g].at \in Recording => handlers[g].document \in Document
      BY <2>1 DEF HandlerSound
  <2> QED
      BY <1>1, <2>1, <2>2, <2>3, <2>4 DEF HandlerSound, Recording
<1>3. HandlerSound(h)'
    BY <1>1 DEF HandlerSound
<1>4. \A post \in requests :
         (/\ DOMAIN post = {"by", "number", "verdict", "document", "certificate"}
          /\ post.document \in Document /\ Genuine(post.certificate)
          /\ Recorded(post.document) /\ Mirrored(post.document))'
    BY DEF RegistrarInv, Genuine
<1>5. \A r \in registered' : r.document \in Document /\ Recorded(r.document)' /\ Mirrored(r.document)'
    BY DEF RegistrarInv
<1>6. AcceptedIsCertified'
    BY DEF RegistrarInv, AcceptedIsCertified
<1> QED
    BY <1>2, <1>3, <1>4, <1>5, <1>6 DEF RegistrarInv

\* What callers bring is genuine.
LEMMA BroughtIsGenuine ==
    ASSUME NEW certificate \in Brought \union {NoCertificate}
    PROVE  Genuine(certificate)
    BY DEF Brought, Genuine, NoCertificate

LEMMA BaseIsSound ==
    ASSUME RegistrarInv
    PROVE  SoundDraft(Base)
<1>1. SoundDraft(FreshDraft(NoSubject))
    BY DEF FreshDraft, SoundDraft, Genuine, NoCertificate
<1> QED
    BY <1>1 DEF Base, RegistrarInv

\* A request that saves a draft.
LEMMA DraftTakenUp ==
    ASSUME RegistrarInv, NEW h \in Handlers, NEW value, Handle(h, Saves(value)),
           SoundDraft(value)', signed \subseteq signed'
    PROVE  RegistrarInv'
<1>1. DOMAIN Saves(value) = {"at", "value"} /\ Saves(value).at = "truncate draft" /\ Saves(value).value = value
    BY DEF Saves
<1>2. /\ handlers' = [handlers EXCEPT ![h] = Saves(value)]
      /\ UNCHANGED <<draft, records, recordMirror, requests, registered>>
    BY DEF Handle
<1>3. Shaped' /\ SoundDraft(draft.value)'
    BY <1>2 DEF RegistrarInv, Shaped, SoundDraft, Genuine
<1>4. PICK becomes : becomes = Saves(value)
    OBVIOUS
<1> QED
    BY <1>1, <1>2, <1>3, <1>4, HandlerChanges DEF Recording, Recorded, Mirrored

\* A request that registers a document.
LEMMA RegistrationTakenUp ==
    ASSUME RegistrarInv, NEW h \in Handlers, NEW agent, NEW document \in Document, NEW certificate,
           Handle(h, Registers(agent, document, certificate)), Genuine(certificate), UNCHANGED signed
    PROVE  RegistrarInv'
<1>1. /\ DOMAIN Registers(agent, document, certificate) = {"at", "document", "certificate"}
      /\ Registers(agent, document, certificate).at = "truncate record"
      /\ Registers(agent, document, certificate).document = document
      /\ Registers(agent, document, certificate).certificate = certificate
    BY DEF Registers
<1>2. /\ handlers' = [handlers EXCEPT ![h] = Registers(agent, document, certificate)]
      /\ UNCHANGED <<draft, records, recordMirror, requests, registered>>
    BY DEF Handle
<1>3. Genuine(certificate)' /\ Shaped' /\ SoundDraft(draft.value)'
    BY <1>2 DEF RegistrarInv, Shaped, SoundDraft, Genuine
<1>4. PICK becomes : becomes = Registers(agent, document, certificate)
    OBVIOUS
<1> QED
    BY <1>1, <1>2, <1>3, <1>4, HandlerChanges DEF Drafting, Recorded, Mirrored

----------------------------------------------------------------------------
(* The steps *)

LEMMA DraftHandlersPreserve ==
    ASSUME RegistrarInv, NEW h \in Handlers
    PROVE  /\ \A s \in Subjects, d \in Document \union {NoDocument}, c \in Brought \union {NoCertificate} :
                 api_create_draft(h, s, d, c) => RegistrarInv'
           /\ \A s \in Subjects : UpdateDraftAgent(h, s) => RegistrarInv'
           /\ \A d \in Document \union {NoDocument} : UpdateDraftDocument(h, d) => RegistrarInv'
           /\ \A c \in Brought : UpdateDraftCertificate(h, c) => RegistrarInv'
           /\ api_issue_registration_credential(h) => RegistrarInv'
<1>0. SoundDraft(Base)
    BY BaseIsSound
<1>1. ASSUME NEW s \in Subjects, NEW d \in Document \union {NoDocument},
             NEW c \in Brought \union {NoCertificate}, api_create_draft(h, s, d, c)
      PROVE  RegistrarInv'
  <2> DEFINE value == [agent |-> IF d # NoDocument THEN d.owner ELSE s, document |-> d, certificate |-> c]
  <2>1. Handle(h, Saves(value)) /\ UNCHANGED signed
      BY <1>1 DEF api_create_draft
  <2>2. SoundDraft(value)'
      BY <2>1, BroughtIsGenuine DEF SoundDraft, Genuine
  <2> QED
      BY <2>1, <2>2, DraftTakenUp
<1>2. ASSUME NEW s \in Subjects, UpdateDraftAgent(h, s)
      PROVE  RegistrarInv'
  <2> DEFINE value == [Base EXCEPT !.agent = s]
  <2>1. Handle(h, Saves(value)) /\ UNCHANGED signed
      BY <1>2 DEF UpdateDraftAgent
  <2>2. DOMAIN value = DOMAIN Base /\ value.document = Base.document /\ value.certificate = Base.certificate
      BY <1>0 DEF SoundDraft
  <2>3. PICK v : v = value
      OBVIOUS
  <2>4. SoundDraft(v)'
      BY <1>0, <2>1, <2>2, <2>3 DEF SoundDraft, Genuine
  <2> QED
      BY <2>1, <2>3, <2>4, DraftTakenUp
<1>3. ASSUME NEW d \in Document \union {NoDocument}, UpdateDraftDocument(h, d)
      PROVE  RegistrarInv'
  <2> DEFINE value == [Base EXCEPT !.document = d, !.agent = IF d = NoDocument THEN @ ELSE d.owner]
  <2>1. Handle(h, Saves(value)) /\ UNCHANGED signed
      BY <1>3 DEF UpdateDraftDocument
  <2>2. DOMAIN value = DOMAIN Base /\ value.document = d /\ value.certificate = Base.certificate
      BY <1>0 DEF SoundDraft
  <2>3. PICK v : v = value
      OBVIOUS
  <2>4. SoundDraft(v)'
      BY <1>0, <2>1, <2>2, <2>3 DEF SoundDraft, Genuine
  <2> QED
      BY <2>1, <2>3, <2>4, DraftTakenUp
<1>4. ASSUME NEW c \in Brought, UpdateDraftCertificate(h, c)
      PROVE  RegistrarInv'
  <2> DEFINE value == [Base EXCEPT !.certificate = c]
  <2>1. Handle(h, Saves(value)) /\ UNCHANGED signed
      BY <1>4 DEF UpdateDraftCertificate
  <2>2. DOMAIN value = DOMAIN Base /\ value.document = Base.document /\ value.certificate = c
      BY <1>0 DEF SoundDraft
  <2>3. PICK v : v = value
      OBVIOUS
  <2>4. SoundDraft(v)'
      BY <1>0, <2>1, <2>2, <2>3, BroughtIsGenuine DEF SoundDraft, Genuine
  <2> QED
      BY <2>1, <2>3, <2>4, DraftTakenUp
<1>5. ASSUME api_issue_registration_credential(h)
      PROVE  RegistrarInv'
  <2> DEFINE certificate == [subject |-> draft.value.agent, signed |-> TRUE]
             value == [draft.value EXCEPT !.certificate = certificate]
  <2>1. Handle(h, Saves(value)) /\ signed' = signed \union {certificate}
      BY <1>5 DEF api_issue_registration_credential
  <2>2. SoundDraft(draft.value)
      BY DEF RegistrarInv
  <2>3. DOMAIN value = DOMAIN draft.value /\ value.document = draft.value.document
        /\ value.certificate = certificate
      BY <2>2 DEF SoundDraft
  <2>4. PICK v : v = value
      OBVIOUS
  <2> HIDE DEF certificate
  <2>5. SoundDraft(v)'
      BY <2>1, <2>2, <2>3, <2>4 DEF SoundDraft, Genuine
  <2> QED
      BY <2>1, <2>4, <2>5, DraftTakenUp
<1> QED
    BY <1>1, <1>2, <1>3, <1>4, <1>5

LEMMA RegistrationHandlersPreserve ==
    ASSUME RegistrarInv, NEW h \in Handlers
    PROVE  /\ \A s \in Subjects, d \in Document, c \in Brought : register_agent(h, s, d, c) => RegistrarInv'
           /\ api_submit_draft(h) => RegistrarInv'
<1>1. ASSUME NEW s \in Subjects, NEW d \in Document, NEW c \in Brought, register_agent(h, s, d, c)
      PROVE  RegistrarInv'
    BY <1>1, BroughtIsGenuine, RegistrationTakenUp DEF register_agent
<1>2. ASSUME api_submit_draft(h)
      PROVE  RegistrarInv'
  <2>1. draft.value.document \in Document /\ Genuine(draft.value.certificate)
      BY <1>2 DEF api_submit_draft, RegistrarInv, SoundDraft
  <2>2. PICK a, d, c : a = draft.value.agent /\ d = draft.value.document /\ c = draft.value.certificate
      OBVIOUS
  <2>3. Handle(h, Registers(a, d, c)) /\ UNCHANGED signed
      BY <1>2, <2>2 DEF api_submit_draft
  <2> QED
      BY <2>1, <2>2, <2>3, RegistrationTakenUp
<1> QED
    BY <1>1, <1>2

\* What a handler brings along when it goes on to its next write.
LEMMA GoesOn ==
    ASSUME NEW state, NEW stage, "at" \in DOMAIN state
    PROVE  LET becomes == [state EXCEPT !.at = stage] IN
           /\ DOMAIN becomes = DOMAIN state /\ becomes.at = stage
           /\ "value" \in DOMAIN state => becomes.value = state.value
           /\ "document" \in DOMAIN state => becomes.document = state.document
           /\ "certificate" \in DOMAIN state => becomes.certificate = state.certificate
    OBVIOUS

LEMMA DraftWritesPreserve ==
    ASSUME RegistrarInv, NEW h \in Handlers, TruncateDraft(h) \/ WriteDraft(h)
    PROVE  RegistrarInv'
<1>1. /\ UNCHANGED <<records, recordMirror, signed, requests, registered>>
      /\ handlers[h].at \in Drafting
      /\ \E stage \in Drafting : handlers' = [handlers EXCEPT ![h] = [handlers[h] EXCEPT !.at = stage]]
    BY DEF TruncateDraft, WriteDraft, Drafting
<1>2. DOMAIN handlers[h] = {"at", "value"} /\ SoundDraft(handlers[h].value)
    BY <1>1 DEF RegistrarInv, HandlerSound
<1>3. Shaped' /\ SoundDraft(draft.value)'
  <2>1. DOMAIN draft' = {"some", "torn", "value"} /\ (draft'.value = draft.value \/ draft'.value = handlers[h].value)
    <3>1. CASE TruncateDraft(h)
        BY <3>1 DEF TruncateDraft, RegistrarInv, Shaped
    <3>2. CASE WriteDraft(h)
        BY <3>2 DEF WriteDraft
    <3> QED
        BY <3>1, <3>2
  <2>2. DOMAIN handlers' = Handlers
      BY <1>1 DEF RegistrarInv, Shaped
  <2> QED
      BY <1>1, <1>2, <2>1, <2>2 DEF RegistrarInv, Shaped, SoundDraft, Genuine
<1>4. PICK stage, becomes :
         stage \in Drafting /\ becomes = [handlers[h] EXCEPT !.at = stage] /\ handlers' = [handlers EXCEPT ![h] = becomes]
    BY <1>1
<1>5. DOMAIN becomes = {"at", "value"} /\ becomes.at = stage /\ becomes.value = handlers[h].value
    BY <1>2, <1>4, GoesOn
<1>6. SoundDraft(becomes.value)'
    BY <1>1, <1>2, <1>5 DEF SoundDraft, Genuine
<1> QED
    BY <1>1, <1>3, <1>4, <1>5, <1>6, HandlerChanges DEF Recorded, Mirrored, Drafting, Recording

\* The end of a request: its answer, or its being cut short.
LEMMA EndsPreserve ==
    ASSUME RegistrarInv, NEW h \in Handlers, MirrorDraft(h) \/ ReceiveRootAnswer(h) \/ DropRequest(h)
    PROVE  RegistrarInv'
<1>1. /\ UNCHANGED <<draft, records, recordMirror, signed, requests, registered>>
      /\ handlers' = [handlers EXCEPT ![h] = Idle]
    BY DEF MirrorDraft, ReceiveRootAnswer, DropRequest
<1>2. Shaped' /\ SoundDraft(draft.value)'
    BY <1>1 DEF RegistrarInv, Shaped, SoundDraft, Genuine
<1>3. PICK becomes : becomes = Idle
    OBVIOUS
<1>4. "at" \in DOMAIN becomes /\ becomes.at = "idle"
    BY <1>3 DEF Idle
<1> QED
    BY <1>1, <1>2, <1>3, <1>4, HandlerChanges DEF Recorded, Mirrored, Drafting, Recording

\* The two writes of a record, the truncation before them and the request after.
LEMMA RecordWritesPreserve ==
    ASSUME RegistrarInv, NEW h \in Handlers, TruncateRecord(h) \/ WriteRecord(h) \/ MirrorRecord(h)
    PROVE  RegistrarInv'
<1>1. /\ UNCHANGED <<draft, signed, requests, registered>>
      /\ handlers[h].at \in Recording
      /\ \E stage \in Recording : handlers' = [handlers EXCEPT ![h] = [handlers[h] EXCEPT !.at = stage]]
    BY DEF TruncateRecord, WriteRecord, MirrorRecord, AfterRecord, Recording
<1>2. /\ DOMAIN handlers[h] = {"at", "document", "certificate"}
      /\ handlers[h].document \in Document /\ Genuine(handlers[h].certificate)
    BY <1>1 DEF RegistrarInv, HandlerSound
<1>3. PICK stage, becomes, mine :
         /\ mine = handlers[h].document
         /\ stage \in Recording
         /\ becomes = [handlers[h] EXCEPT !.at = stage] /\ handlers' = [handlers EXCEPT ![h] = becomes]
    BY <1>1
<1>4. /\ DOMAIN becomes = {"at", "document", "certificate"} /\ becomes.at = stage
      /\ becomes.document = handlers[h].document /\ becomes.certificate = handlers[h].certificate
    BY <1>2, <1>3, GoesOn
<1>5. handlers'[h].at = stage
    BY <1>3, <1>4 DEF RegistrarInv, Shaped
<1>6. mine \in Document /\ mine.owner \in Subjects
    BY <1>2, <1>3, OwnerIsSubject
<1>7. /\ Shaped'
      /\ \A document \in Document :
            (Recorded(document) => Recorded(document)') /\ (Mirrored(document) => Mirrored(document)')
      /\ stage \in {"mirror record", "post"} => Recorded(mine)'
      /\ stage = "post" => Mirrored(mine)'
  <2> DEFINE owner == mine.owner
  <2>1. DOMAIN handlers' = Handlers /\ Shaped
      BY <1>3 DEF RegistrarInv, Shaped
  <2>2. CASE TruncateRecord(h)
    <3>1. stage = "write record"
        BY <1>5, <2>1, <2>2, <1>2 DEF TruncateRecord, Shaped
    <3>2. UNCHANGED recordMirror /\ DOMAIN records' = Subjects
          /\ \A s \in Subjects : DOMAIN records'[s] = {"value", "torn"} /\ records'[s].value = records[s].value
        BY <1>3, <1>6, <2>1, <2>2 DEF TruncateRecord, Shaped
    <3> QED
        BY <1>1, <2>1, <3>1, <3>2, OwnerIsSubject DEF Shaped, Recorded, Mirrored
  <2>3. CASE WriteRecord(h)
    <3>1. stage = "mirror record"
        BY <1>5, <2>1, <2>3, <1>2 DEF WriteRecord, Shaped, AfterRecord
    <3>2. /\ UNCHANGED recordMirror /\ DOMAIN records' = Subjects
          /\ records'[owner] = [value |-> mine, torn |-> FALSE]
          /\ \A s \in Subjects : s # owner => records'[s] = records[s]
        BY <1>3, <1>6, <2>1, <2>3 DEF WriteRecord, Shaped
    <3>3. DOMAIN records'[owner] = {"value", "torn"} /\ records'[owner].value \in Document
        BY <1>6, <3>2
    <3>6. Recorded(mine)'
        BY <3>3 DEF Recorded
    <3> HIDE DEF owner
    <3>4. Shaped'
        BY <1>1, <2>1, <3>2, <3>3 DEF Shaped
    <3>5. \A document \in Document : Recorded(document) => Recorded(document)'
        BY <3>2, <3>3, OwnerIsSubject DEF Recorded
    <3> QED
        BY <3>1, <3>2, <3>4, <3>5, <3>6 DEF Mirrored
  <2>4. CASE MirrorRecord(h)
    <3>1. Recorded(mine)
        BY <1>3, <2>4 DEF MirrorRecord, RegistrarInv, HandlerSound
    <3>2. /\ UNCHANGED records /\ DOMAIN recordMirror' = Subjects
          /\ recordMirror'[owner] = mine
          /\ \A s \in Subjects : s # owner => recordMirror'[s] = recordMirror[s]
        BY <1>3, <1>6, <2>1, <2>4 DEF MirrorRecord, Shaped
    <3>3. \A document \in Document : Mirrored(document) => Mirrored(document)'
        BY <1>6, <3>2, OwnerIsSubject DEF Mirrored
    <3> QED
        BY <1>1, <1>6, <2>1, <3>1, <3>2, <3>3 DEF Shaped, Recorded, Mirrored
  <2> QED
      BY <2>2, <2>3, <2>4
<1>8. SoundDraft(draft.value)' /\ Genuine(becomes.certificate)'
    BY <1>1, <1>2, <1>4 DEF RegistrarInv, SoundDraft, Genuine
<1>9. becomes.at \notin Drafting
    BY <1>3, <1>4 DEF Drafting, Recording
<1> QED
    BY <1>1, <1>2, <1>3, <1>4, <1>7, <1>8, <1>9, HandlerChanges

LEMMA PostPreserves ==
    ASSUME RegistrarInv, NEW h \in Handlers, PostToRoot(h)
    PROVE  RegistrarInv'
<1>1. /\ UNCHANGED <<draft, records, recordMirror, signed, registered>>
      /\ handlers[h].at = "post"
    BY DEF PostToRoot
<1>2. PICK document, certificate, number :
         document = handlers[h].document /\ certificate = handlers[h].certificate /\ number = Cardinality(requests)
    OBVIOUS
<1>3. document \in Document /\ Genuine(certificate) /\ Recorded(document) /\ Mirrored(document)
    BY <1>1, <1>2 DEF RegistrarInv, HandlerSound, Recording
<1>4. PICK made, becomes :
         /\ made = [by |-> h, number |-> number, verdict |-> "none",
                    document |-> document, certificate |-> certificate]
         /\ becomes = [at |-> "posted", number |-> number]
    OBVIOUS
<1>5. requests' = requests \union {made} /\ handlers' = [handlers EXCEPT ![h] = becomes]
    BY <1>2, <1>4 DEF PostToRoot
<1>6. /\ DOMAIN made = {"by", "number", "verdict", "document", "certificate"}
      /\ made.document = document /\ made.certificate = certificate
      /\ "at" \in DOMAIN becomes /\ becomes.at = "posted"
    BY <1>4
<1>7. Shaped' /\ SoundDraft(draft.value)'
    BY <1>1, <1>5 DEF RegistrarInv, Shaped, SoundDraft, Genuine
<1>8. (Genuine(made.certificate) /\ Recorded(made.document) /\ Mirrored(made.document))'
    BY <1>1, <1>3, <1>6 DEF Genuine, Recorded, Mirrored
<1>9. \A d \in Document : (Recorded(d) => Recorded(d)') /\ (Mirrored(d) => Mirrored(d)')
    BY <1>1 DEF Recorded, Mirrored
<1>10. becomes.at \notin Drafting /\ becomes.at \notin Recording
    BY <1>6 DEF Drafting, Recording
<1>11. becomes.at \notin {"mirror record", "post"}
    BY <1>6
<1> QED
    BY <1>1, <1>3, <1>5, <1>6, <1>7, <1>8, <1>9, <1>10, <1>11, HandlerChanges

LEMMA AnswerPreserves ==
    ASSUME RegistrarInv, NEW post \in requests, RootAnswers(post)
    PROVE  RegistrarInv'
<1>1. UNCHANGED <<draft, draftMirror, records, recordMirror, handlers, signed>>
    BY DEF RootAnswers
<1>2. /\ DOMAIN post = {"by", "number", "verdict", "document", "certificate"}
      /\ post.document \in Document /\ Genuine(post.certificate)
      /\ Recorded(post.document) /\ Mirrored(post.document)
    BY DEF RegistrarInv
<1>3. PICK answer :
         /\ requests' = (requests \ {post}) \union {answer}
         /\ DOMAIN answer = DOMAIN post
         /\ answer.document = post.document /\ answer.certificate = post.certificate
  <2> DEFINE answer == [post EXCEPT !.verdict = IF RootRegisters(post) THEN "accepted" ELSE "rejected"]
  <2>1. requests' = (requests \ {post}) \union {answer}
      BY DEF RootAnswers
  <2>2. DOMAIN answer = DOMAIN post /\ answer.document = post.document /\ answer.certificate = post.certificate
      BY <1>2
  <2> QED
      BY <2>1, <2>2
<1>4. \A r \in registered' : r \in registered \/
         (r.document = post.document /\ r.certificate = post.certificate /\ RootRegisters(post))
    BY DEF RootAnswers
<1>5. RootRegisters(post) => post.certificate \in signed /\ post.certificate.subject = post.document.owner
    BY <1>2 DEF RootRegisters, Genuine
<1>6. \A r \in registered' : r.document \in Document /\ Recorded(r.document)' /\ Mirrored(r.document)'
    BY <1>1, <1>2, <1>4 DEF RegistrarInv, Recorded, Mirrored
<1>7. AcceptedIsCertified'
    BY <1>1, <1>4, <1>5 DEF RegistrarInv, AcceptedIsCertified
<1>8. \A made \in requests' :
         (/\ DOMAIN made = {"by", "number", "verdict", "document", "certificate"}
          /\ made.document \in Document /\ Genuine(made.certificate)
          /\ Recorded(made.document) /\ Mirrored(made.document))'
    BY <1>1, <1>2, <1>3 DEF RegistrarInv, Genuine, Recorded, Mirrored
<1>9. Shaped' /\ SoundDraft(draft.value)' /\ \A h \in Handlers : HandlerSound(h)'
    BY <1>1 DEF RegistrarInv, Shaped, SoundDraft, Genuine, HandlerSound, Recorded, Mirrored
<1> QED
    BY <1>6, <1>7, <1>8, <1>9 DEF RegistrarInv

LEMMA RegistrarInvStep == RegistrarInv /\ [RegistrarNext]_registrarVars => RegistrarInv'
<1> SUFFICES ASSUME RegistrarInv, [RegistrarNext]_registrarVars PROVE RegistrarInv'
    OBVIOUS
<1>1. CASE RegistrarNext
    BY <1>1, DraftHandlersPreserve, RegistrationHandlersPreserve, DraftWritesPreserve, EndsPreserve,
       RecordWritesPreserve, PostPreserves, AnswerPreserves
    DEF RegistrarNext
<1>2. CASE UNCHANGED registrarVars
    BY <1>2 DEF registrarVars, RegistrarInv, Shaped, SoundDraft, Genuine, HandlerSound, Recorded, Mirrored,
                AcceptedIsCertified
<1> QED
    BY <1>1, <1>2

\* The invariant of the Registrar: what handlers carry is signed and genuine,
\* and what Root has is on record.
THEOREM RegistrarInvAlways == RegistrarSpec => []RegistrarInv
    BY RegistrarInvInit, RegistrarInvStep, PTL DEF RegistrarSpec

\* What Root accepts from the Registrar bears a credential that
\* api_issue_registration_credential signed, for the Agent of that document,
\* however updates of the one draft lost each other's changes.
THEOREM Certified == RegistrarSpec => []AcceptedIsCertified
<1>1. RegistrarInv => AcceptedIsCertified
    BY DEF RegistrarInv
<1> QED
    BY <1>1, RegistrarInvAlways, PTL

\* register_agent writes the record and its mirror before it asks Root: of
\* every Agent accepted there is one, wherever requests were cut short.
THEOREM RecordedFirst == RegistrarSpec => []AcceptedIsRecorded
<1>1. RegistrarInv => AcceptedIsRecorded
    BY DEF RegistrarInv, AcceptedIsRecorded, Recorded, Mirrored
<1> QED
    BY <1>1, RegistrarInvAlways, PTL

\* Every Agent that Root accepted from the Registrar is certified and on record.
THEOREM RegisteredKnown == RegistrarSpec => []RegisteredIsKnown
<1>1. AcceptedIsCertified /\ AcceptedIsRecorded => RegisteredIsKnown
    BY DEF RegisteredIsKnown
<1> QED
    BY <1>1, Certified, RecordedFirst, PTL

----------------------------------------------------------------------------
(* The Registrar of the reference services *)

Documents == DraftDocuments \union ValidDocuments \union {NoDraft}
Challenges == [document : Documents, serial : Nat]
CoreRows == [document : Documents, hash : Documents, review : {"draft", "validated"},
             status : {"none", "draft", "control-verified", "credential-issued", "submitted", "submit-failed"}]
ControlRows == [status : {"not-started", "challenged", "verified"}, challenge : Challenges, proof : Challenges]
CredentialRows == [document : Documents, proof : Challenges]
RowNames == {"core", "control", "credential"}
CallStates ==
    [op : {"none", "create", "update", "validate", "challenge", "proof", "issue", "submit"},
     at : {"idle", "core", "control", "credential", "act", "write", "ready", "posted"},
     core : CoreRows, control : ControlRows, credential : CredentialRows,
     writes : Seq(RowNames), number : Nat]
Outcomes == {"ready", "accepted", "rejected", "transport-failed"}
Messages == [number : Nat, document : Documents, hash : Documents, credential : CredentialRows,
             proof : Challenges, verdict : {"none", "accepted", "rejected"}]

RowsTyped == core \in CoreRows /\ control \in ControlRows /\ credential \in CredentialRows
CallsTyped ==
    /\ calls \in [Calls -> CallStates]
    /\ \A c \in Calls : calls[c].at = "write" => calls[c].writes # <<>>
HistoryTyped ==
    /\ challenges \in Nat /\ proved \subseteq Challenges /\ issued \subseteq CredentialRows
    /\ sent \subseteq Messages /\ submissions \in Seq(Outcomes)

\* A proof is none, or one the Registrar verified.
Checked(proof) == proof = NoChallenge \/ proof \in proved

\* Wherever a handler carries a proof on, and wherever one is stored or signed.
ProofsKept ==
    /\ Checked(control.proof)
    /\ \A c \in Calls : Checked(calls[c].control.proof)
    /\ \A k \in issued : k.proof \in proved

AdmissionKept ==
    /\ inflight \subseteq Calls
    /\ \A c \in inflight : calls[c].op = "submit"
    /\ \A c, d \in inflight : c = d

OutcomesKept ==
    \A i \in DOMAIN submissions :
        submissions[i] \in {"accepted", "rejected"} =>
            \E m \in sent : m.number = i /\ m.verdict = submissions[i]

DraftsInv ==
    /\ RowsTyped /\ CallsTyped /\ HistoryTyped
    /\ ProofsKept /\ AcceptedWasProved /\ AdmissionKept /\ OutcomesKept

LEMMA NoneTyped ==
    /\ NoChallenge \in Challenges /\ NoCredential \in CredentialRows
    /\ NotStarted \in ControlRows /\ NoCore \in CoreRows
    /\ Resting \in CallStates
    /\ Resting.op = "none" /\ Resting.at = "idle" /\ Resting.control = NotStarted
    /\ NotStarted.proof = NoChallenge
<1>1. <<>> \in Seq(RowNames)
    OBVIOUS
<1>2. NoChallenge \in Challenges
    BY DEF NoChallenge, Challenges, Documents
<1>3. NoCredential \in CredentialRows
    BY <1>2 DEF NoCredential, CredentialRows, Documents
<1>4. NotStarted \in ControlRows /\ NotStarted.proof = NoChallenge
    BY <1>2 DEF NotStarted, ControlRows
<1>5. NoCore \in CoreRows
    BY DEF NoCore, CoreRows, Documents
<1>6. Resting \in CallStates /\ Resting.op = "none" /\ Resting.at = "idle" /\ Resting.control = NotStarted
    BY <1>1, <1>3, <1>4, <1>5 DEF Resting, CallStates
<1> QED
    BY <1>2, <1>3, <1>4, <1>5, <1>6

LEMMA DraftsInvInit == DraftsInit => DraftsInv
<1> SUFFICES ASSUME DraftsInit PROVE DraftsInv
    OBVIOUS
<1>1. /\ calls = [c \in Calls |-> Resting] /\ submissions = <<>> /\ sent = {} /\ inflight = {} /\ acceptances = {}
    BY DEF DraftsInit
<1>2. /\ RowsTyped /\ Checked(control.proof)
      /\ challenges \in Nat /\ proved \subseteq Challenges /\ issued \subseteq CredentialRows
      /\ \A k \in issued : k.proof \in proved
  <2>1. CASE EmptyDraft
    BY <2>1, NoneTyped DEF EmptyDraft, RowsTyped, Checked
  <2>2. CASE \E d \in ValidDocuments : IssuedDraft(d)
    <3>1. PICK d \in ValidDocuments : IssuedDraft(d)
        BY <2>2
    <3> DEFINE proof == [document |-> d, serial |-> 1]
    <3>2. d \in Documents /\ proof \in Challenges
        BY DEF Documents, Challenges
    <3>3. /\ core = [document |-> d, hash |-> d, review |-> "validated", status |-> "credential-issued"]
          /\ control = [status |-> "verified", challenge |-> proof, proof |-> proof]
          /\ credential = [document |-> d, proof |-> proof]
          /\ challenges = 1 /\ proved = {proof} /\ issued = {credential}
        BY <3>1 DEF IssuedDraft
    <3> HIDE DEF proof
    <3> QED
        BY <3>2, <3>3 DEF RowsTyped, CoreRows, ControlRows, CredentialRows, Checked
  <2> QED
    BY <2>1, <2>2 DEF DraftsInit
<1>3. CallsTyped /\ \A c \in Calls : Checked(calls[c].control.proof)
    BY <1>1, NoneTyped DEF CallsTyped, Checked
<1> QED
    BY <1>1, <1>2, <1>3 DEF DraftsInv, HistoryTyped, ProofsKept, AcceptedWasProved, AdmissionKept, OutcomesKept

\* What one request becomes, when it goes on with a draft it may have.
LEMMA CallBecomes ==
    ASSUME CallsTyped, ProofsKept, proved \subseteq proved',
           NEW c \in Calls, NEW state \in CallStates, calls' = [calls EXCEPT ![c] = state],
           state.at = "write" => state.writes # <<>>,
           state.control.proof = NoChallenge \/ state.control.proof \in proved'
    PROVE  /\ CallsTyped'
           /\ calls'[c] = state
           /\ \A d \in Calls : d # c => calls'[d] = calls[d]
           /\ \A d \in Calls : Checked(calls[d].control.proof)'
BY DEF CallsTyped, ProofsKept, Checked

\* A step that leaves the rest as it is keeps the rest of the invariant.
LEMMA RestKept ==
    ASSUME DraftsInv, CallsTyped', UNCHANGED <<Rows, challenges, sent, submissions, History>>,
           \A d \in Calls : Checked(calls[d].control.proof)', AdmissionKept'
    PROVE  DraftsInv'
BY DEF DraftsInv, RowsTyped, HistoryTyped, ProofsKept, AcceptedWasProved, OutcomesKept, Rows, History, Checked

\* A request that goes on keeps its permit.
LEMMA AdmissionStays ==
    ASSUME AdmissionKept, inflight' = inflight,
           \A d \in Calls : calls'[d].op = calls[d].op
    PROVE  AdmissionKept'
BY DEF AdmissionKept

\* One that ends gives it back.
LEMMA EndKeeps ==
    ASSUME CallsTyped, ProofsKept, AdmissionKept, proved' = proved, NEW c \in Calls, Ends(c)
    PROVE  /\ CallsTyped' /\ AdmissionKept'
           /\ \A d \in Calls : Checked(calls[d].control.proof)'
<1>1. Resting.control.proof = NoChallenge
    BY NoneTyped DEF Checked
<1>2. calls' = [calls EXCEPT ![c] = Resting] /\ inflight' = inflight \ {c}
    BY DEF Ends, Released
<1>3. /\ CallsTyped' /\ \A d \in Calls : d # c => calls'[d] = calls[d]
      /\ \A d \in Calls : Checked(calls[d].control.proof)'
    BY <1>1, <1>2, CallBecomes, NoneTyped
<1> QED
    BY <1>2, <1>3 DEF AdmissionKept

LEMMA ReadKeeps ==
    ASSUME DraftsInv, NEW c \in Calls, NEW row, NEW state \in CallStates, Reads(c, row, state),
           state.at # "write", state.op = calls[c].op, Checked(state.control.proof)
    PROVE  DraftsInv'
<1>1. calls' = [calls EXCEPT ![c] = state] /\ UNCHANGED <<Rows, inflight, sent, submissions, challenges, History>>
    BY DEF Reads
<1>2. UNCHANGED proved
    BY <1>1 DEF History
<1>3. /\ CallsTyped' /\ calls'[c] = state
      /\ \A d \in Calls : d # c => calls'[d] = calls[d]
      /\ \A d \in Calls : Checked(calls[d].control.proof)'
    BY <1>1, <1>2, CallBecomes DEF DraftsInv, Checked
<1>4. AdmissionKept'
    BY <1>1, <1>3, AdmissionStays DEF DraftsInv
<1> QED
    BY <1>1, <1>3, <1>4, RestKept

LEMMA HandlerKeeps ==
    ASSUME DraftsInv, NEW c \in Calls, NEW op, NEW state \in CallStates, NEW rows \in Seq(RowNames),
           Writes(c, op, state, rows), rows # <<>>, state.op = calls[c].op,
           challenges' \in Nat, proved' \subseteq Challenges, proved \subseteq proved',
           state.control.proof = NoChallenge \/ state.control.proof \in proved',
           issued' \subseteq CredentialRows, issued \subseteq issued',
           \A k \in issued' : k \in issued \/ k.proof \in proved'
    PROVE  DraftsInv'
<1> DEFINE goes == [state EXCEPT !.at = "write", !.writes = rows]
<1>1. /\ calls' = [calls EXCEPT ![c] = goes]
      /\ UNCHANGED <<Rows, inflight, sent, submissions, acceptances>>
    BY DEF Writes
<1>2. goes \in CallStates /\ goes.op = calls[c].op /\ goes.writes = rows /\ goes.control = state.control
    BY DEF CallStates
<1> HIDE DEF goes
<1>3. /\ CallsTyped' /\ calls'[c] = goes
      /\ \A d \in Calls : d # c => calls'[d] = calls[d]
      /\ \A d \in Calls : Checked(calls[d].control.proof)'
    BY <1>1, <1>2, CallBecomes DEF DraftsInv
<1>4. AdmissionKept'
    BY <1>1, <1>2, <1>3, AdmissionStays DEF DraftsInv
<1>5. RowsTyped' /\ HistoryTyped' /\ OutcomesKept'
    BY <1>1 DEF DraftsInv, RowsTyped, HistoryTyped, OutcomesKept, Rows
<1>6. ProofsKept'
    BY <1>1, <1>3 DEF DraftsInv, ProofsKept, Checked, Rows
<1>7. AcceptedWasProved'
    BY <1>1 DEF DraftsInv, AcceptedWasProved
<1> QED
    BY <1>3, <1>4, <1>5, <1>6, <1>7 DEF DraftsInv

LEMMA StartKeeps ==
    ASSUME DraftsInv, NEW c \in Calls,
           NEW op \in {"create", "update", "validate", "challenge", "proof", "issue", "submit"}, StartCall(c, op)
    PROVE  DraftsInv'
<1> DEFINE begun == [calls[c] EXCEPT !.op = op, !.at = IF op = "create" THEN "act" ELSE "core"]
<1>1. calls[c] = Resting /\ UNCHANGED <<Rows, sent, submissions, challenges, History>>
    BY DEF StartCall
<1>2. calls[c] \in CallStates
    BY <1>1, NoneTyped
<1>3. /\ begun \in CallStates /\ begun.op = op /\ begun.at # "write"
      /\ begun.control = calls[c].control
    BY <1>2 DEF CallStates
<1>4. calls' = [calls EXCEPT ![c] = begun]
    BY <1>2 DEF StartCall, CallStates
<1> HIDE DEF begun
<1>5. /\ CallsTyped' /\ calls'[c] = begun
      /\ \A d \in Calls : d # c => calls'[d] = calls[d]
      /\ \A d \in Calls : Checked(calls[d].control.proof)'
    BY <1>1, <1>3, <1>4, NoneTyped, CallBecomes DEF DraftsInv, Checked, History
<1>6. AdmissionKept'
  <2>1. CASE op = "submit"
    <3>1. inflight = {} /\ inflight' = {c}
        BY <2>1 DEF StartCall, Admitted
    <3> QED
        BY <2>1, <3>1, <1>3, <1>5 DEF AdmissionKept
  <2>2. CASE op # "submit"
    <3>1. inflight' = inflight
        BY <2>2 DEF StartCall
    <3>2. c \notin inflight
        BY <1>1, NoneTyped DEF DraftsInv, AdmissionKept
    <3> QED
        BY <3>1, <3>2, <1>5 DEF DraftsInv, AdmissionKept
  <2> QED
    BY <2>1, <2>2
<1> QED
    BY <1>1, <1>5, <1>6, RestKept

LEMMA ReadsKeep ==
    ASSUME DraftsInv, NEW c \in Calls, ReadCore(c) \/ ReadControl(c) \/ ReadCredential(c)
    PROVE  DraftsInv'
<1>1. /\ calls[c] \in CallStates /\ Checked(calls[c].control.proof) /\ Checked(control.proof)
      /\ core \in CoreRows /\ control \in ControlRows /\ credential \in CredentialRows
    BY DEF DraftsInv, CallsTyped, ProofsKept, RowsTyped
<1>2. CASE ReadCore(c)
  <2> DEFINE state == [calls[c] EXCEPT !.core = core, !.at = IF core = NoCore THEN "act" ELSE "control"]
  <2>1. state \in CallStates /\ state.at # "write" /\ state.op = calls[c].op /\ state.control = calls[c].control
    BY <1>1 DEF CallStates
  <2>2. Reads(c, "core", state)
    BY <1>2 DEF ReadCore
  <2> HIDE DEF state
  <2> QED
    BY <1>1, <2>1, <2>2, ReadKeeps
<1>3. CASE ReadControl(c)
  <2> DEFINE state == [calls[c] EXCEPT !.control = control, !.at = "credential"]
  <2>1. state \in CallStates /\ state.at # "write" /\ state.op = calls[c].op /\ state.control = control
    BY <1>1 DEF CallStates
  <2>2. Reads(c, "control", state)
    BY <1>3 DEF ReadControl
  <2> HIDE DEF state
  <2> QED
    BY <1>1, <2>1, <2>2, ReadKeeps
<1>4. CASE ReadCredential(c)
  <2> DEFINE state == [calls[c] EXCEPT !.credential = credential, !.at = "act"]
  <2>1. state \in CallStates /\ state.at # "write" /\ state.op = calls[c].op /\ state.control = calls[c].control
    BY <1>1 DEF CallStates
  <2>2. Reads(c, "credential", state)
    BY <1>4 DEF ReadCredential
  <2> HIDE DEF state
  <2> QED
    BY <1>1, <2>1, <2>2, ReadKeeps
<1> QED
    BY <1>2, <1>3, <1>4

LEMMA TailOfMore ==
    ASSUME NEW S, NEW s \in Seq(S), s # <<>>, Len(s) # 1
    PROVE  Tail(s) \in Seq(S) /\ Tail(s) # <<>>
<1>1. Len(s) \in Nat /\ Len(s) # 0 /\ Tail(s) \in Seq(S) /\ Len(Tail(s)) = Len(s) - 1
    BY HeadTailProperties, EmptySeq
<1>2. Len(Tail(s)) # 0
    BY <1>1
<1> QED
    BY <1>1, <1>2

LEMMA WritesKeep ==
    ASSUME DraftsInv, NEW c \in Calls, WriteCore(c) \/ WriteControl(c) \/ WriteCredential(c)
    PROVE  DraftsInv'
<1>1. /\ calls[c] \in CallStates /\ Checked(calls[c].control.proof)
    BY DEF DraftsInv, CallsTyped, ProofsKept
<1>2. /\ UNCHANGED <<sent, submissions, challenges, History>>
      /\ calls[c].at = "write"
      /\ \/ Len(calls[c].writes) = 1 /\ Ends(c)
         \/ /\ Len(calls[c].writes) # 1 /\ inflight' = inflight
            /\ calls' = [calls EXCEPT ![c].writes = Tail(calls[c].writes)]
    BY DEF WriteCore, WriteControl, WriteCredential, WritesRow
<1>3. RowsTyped' /\ control'.proof \in {control.proof, calls[c].control.proof}
    BY <1>1 DEF WriteCore, WriteControl, WriteCredential, DraftsInv, RowsTyped, CallStates
<1>4. /\ CallsTyped' /\ AdmissionKept'
      /\ \A d \in Calls : Checked(calls[d].control.proof)'
  <2>1. CASE Ends(c)
    BY <1>2, <2>1, EndKeeps DEF DraftsInv, History
  <2>2. CASE /\ Len(calls[c].writes) # 1 /\ inflight' = inflight
             /\ calls' = [calls EXCEPT ![c].writes = Tail(calls[c].writes)]
    <3> DEFINE state == [calls[c] EXCEPT !.writes = Tail(calls[c].writes)]
    <3>1. calls[c].writes \in Seq(RowNames) /\ calls[c].writes # <<>>
        BY <1>1, <1>2 DEF DraftsInv, CallsTyped, CallStates
    <3>2. Tail(calls[c].writes) \in Seq(RowNames) /\ Tail(calls[c].writes) # <<>>
        BY <2>2, <3>1, TailOfMore
    <3>3. state \in CallStates /\ state.op = calls[c].op /\ state.control = calls[c].control /\ state.writes # <<>>
        BY <1>1, <3>2 DEF CallStates
    <3>4. calls' = [calls EXCEPT ![c] = state]
        BY <2>2
    <3> HIDE DEF state
    <3>5. /\ CallsTyped' /\ calls'[c] = state
          /\ \A d \in Calls : d # c => calls'[d] = calls[d]
          /\ \A d \in Calls : Checked(calls[d].control.proof)'
        BY <1>1, <1>2, <3>3, <3>4, CallBecomes DEF DraftsInv, Checked, History
    <3>6. AdmissionKept'
        BY <2>2, <3>3, <3>5, AdmissionStays DEF DraftsInv
    <3> QED
        BY <3>5, <3>6
  <2> QED
    BY <1>2, <2>1, <2>2
<1>5. HistoryTyped' /\ OutcomesKept' /\ AcceptedWasProved'
    BY <1>2 DEF DraftsInv, HistoryTyped, OutcomesKept, AcceptedWasProved, History
<1>6. ProofsKept'
    BY <1>1, <1>2, <1>3, <1>4 DEF DraftsInv, ProofsKept, Checked, History
<1> QED
    BY <1>3, <1>4, <1>5, <1>6 DEF DraftsInv

LEMMA LeavesKeep ==
    ASSUME DraftsInv,
           \/ \E c \in Calls : RefuseCall(c) \/ AbandonCall(c)
           \/ RestartRegistrar
    PROVE  DraftsInv'
<1>1. UNCHANGED <<Rows, sent, submissions, challenges, History>>
    BY DEF RefuseCall, AbandonCall, RestartRegistrar
<1>2. /\ CallsTyped' /\ AdmissionKept'
      /\ \A d \in Calls : Checked(calls[d].control.proof)'
  <2>1. CASE \E c \in Calls : RefuseCall(c) \/ AbandonCall(c)
    <3>1. PICK c \in Calls : Ends(c)
        BY <2>1 DEF RefuseCall, AbandonCall
    <3> QED
        BY <1>1, <3>1, EndKeeps DEF DraftsInv, History
  <2>2. CASE RestartRegistrar
    <3>1. calls' = [d \in Calls |-> Resting] /\ inflight' = {}
        BY <2>2 DEF RestartRegistrar
    <3> QED
        BY <3>1, NoneTyped DEF CallsTyped, AdmissionKept, Checked
  <2> QED
    BY <2>1, <2>2
<1> QED
    BY <1>1, <1>2, RestKept

LEMMA RowListsTyped ==
    /\ <<"core", "control">> \in Seq(RowNames) /\ <<"core", "control">> # <<>>
    /\ <<"control", "core">> \in Seq(RowNames) /\ <<"control", "core">> # <<>>
    /\ <<"credential", "core">> \in Seq(RowNames) /\ <<"credential", "core">> # <<>>
    /\ <<"core">> \in Seq(RowNames) /\ <<"core">> # <<>>
    /\ <<"credential", "core", "control">> \in Seq(RowNames) /\ <<"credential", "core", "control">> # <<>>
    /\ <<"core", "control", "credential">> \in Seq(RowNames) /\ <<"core", "control", "credential">> # <<>>
BY DEF RowNames

LEMMA CallTyped ==
    ASSUME DraftsInv, NEW c \in Calls
    PROVE  /\ calls[c] \in CallStates /\ calls[c].core \in CoreRows /\ calls[c].control \in ControlRows
           /\ calls[c].credential \in CredentialRows
           /\ Checked(calls[c].control.proof)
           /\ HashOf(calls[c].core) \in Documents
<1>1. calls[c] \in CallStates /\ Checked(calls[c].control.proof)
    BY DEF DraftsInv, CallsTyped, ProofsKept
<1>2. calls[c].core \in CoreRows /\ calls[c].control \in ControlRows /\ calls[c].credential \in CredentialRows
    BY <1>1 DEF CallStates
<1> QED
    BY <1>1, <1>2 DEF HashOf, CoreRows

LEMMA DocumentsKeep ==
    ASSUME DraftsInv, NEW c \in Calls, NEW d \in DraftDocuments,
           CreateDraft(c, d) \/ UpdateDocument(c, d)
    PROVE  DraftsInv'
<1>1. d \in Documents /\ UNCHANGED <<challenges, proved, issued>>
    BY DEF Documents, CreateDraft, UpdateDocument
<1>2. challenges' \in Nat /\ proved' \subseteq Challenges /\ issued' \subseteq CredentialRows
    BY <1>1 DEF DraftsInv, HistoryTyped
<1>3. CASE CreateDraft(c, d)
  <2> DEFINE fresh == [NoCore EXCEPT !.document = d, !.status = "draft"]
             state == [calls[c] EXCEPT !.core = fresh, !.control = NotStarted]
  <2>1. fresh \in CoreRows
    BY <1>1, NoneTyped DEF CoreRows
  <2>2. Writes(c, "create", state, <<"core", "control">>)
    BY <1>3 DEF CreateDraft
  <2> HIDE DEF fresh
  <2>3. state \in CallStates /\ state.op = calls[c].op /\ state.control = NotStarted
    BY <2>1, CallTyped, NoneTyped DEF CallStates
  <2> HIDE DEF state
  <2>4. state.control.proof = NoChallenge \/ state.control.proof \in proved'
    BY <2>3, NoneTyped DEF Checked
  <2> QED
    BY <1>1, <1>2, <2>2, <2>3, <2>4, HandlerKeeps, RowListsTyped
<1>4. CASE UpdateDocument(c, d)
  <2> DEFINE new == [calls[c].core EXCEPT !.document = d, !.hash = d,
                               !.status = IF calls[c].core.status = "none" THEN "draft" ELSE calls[c].core.status]
             state == [calls[c] EXCEPT !.core = new, !.control = NotStarted]
  <2>1. new \in CoreRows
    BY <1>1, CallTyped DEF CoreRows
  <2>2. Writes(c, "update", state, <<"core", "control">>)
    BY <1>4 DEF UpdateDocument
  <2> HIDE DEF new
  <2>3. state \in CallStates /\ state.op = calls[c].op /\ state.control = NotStarted
    BY <2>1, CallTyped, NoneTyped DEF CallStates
  <2> HIDE DEF state
  <2>4. state.control.proof = NoChallenge \/ state.control.proof \in proved'
    BY <2>3, NoneTyped DEF Checked
  <2> QED
    BY <1>1, <1>2, <2>2, <2>3, <2>4, HandlerKeeps, RowListsTyped
<1> QED
    BY <1>3, <1>4

LEMMA BroughtKeeps ==
    ASSUME DraftsInv, NEW c \in Calls,
           NEW brought \in issued \union {[document |-> core.document, proof |-> control.proof]},
           UpdateCredential(c, brought)
    PROVE  DraftsInv'
<1>1. brought \in CredentialRows
    BY DEF DraftsInv, HistoryTyped, RowsTyped, CoreRows, ControlRows, CredentialRows
<1>2. UNCHANGED <<challenges, proved, issued>>
    BY DEF UpdateCredential
<1>3. challenges' \in Nat /\ proved' \subseteq Challenges /\ issued' \subseteq CredentialRows
    BY <1>2 DEF DraftsInv, HistoryTyped
<1> DEFINE new == [calls[c].core EXCEPT !.status = IF calls[c].core.status = "none" THEN "draft" ELSE calls[c].core.status]
           state == [calls[c] EXCEPT !.credential = brought, !.core = new]
<1>4. new \in CoreRows
    BY CallTyped DEF CoreRows
<1>5. Writes(c, "update", state, <<"credential", "core", "control">>)
    BY CallTyped DEF UpdateCredential, CallStates, CoreRows
<1> HIDE DEF new
<1>6. state \in CallStates /\ state.op = calls[c].op /\ state.control = calls[c].control
    BY <1>1, <1>4, CallTyped DEF CallStates
<1> HIDE DEF state
<1>7. state.control.proof = NoChallenge \/ state.control.proof \in proved'
    BY <1>2, <1>6, CallTyped DEF Checked
<1> QED
    BY <1>2, <1>3, <1>5, <1>6, <1>7, HandlerKeeps, RowListsTyped

LEMMA ValidateKeeps ==
    ASSUME DraftsInv, NEW c \in Calls, ValidateDraft(c)
    PROVE  DraftsInv'
<1>1. UNCHANGED <<challenges, proved, issued>>
    BY DEF ValidateDraft
<1>2. challenges' \in Nat /\ proved' \subseteq Challenges /\ issued' \subseteq CredentialRows
    BY <1>1 DEF DraftsInv, HistoryTyped
<1> DEFINE new == [calls[c].core EXCEPT !.review = IF calls[c].core.document \in ValidDocuments THEN "validated" ELSE "draft"]
           state == [calls[c] EXCEPT !.core = new]
<1>4. new \in CoreRows
    BY CallTyped DEF CoreRows
<1>5. Writes(c, "validate", state, <<"core">>)
    BY CallTyped DEF ValidateDraft, CallStates, CoreRows
<1> HIDE DEF new
<1>6. state \in CallStates /\ state.op = calls[c].op /\ state.control = calls[c].control
    BY <1>4, CallTyped DEF CallStates
<1> HIDE DEF state
<1>7. state.control.proof = NoChallenge \/ state.control.proof \in proved'
    BY <1>1, <1>6, CallTyped DEF Checked
<1> QED
    BY <1>1, <1>2, <1>5, <1>6, <1>7, HandlerKeeps, RowListsTyped

LEMMA ChallengeKeeps ==
    ASSUME DraftsInv, NEW c \in Calls, CreateChallenge(c)
    PROVE  DraftsInv'
<1> DEFINE challenge == [document |-> HashOf(calls[c].core), serial |-> challenges + 1]
           new == [calls[c].core EXCEPT !.hash = HashOf(calls[c].core)]
           held == Challenged(c, challenge)
           state == [calls[c] EXCEPT !.core = new, !.control = held]
<1>1. UNCHANGED <<proved, issued>> /\ challenges' = challenges + 1
    BY DEF CreateChallenge
<1>2. challenges' \in Nat /\ proved' \subseteq Challenges /\ issued' \subseteq CredentialRows
    BY <1>1 DEF DraftsInv, HistoryTyped
<1>3. challenge \in Challenges /\ new \in CoreRows
    BY CallTyped DEF Challenges, CoreRows, DraftsInv, HistoryTyped
<1>4. Writes(c, "challenge", state, <<"control", "core">>)
    BY CallTyped DEF CreateChallenge, CallStates, CoreRows
<1> HIDE DEF challenge, new
<1>5. held \in ControlRows /\ held.proof = NoChallenge
    BY <1>3, NoneTyped DEF Challenged, ControlRows
<1> HIDE DEF held
<1>6. state \in CallStates /\ state.op = calls[c].op /\ state.control = held
    BY <1>3, <1>5, CallTyped DEF CallStates
<1> HIDE DEF state
<1>7. state.control.proof = NoChallenge \/ state.control.proof \in proved'
    BY <1>5, <1>6 DEF Checked
<1> QED
    BY <1>1, <1>2, <1>4, <1>6, <1>7, HandlerKeeps, RowListsTyped

LEMMA ProofKeeps ==
    ASSUME DraftsInv, NEW c \in Calls, SubmitProof(c)
    PROVE  DraftsInv'
<1> DEFINE challenge == calls[c].control.challenge
           new == [calls[c].core EXCEPT !.status = "control-verified"]
           held == [status |-> "verified", challenge |-> challenge, proof |-> challenge]
           state == [calls[c] EXCEPT !.core = new, !.control = held]
<1>1. UNCHANGED <<challenges, issued>> /\ proved' = proved \union {challenge}
    BY DEF SubmitProof
<1>2. challenge \in Challenges /\ new \in CoreRows
    BY CallTyped DEF ControlRows, CoreRows
<1>3. challenges' \in Nat /\ proved' \subseteq Challenges /\ issued' \subseteq CredentialRows
    BY <1>1, <1>2 DEF DraftsInv, HistoryTyped
<1>4. Writes(c, "proof", state, <<"control", "core">>)
    BY CallTyped DEF SubmitProof, CallStates, CoreRows
<1>5. challenge \in proved'
    BY <1>1
<1> HIDE DEF challenge, new
<1>6. held \in ControlRows /\ held.proof = challenge
    BY <1>2 DEF ControlRows
<1> HIDE DEF held
<1>7. state \in CallStates /\ state.op = calls[c].op /\ state.control = held
    BY <1>2, <1>6, CallTyped DEF CallStates
<1> HIDE DEF state
<1>8. state.control.proof = NoChallenge \/ state.control.proof \in proved'
    BY <1>5, <1>6, <1>7 DEF Checked
<1> QED
    BY <1>1, <1>3, <1>4, <1>7, <1>8, HandlerKeeps, RowListsTyped

LEMMA IssueKeeps ==
    ASSUME DraftsInv, NEW c \in Calls, IssueCredential(c)
    PROVE  DraftsInv'
<1> DEFINE credentialSigned == [document |-> calls[c].core.hash, proof |-> calls[c].control.proof]
           new == [calls[c].core EXCEPT !.status = "credential-issued"]
           state == [calls[c] EXCEPT !.credential = credentialSigned, !.core = new]
<1>1. UNCHANGED <<challenges, proved>> /\ issued' = issued \union {credentialSigned}
    BY DEF IssueCredential
<1>2. credentialSigned \in CredentialRows /\ new \in CoreRows
    BY CallTyped DEF ControlRows, CoreRows, CredentialRows
<1>3. challenges' \in Nat /\ proved' \subseteq Challenges /\ issued' \subseteq CredentialRows
    BY <1>1, <1>2 DEF DraftsInv, HistoryTyped
<1>4. Writes(c, "issue", state, <<"credential", "core">>)
    BY CallTyped DEF IssueCredential, CallStates, CoreRows
<1>5. credentialSigned.proof \in proved'
    BY <1>1, CallTyped DEF IssueCredential, Checked
<1> HIDE DEF new, credentialSigned
<1>6. state \in CallStates /\ state.op = calls[c].op /\ state.control = calls[c].control
    BY <1>2, CallTyped DEF CallStates
<1> HIDE DEF state
<1>7. state.control.proof = NoChallenge \/ state.control.proof \in proved'
    BY <1>1, <1>6, CallTyped DEF Checked
<1> QED
    BY <1>1, <1>3, <1>4, <1>5, <1>6, <1>7, HandlerKeeps, RowListsTyped

LEMMA ChangedEntry ==
    ASSUME NEW S, NEW s \in Seq(S), NEW n, NEW x \in S
    PROVE  /\ [s EXCEPT ![n] = x] \in Seq(S) /\ DOMAIN [s EXCEPT ![n] = x] = DOMAIN s
           /\ \A i \in DOMAIN s : [s EXCEPT ![n] = x][i] = IF i = n THEN x ELSE s[i]
<1>1. Len(s) \in Nat /\ DOMAIN s = 1..Len(s) /\ \A i \in 1..Len(s) : s[i] \in S
    BY ElementOfSeq, LenProperties
<1>2. CASE n \in 1..Len(s)
    BY <1>1, <1>2, ExceptSeq
<1>3. CASE n \notin 1..Len(s)
  <2>1. PICK k \in Nat : s \in [1..k -> S]
    BY SeqDef
  <2>2. n \notin 1..k
    BY <1>1, <1>3, <2>1
  <2>3. [s EXCEPT ![n] = x] = s
    BY <2>1, <2>2
  <2> QED
    BY <1>1, <1>3, <2>3
<1> QED
    BY <1>2, <1>3

LEMMA BuildKeeps ==
    ASSUME DraftsInv, NEW c \in Calls, BuildSubmission(c)
    PROVE  DraftsInv'
<1> DEFINE state == [calls[c] EXCEPT !.at = "ready", !.number = Len(submissions) + 1]
<1>1. /\ submissions \in Seq(Outcomes) /\ submissions' = Append(submissions, "ready")
      /\ UNCHANGED <<Rows, inflight, sent, challenges, History>>
    BY DEF BuildSubmission, DraftsInv, HistoryTyped
<1>2. /\ submissions' \in Seq(Outcomes)
      /\ \A i \in DOMAIN submissions' : submissions'[i] = "ready" \/ (i \in DOMAIN submissions /\ submissions'[i] = submissions[i])
    BY <1>1 DEF Outcomes
<1>3. calls' = [calls EXCEPT ![c] = state]
    BY CallTyped DEF BuildSubmission, CallStates
<1>4. state \in CallStates /\ state.op = calls[c].op /\ state.control = calls[c].control /\ state.at = "ready"
  <2>1. Len(submissions) + 1 \in Nat
    BY <1>1
  <2> QED
    BY <2>1, CallTyped DEF CallStates
<1> HIDE DEF state
<1>5. /\ CallsTyped' /\ calls'[c] = state
      /\ \A d \in Calls : d # c => calls'[d] = calls[d]
      /\ \A d \in Calls : Checked(calls[d].control.proof)'
    BY <1>1, <1>3, <1>4, CallBecomes, CallTyped DEF DraftsInv, Checked, History
<1>6. AdmissionKept'
    BY <1>1, <1>4, <1>5, AdmissionStays DEF DraftsInv
<1>7. OutcomesKept'
    BY <1>1, <1>2 DEF DraftsInv, OutcomesKept
<1> QED
    BY <1>1, <1>2, <1>5, <1>6, <1>7
    DEF DraftsInv, RowsTyped, HistoryTyped, ProofsKept, AcceptedWasProved, Rows, History, Checked

LEMMA PostKeeps ==
    ASSUME DraftsInv, NEW c \in Calls, PostSubmission(c)
    PROVE  DraftsInv'
<1> DEFINE state == [calls[c] EXCEPT !.at = "posted"]
           m == [number |-> calls[c].number, document |-> calls[c].core.document,
                 hash |-> HashOf(calls[c].core), credential |-> calls[c].credential,
                 proof |-> calls[c].control.proof, verdict |-> "none"]
<1>1. /\ sent' = sent \union {m} /\ calls' = [calls EXCEPT ![c].at = "posted"]
      /\ UNCHANGED <<Rows, inflight, submissions, challenges, History>>
    BY DEF PostSubmission
<1>2. m \in Messages
    BY CallTyped DEF Messages, CallStates, CoreRows, ControlRows
<1> HIDE DEF m
<1>3. calls' = [calls EXCEPT ![c] = state]
    BY <1>1
<1>4. state \in CallStates /\ state.op = calls[c].op /\ state.control = calls[c].control /\ state.at = "posted"
    BY CallTyped DEF CallStates
<1> HIDE DEF state
<1>8. CallsTyped /\ ProofsKept /\ proved' = proved /\ (state.control.proof = NoChallenge \/ state.control.proof \in proved')
    BY <1>1, <1>4, CallTyped DEF DraftsInv, Checked, History
<1>5. /\ CallsTyped' /\ calls'[c] = state
      /\ \A d \in Calls : d # c => calls'[d] = calls[d]
      /\ \A d \in Calls : Checked(calls[d].control.proof)'
    BY <1>3, <1>4, <1>8, CallBecomes
<1>6. AdmissionKept'
    BY <1>1, <1>4, <1>5, AdmissionStays DEF DraftsInv
<1>7. OutcomesKept'
    BY <1>1 DEF DraftsInv, OutcomesKept
<1> QED
    BY <1>1, <1>2, <1>5, <1>6, <1>7
    DEF DraftsInv, RowsTyped, HistoryTyped, ProofsKept, AcceptedWasProved, Rows, History, Checked

\* A record takes the outcome of a message that has it, or none of Root's.
LEMMA RecordKeeps ==
    ASSUME DraftsInv, NEW c \in Calls, NEW outcome \in Outcomes,
           NEW status \in {"submitted", "submit-failed"}, Record(c, outcome, status),
           outcome \in {"accepted", "rejected"} =>
              \E m \in sent : m.number = calls[c].number /\ m.verdict = outcome
    PROVE  DraftsInv'
<1> DEFINE new == [calls[c].core EXCEPT !.status = status]
           state == [calls[c] EXCEPT !.at = "write", !.core = new,
                        !.writes = <<"core", "control", "credential">>]
<1>1. /\ submissions \in Seq(Outcomes) /\ submissions' = [submissions EXCEPT ![calls[c].number] = outcome]
      /\ UNCHANGED <<Rows, inflight, sent, challenges, History>>
    BY DEF Record, DraftsInv, HistoryTyped
<1>2. /\ submissions' \in Seq(Outcomes) /\ DOMAIN submissions' = DOMAIN submissions
      /\ \A i \in DOMAIN submissions :
            submissions'[i] = IF i = calls[c].number THEN outcome ELSE submissions[i]
    BY <1>1, ChangedEntry
<1>3. new \in CoreRows
    BY CallTyped DEF CoreRows
<1>4. calls' = [calls EXCEPT ![c] = state]
    BY CallTyped DEF Record, CallStates, CoreRows
<1> HIDE DEF new
<1>5. /\ state \in CallStates /\ state.op = calls[c].op /\ state.control = calls[c].control
      /\ state.at = "write" /\ state.writes # <<>>
    BY <1>3, CallTyped, RowListsTyped DEF CallStates
<1> HIDE DEF state
<1>6. /\ CallsTyped' /\ calls'[c] = state
      /\ \A d \in Calls : d # c => calls'[d] = calls[d]
      /\ \A d \in Calls : Checked(calls[d].control.proof)'
    BY <1>1, <1>4, <1>5, CallBecomes, CallTyped DEF DraftsInv, Checked, History
<1>7. AdmissionKept'
    BY <1>1, <1>5, <1>6, AdmissionStays DEF DraftsInv
<1>8. OutcomesKept'
    BY <1>1, <1>2 DEF DraftsInv, OutcomesKept
<1> QED
    BY <1>1, <1>2, <1>6, <1>7, <1>8
    DEF DraftsInv, RowsTyped, HistoryTyped, ProofsKept, AcceptedWasProved, Rows, History, Checked

LEMMA AnswersKeep ==
    ASSUME DraftsInv, NEW c \in Calls, ReceiveAnswer(c) \/ PostTimesOut(c)
    PROVE  DraftsInv'
<1>1. CASE ReceiveAnswer(c)
  <2>1. PICK m \in sent : /\ m.number = calls[c].number /\ m.verdict # "none"
                          /\ Record(c, m.verdict, IF m.verdict = "accepted" THEN "submitted" ELSE "submit-failed")
    BY <1>1 DEF ReceiveAnswer
  <2>2. m.verdict \in {"accepted", "rejected"}
    BY <2>1 DEF DraftsInv, HistoryTyped, Messages
  <2> QED
    BY <2>1, <2>2, RecordKeeps DEF Outcomes
<1>2. CASE PostTimesOut(c)
  <2>1. Record(c, "transport-failed", "submit-failed")
    BY <1>2 DEF PostTimesOut, NoAnswer
  <2> QED
    BY <2>1, RecordKeeps DEF Outcomes
<1> QED
    BY <1>1, <1>2

LEMMA RootKeeps ==
    ASSUME DraftsInv, NEW m \in sent, RootVerifies(m)
    PROVE  DraftsInv'
<1>1. /\ m \in Messages /\ m.verdict = "none"
      /\ UNCHANGED <<core, control, credential, calls, inflight, submissions, challenges, proved, issued>>
    BY DEF DraftsInv, HistoryTyped, RootVerifies, Rows
<1>2. PICK verdict \in {"accepted", "rejected"} : sent' = (sent \ {m}) \union {[m EXCEPT !.verdict = verdict]}
    BY DEF RootVerifies
<1>3. [m EXCEPT !.verdict = verdict] \in Messages
    BY <1>1 DEF Messages
<1>4. HistoryTyped' /\ RowsTyped' /\ CallsTyped' /\ ProofsKept' /\ AdmissionKept'
    BY <1>1, <1>2, <1>3 DEF DraftsInv, HistoryTyped, RowsTyped, CallsTyped, ProofsKept, AdmissionKept, Checked
<1>5. OutcomesKept'
  <2> SUFFICES ASSUME NEW i \in DOMAIN submissions, submissions[i] \in {"accepted", "rejected"}
               PROVE  \E k \in sent' : k.number = i /\ k.verdict = submissions[i]
    BY <1>1 DEF OutcomesKept
  <2>1. PICK k \in sent : k.number = i /\ k.verdict = submissions[i]
    BY DEF DraftsInv, OutcomesKept
  <2> QED
    BY <1>1, <1>2, <2>1
<1>6. AcceptedWasProved'
  <2>1. CASE acceptances' = acceptances
    BY <1>1, <2>1 DEF DraftsInv, AcceptedWasProved
  <2>2. CASE RootAccepts(m) /\ acceptances' = acceptances \union {m}
    <3>1. /\ m.document \in ValidDocuments /\ m.proof.document = m.document
          /\ m.credential \in issued /\ m.credential.document = m.document /\ m.credential.proof = m.proof
        BY <2>2 DEF RootAccepts, Proves
    <3>2. m.credential \in CredentialRows /\ m.proof \in proved
        BY <3>1 DEF DraftsInv, HistoryTyped, ProofsKept
    <3>3. m.credential = [document |-> m.document, proof |-> m.proof]
        BY <3>1, <3>2 DEF CredentialRows
    <3> QED
        BY <1>1, <2>2, <3>1, <3>2, <3>3 DEF DraftsInv, AcceptedWasProved
  <2> QED
    BY <2>1, <2>2 DEF RootVerifies
<1> QED
    BY <1>4, <1>5, <1>6 DEF DraftsInv

LEMMA DraftsInvNext == DraftsInv /\ [DraftsNext]_draftVars => DraftsInv'
<1> SUFFICES ASSUME DraftsInv, [DraftsNext]_draftVars PROVE DraftsInv'
    OBVIOUS
<1>1. CASE UNCHANGED draftVars
    BY <1>1 DEF draftVars, DraftsInv, RowsTyped, CallsTyped, HistoryTyped, ProofsKept, Checked,
                AcceptedWasProved, AdmissionKept, OutcomesKept
<1>2. CASE DraftsNext
    BY <1>2, StartKeeps, ReadsKeep, WritesKeep, LeavesKeep, DocumentsKeep, BroughtKeeps, ValidateKeeps,
       ChallengeKeeps, ProofKeeps, IssueKeeps, BuildKeeps, PostKeeps, AnswersKeep, RootKeeps DEF DraftsNext
<1> QED
    BY <1>1, <1>2

\* Whatever requests run beside each other on a draft, are cut short, or find
\* the Registrar started again: Root accepts a document only with the proof its
\* subject gave the Registrar for this document, and with a credential the
\* Registrar signed over both (verify_request of the reference Root, over the
\* drafts the handlers of the Registrar read and write row by row).
THEOREM AcceptedProof == DraftsSpec => []AcceptedWasProved
<1>1. DraftsInv => AcceptedWasProved
    BY DEF DraftsInv
<1> QED
    BY <1>1, DraftsInvInit, DraftsInvNext, PTL DEF DraftsSpec

LEMMA SubmissionsFromInv == DraftsInv => SubmissionsHold
<1> SUFFICES ASSUME DraftsInv PROVE SubmissionsHold
    OBVIOUS
<1>1. OneSubmissionAtATime
  <2>1. CASE inflight = {}
    BY <2>1, FS_EmptySet DEF OneSubmissionAtATime
  <2>2. CASE \E c \in inflight : TRUE
    <3>1. PICK c \in inflight : inflight = {c}
        BY <2>2 DEF DraftsInv, AdmissionKept
    <3>2. Cardinality({c}) = 1
        BY FS_Singleton
    <3> QED
        BY <3>1, <3>2 DEF DraftsInv, AdmissionKept, OneSubmissionAtATime
  <2> QED
    BY <2>1, <2>2
<1>2. ListedOutcomeIsRoots
  <2> SUFFICES ASSUME NEW i \in DOMAIN read_submission_values,
                      read_submission_values[i].status \in {"accepted", "rejected"}
               PROVE  \E m \in sent : /\ m.number = read_submission_values[i].number
                                      /\ m.verdict = read_submission_values[i].status
    BY DEF ListedOutcomeIsRoots
  <2> DEFINE n == Len(submissions) + 1 - i
  <2>1. /\ i \in DOMAIN submissions /\ submissions \in Seq(Outcomes)
        /\ read_submission_values[i].number = n /\ read_submission_values[i].status = submissions[n]
    BY DEF read_submission_values, DraftsInv, HistoryTyped
  <2>2. n \in DOMAIN submissions
    BY <2>1
  <2> QED
    BY <2>1, <2>2 DEF DraftsInv, OutcomesKept
<1> QED
    BY <1>1, <1>2 DEF SubmissionsHold

\* Submissions of a draft follow one another, the permit comes back on every
\* way out, and the list of submissions never says accepted or rejected of one
\* Root did not decide so, also when its answer came after the time the
\* Registrar waits (acquire_submit_admission, submit and the list of
\* submissions of the reference Registrar).
THEOREM SubmissionsFollowRoot == DraftsSpec => []SubmissionsHold
BY SubmissionsFromInv, DraftsInvInit, DraftsInvNext, PTL DEF DraftsSpec
=============================================================================
