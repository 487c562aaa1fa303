--------------------------- MODULE SignatureSuites ---------------------------
(***************************************************************************)
(* The signature suites of the reference services: three suites over two   *)
(* signing and two hash algorithms, methods and proofs that may or may not *)
(* say which they are of, and one registration carried through them, from  *)
(* the challenge over credential, request envelope, Root's package and the *)
(* CDN to the index of a Discovery node.                                   *)
(*                                                                         *)
(* Cryptography is symbolic: a digest is its algorithm and what it is of,  *)
(* a signature its signer, the algorithm and the signed text.  A canonical *)
(* JSON text stands for its value, and two values have two texts.          *)
(***************************************************************************)
EXTENDS Naturals

CONSTANTS
    SuiteDocuments,  \* the DID documents the Agent may give its draft
    MaxRevisions,    \* bound on the changes of document
    NoItem           \* nothing made yet

VARIABLES
    suites,     \* the suite of each party's key
    stated,     \* whether the Agent's method, and its proof, say their suite
    prepared,   \* the Registrar's draft: document, hash, challenge, proof, credential
    request,    \* the signed request on its way to Root
    package,    \* the package Root made of it
    held,       \* the package the CDN stores
    indexed,    \* the package the Discovery node indexes
    refused,    \* who refused, and what
    revisions

suiteVars == <<suites, stated, prepared, request, package, held, indexed, refused, revisions>>

Suites == {"legacy", "ed25519", "sm2"}

\* What is not made yet is no suite; a document counts its revisions from none.
ASSUME NoItemAssumption == NoItem \notin Suites /\ MaxRevisions \in Nat

----------------------------------------------------------------------------
(* What a suite stands for *)

SigningAlgorithm(suite) == IF suite = "sm2" THEN "SM2" ELSE "Ed25519"
HashAlgorithm(suite) == IF suite = "sm2" THEN "SM3" ELSE "SHA-256"
MethodType(suite) == IF suite = "sm2" THEN "SM2VerificationKey2020" ELSE "Ed25519VerificationKey2020"
ProofType(suite) == IF suite = "sm2" THEN "SM2Signature2020" ELSE "Ed25519Signature2020"

\* A type names no suite of its own for the newer Ed25519 one.
OfMethodType(type) == IF type = "SM2VerificationKey2020" THEN "sm2" ELSE "legacy"
OfProofType(type) == IF type = "SM2Signature2020" THEN "sm2" ELSE "legacy"

\* What a service's key file says of its key.
OfKeyFile(algorithm) == IF algorithm = "SM2" THEN "sm2" ELSE "legacy"

Method(owner, suite, says) ==
    [owner |-> owner, type |-> MethodType(suite), suite |-> IF says THEN suite ELSE NoItem]
MethodSuite(method) == IF method.suite # NoItem THEN method.suite ELSE OfMethodType(method.type)
ProofSuite(proof) == IF proof.suite # NoItem THEN proof.suite ELSE OfProofType(proof.type)

\* verifying_key_from_method; the key bytes fit the method's type.
VerifyingKey(method) == [owner |-> method.owner, suite |-> MethodSuite(method)]

Hash(suite, value) == [algorithm |-> HashAlgorithm(suite), of |-> value]
SignatureInput(suite, value) == IF suite = "legacy" THEN [text |-> Hash(suite, value)] ELSE [text |-> value]
SignBytes(key, input) == [owner |-> key.owner, algorithm |-> SigningAlgorithm(key.suite), input |-> input]
VerifyBytes(key, input, signature) == signature = SignBytes(key, input)

BuildProof(payload, key, says) ==
    [type |-> ProofType(key.suite), suite |-> IF says THEN key.suite ELSE NoItem,
     value |-> SignBytes(key, SignatureInput(key.suite, payload))]
ProofHolds(payload, proof, key) ==
    /\ ProofSuite(proof) = key.suite
    /\ VerifyBytes(key, SignatureInput(ProofSuite(proof), payload), proof.value)

----------------------------------------------------------------------------
(* The parties *)

Parties == {"agent", "registrar", "root"}

\* A service's suite follows its key file; an Agent's client takes any.
SuitesInit ==
    /\ suites \in {s \in [Parties -> Suites] : \A node \in {"registrar", "root"} :
                                                  s[node] = OfKeyFile(SigningAlgorithm(s[node]))}
    /\ stated \in [{"method", "proof"} -> BOOLEAN]
    /\ prepared \in [document : SuiteDocuments, challenge : {NoItem}, proof : {NoItem}, credential : {NoItem}]
    /\ request = NoItem /\ package = NoItem /\ held = NoItem /\ indexed = NoItem
    /\ refused = {} /\ revisions = 0

Key(party) == [owner |-> party, suite |-> suites[party]]
AgentMethod == Method("agent", suites["agent"], stated["method"])
\* The services' own documents say their suite, or it is the one their type says.
NodeKey(node) == VerifyingKey(Method(node, suites[node], FALSE))

\* hash_did_document: under the Registrar's own suite.
DraftHash == Hash(suites["registrar"], prepared.document)

----------------------------------------------------------------------------
(* The Registrar's side *)

\* api_update_draft: the proof goes with the old document, the credential stays.
ReviseDocument(document) ==
    /\ document # prepared.document /\ request = NoItem /\ revisions < MaxRevisions
    /\ prepared' = [prepared EXCEPT !.document = document, !.challenge = NoItem, !.proof = NoItem]
    /\ revisions' = revisions + 1
    /\ UNCHANGED <<suites, stated, request, package, held, indexed, refused>>

\* create_did_control_challenge.
create_did_control_challenge ==
    /\ prepared.challenge = NoItem
    /\ prepared' = [prepared EXCEPT !.challenge = [subject |-> "agent", registrar |-> "registrar", hash |-> DraftHash,
                                             serial |-> revisions]]
    /\ UNCHANGED <<suites, stated, request, package, held, indexed, refused, revisions>>

\* verify_subject_control_proof.
ControlHolds(challenge, proof, hash) ==
    /\ challenge.subject = "agent" /\ challenge.registrar = "registrar"
    /\ challenge.hash = hash
    /\ ProofHolds(challenge, proof, VerifyingKey(AgentMethod))

ProveControl ==
    LET proof == BuildProof(prepared.challenge, Key("agent"), stated["proof"]) IN
    /\ prepared.challenge # NoItem /\ prepared.proof = NoItem
    /\ IF ControlHolds(prepared.challenge, proof, DraftHash)
       THEN prepared' = [prepared EXCEPT !.proof = proof] /\ UNCHANGED refused
       ELSE refused' = refused \union {"control"} /\ UNCHANGED prepared
    /\ UNCHANGED <<suites, stated, request, package, held, indexed, revisions>>

\* build_registration_binding_claims; a proof's hash stands for the proof.
BindingClaims(challenge, proof, hash) ==
    [subject |-> challenge.subject, registrar |-> challenge.registrar, hash |-> hash,
     serial |-> challenge.serial, proof |-> proof]

CertifyControl ==
    LET claims == BindingClaims(prepared.challenge, prepared.proof, DraftHash) IN
    /\ prepared.proof # NoItem /\ request = NoItem
    /\ prepared' = [prepared EXCEPT !.credential = [claims |-> claims,
                                              proof |-> BuildProof(claims, Key("registrar"), TRUE)]]
    /\ UNCHANGED <<suites, stated, request, package, held, indexed, refused, revisions>>

\* create_signed_request_envelope over the submission.
Envelope(signer, body) ==
    LET hash == Hash(suites[signer], body) IN
    [bodyHash |-> hash, proof |-> BuildProof([bodyHash |-> hash], Key(signer), TRUE)]

Submit ==
    LET submission == [draft |-> prepared, hash |-> DraftHash] IN
    /\ prepared.proof # NoItem /\ prepared.credential # NoItem /\ request = NoItem
    /\ request' = [submission |-> submission, envelope |-> Envelope("registrar", submission)]
    /\ UNCHANGED <<suites, stated, prepared, package, held, indexed, refused, revisions>>

----------------------------------------------------------------------------
(* Root *)

\* verify_signed_request_envelope: the body is hashed under the suite of the
\* signer's method.
EnvelopeHolds(signer, envelope, body) ==
    /\ ProofHolds([bodyHash |-> envelope.bodyHash], envelope.proof, NodeKey(signer))
    /\ envelope.bodyHash = Hash(NodeKey(signer).suite, body)

\* Mutant: Root takes a credential of any document.
BindingUnchecked(s) == s.draft.credential.claims.subject = "agent"

\* verify_submission_content: under the suite of the subject's proof.
ContentHolds(s) == s.hash = Hash(ProofSuite(s.draft.proof), s.draft.document)

\* verify_agent_registration_credential.
CredentialHolds(credential) == ProofHolds(credential.claims, credential.proof, NodeKey("registrar"))

\* verify_registration_binding_claims.
BindingHolds(s) == s.draft.credential.claims = BindingClaims(s.draft.challenge, s.draft.proof, s.hash)

Accepts(r) ==
    LET s == r.submission IN
    /\ EnvelopeHolds("registrar", r.envelope, s)
    /\ ContentHolds(s)
    /\ ControlHolds(s.draft.challenge, s.draft.proof, s.hash)
    /\ CredentialHolds(s.draft.credential) /\ BindingHolds(s)

\* verify_and_publish: the package's hashes and proof are of Root's suite.
PackageOf(s) ==
    LET suite == suites["root"]
        metadata == [documentHash |-> Hash(suite, s.draft.document)]
        claims == [documentHash |-> Hash(suite, s.draft.document), metadataHash |-> Hash(suite, metadata)] IN
    [document |-> s.draft.document, documentHash |-> claims.documentHash,
     metadata |-> metadata, metadataHash |-> claims.metadataHash,
     claims |-> claims, proof |-> BuildProof(claims, Key("root"), TRUE), suite |-> suite]

Receive ==
    /\ request # NoItem /\ package = NoItem /\ "root" \notin refused
    /\ IF Accepts(request) THEN package' = PackageOf(request.submission) /\ UNCHANGED refused
       ELSE refused' = refused \union {"root"} /\ UNCHANGED package
    /\ UNCHANGED <<suites, stated, prepared, request, held, indexed, revisions>>

----------------------------------------------------------------------------
(* The CDN and the Discovery node *)

EffectiveSuite(p) == IF p.suite # NoItem THEN p.suite ELSE ProofSuite(p.proof)
DocumentHashHolds(p) == p.documentHash = Hash(EffectiveSuite(p), p.document)
MetadataHashHolds(p) == p.metadataHash = Hash(EffectiveSuite(p), p.metadata)

\* verify_package_root_proof: any suite whose signing algorithm is the key's.
RootProofHolds(p) ==
    /\ p.claims.documentHash = p.documentHash /\ p.claims.metadataHash = p.metadataHash
    /\ VerifyBytes(NodeKey("root"), SignatureInput(EffectiveSuite(p), p.claims), p.proof.value)

Store ==
    /\ package # NoItem /\ held = NoItem /\ "cdn" \notin refused
    /\ IF EnvelopeHolds("root", Envelope("root", package), package)
          /\ DocumentHashHolds(package) /\ MetadataHashHolds(package)
       THEN held' = package /\ UNCHANGED refused
       ELSE refused' = refused \union {"cdn"} /\ UNCHANGED held
    /\ UNCHANGED <<suites, stated, prepared, request, package, indexed, revisions>>

IndexHeld ==
    /\ held # NoItem /\ indexed = NoItem /\ "discovery" \notin refused
    /\ IF DocumentHashHolds(held) /\ MetadataHashHolds(held) /\ RootProofHolds(held)
       THEN indexed' = held /\ UNCHANGED refused
       ELSE refused' = refused \union {"discovery"} /\ UNCHANGED indexed
    /\ UNCHANGED <<suites, stated, prepared, request, package, held, revisions>>

SuitesNext ==
    \/ \E d \in SuiteDocuments : ReviseDocument(d)
    \/ create_did_control_challenge \/ ProveControl \/ CertifyControl \/ Submit \/ Receive \/ Store \/ IndexHeld

SuitesSpec == SuitesInit /\ [][SuitesNext]_suiteVars

----------------------------------------------------------------------------
(* Properties *)

\* An Agent whose newer Ed25519 key or proof does not say its suite cannot
\* prove control.
Undescribed == suites["agent"] = "ed25519" /\ ~(stated["method"] /\ stated["proof"])

\* The credential is of another challenge than the proof.
Stale(d) == d.credential.claims.serial # d.challenge.serial

\* Whatever suites the three parties chose, a registration done in order is
\* accepted, stored and indexed, except that Root refuses the Agents whose
\* hash algorithm is not the Registrar's: the Registrar hashes the document
\* under its own suite and Root under the subject's.
HonestPasses ==
    /\ "control" \in refused => Undescribed
    /\ "root" \in refused => \/ HashAlgorithm(suites["agent"]) # HashAlgorithm(suites["registrar"])
                             \/ Stale(request.submission.draft)
    /\ refused \intersect {"cdn", "discovery"} = {}

\* What a Discovery node indexes is the very document whose control the Agent
\* proved and the Registrar certified, although the document may have changed
\* after either.
IndexedWasCertified ==
    indexed # NoItem =>
        LET d == request.submission.draft IN
        /\ indexed.document = d.document
        /\ d.challenge.hash.of = d.document
        /\ d.credential.claims.hash.of = d.document
        /\ d.credential.claims.serial = d.challenge.serial

\* What is certified passes, and nothing else, whatever suites meet.
CertifiedPasses == HonestPasses /\ IndexedWasCertified
============================================================================
