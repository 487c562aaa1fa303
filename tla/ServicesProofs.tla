---------------------------- MODULE ServicesProofs ----------------------------
(***************************************************************************)
(* Proofs about the parts that stand on their own.  What tells a repeated  *)
(* request from a fresh one: in the Service Agent, for any number of       *)
(* threads, nonces and restarts, and in the envelopes of the reference     *)
(* services, for any policy.  That signatures of either suite pass from    *)
(* the Agent to the Discovery nodes, and what a chain of hashes shows of   *)
(* the bulletins Root had, for any number of events and of restorations.   *)
(* What Discovery nodes answer: the walk up the capability tree, for any   *)
(* table of tags, and the order and limit of a query, for any index.       *)
(***************************************************************************)
EXTENDS ServiceAgent, Envelopes, HashChain, TagTree, DiscoveryQuery,
        FiniteSetTheorems, WellFoundedInduction, TLAPS

----------------------------------------------------------------------------
(* The Service Agent *)

\* What a thread has looked up was sent by a caller, and its nonce had not been
\* answered by then.
LookedUp ==
    /\ DOMAIN threads = Threads
    /\ \A t \in Threads : threads[t].at = "verify" =>
          threads[t].invocation \in made /\ threads[t].late = FALSE

\* The set of nonces is what was answered since the start: this is why the
\* lookup, although it comes before the signatures, tells a repetition.
SeenIsSpent ==
    /\ nonces = spent
    /\ \A n \in nonces : \E i \in made : i.nonce = n /\ i.genuine
    /\ LookedUp
    /\ replays = {}

LEMMA SeenIsSpentInit == AgentInit => SeenIsSpent
    BY DEF AgentInit, SeenIsSpent, LookedUp, NoThread

LEMMA SeenIsSpentStep == SeenIsSpent /\ [AgentNext]_agentVars => SeenIsSpent'
<1> SUFFICES ASSUME SeenIsSpent, [AgentNext]_agentVars
             PROVE  SeenIsSpent'
    OBVIOUS
<1> USE DEF SeenIsSpent, LookedUp
<1>1. ASSUME NEW n \in Invocations, NEW ahead \in -1..2, NEW genuine \in BOOLEAN, Invoke(n, ahead, genuine)
      PROVE  SeenIsSpent'
  <2>1. made \subseteq made'
      BY <1>1 DEF Invoke
  <2> QED
      BY <1>1, <2>1 DEF Invoke
<1>2. ASSUME NEW t \in Threads, NEW i \in made, LookUp(t, i)
      PROVE  SeenIsSpent'
  <2>1. i.nonce \notin spent
      BY <1>2 DEF LookUp, Unseen
  <2>2. \A s \in Threads \ {t} : threads'[s] = threads[s]
      BY <1>2 DEF LookUp
  <2>3. threads'[t] = [at |-> "verify", invocation |-> i, late |-> i.nonce \in spent]
      BY <1>2 DEF LookUp
  <2>4. threads'[t].invocation = i /\ threads'[t].late = (i.nonce \in spent)
      BY <2>3
  <2>5. threads'[t].late = FALSE
    <3>1. (i.nonce \in spent) = FALSE
        BY <2>1
    <3> QED
        BY <2>4, <3>1
  <2>6. LookedUp'
      BY <1>2, <2>2, <2>4, <2>5 DEF LookUp
  <2> QED
      BY <1>2, <2>6 DEF LookUp, AddedAtLookup
<1>3. ASSUME NEW t \in Threads, Verify(t)
      PROVE  SeenIsSpent'
  <2>1. threads[t].invocation \in made /\ threads[t].late = FALSE
      BY <1>3 DEF Verify
  <2>2. LookedUp'
      BY <1>3 DEF Verify, NoThread
  <2>3. CASE threads[t].invocation.genuine
      BY <1>3, <2>1, <2>2, <2>3 DEF Verify
  <2>4. CASE ~threads[t].invocation.genuine
      BY <1>3, <2>2, <2>4 DEF Verify
  <2> QED
      BY <2>3, <2>4
<1>4. CASE Restart
    BY <1>4 DEF Restart, NoThread
<1>5. CASE PassTime
    BY <1>5 DEF PassTime
<1>6. CASE UNCHANGED agentVars
    BY <1>6 DEF agentVars
<1> QED
    BY <1>1, <1>2, <1>3, <1>4, <1>5, <1>6 DEF AgentNext

\* The invariant of the Service Agent: SEEN_NONCES holds the nonces that were
\* answered since the start, all of them genuine.
THEOREM SeenIsSpentAlways == AgentSpec => []SeenIsSpent
    BY SeenIsSpentInit, SeenIsSpentStep, PTL DEF AgentSpec

\* No thread answers an invocation it looked up after the nonce had been
\* answered, however many threads there are: verify_invocation looks the nonce
\* up among all that were answered since the start.
THEOREM RepetitionRefused == AgentSpec => []RepeatedIsRefused
<1>1. SeenIsSpent => RepeatedIsRefused
    BY DEF SeenIsSpent, RepeatedIsRefused
<1> QED
    BY <1>1, SeenIsSpentAlways, PTL

\* An invocation whose signatures do not verify never puts its nonce into
\* SEEN_NONCES, so nobody can use up the nonce of another.
THEOREM ForgeryLeavesNonce == AgentSpec => []OnlyGenuineSpend
<1>1. SeenIsSpent => OnlyGenuineSpend
    BY DEF SeenIsSpent, OnlyGenuineSpend
<1> QED
    BY <1>1, SeenIsSpentAlways, PTL

\* SEEN_NONCES refuses what was answered, and only genuine invocations fill it.
THEOREM NoncesGuardAgent == AgentSpec => []NoncesGuard
<1>1. RepeatedIsRefused /\ OnlyGenuineSpend => NoncesGuard
    BY DEF NoncesGuard
<1> QED
    BY <1>1, RepetitionRefused, ForgeryLeavesNonce, PTL

----------------------------------------------------------------------------
(* Request envelopes *)

\* What the policy must see to, and nothing checks: a nonce is kept for longer
\* than the skew (a nonce kept for the skew alone may be taken again in the
\* second the division drops).
KeptForLonger == NonceTtl > MaxClockSkew

KeptTicks == NonceTtl * PerSecond

\* Too old to be fresh again, whatever the clock will be.
Expired(e) == e.signed < tick - KeptTicks

\* An envelope that was taken is in the file, or made room, or is too old.
Remembered(e) == taken[e.nonce] = 0 \/ e.nonce \in evicted \/ e \in store \/ Expired(e)

EnvelopesInv ==
    /\ tick \in Nat
    /\ \A e \in envelopes : e.nonce \in Nonces /\ e.signed \in Int
    /\ \A e, f \in envelopes : e.nonce = f.nonce => e = f
    /\ store \subseteq envelopes
    /\ taken \in [Nonces -> 0..2]
    /\ \A n \in Nonces : taken[n] # 0 => \E e \in envelopes : e.nonce = n
    /\ \A e \in envelopes : Remembered(e)
    /\ AcceptedOnce

LEMMA SecondsInTicks ==
    ASSUME NEW d \in Nat, NEW p \in Nat \ {0}, NEW s \in Int, NEW t \in Int, t > s, d \div p <= s
    PROVE  t * p \in Int /\ d < t * p
<1>1. PICK q \in Int, r \in Int : q = d \div p /\ r = d % p
    OBVIOUS
<1>2. d = p * q + r /\ r < p /\ q \in Nat
    BY <1>1
<1>3. PICK u \in Nat : t = q + 1 + u
  <2>1. t - q - 1 \in Nat /\ t = q + 1 + (t - q - 1)
    BY <1>1, <1>2
  <2> QED
    BY <2>1
<1>4. u * p \in Nat /\ q * p \in Nat
    BY <1>2
<1>5. t * p = q * p + p + u * p
    BY <1>2, <1>3
<1> QED
    BY <1>2, <1>4, <1>5

LEMMA FreshIsKept ==
    ASSUME KeptForLonger, tick \in Nat, NEW e, e.signed \in Int, Fresh(e)
    PROVE  KeptTicks \in Int /\ Kept(e) /\ ~Expired(e)
<1>1. Distance(tick, e.signed) \in Nat /\ tick - e.signed <= Distance(tick, e.signed)
    BY DEF Distance
<1>2. KeptTicks \in Int /\ Distance(tick, e.signed) < KeptTicks
    BY <1>1, SecondsInTicks, PolicyAssumption DEF Fresh, KeptForLonger, KeptTicks
<1> QED
    BY <1>1, <1>2 DEF Kept, Expired, KeptTicks

LEMMA EnvelopesInvInit == EnvelopesInit => EnvelopesInv
BY DEF EnvelopesInit, EnvelopesInv, AcceptedOnce

LEMMA SignKeeps ==
    ASSUME EnvelopesInv, NEW n \in Nonces, NEW ahead \in -1..1, NEW sound \in BOOLEAN, SignEnvelope(n, ahead, sound)
    PROVE  EnvelopesInv'
<1>1. PICK new : new = [nonce |-> n, signed |-> tick + ahead, sound |-> sound]
    OBVIOUS
<1>2. /\ envelopes' = envelopes \union {new} /\ new.nonce = n /\ new.signed \in Int
      /\ \A e \in envelopes : e.nonce # n
      /\ UNCHANGED <<tick, store, taken, evicted>>
    BY <1>1 DEF SignEnvelope, EnvelopesInv
<1>3. taken[n] = 0
    BY <1>2 DEF EnvelopesInv
<1>4. \A e \in envelopes' : Remembered(e)'
    BY <1>2, <1>3 DEF EnvelopesInv, Remembered, Expired
<1> QED
    BY <1>2, <1>4 DEF EnvelopesInv, AcceptedOnce

LEMMA DeliverKeeps ==
    ASSUME KeptForLonger, EnvelopesInv, NEW e \in envelopes, DeliverEnvelope(e)
    PROVE  EnvelopesInv'
<1>1. PICK kept : kept = {k \in store : Kept(k)}
    OBVIOUS
<1>2. PICK added : added = {k \in kept \union {e} : Kept(k)}
    OBVIOUS
<1>3. /\ Fresh(e) /\ Unused(e, kept)
      /\ \E gone \in Dropped(added) :
            store' = added \ gone /\ evicted' = evicted \union {k.nonce : k \in gone}
      /\ taken' = (IF e.sound THEN [taken EXCEPT ![e.nonce] = IF taken[e.nonce] = 2 THEN 2 ELSE taken[e.nonce] + 1]
                   ELSE taken)
      /\ UNCHANGED <<tick, envelopes>>
    BY <1>1, <1>2 DEF DeliverEnvelope
<1>4. PICK gone \in SUBSET added : store' = added \ gone /\ evicted' = evicted \union {k.nonce : k \in gone}
    BY <1>3 DEF Dropped
<1>5. Kept(e) /\ ~Expired(e) /\ KeptTicks \in Int /\ e.nonce \in Nonces
    BY <1>3, FreshIsKept DEF EnvelopesInv
<1>6. e \notin store
    BY <1>1, <1>3, <1>5 DEF Unused
<1>7. taken[e.nonce] = 0 \/ e.nonce \in evicted
    BY <1>5, <1>6 DEF EnvelopesInv, Remembered
<1>8. store' \subseteq envelopes'
    BY <1>1, <1>2, <1>3, <1>4 DEF EnvelopesInv
<1>9. /\ taken' \in [Nonces -> 0..2]
      /\ \A n \in Nonces : taken'[n] # 0 => taken[n] # 0 \/ n = e.nonce
      /\ \A n \in Nonces : taken'[n] = 2 => taken[n] = 2 \/ (n = e.nonce /\ taken[n] # 0)
      /\ \A n \in Nonces : n # e.nonce => taken'[n] = taken[n]
    BY <1>3, <1>5 DEF EnvelopesInv
<1>10. AcceptedOnce'
    BY <1>4, <1>7, <1>9 DEF EnvelopesInv, AcceptedOnce
<1>11. \A k \in envelopes' : Remembered(k)'
  <2> SUFFICES ASSUME NEW k \in envelopes PROVE Remembered(k)'
    BY <1>3
  <2>1. (Expired(k) => Expired(k)') /\ (k \in gone => k.nonce \in evicted') /\ (evicted \subseteq evicted')
    BY <1>3, <1>4 DEF Expired
  <2>2. CASE k = e
    BY <1>2, <1>4, <1>5, <2>1, <2>2 DEF Remembered
  <2>3. CASE k # e
    <3>1. k.nonce \in Nonces /\ k.nonce # e.nonce /\ Remembered(k) /\ k.signed \in Int /\ tick \in Nat
        BY <2>3 DEF EnvelopesInv
    <3>2. taken'[k.nonce] = taken[k.nonce]
        BY <1>9, <3>1
    <3>3. CASE k \in store
      <4>1. Kept(k) \/ Expired(k)
        BY <1>5, <3>1 DEF Kept, Expired, KeptTicks
      <4>2. Kept(k) => k \in store' \/ k \in gone
        BY <1>1, <1>2, <1>4, <3>3
      <4> QED
        BY <2>1, <4>1, <4>2 DEF Remembered
    <3>4. CASE k \notin store
      BY <2>1, <3>1, <3>2, <3>4 DEF Remembered
    <3> QED
        BY <3>3, <3>4
  <2> QED
    BY <2>2, <2>3
<1> QED
    BY <1>3, <1>5, <1>8, <1>9, <1>10, <1>11 DEF EnvelopesInv

LEMMA EnvelopesInvNext ==
    ASSUME KeptForLonger, EnvelopesInv, [EnvelopesNext]_envelopeVars
    PROVE  EnvelopesInv'
<1>1. CASE TearNonceFile \/ UNCHANGED envelopeVars
    BY <1>1 DEF TearNonceFile, envelopeVars, EnvelopesInv, Remembered, Expired, AcceptedOnce
<1>2. CASE Tick
  <2>1. tick' = tick + 1 /\ tick \in Nat /\ UNCHANGED <<envelopes, store, taken, evicted>>
    BY <1>2 DEF Tick, EnvelopesInv
  <2>2. KeptTicks \in Int
    <3>1. NonceTtl \in Int /\ PerSecond \in Int
      BY PolicyAssumption
    <3> QED
      BY <3>1 DEF KeptTicks
  <2>3. \A e \in envelopes : Expired(e) => Expired(e)'
    BY <2>1, <2>2 DEF Expired, EnvelopesInv
  <2>4. \A e \in envelopes : Remembered(e)'
    BY <2>1, <2>3 DEF EnvelopesInv, Remembered
  <2> QED
    BY <2>1, <2>4 DEF EnvelopesInv, AcceptedOnce
<1>3. CASE EnvelopesNext
    BY <1>1, <1>2, <1>3, SignKeeps, DeliverKeeps DEF EnvelopesNext
<1> QED
    BY <1>1, <1>3

\* A signed request is taken once, however often and however late the network
\* delivers it, unless its nonce had to make room for others: for any number of
\* requests, size of the nonce file, length of a tick and skew, as long as the
\* policy keeps nonces for longer than the skew (verify_freshness counts whole
\* seconds, verify_and_store_nonce and prune_nonce_store do not).
THEOREM EnvelopeTakenOnce == ASSUME KeptForLonger PROVE EnvelopesSpec => []AcceptedOnce
<1>1. EnvelopesInv /\ [EnvelopesNext]_envelopeVars => EnvelopesInv'
    BY EnvelopesInvNext
<1>2. EnvelopesInv => AcceptedOnce
    BY DEF EnvelopesInv
<1> QED
    BY <1>1, <1>2, EnvelopesInvInit, PTL DEF EnvelopesSpec

----------------------------------------------------------------------------
(* The signature suites *)

\* The challenge of a draft whose document has been revised so often, the Agent's
\* proof of it, and the claims certified about both.
ChallengeOf(hash, serial) ==
    [subject |-> "agent", registrar |-> "registrar", hash |-> hash, serial |-> serial]
ProofOf(challenge) == BuildProof(challenge, Key("agent"), stated["proof"])
ClaimsOf(hash, serial) ==
    BindingClaims(ChallengeOf(hash, serial), ProofOf(ChallengeOf(hash, serial)), hash)

DocumentHash(document) == Hash(suites["registrar"], document)

\* A draft: the proof is of the document as it is, the credential of that one or of
\* an earlier one, and which it is its serial says.
Challenged(d, serial) == d.challenge = ChallengeOf(DocumentHash(d.document), serial)
Proved(d, serial) ==
    /\ Challenged(d, serial)
    /\ d.proof = ProofOf(d.challenge)
    /\ ControlHolds(d.challenge, d.proof, DocumentHash(d.document))
Certified(d, serial) ==
    \E document \in SuiteDocuments, r \in 0..serial :
        LET claims == ClaimsOf(DocumentHash(document), r) IN
        /\ r = serial => document = d.document
        /\ d.credential = [claims |-> claims, proof |-> BuildProof(claims, Key("registrar"), TRUE)]

DraftHolds(d, serial) ==
    /\ d = [document |-> d.document, challenge |-> d.challenge, proof |-> d.proof,
            credential |-> d.credential]
    /\ d.document \in SuiteDocuments
    /\ d.challenge = NoItem \/ Challenged(d, serial)
    /\ d.proof = NoItem \/ Proved(d, serial)
    /\ d.credential = NoItem \/ Certified(d, serial)

\* The request on its way is of such a draft, complete.
RequestHolds(r, serial) ==
    LET d == r.submission.draft IN
    /\ Proved(d, serial) /\ Certified(d, serial)
    /\ r.submission.hash = DocumentHash(d.document)
    /\ r.envelope = Envelope("registrar", r.submission)

SuitesTyped ==
    /\ \A party \in Parties : suites[party] \in Suites
    /\ suites["registrar"] # "ed25519" /\ suites["root"] # "ed25519"
    /\ stated["method"] \in BOOLEAN /\ stated["proof"] \in BOOLEAN
    /\ revisions \in Nat

SuitesInv ==
    /\ SuitesTyped
    /\ DraftHolds(prepared, revisions)
    /\ request = NoItem \/ RequestHolds(request, revisions)
    /\ "root" \in refused => request # NoItem
    /\ package = NoItem \/ (request # NoItem /\ Accepts(request) /\ package = PackageOf(request.submission))
    /\ held = NoItem \/ held = package
    /\ indexed = NoItem \/ indexed = package
    /\ HonestPasses

LEMMA NodeKeys ==
    ASSUME SuitesTyped
    PROVE  /\ NodeKey("registrar") = Key("registrar") /\ Key("registrar").suite = suites["registrar"]
           /\ NodeKey("root") = Key("root") /\ Key("root").suite = suites["root"]
           /\ Key("agent").suite = suites["agent"]
           /\ suites["registrar"] \in Suites /\ suites["root"] \in Suites /\ suites["agent"] \in Suites
<1>1. "registrar" \in Parties /\ "root" \in Parties /\ "agent" \in Parties
    BY DEF Parties
<1>2. suites["registrar"] \in {"legacy", "sm2"} /\ suites["root"] \in {"legacy", "sm2"}
      /\ suites["agent"] \in Suites
    BY <1>1 DEF SuitesTyped, Suites
<1>3. OfMethodType(MethodType("legacy")) = "legacy" /\ OfMethodType(MethodType("sm2")) = "sm2"
    BY DEF OfMethodType, MethodType
<1>4. \A node : NodeKey(node) = [owner |-> node, suite |-> OfMethodType(MethodType(suites[node]))]
    BY DEF NodeKey, VerifyingKey, Method, MethodSuite
<1> QED
    BY <1>2, <1>3, <1>4 DEF Key, Suites

\* A proof that says its suite is accepted of whoever made it.
LEMMA OwnProofHolds ==
    ASSUME NEW payload, NEW key, key.suite \in Suites
    PROVE  /\ ProofSuite(BuildProof(payload, key, TRUE)) = key.suite
           /\ ProofHolds(payload, BuildProof(payload, key, TRUE), key)
           /\ BuildProof(payload, key, TRUE).value = SignBytes(key, SignatureInput(key.suite, payload))
<1>1. key.suite # NoItem
    BY NoItemAssumption
<1> DEFINE proof == BuildProof(payload, key, TRUE)
<1>2. proof.suite = key.suite /\ proof.value = SignBytes(key, SignatureInput(key.suite, payload))
    BY DEF BuildProof
<1> HIDE DEF proof
<1>3. ProofSuite(proof) = key.suite
    BY <1>1, <1>2 DEF ProofSuite
<1> QED
    BY <1>2, <1>3 DEF ProofHolds, VerifyBytes, proof

LEMMA OwnEnvelopeHolds ==
    ASSUME SuitesTyped, NEW node \in {"registrar", "root"}, NEW body
    PROVE  EnvelopeHolds(node, Envelope(node, body), body)
<1>1. /\ NodeKey(node) = Key(node) /\ Key(node).suite = suites[node] /\ suites[node] \in Suites
    BY NodeKeys
<1> DEFINE hash == Hash(suites[node], body)
           envelope == Envelope(node, body)
<1>2. envelope.bodyHash = hash /\ envelope.proof = BuildProof([bodyHash |-> hash], Key(node), TRUE)
    BY DEF Envelope
<1> HIDE DEF hash, envelope
<1>3. ProofHolds([bodyHash |-> hash], BuildProof([bodyHash |-> hash], Key(node), TRUE), Key(node))
    BY <1>1, OwnProofHolds
<1> QED
    BY <1>1, <1>2, <1>3 DEF EnvelopeHolds, hash, envelope

\* The Agent's proof holds, unless it is of an Ed25519 key and something does not
\* say so; it is of a suite with the Agent's hash algorithm anyway.
LEMMA AgentProof ==
    ASSUME SuitesTyped, NEW payload
    PROVE  /\ ~Undescribed => ProofHolds(payload, ProofOf(payload), VerifyingKey(AgentMethod))
           /\ HashAlgorithm(ProofSuite(ProofOf(payload))) = HashAlgorithm(suites["agent"])
<1> DEFINE suite == suites["agent"]
           key == Key("agent")
           proof == ProofOf(payload)
           verifying == VerifyingKey(AgentMethod)
<1>1. suite \in Suites /\ suite # NoItem
    BY NodeKeys, NoItemAssumption
<1>2. key = [owner |-> "agent", suite |-> suite]
    BY DEF Key
<1>3. /\ proof.suite = IF stated["proof"] THEN suite ELSE NoItem
      /\ proof.type = ProofType(suite)
      /\ proof.value = SignBytes(key, SignatureInput(suite, payload))
    BY <1>2 DEF ProofOf, BuildProof
<1>4. verifying.owner = "agent"
      /\ verifying.suite = IF stated["method"] THEN suite ELSE OfMethodType(MethodType(suite))
    BY <1>1 DEF VerifyingKey, AgentMethod, Method, MethodSuite
<1> HIDE DEF suite, proof, verifying, key
<1>5. ProofSuite(proof) = IF stated["proof"] THEN suite ELSE OfProofType(ProofType(suite))
    BY <1>1, <1>3 DEF ProofSuite
<1>6. /\ suite # "ed25519" => OfMethodType(MethodType(suite)) = suite /\ OfProofType(ProofType(suite)) = suite
      /\ HashAlgorithm(OfProofType(ProofType(suite))) = HashAlgorithm(suite)
    BY <1>1 DEF Suites, OfMethodType, MethodType, OfProofType, ProofType, HashAlgorithm
<1>7. ASSUME ~Undescribed PROVE ProofHolds(payload, proof, verifying)
  <2>1. ProofSuite(proof) = suite /\ verifying.suite = suite
      BY <1>4, <1>5, <1>6, <1>7 DEF Undescribed, suite
  <2>2. SignBytes(verifying, SignatureInput(suite, payload)) = SignBytes(key, SignatureInput(suite, payload))
      BY <1>2, <1>4, <2>1 DEF SignBytes
  <2> QED
      BY <1>3, <2>1, <2>2 DEF ProofHolds, VerifyBytes
<1>8. HashAlgorithm(ProofSuite(proof)) = HashAlgorithm(suite)
    BY <1>5, <1>6
<1> QED
    BY <1>7, <1>8 DEF suite, proof, verifying

\* Nobody's suite changes, so what held of a draft or a package holds of it still.
LEMMA SuitesStay ==
    ASSUME UNCHANGED <<suites, stated>>
    PROVE  /\ \A d, serial : Proved(d, serial)' <=> Proved(d, serial)
           /\ \A d, serial : Challenged(d, serial)' <=> Challenged(d, serial)
           /\ \A d, serial : Certified(d, serial)' <=> Certified(d, serial)
           /\ \A d, serial : DraftHolds(d, serial)' <=> DraftHolds(d, serial)
           /\ \A r, serial : RequestHolds(r, serial)' <=> RequestHolds(r, serial)
           /\ \A r : Accepts(r)' <=> Accepts(r)
           /\ \A s : PackageOf(s)' = PackageOf(s)
           /\ Undescribed' <=> Undescribed
<1>1. /\ \A party : Key(party)' = Key(party)
      /\ \A node : NodeKey(node)' = NodeKey(node)
      /\ VerifyingKey(AgentMethod)' = VerifyingKey(AgentMethod)
      /\ \A d : DocumentHash(d)' = DocumentHash(d)
    BY DEF Key, NodeKey, VerifyingKey, AgentMethod, Method, MethodSuite, DocumentHash
<1>2. \A c : ProofOf(c)' = ProofOf(c)
    BY <1>1 DEF ProofOf, BuildProof
<1>3. \A hash, r : ClaimsOf(hash, r)' = ClaimsOf(hash, r)
    BY <1>2 DEF ClaimsOf, ChallengeOf, BindingClaims
<1>4. \A c, p, h : ControlHolds(c, p, h)' <=> ControlHolds(c, p, h)
    BY <1>1 DEF ControlHolds, ProofHolds, VerifyBytes
<1>5. \A d, serial : Challenged(d, serial)' <=> Challenged(d, serial)
    BY <1>1 DEF Challenged, ChallengeOf
<1>6. \A d, serial : Proved(d, serial)' <=> Proved(d, serial)
    BY <1>1, <1>2, <1>4, <1>5 DEF Proved
<1>7. \A d, serial : Certified(d, serial)' <=> Certified(d, serial)
    BY <1>1, <1>3 DEF Certified, BuildProof
<1>8. \A d, serial : DraftHolds(d, serial)' <=> DraftHolds(d, serial)
    BY <1>5, <1>6, <1>7 DEF DraftHolds
<1>9. \A signer, body : Envelope(signer, body)' = Envelope(signer, body)
    BY <1>1 DEF Envelope, BuildProof
<1>10. \A r, serial : RequestHolds(r, serial)' <=> RequestHolds(r, serial)
    BY <1>1, <1>6, <1>7, <1>9 DEF RequestHolds
<1>11. \A signer, e, body : EnvelopeHolds(signer, e, body)' <=> EnvelopeHolds(signer, e, body)
    BY <1>1 DEF EnvelopeHolds, ProofHolds, VerifyBytes
<1>12. \A c : CredentialHolds(c)' <=> CredentialHolds(c)
    BY <1>1 DEF CredentialHolds, ProofHolds, VerifyBytes
<1>13. \A r : Accepts(r)' <=> Accepts(r)
    BY <1>4, <1>11, <1>12 DEF Accepts, ContentHolds, BindingHolds, BindingClaims
<1>14. \A s : PackageOf(s)' = PackageOf(s)
    BY <1>1 DEF PackageOf, BuildProof
<1>15. Undescribed' <=> Undescribed
    BY DEF Undescribed
<1> QED
    BY <1>5, <1>6, <1>7, <1>8, <1>10, <1>13, <1>14, <1>15

LEMMA SuitesInvInit == SuitesInit => SuitesInv
<1> SUFFICES ASSUME SuitesInit PROVE SuitesInv
    OBVIOUS
<1>1. /\ suites \in [Parties -> Suites] /\ stated \in [{"method", "proof"} -> BOOLEAN]
      /\ \A node \in {"registrar", "root"} : suites[node] = OfKeyFile(SigningAlgorithm(suites[node]))
    BY DEF SuitesInit
<1>2. \A suite : OfKeyFile(suite) # "ed25519"
    BY DEF OfKeyFile
<1>3. SuitesTyped
    BY <1>1, <1>2 DEF SuitesTyped, SuitesInit
<1>4. DraftHolds(prepared, revisions)
    BY DEF DraftHolds, SuitesInit
<1>5. HonestPasses
    BY DEF SuitesInit, HonestPasses
<1> QED
    BY <1>3, <1>4, <1>5 DEF SuitesInv, SuitesInit

\* What is under way stays as good as it was.
LEMMA RequestStays ==
    ASSUME SuitesInv, UNCHANGED <<suites, stated, request>>, request = NoItem \/ revisions' = revisions
    PROVE  request' = NoItem \/ RequestHolds(request, revisions)'
<1>1. PICK q, r : q = request /\ r = revisions
    OBVIOUS
<1>2. CASE request # NoItem
  <2>1. RequestHolds(q, r)'
      BY <1>1, <1>2, SuitesStay DEF SuitesInv
  <2>2. q = request' /\ r = revisions'
      BY <1>1, <1>2
  <2> QED
      BY <2>1, <2>2 DEF RequestHolds, Proved, Challenged, Certified
<1> QED
    BY <1>2

LEMMA PackageStays ==
    ASSUME SuitesInv, UNCHANGED <<suites, stated, request, package>>
    PROVE  package' = NoItem \/ (request' # NoItem /\ Accepts(request)' /\ package' = PackageOf(request.submission)')
<1>1. PICK q : q = request
    OBVIOUS
<1>2. (Accepts(q)' <=> Accepts(q)) /\ PackageOf(q.submission)' = PackageOf(q.submission)
    BY SuitesStay
<1>3. Accepts(request)' <=> Accepts(request)
    BY <1>1, <1>2 DEF Accepts
<1>4. PackageOf(request.submission)' = PackageOf(request.submission)
    BY <1>1, <1>2 DEF PackageOf
<1> QED
    BY <1>3, <1>4 DEF SuitesInv

\* A step of the Registrar's draft; nothing is under way to Root yet, or it is as it was.
LEMMA DraftMoves ==
    ASSUME SuitesInv, UNCHANGED <<suites, stated, request, package, held, indexed>>,
           revisions' \in Nat, request = NoItem \/ revisions' = revisions,
           DraftHolds(prepared', revisions'),
           refused' = refused \/ (Undescribed /\ refused' = refused \cup {"control"})
    PROVE  SuitesInv'
<1>1. SuitesTyped'
    BY DEF SuitesInv, SuitesTyped
<1>2. DraftHolds(prepared, revisions)'
  <2>1. PICK d, r : d = prepared' /\ r = revisions'
      OBVIOUS
  <2>2. DraftHolds(d, r)'
      BY <2>1, SuitesStay
  <2> QED
      BY <2>1, <2>2 DEF DraftHolds, Proved, Challenged, Certified
<1>3. request' = NoItem \/ RequestHolds(request, revisions)'
    BY RequestStays
<1>4. package' = NoItem \/ (request' # NoItem /\ Accepts(request)' /\ package' = PackageOf(request.submission)')
    BY PackageStays
<1>5. HonestPasses'
  <2>1. Undescribed' <=> Undescribed
      BY SuitesStay
  <2>2. /\ "control" \in refused' => "control" \in refused \/ Undescribed
        /\ "root" \in refused' => "root" \in refused
        /\ refused' \cap {"cdn", "discovery"} = refused \cap {"cdn", "discovery"}
      OBVIOUS
  <2> QED
      BY <2>1, <2>2 DEF SuitesInv, HonestPasses
<1>6. (held' = NoItem \/ held' = package') /\ (indexed' = NoItem \/ indexed' = package')
    BY DEF SuitesInv
<1>7. "root" \in refused' => request' # NoItem
    BY DEF SuitesInv
<1> QED
    BY <1>1, <1>2, <1>3, <1>4, <1>5, <1>6, <1>7 DEF SuitesInv

LEMMA ReviseKeeps ==
    ASSUME SuitesInv, NEW document \in SuiteDocuments, ReviseDocument(document)
    PROVE  SuitesInv'
<1>1. /\ prepared' = [prepared EXCEPT !.document = document, !.challenge = NoItem, !.proof = NoItem]
      /\ request = NoItem /\ revisions' = revisions + 1
      /\ UNCHANGED <<suites, stated, request, package, held, indexed, refused>>
    BY DEF ReviseDocument
<1>2. DraftHolds(prepared, revisions) /\ revisions \in Nat
    BY DEF SuitesInv, SuitesTyped
<1>3. prepared' = [document |-> document, challenge |-> NoItem, proof |-> NoItem,
                   credential |-> prepared.credential]
    BY <1>1, <1>2 DEF DraftHolds
<1> DEFINE d == [document |-> document, challenge |-> NoItem, proof |-> NoItem,
                 credential |-> prepared.credential]
<1>4. /\ d.document = document /\ d.challenge = NoItem /\ d.proof = NoItem
      /\ d.credential = prepared.credential
      /\ d = [document |-> d.document, challenge |-> d.challenge, proof |-> d.proof,
              credential |-> d.credential]
    OBVIOUS
<1> HIDE DEF d
<1>5. ASSUME Certified(prepared, revisions) PROVE Certified(d, revisions + 1)
  <2>1. PICK old \in SuiteDocuments, r \in 0..revisions :
          LET claims == ClaimsOf(DocumentHash(old), r) IN
          prepared.credential = [claims |-> claims, proof |-> BuildProof(claims, Key("registrar"), TRUE)]
      BY <1>5 DEF Certified
  <2>2. r \in 0..(revisions + 1) /\ r # revisions + 1
      BY <1>2
  <2> QED
      BY <1>4, <2>1, <2>2 DEF Certified
<1>6. DraftHolds(d, revisions + 1)
    BY <1>2, <1>4, <1>5 DEF DraftHolds
<1>7. DraftHolds(prepared', revisions')
    BY <1>1, <1>3, <1>6 DEF d
<1>8. revisions' \in Nat
    BY <1>1, <1>2
<1> QED
    BY <1>1, <1>7, <1>8, DraftMoves

\* A change of the draft that leaves its document, and what it does change right.
LEMMA DraftChanged ==
    ASSUME SuitesInv, NEW d,
           d = [document |-> d.document, challenge |-> d.challenge, proof |-> d.proof,
                credential |-> d.credential],
           d.document = prepared.document,
           d.challenge = prepared.challenge \/ Challenged(d, revisions),
           d.proof = prepared.proof \/ Proved(d, revisions),
           d.proof = NoItem \/ Challenged(d, revisions),
           d.credential = prepared.credential \/ Certified(d, revisions)
    PROVE  DraftHolds(d, revisions)
<1>1. DraftHolds(prepared, revisions)
    BY DEF SuitesInv
<1>2. d.challenge = NoItem \/ Challenged(d, revisions)
    BY <1>1 DEF DraftHolds, Challenged
<1>3. d.proof = NoItem \/ Proved(d, revisions)
    BY <1>1 DEF DraftHolds, Proved, Challenged
<1>4. d.credential = NoItem \/ Certified(d, revisions)
    BY <1>1 DEF DraftHolds, Certified
<1> QED
    BY <1>1, <1>2, <1>3, <1>4 DEF DraftHolds

LEMMA ChallengeKeeps ==
    ASSUME SuitesInv, create_did_control_challenge
    PROVE  SuitesInv'
<1> DEFINE challenge == ChallengeOf(DocumentHash(prepared.document), revisions)
           d == [document |-> prepared.document, challenge |-> challenge, proof |-> prepared.proof,
                 credential |-> prepared.credential]
<1>1. /\ prepared' = [prepared EXCEPT !.challenge = challenge]
      /\ UNCHANGED <<suites, stated, request, package, held, indexed, refused, revisions>>
    BY DEF create_did_control_challenge, DraftHash, DocumentHash, ChallengeOf
<1>2. DraftHolds(prepared, revisions) /\ revisions \in Nat
    BY DEF SuitesInv, SuitesTyped
<1> HIDE DEF challenge
<1>3. prepared' = d
    BY <1>1, <1>2 DEF DraftHolds
<1>4. /\ d.document = prepared.document /\ d.challenge = challenge /\ d.proof = prepared.proof
      /\ d.credential = prepared.credential
      /\ d = [document |-> d.document, challenge |-> d.challenge, proof |-> d.proof,
              credential |-> d.credential]
    OBVIOUS
<1> HIDE DEF d
<1>5. Challenged(d, revisions)
    BY <1>4 DEF Challenged, challenge
<1>6. DraftHolds(d, revisions)
    BY <1>4, <1>5, DraftChanged
<1> QED
    BY <1>1, <1>2, <1>3, <1>6, DraftMoves

LEMMA ProveKeeps ==
    ASSUME SuitesInv, ProveControl
    PROVE  SuitesInv'
<1> DEFINE proof == ProofOf(prepared.challenge)
           holds == ControlHolds(prepared.challenge, proof, DocumentHash(prepared.document))
           d == [document |-> prepared.document, challenge |-> prepared.challenge, proof |-> proof,
                 credential |-> prepared.credential]
<1>1. /\ prepared.challenge # NoItem
      /\ \/ holds /\ prepared' = [prepared EXCEPT !.proof = proof] /\ UNCHANGED refused
         \/ ~holds /\ refused' = refused \cup {"control"} /\ UNCHANGED prepared
      /\ UNCHANGED <<suites, stated, request, package, held, indexed, revisions>>
    BY DEF ProveControl, ProofOf, DraftHash, DocumentHash
<1>2. /\ DraftHolds(prepared, revisions) /\ revisions \in Nat /\ SuitesTyped
      /\ Challenged(prepared, revisions)
    BY <1>1 DEF SuitesInv, SuitesTyped, DraftHolds
<1> HIDE DEF proof, holds
<1>3. CASE holds
  <2>1. prepared' = d /\ refused' = refused
      BY <1>1, <1>2, <1>3 DEF DraftHolds
  <2>2. /\ d.document = prepared.document /\ d.challenge = prepared.challenge /\ d.proof = proof
        /\ d.credential = prepared.credential
        /\ d = [document |-> d.document, challenge |-> d.challenge, proof |-> d.proof,
                credential |-> d.credential]
      OBVIOUS
  <2> HIDE DEF d
  <2>3. Challenged(d, revisions)
      BY <1>2, <2>2 DEF Challenged
  <2>4. Proved(d, revisions)
      BY <1>3, <2>2, <2>3 DEF Proved, holds, proof
  <2>5. DraftHolds(d, revisions)
      BY <2>2, <2>3, <2>4, DraftChanged
  <2> QED
      BY <1>1, <1>2, <2>1, <2>5, DraftMoves
<1>4. CASE ~holds
  <2>1. Undescribed
    <3> SUFFICES ASSUME ~Undescribed PROVE FALSE
        OBVIOUS
    <3>1. ProofHolds(prepared.challenge, proof, VerifyingKey(AgentMethod))
        BY <1>2, AgentProof DEF proof
    <3>2. holds
        BY <1>2, <3>1 DEF holds, ControlHolds, Challenged, ChallengeOf
    <3> QED
        BY <1>4, <3>2
  <2> QED
      BY <1>1, <1>2, <1>4, <2>1, DraftMoves
<1> QED
    BY <1>3, <1>4

LEMMA CertifyKeeps ==
    ASSUME SuitesInv, CertifyControl
    PROVE  SuitesInv'
<1> DEFINE claims == ClaimsOf(DocumentHash(prepared.document), revisions)
           credential == [claims |-> claims, proof |-> BuildProof(claims, Key("registrar"), TRUE)]
           d == [document |-> prepared.document, challenge |-> prepared.challenge,
                 proof |-> prepared.proof, credential |-> credential]
<1>1. /\ prepared.proof # NoItem
      /\ UNCHANGED <<suites, stated, request, package, held, indexed, refused, revisions>>
    BY DEF CertifyControl
<1>2. /\ DraftHolds(prepared, revisions) /\ revisions \in Nat /\ Proved(prepared, revisions)
    BY <1>1 DEF SuitesInv, SuitesTyped, DraftHolds
<1>3. BindingClaims(prepared.challenge, prepared.proof, DraftHash) = claims
    BY <1>2 DEF Proved, Challenged, DraftHash, DocumentHash, ClaimsOf
<1>4. prepared' = [prepared EXCEPT !.credential = credential]
    BY <1>3 DEF CertifyControl
<1> HIDE DEF credential
<1>5. prepared' = d
    BY <1>2, <1>4 DEF DraftHolds
<1>6. /\ d.document = prepared.document /\ d.challenge = prepared.challenge
      /\ d.proof = prepared.proof /\ d.credential = credential
      /\ d = [document |-> d.document, challenge |-> d.challenge, proof |-> d.proof,
              credential |-> d.credential]
    OBVIOUS
<1> HIDE DEF d
<1>7. Challenged(d, revisions)
    BY <1>2, <1>6 DEF Proved, Challenged
<1>8. Certified(d, revisions)
  <2>1. prepared.document \in SuiteDocuments /\ revisions \in 0..revisions
      BY <1>2 DEF DraftHolds
  <2> QED
      BY <1>6, <2>1 DEF Certified, credential
<1>9. DraftHolds(d, revisions)
    BY <1>6, <1>7, <1>8, DraftChanged
<1> QED
    BY <1>1, <1>2, <1>5, <1>9, DraftMoves

LEMMA DraftStays ==
    ASSUME SuitesInv, UNCHANGED <<suites, stated, prepared, revisions>>
    PROVE  SuitesTyped' /\ DraftHolds(prepared, revisions)' /\ (Undescribed' <=> Undescribed)
<1>1. SuitesTyped'
    BY DEF SuitesInv, SuitesTyped
<1>2. PICK d, r : d = prepared /\ r = revisions
    OBVIOUS
<1>3. DraftHolds(d, r)'
    BY <1>2, SuitesStay DEF SuitesInv
<1>4. DraftHolds(prepared, revisions)'
    BY <1>2, <1>3 DEF DraftHolds, Proved, Challenged, Certified
<1> QED
    BY <1>1, <1>4, SuitesStay

LEMMA SubmitKeeps ==
    ASSUME SuitesInv, Submit
    PROVE  SuitesInv'
<1> DEFINE new == [submission |-> [draft |-> prepared, hash |-> DraftHash],
                   envelope |-> Envelope("registrar", [draft |-> prepared, hash |-> DraftHash])]
<1>1. /\ prepared.proof # NoItem /\ prepared.credential # NoItem /\ request = NoItem
      /\ request' = new
      /\ UNCHANGED <<suites, stated, prepared, package, held, indexed, refused, revisions>>
    BY DEF Submit
<1>2. Proved(prepared, revisions) /\ Certified(prepared, revisions)
    BY <1>1 DEF SuitesInv, DraftHolds
<1>3. /\ new.submission = [draft |-> prepared, hash |-> DraftHash]
      /\ new.submission.draft = prepared /\ new.submission.hash = DraftHash
      /\ new.envelope = Envelope("registrar", new.submission)
    OBVIOUS
<1> HIDE DEF new
<1>4. RequestHolds(new, revisions)
    BY <1>2, <1>3 DEF RequestHolds, DraftHash, DocumentHash
<1>5. RequestHolds(request, revisions)'
  <2>1. PICK r, n : r = revisions /\ n = new
      OBVIOUS
  <2>2. RequestHolds(n, r)'
      BY <1>1, <1>4, <2>1, SuitesStay
  <2> QED
      BY <1>1, <2>1, <2>2 DEF RequestHolds, Proved, Challenged, Certified
<1>6. package = NoItem
    BY <1>1 DEF SuitesInv
<1>7. "root" \notin refused
    BY <1>1 DEF SuitesInv
<1>8. HonestPasses'
    BY <1>1, <1>7, DraftStays DEF SuitesInv, HonestPasses
<1> QED
    BY <1>1, <1>5, <1>6, <1>7, <1>8, DraftStays DEF SuitesInv

\* Root accepts what is done in order, unless it hashes otherwise than the Registrar.
LEMMA RequestPasses ==
    ASSUME SuitesInv, request # NoItem,
           HashAlgorithm(suites["agent"]) = HashAlgorithm(suites["registrar"]),
           ~Stale(request.submission.draft)
    PROVE  Accepts(request)
<1> DEFINE s == request.submission
           d == s.draft
<1>1. /\ SuitesTyped /\ Proved(d, revisions) /\ Certified(d, revisions)
      /\ s.hash = DocumentHash(d.document) /\ request.envelope = Envelope("registrar", s)
    BY DEF SuitesInv, RequestHolds
<1>2. ~Stale(d)
    OBVIOUS
<1> HIDE DEF d
<1>3. EnvelopeHolds("registrar", request.envelope, s)
    BY <1>1, OwnEnvelopeHolds
<1> HIDE DEF s
<1>4. /\ d.challenge = ChallengeOf(DocumentHash(d.document), revisions)
      /\ d.proof = ProofOf(d.challenge)
      /\ ControlHolds(d.challenge, d.proof, DocumentHash(d.document))
    BY <1>1 DEF Proved, Challenged
<1>5. ContentHolds(s)
  <2>1. HashAlgorithm(ProofSuite(d.proof)) = HashAlgorithm(suites["registrar"])
      BY <1>1, <1>4, AgentProof
  <2>2. Hash(ProofSuite(d.proof), d.document) = Hash(suites["registrar"], d.document)
      BY <2>1 DEF Hash
  <2> QED
      BY <1>1, <2>2 DEF ContentHolds, DocumentHash, d
<1>6. PICK document \in SuiteDocuments, r \in 0..revisions :
        LET claims == ClaimsOf(DocumentHash(document), r) IN
        /\ r = revisions => document = d.document
        /\ d.credential = [claims |-> claims, proof |-> BuildProof(claims, Key("registrar"), TRUE)]
    BY <1>1 DEF Certified
<1> DEFINE claims == ClaimsOf(DocumentHash(document), r)
<1>7. d.credential.claims = claims /\ d.credential.proof = BuildProof(claims, Key("registrar"), TRUE)
    BY <1>6
<1>8. claims.serial = r /\ d.challenge.serial = revisions
    BY <1>4 DEF ClaimsOf, BindingClaims, ChallengeOf
<1>9. r = revisions
    BY <1>2, <1>7, <1>8 DEF Stale
<1>10. claims = BindingClaims(d.challenge, d.proof, s.hash)
    BY <1>1, <1>4, <1>6, <1>9 DEF ClaimsOf
<1> HIDE DEF claims
<1>11. CredentialHolds(d.credential)
    BY <1>1, <1>7, NodeKeys, OwnProofHolds DEF CredentialHolds
<1>12. BindingHolds(s)
    BY <1>7, <1>10 DEF BindingHolds, d
<1> QED
    BY <1>1, <1>3, <1>4, <1>5, <1>11, <1>12 DEF Accepts, s, d

LEMMA ReceiveSubmission ==
    ASSUME SuitesInv, Receive
    PROVE  SuitesInv'
<1>1. /\ request # NoItem /\ package = NoItem
      /\ \/ Accepts(request) /\ package' = PackageOf(request.submission) /\ refused' = refused
         \/ ~Accepts(request) /\ refused' = refused \cup {"root"} /\ package' = package
      /\ UNCHANGED <<suites, stated, prepared, request, held, indexed, revisions>>
    BY DEF Receive
<1>2. SuitesTyped' /\ DraftHolds(prepared, revisions)' /\ (Undescribed' <=> Undescribed)
    BY <1>1, DraftStays
<1>3. request' = NoItem \/ RequestHolds(request, revisions)'
    BY <1>1, RequestStays
<1>4. package' = NoItem \/ (request' # NoItem /\ Accepts(request)' /\ package' = PackageOf(request.submission)')
  <2>1. PICK q : q = request
      OBVIOUS
  <2>2. (Accepts(q)' <=> Accepts(q)) /\ PackageOf(q.submission)' = PackageOf(q.submission)
      BY <1>1, SuitesStay
  <2>3. Accepts(request)' <=> Accepts(request)
      BY <1>1, <2>1, <2>2 DEF Accepts
  <2>4. PackageOf(request.submission)' = PackageOf(request.submission)
      BY <1>1, <2>1, <2>2 DEF PackageOf
  <2> QED
      BY <1>1, <2>3, <2>4
<1>5. held = NoItem /\ indexed = NoItem
    BY <1>1 DEF SuitesInv
<1>6. HonestPasses'
  <2>1. "root" \in refused' => \/ HashAlgorithm(suites["agent"]) # HashAlgorithm(suites["registrar"])
                               \/ Stale(request.submission.draft)
      BY <1>1, RequestPasses DEF SuitesInv, HonestPasses
  <2>2. /\ "control" \in refused' => "control" \in refused
        /\ refused' \cap {"cdn", "discovery"} = refused \cap {"cdn", "discovery"}
      BY <1>1
  <2> QED
      BY <1>1, <1>2, <2>1, <2>2 DEF SuitesInv, HonestPasses
<1> QED
    BY <1>1, <1>2, <1>3, <1>4, <1>5, <1>6 DEF SuitesInv

\* A package of Root's passes the checks of the CDN and of a Discovery node.
LEMMA PackagePasses ==
    ASSUME SuitesTyped, NEW s
    PROVE  /\ EnvelopeHolds("root", Envelope("root", PackageOf(s)), PackageOf(s))
           /\ DocumentHashHolds(PackageOf(s)) /\ MetadataHashHolds(PackageOf(s))
           /\ RootProofHolds(PackageOf(s))
<1> DEFINE p == PackageOf(s)
           suite == suites["root"]
<1>1. suite \in Suites /\ suite # NoItem /\ NodeKey("root") = Key("root") /\ Key("root").suite = suite
    BY NodeKeys, NoItemAssumption
<1>2. EnvelopeHolds("root", Envelope("root", p), p)
    BY OwnEnvelopeHolds
<1>3. /\ p.suite = suite /\ p.document = s.draft.document
      /\ p.documentHash = Hash(suite, p.document) /\ p.metadataHash = Hash(suite, p.metadata)
      /\ p.claims.documentHash = p.documentHash /\ p.claims.metadataHash = p.metadataHash
      /\ p.proof = BuildProof(p.claims, Key("root"), TRUE)
    BY DEF PackageOf
<1> HIDE DEF p, suite
<1>4. EffectiveSuite(p) = suite
    BY <1>1, <1>3 DEF EffectiveSuite
<1>5. DocumentHashHolds(p) /\ MetadataHashHolds(p)
    BY <1>3, <1>4 DEF DocumentHashHolds, MetadataHashHolds
<1>6. p.proof.value = SignBytes(Key("root"), SignatureInput(suite, p.claims))
    BY <1>1, <1>3, OwnProofHolds
<1>7. RootProofHolds(p)
    BY <1>1, <1>3, <1>4, <1>6 DEF RootProofHolds, VerifyBytes
<1> QED
    BY <1>2, <1>5, <1>7 DEF p

LEMMA StoreKeeps ==
    ASSUME SuitesInv, Store \/ IndexHeld
    PROVE  SuitesInv'
<1>1. /\ UNCHANGED <<suites, stated, prepared, request, package, revisions>>
      /\ package = PackageOf(request.submission)
    BY DEF Store, IndexHeld, SuitesInv
<1>2. /\ EnvelopeHolds("root", Envelope("root", package), package)
      /\ DocumentHashHolds(package) /\ MetadataHashHolds(package) /\ RootProofHolds(package)
    BY <1>1, PackagePasses DEF SuitesInv
<1>3. refused' = refused /\ (held' = held \/ held' = package) /\ (indexed' = indexed \/ indexed' = package)
    BY <1>2 DEF Store, IndexHeld, SuitesInv
<1>4. HonestPasses'
    BY <1>1, <1>3, DraftStays DEF SuitesInv, HonestPasses
<1> QED
    BY <1>1, <1>3, <1>4, DraftStays, RequestStays, PackageStays DEF SuitesInv

\* What is certified passes whatever suites the three parties chose, but for the two
\* kinds of Agent named; and what a Discovery node indexes is the document whose
\* control was proved and certified, although it may have been revised after either.
THEOREM WhateverSuites == SuitesSpec => []CertifiedPasses
<1>1. SuitesInv /\ [SuitesNext]_suiteVars => SuitesInv'
  <2> SUFFICES ASSUME SuitesInv, [SuitesNext]_suiteVars PROVE SuitesInv'
      OBVIOUS
  <2>1. CASE UNCHANGED suiteVars
    <3>1. UNCHANGED <<suites, stated, prepared, request, package, held, indexed, refused, revisions>>
        BY <2>1 DEF suiteVars
    <3>2. HonestPasses'
        BY <3>1, DraftStays DEF SuitesInv, HonestPasses
    <3> QED
        BY <3>1, <3>2, DraftStays, RequestStays, PackageStays DEF SuitesInv
  <2> QED
      BY <2>1, ReviseKeeps, ChallengeKeeps, ProveKeeps, CertifyKeeps, SubmitKeeps, ReceiveSubmission,
         StoreKeeps DEF SuitesNext
<1>2. SuitesInv => CertifiedPasses
  <2> SUFFICES ASSUME SuitesInv, indexed # NoItem PROVE IndexedWasCertified
      BY DEF CertifiedPasses, IndexedWasCertified, SuitesInv
  <2> DEFINE s == request.submission
             d == s.draft
  <2>1. indexed = PackageOf(s) /\ Accepts(request) /\ RequestHolds(request, revisions)
      BY DEF SuitesInv
  <2>2. indexed.document = d.document
      BY <2>1 DEF PackageOf
  <2>3. s.hash = DocumentHash(d.document) /\ d.challenge.hash = s.hash
      BY <2>1 DEF RequestHolds, Accepts, ControlHolds
  <2>4. d.credential.claims = BindingClaims(d.challenge, d.proof, s.hash)
      BY <2>1 DEF Accepts, BindingHolds
  <2>5. d.credential.claims.hash = s.hash /\ d.credential.claims.serial = d.challenge.serial
      BY <2>4 DEF BindingClaims
  <2>6. s.hash.of = d.document
      BY <2>3 DEF DocumentHash, Hash
  <2> QED
      BY <2>2, <2>3, <2>5, <2>6 DEF IndexedWasCertified
<1> QED
    BY SuitesInvInit, <1>1, <1>2, PTL DEF SuitesSpec

----------------------------------------------------------------------------
(* The chain of hashes *)

\* Every event is numbered by its place, names the hash before it, and is as Root
\* seals.
IsChain(h) ==
    \A i \in 1..Len(h) :
        /\ h[i].core.sequence = i
        /\ h[i].core.previous = (IF i = 1 THEN NoItem ELSE h[i - 1].hash)
        /\ \E old \in BOOLEAN : h[i] = Sealed(h[i].core, old)

\* Two bulletins that have an event in common have all in common before it.
OnePast(g, h) ==
    \A n \in 1..Len(g) : n \in 1..Len(h) /\ g[n].core = h[n].core =>
        \A i \in 1..n : g[i].core = h[i].core

\* The first k events are the beginning of a bulletin Root had.
Begins(events, k) ==
    \E h \in histories : k <= Len(h) /\ \A i \in 1..k : h[i].core = events[i].core
Unflawed(events, k) == \A i \in 1..k : EventFlaw(events, i) = NoItem

ChainInv ==
    /\ rootSuite \in {"legacy", "sm2"}
    /\ histories \subseteq Seq(AllSealed) /\ chain \in Seq(AllSealed) /\ copy \in Seq(AllSealed)
    /\ \A h \in histories \cup {chain} : IsChain(h)
    /\ \A g, h \in histories \cup {chain} : OnePast(g, h)
    /\ <<>> \in histories
    /\ \A k \in 0..Len(copy) : Unflawed(copy, k) => Begins(copy, k)
    /\ flaw = Verdict(copy)

LEMMA SealedParts ==
    ASSUME NEW core, NEW old \in BOOLEAN
    PROVE  /\ Sealed(core, old).core = core /\ Sealed(core, old).hash = Hash(rootSuite, core)
           /\ Sealed(core, old).signature = BuildProof([eventHash |-> Hash(rootSuite, core)], RootKey, TRUE).value
           /\ Sealed(core, old).suite = (IF old THEN NoItem ELSE rootSuite)
           /\ Sealed(core, old).proof =
                (IF old THEN NoItem ELSE BuildProof([eventHash |-> Hash(rootSuite, core)], RootKey, TRUE))
    BY DEF Sealed

\* Hashes tell events apart.
LEMMA HashTells ==
    ASSUME NEW core, NEW other, Hash(rootSuite, core) = Hash(rootSuite, other)
    PROVE  core = other
<1>1. Hash(rootSuite, core).of = core /\ Hash(rootSuite, other).of = other
    BY DEF Hash
<1> QED
    BY <1>1

\* The first flaw, if there is one.
LEMMA FirstFlaw ==
    ASSUME NEW S, NEW events \in Seq(S)
    PROVE  /\ Verdict(events).at \in 1..(Len(events) + 1)
           /\ Unflawed(events, Verdict(events).at - 1)
           /\ Verdict(events).is # NoItem =>
                /\ Verdict(events).at \in 1..Len(events)
                /\ EventFlaw(events, Verdict(events).at) = Verdict(events).is
<1> DEFINE flawed == {i \in DOMAIN events : EventFlaw(events, i) # NoItem}
           first == CHOOSE i \in flawed : \A j \in flawed : i <= j
<1>1. Len(events) \in Nat /\ DOMAIN events = 1..Len(events)
    OBVIOUS
<1>2. CASE flawed = {}
  <2>1. Verdict(events) = [at |-> Len(events) + 1, is |-> NoItem]
      BY <1>2 DEF Verdict
  <2> QED
      BY <1>1, <1>2, <2>1 DEF Unflawed
<1>3. CASE flawed # {}
  <2>1. Verdict(events) = [at |-> first, is |-> EventFlaw(events, first)]
      BY <1>3 DEF Verdict
  <2>2. flawed \subseteq 1..Len(events) /\ flawed \subseteq Nat
      BY <1>1
  <2>3. \A i \in 1..Len(events) : i \notin flawed => EventFlaw(events, i) = NoItem
      BY <1>1
  <2> HIDE DEF flawed
  <2>4. \E i \in flawed : \A j \in flawed : i <= j
    <3>1. IsWellFoundedOn(OpToRel(<, Nat), Nat)
        BY NatLessThanWellFounded
    <3>2. PICK i \in flawed : \A j \in flawed : ~(<<j, i>> \in OpToRel(<, Nat))
        BY <1>3, <2>2, <3>1, WFMin
    <3>3. \A j \in flawed : ~(j < i)
        BY <2>2, <3>2 DEF OpToRel
    <3> QED
        BY <2>2, <3>3
  <2>5. first \in flawed /\ \A j \in flawed : first <= j
      BY <2>4
  <2> HIDE DEF first
  <2>6. \A i \in 1..(first - 1) : i \in 1..Len(events) /\ i \notin flawed
      BY <1>1, <2>2, <2>5
  <2>7. Verdict(events).at = first /\ Verdict(events).is = EventFlaw(events, first)
      BY <2>1
  <2> QED
      BY <1>1, <2>2, <2>3, <2>5, <2>6, <2>7 DEF Unflawed
<1> QED
    BY <1>2, <1>3

\* What an event of a bulletin is hashed to.
LEMMA HashOfLink ==
    ASSUME NEW h, IsChain(h), NEW i \in 1..Len(h)
    PROVE  h[i].hash = Hash(rootSuite, h[i].core)
<1>1. PICK old \in BOOLEAN : h[i] = Sealed(h[i].core, old)
    BY DEF IsChain
<1>2. Sealed(h[i].core, old).hash = Hash(rootSuite, h[i].core)
    BY SealedParts
<1> QED
    BY <1>1, <1>2

\* An event with the right number and the hash before it carries a bulletin on.
LEMMA CarriedOn ==
    ASSUME NEW S, NEW c \in Seq(S), IsChain(c), NEW core, NEW old \in BOOLEAN,
           core.sequence = Len(c) + 1,
           core.previous = IF c = <<>> THEN NoItem ELSE c[Len(c)].hash
    PROVE  IsChain(Append(c, Sealed(core, old)))
<1> DEFINE event == Sealed(core, old)
           d == Append(c, event)
<1>1. event.core = core
    BY SealedParts
<1>2. /\ Len(c) \in Nat /\ Len(d) = Len(c) + 1 /\ d[Len(c) + 1] = event
      /\ \A i \in 1..Len(c) : d[i] = c[i]
    BY Z3
<1>3. c = <<>> <=> Len(c) = 0
    BY Z3
<1> HIDE DEF d, event
<1>4. ASSUME NEW i \in 1..Len(c)
      PROVE  /\ d[i].core.sequence = i
             /\ d[i].core.previous = (IF i = 1 THEN NoItem ELSE d[i - 1].hash)
             /\ \E o \in BOOLEAN : d[i] = Sealed(d[i].core, o)
  <2>1. d[i] = c[i] /\ (i # 1 => i - 1 \in 1..Len(c) /\ d[i - 1] = c[i - 1])
      BY <1>2
  <2> QED
      BY <2>1 DEF IsChain
<1>5. /\ d[Len(c) + 1].core.sequence = Len(c) + 1
      /\ d[Len(c) + 1].core.previous = (IF Len(c) + 1 = 1 THEN NoItem ELSE d[Len(c)].hash)
  <2>1. CASE Len(c) = 0
      BY <1>1, <1>2, <1>3, <2>1
  <2>2. CASE Len(c) # 0
    <3>1. Len(c) \in 1..Len(c) /\ Len(c) + 1 # 1
        BY <1>2, <2>2
    <3> QED
        BY <1>1, <1>2, <1>3, <2>2, <3>1
  <2> QED
      BY <2>1, <2>2
<1>6. d[Len(c) + 1] = Sealed(d[Len(c) + 1].core, old)
    BY <1>1, <1>2 DEF event
<1>7. \A i \in 1..Len(d) : i \in 1..Len(c) \/ (i = Len(c) + 1 /\ i - 1 = Len(c))
    BY <1>2
<1>8. IsChain(d)
  <2> SUFFICES ASSUME NEW i \in 1..Len(d)
               PROVE  /\ d[i].core.sequence = i
                      /\ d[i].core.previous = (IF i = 1 THEN NoItem ELSE d[i - 1].hash)
                      /\ \E o \in BOOLEAN : d[i] = Sealed(d[i].core, o)
      BY DEF IsChain
  <2> QED
      BY <1>4, <1>5, <1>6, <1>7
<1> QED
    BY <1>8 DEF d, event

\* Bulletins that shared their past still do when one of them is carried on.
LEMMA PastShared ==
    ASSUME NEW S, NEW g \in Seq(S), NEW c \in Seq(S), NEW event, IsChain(g), IsChain(c),
           IsChain(Append(c, event)), OnePast(g, c)
    PROVE  OnePast(g, Append(c, event))
<1> DEFINE d == Append(c, event)
<1>1. /\ Len(c) \in Nat /\ Len(g) \in Nat /\ Len(d) = Len(c) + 1
      /\ \A i \in 1..Len(c) : d[i] = c[i]
    BY Z3
<1> HIDE DEF d
<1> SUFFICES ASSUME NEW n \in 1..Len(g), n \in 1..Len(d), g[n].core = d[n].core, NEW i \in 1..n
             PROVE  g[i].core = d[i].core
    BY DEF OnePast, d
<1>2. CASE n \in 1..Len(c)
  <2>1. d[n] = c[n] /\ d[i] = c[i]
      BY <1>1, <1>2
  <2> QED
      BY <1>2, <2>1 DEF OnePast
<1>3. CASE n = Len(c) + 1 /\ i # n
  <2>1. /\ n # 1 /\ n - 1 \in 1..Len(c) /\ n - 1 \in 1..Len(g) /\ n \in 1..Len(d)
        /\ n - 1 = Len(c) /\ i \in 1..(n - 1) /\ i \in 1..Len(c)
      BY <1>1, <1>3
  <2>2. g[n].core.previous = g[n - 1].hash /\ d[n].core.previous = d[n - 1].hash
    <3>1. IsChain(d)
        BY DEF d
    <3> QED
        BY <2>1, <3>1 DEF IsChain
  <2>3. d[n - 1] = c[n - 1] /\ d[i] = c[i]
      BY <1>1, <2>1
  <2>4. g[n - 1].hash = Hash(rootSuite, g[n - 1].core) /\ c[n - 1].hash = Hash(rootSuite, c[n - 1].core)
      BY <2>1, HashOfLink
  <2>5. Hash(rootSuite, g[n - 1].core) = Hash(rootSuite, c[n - 1].core)
      BY <2>2, <2>3, <2>4
  <2>6. g[n - 1].core = c[n - 1].core
      BY <2>5, HashTells
  <2> QED
      BY <2>1, <2>3, <2>6 DEF OnePast
<1> QED
    BY <1>1, <1>2, <1>3

LEMMA PastIsMutual ==
    ASSUME NEW g, NEW h, OnePast(g, h)
    PROVE  OnePast(h, g)
<1> SUFFICES ASSUME NEW n \in 1..Len(h), n \in 1..Len(g), h[n].core = g[n].core, NEW i \in 1..n
             PROVE  h[i].core = g[i].core
    BY DEF OnePast
<1> QED
    BY DEF OnePast

\* A beginning of a bulletin is one, with the past the bulletin shares.
LEMMA Beginning ==
    ASSUME NEW S, NEW c \in Seq(S), NEW length \in 0..Len(c)
    PROVE  LET d == SubSeq(c, 1, length) IN
           /\ d \in Seq(S)
           /\ IsChain(c) => IsChain(d)
           /\ \A g : OnePast(g, c) => OnePast(g, d)
<1> DEFINE d == SubSeq(c, 1, length)
<1>1. /\ Len(c) \in Nat /\ Len(d) = length /\ d \in Seq(S)
      /\ \A i \in 1..length : d[i] = c[i]
    BY Z3
<1> HIDE DEF d
<1>2. length \in Nat /\ length <= Len(c)
    BY <1>1
<1>3. ASSUME IsChain(c) PROVE IsChain(d)
  <2> SUFFICES ASSUME NEW i \in 1..Len(d)
               PROVE  /\ d[i].core.sequence = i
                      /\ d[i].core.previous = (IF i = 1 THEN NoItem ELSE d[i - 1].hash)
                      /\ \E o \in BOOLEAN : d[i] = Sealed(d[i].core, o)
      BY DEF IsChain
  <2>1. i \in 1..Len(c) /\ d[i] = c[i] /\ (i # 1 => d[i - 1] = c[i - 1])
      BY <1>1, <1>2
  <2> QED
      BY <1>3, <2>1 DEF IsChain
<1>4. ASSUME NEW g, OnePast(g, c) PROVE OnePast(g, d)
  <2> SUFFICES ASSUME NEW n \in 1..Len(g), n \in 1..Len(d), g[n].core = d[n].core, NEW i \in 1..n
               PROVE  g[i].core = d[i].core
      BY DEF OnePast
  <2>1. n \in 1..Len(c) /\ d[n] = c[n] /\ d[i] = c[i]
      BY <1>1, <1>2
  <2> QED
      BY <1>4, <2>1 DEF OnePast
<1> QED
    BY <1>1, <1>3, <1>4 DEF d

\* What is sealed was sealed in a bulletin, and hashed under Root's suite.
LEMMA SealedIsHashed ==
    ASSUME ChainInv, NEW event \in AllSealed
    PROVE  event.hash = Hash(rootSuite, event.core)
<1>1. PICK h \in histories : \E i \in DOMAIN h : event = h[i]
    BY DEF AllSealed
<1>2. PICK i \in DOMAIN h : event = h[i]
    BY <1>1
<1>3. h \in Seq(AllSealed) /\ IsChain(h)
    BY <1>1 DEF ChainInv
<1>4. i \in 1..Len(h)
    BY <1>2, <1>3
<1> QED
    BY <1>2, <1>3, <1>4, HashOfLink

\* What is before an event says nothing of what is after it.
LEMMA FlawsStay ==
    ASSUME NEW S, NEW events \in Seq(S), NEW event, NEW i \in 1..Len(events)
    PROVE  EventFlaw(Append(events, event), i) = EventFlaw(events, i)
<1> DEFINE d == Append(events, event)
<1>1. d[i] = events[i] /\ (i # 1 => d[i - 1] = events[i - 1])
    BY Z3
<1> HIDE DEF d
<1>2. LinkFlaw(d, i) = LinkFlaw(events, i)
    BY <1>1 DEF LinkFlaw
<1>3. EventFlaw(d, i) = EventFlaw(events, i)
    BY <1>1, <1>2 DEF EventFlaw
<1> QED
    BY <1>3 DEF d

\* An event without a flaw has the number of its place and names the hash before.
LEMMA Linked ==
    ASSUME NEW events, NEW i, EventFlaw(events, i) = NoItem
    PROVE  /\ events[i].core.sequence = i
           /\ events[i].core.previous = (IF i = 1 THEN NoItem ELSE events[i - 1].hash)
<1>1. NoItem # "SequenceMismatch" /\ NoItem # "PreviousHashMismatch"
    BY FlawAssumption DEF ChainFlaws
<1>2. events[i].core.sequence = i
    BY <1>1 DEF EventFlaw
<1>3. LinkFlaw(events, i) = NoItem
    BY <1>1, <1>2 DEF EventFlaw
<1> QED
    BY <1>1, <1>2, <1>3 DEF LinkFlaw

\* One more event without a flaw: it is an event of a bulletin, and the bulletin
\* has before it what the reader has.
LEMMA BeginsStill ==
    ASSUME ChainInv, NEW event \in AllSealed, NEW k \in 0..(Len(copy) + 1),
           Unflawed(Append(copy, event), k)
    PROVE  Begins(Append(copy, event), k)
<1> DEFINE d == Append(copy, event)
<1>1. /\ copy \in Seq(AllSealed) /\ Len(copy) \in Nat /\ histories \subseteq Seq(AllSealed)
      /\ \A h \in histories : IsChain(h)
      /\ \A g, h \in histories : OnePast(g, h)
      /\ \A n \in 0..Len(copy) : Unflawed(copy, n) => Begins(copy, n)
    BY DEF ChainInv
<1>2. d[Len(copy) + 1] = event /\ \A i \in 1..Len(copy) : d[i] = copy[i]
    BY <1>1, Z3
<1>3. \A i \in 1..Len(copy) : EventFlaw(d, i) = EventFlaw(copy, i)
    BY <1>1, FlawsStay
<1>4. Unflawed(d, k)
    OBVIOUS
<1> HIDE DEF d
<1>5. CASE k \in 0..Len(copy)
  <2>1. \A i \in 1..k : i \in 1..Len(copy)
      BY <1>1, <1>5
  <2>2. Unflawed(copy, k)
      BY <1>3, <1>4, <2>1 DEF Unflawed
  <2>3. Begins(copy, k)
      BY <1>1, <1>5, <2>2
  <2>4. Begins(d, k)
      BY <1>2, <2>1, <2>3 DEF Begins
  <2> QED
      BY <2>4 DEF d
<1>6. CASE k = Len(copy) + 1
  <2>1. PICK h \in histories : \E i \in DOMAIN h : event = h[i]
      BY DEF AllSealed
  <2>2. PICK p \in DOMAIN h : event = h[p]
      BY <2>1
  <2>3. h \in Seq(AllSealed) /\ IsChain(h) /\ Len(h) \in Nat /\ p \in 1..Len(h)
      BY <1>1, <2>1, <2>2
  <2>4. k \in 1..k /\ k \in Nat
      BY <1>1, <1>6
  <2>5. EventFlaw(d, k) = NoItem
      BY <1>4, <2>4 DEF Unflawed
  <2>6. /\ event.core.sequence = k
        /\ event.core.previous = (IF k = 1 THEN NoItem ELSE d[k - 1].hash)
      BY <1>2, <1>6, <2>5, Linked
  <2>7. p = k
      BY <2>2, <2>3, <2>6 DEF IsChain
  <2>8. k <= Len(h) /\ h[k].core = d[k].core
      BY <1>2, <1>6, <2>2, <2>3, <2>7
  <2>9. CASE k = 1
    <3>1. \A i \in 1..k : h[i].core = d[i].core
        BY <2>8, <2>9
    <3>2. Begins(d, k)
        BY <2>1, <2>8, <3>1 DEF Begins
    <3> QED
        BY <3>2 DEF d
  <2>10. CASE k # 1
    <3>1. /\ k - 1 = Len(copy) /\ k - 1 \in 1..Len(copy) /\ k - 1 \in 1..Len(h) /\ k - 1 \in 0..Len(copy)
          /\ \A i \in 1..(k - 1) : i \in 1..Len(copy) /\ i \in 1..k
          /\ \A i \in 1..k : i = k \/ i \in 1..(k - 1)
        BY <1>1, <1>6, <2>4, <2>10, <2>8, <2>3
    <3>2. h[k].core.previous = h[k - 1].hash
        BY <2>3, <2>7, <2>10 DEF IsChain
    <3>3. h[k - 1].hash = copy[k - 1].hash
        BY <1>2, <2>2, <2>6, <2>7, <2>10, <3>1, <3>2
    <3>4. copy[k - 1] \in AllSealed
        BY <1>1, <3>1
    <3>5. /\ copy[k - 1].hash = Hash(rootSuite, copy[k - 1].core)
          /\ h[k - 1].hash = Hash(rootSuite, h[k - 1].core)
        BY <2>3, <3>1, <3>4, SealedIsHashed, HashOfLink
    <3>6. h[k - 1].core = copy[k - 1].core
        BY <3>3, <3>5, HashTells
    <3>7. Unflawed(copy, k - 1)
        BY <1>3, <1>4, <3>1 DEF Unflawed
    <3>8. PICK g \in histories : /\ k - 1 <= Len(g)
                                 /\ \A i \in 1..(k - 1) : g[i].core = copy[i].core
        BY <1>1, <3>1, <3>7 DEF Begins
    <3>9. k - 1 \in 1..Len(g) /\ g[k - 1].core = h[k - 1].core
      <4>1. Len(g) \in Nat
          BY <1>1
      <4>2. k - 1 \in 1..(k - 1)
          BY <2>4, <3>1
      <4> QED
          BY <2>4, <3>1, <3>6, <3>8, <4>1, <4>2
    <3>10. \A i \in 1..(k - 1) : h[i].core = g[i].core
        BY <1>1, <2>1, <3>1, <3>9 DEF OnePast
    <3>11. \A i \in 1..k : h[i].core = d[i].core
        BY <1>2, <2>8, <3>1, <3>8, <3>10
    <3>12. Begins(d, k)
        BY <2>1, <2>8, <3>11 DEF Begins
    <3> QED
        BY <3>12 DEF d
  <2> QED
      BY <2>9, <2>10
<1> QED
    BY <1>1, <1>5, <1>6

LEMMA ChainInvInit == ChainInit => ChainInv
<1> SUFFICES ASSUME ChainInit PROVE ChainInv
    OBVIOUS
<1> USE DEF ChainInit
<1>1. histories \subseteq Seq(AllSealed) /\ chain \in Seq(AllSealed) /\ copy \in Seq(AllSealed)
    BY Z3
<1>2. Len(copy) = 0 /\ Len(<<>>) = 0 /\ histories \cup {chain} = {<<>>} /\ <<>> \in histories
    OBVIOUS
<1>3. IsChain(<<>>) /\ OnePast(<<>>, <<>>)
    BY <1>2 DEF IsChain, OnePast
<1>4. \A k \in 0..Len(copy) : Begins(copy, k)
  <2> SUFFICES ASSUME NEW k \in 0..Len(copy) PROVE Begins(copy, k)
      OBVIOUS
  <2>1. k = 0
      BY <1>2
  <2> QED
      BY <1>2, <2>1 DEF Begins
<1>5. flaw = Verdict(copy)
  <2>1. {i \in DOMAIN copy : EventFlaw(copy, i) # NoItem} = {}
      OBVIOUS
  <2> QED
      BY <1>2, <2>1 DEF Verdict
<1> QED
    BY <1>1, <1>2, <1>3, <1>4, <1>5 DEF ChainInv

\* Under the same key of Root nothing changes for a bulletin.
LEMMA ChainsKept ==
    ASSUME rootSuite' = rootSuite, NEW h
    PROVE  /\ IsChain(h)' <=> IsChain(h)
           /\ \A k : Unflawed(h, k)' <=> Unflawed(h, k)
           /\ Verdict(h)' = Verdict(h)
<1>1. IsChain(h)' <=> IsChain(h)
    BY DEF IsChain, Sealed, RootKey
<1>2. RootKey' = RootKey
    BY DEF RootKey
<1>3. \A i : EventFlaw(h, i)' = EventFlaw(h, i)
    BY <1>2 DEF EventFlaw, LinkFlaw, SignatureHolds
<1>4. \A k : Unflawed(h, k)' <=> Unflawed(h, k)
    BY <1>3 DEF Unflawed
<1>5. Verdict(h)' = Verdict(h)
    BY <1>3 DEF Verdict
<1> QED
    BY <1>1, <1>4, <1>5

\* A step that leaves the reader alone.
LEMMA ReaderKept ==
    ASSUME ChainInv, rootSuite' = rootSuite, copy' = copy, flaw' = flaw, histories \subseteq histories'
    PROVE  /\ AllSealed \subseteq AllSealed'
           /\ copy' \in Seq(AllSealed)'
           /\ (\A k \in 0..Len(copy) : Unflawed(copy, k) => Begins(copy, k))'
           /\ (flaw = Verdict(copy))'
<1>1. AllSealed \subseteq AllSealed'
    BY DEF AllSealed
<1>2. copy' \in Seq(AllSealed)'
    BY <1>1 DEF ChainInv
<1>3. PICK c : c = copy
    OBVIOUS
<1>4. \A k : Unflawed(c, k)' <=> Unflawed(c, k)
    BY ChainsKept
<1>5. \A k : Begins(c, k) => Begins(c, k)'
    BY DEF Begins
<1>6. Verdict(c)' = Verdict(c)
    BY ChainsKept
<1>7. (\A k \in 0..Len(c) : Unflawed(c, k) => Begins(c, k))'
    BY <1>3, <1>4, <1>5 DEF ChainInv
<1>8. (\A k \in 0..Len(copy) : Unflawed(copy, k) => Begins(copy, k))'
    BY <1>3, <1>7 DEF Unflawed, Begins
<1>9. Verdict(copy)' = Verdict(copy)
  <2>1. RootKey' = RootKey
      BY DEF RootKey
  <2>2. \A i : EventFlaw(copy, i)' = EventFlaw(copy, i)
      BY <2>1 DEF EventFlaw, LinkFlaw, SignatureHolds
  <2> QED
      BY <2>2 DEF Verdict
<1>10. (flaw = Verdict(copy))'
    BY <1>9 DEF ChainInv
<1> QED
    BY <1>1, <1>2, <1>8, <1>10

LEMMA SealStep ==
    ASSUME ChainInv, NEW s \in ChainSubjects, NEW old \in BOOLEAN, Seal(s, old)
    PROVE  ChainInv'
<1> DEFINE previous == IF chain = <<>> THEN NoItem ELSE chain[Len(chain)].hash
<1>1. PICK core : core = Core(Len(chain) + 1, previous, s)
    OBVIOUS
<1>2. PICK event : event = Sealed(core, old)
    OBVIOUS
<1>3. PICK c : c = chain
    OBVIOUS
<1>4. PICK d : d = Append(c, event)
    OBVIOUS
<1>5. /\ chain' = d /\ histories' = histories \cup {d}
      /\ UNCHANGED <<rootSuite, copy, flaw, restored>>
    BY <1>1, <1>2, <1>3, <1>4 DEF Seal
<1>6. /\ c \in Seq(AllSealed) /\ histories \subseteq Seq(AllSealed) /\ IsChain(c)
      /\ \A h \in histories \cup {c} : IsChain(h)
      /\ \A g, h \in histories \cup {c} : OnePast(g, h)
    BY <1>3 DEF ChainInv
<1>7. core.sequence = Len(c) + 1 /\ core.previous = (IF c = <<>> THEN NoItem ELSE c[Len(c)].hash)
    BY <1>1, <1>3 DEF Core
<1> HIDE DEF previous
<1>8. IsChain(d)
    BY <1>2, <1>4, <1>6, <1>7, CarriedOn
<1>9. AllSealed \subseteq AllSealed' /\ event \in AllSealed'
  <2>1. d \in histories' /\ Len(d) \in DOMAIN d /\ d[Len(d)] = event
      BY <1>4, <1>5, <1>6, Z3
  <2> QED
      BY <1>5, <2>1 DEF AllSealed
<1>10. PICK S : S = AllSealed'
    OBVIOUS
<1>11. c \in Seq(S) /\ d \in Seq(S) /\ \A h \in histories : h \in Seq(S)
    BY <1>4, <1>6, <1>9, <1>10
<1>12. histories' \subseteq Seq(AllSealed)' /\ chain' \in Seq(AllSealed)'
    BY <1>5, <1>10, <1>11
<1>13. \A h \in histories \cup {c} : OnePast(h, d)
    BY <1>4, <1>6, <1>8, <1>11, PastShared
<1>14. OnePast(d, d)
    BY DEF OnePast
<1>15. \A g, h \in histories \cup {d} : IsChain(g) /\ OnePast(g, h)
    BY <1>6, <1>8, <1>13, <1>14, PastIsMutual
<1>16. histories' \cup {chain'} = histories \cup {d}
    BY <1>5
<1>17. (\A h \in histories \cup {chain} : IsChain(h))'
    BY <1>5, <1>15, <1>16, ChainsKept
<1>18. (\A g, h \in histories \cup {chain} : OnePast(g, h))'
    BY <1>15, <1>16 DEF OnePast
<1>19. (rootSuite \in {"legacy", "sm2"})' /\ (<<>> \in histories)'
    BY <1>5 DEF ChainInv
<1>20. /\ copy' \in Seq(AllSealed)'
       /\ (\A k \in 0..Len(copy) : Unflawed(copy, k) => Begins(copy, k))'
       /\ (flaw = Verdict(copy))'
    BY <1>5, ReaderKept
<1> QED
    BY <1>12, <1>17, <1>18, <1>19, <1>20 DEF ChainInv

LEMMA RestoreChainStep ==
    ASSUME ChainInv, NEW length \in 0..MaxSealed, RestoreChain(length)
    PROVE  ChainInv'
<1>1. PICK c : c = chain
    OBVIOUS
<1>2. PICK d : d = SubSeq(c, 1, length)
    OBVIOUS
<1>3. chain' = d /\ length < Len(c) /\ UNCHANGED <<rootSuite, histories, copy, flaw>>
    BY <1>1, <1>2 DEF RestoreChain
<1>4. /\ c \in Seq(AllSealed) /\ histories \subseteq Seq(AllSealed) /\ IsChain(c)
      /\ \A h \in histories \cup {c} : IsChain(h)
      /\ \A g, h \in histories \cup {c} : OnePast(g, h)
    BY <1>1 DEF ChainInv
<1>5. length \in 0..Len(c)
    BY <1>3, <1>4
<1>6. d \in Seq(AllSealed) /\ IsChain(d) /\ \A g \in histories \cup {c} : OnePast(g, d)
    BY <1>2, <1>4, <1>5, Beginning
<1>7. OnePast(d, d)
    BY DEF OnePast
<1>8. \A g, h \in histories \cup {d} : IsChain(g) /\ OnePast(g, h)
    BY <1>4, <1>6, <1>7, PastIsMutual
<1>9. AllSealed' = AllSealed /\ histories' \cup {chain'} = histories \cup {d}
    BY <1>3 DEF AllSealed
<1>10. histories' \subseteq Seq(AllSealed)' /\ chain' \in Seq(AllSealed)'
    BY <1>3, <1>4, <1>6, <1>9
<1>11. (\A h \in histories \cup {chain} : IsChain(h))'
    BY <1>3, <1>8, <1>9, ChainsKept
<1>12. (\A g, h \in histories \cup {chain} : OnePast(g, h))'
    BY <1>8, <1>9 DEF OnePast
<1>13. (rootSuite \in {"legacy", "sm2"})' /\ (<<>> \in histories)'
    BY <1>3 DEF ChainInv
<1>14. /\ copy' \in Seq(AllSealed)'
       /\ (\A k \in 0..Len(copy) : Unflawed(copy, k) => Begins(copy, k))'
       /\ (flaw = Verdict(copy))'
    BY <1>3, ReaderKept
<1> QED
    BY <1>10, <1>11, <1>12, <1>13, <1>14 DEF ChainInv

LEMMA GatherStep ==
    ASSUME ChainInv, NEW event \in AllSealed, Gather(event)
    PROVE  ChainInv'
<1>1. PICK d : d = Append(copy, event)
    OBVIOUS
<1>2. copy' = d /\ flaw' = Verdict(copy') /\ UNCHANGED <<rootSuite, chain, histories>>
    BY <1>1 DEF Gather
<1>3. AllSealed' = AllSealed
    BY <1>2 DEF AllSealed
<1>4. d \in Seq(AllSealed) /\ Len(d) = Len(copy) + 1
    BY <1>1 DEF ChainInv
<1>5. \A k \in 0..Len(d) : Unflawed(d, k) => Begins(d, k)
    BY <1>1, <1>4, BeginsStill
<1>6. \A k : Unflawed(d, k)' <=> Unflawed(d, k)
    BY <1>2, ChainsKept
<1>7. \A k : Begins(d, k)' <=> Begins(d, k)
    BY <1>2 DEF Begins
<1>8. (\A k \in 0..Len(d) : Unflawed(d, k) => Begins(d, k))'
    BY <1>5, <1>6, <1>7
<1>9. (\A k \in 0..Len(copy) : Unflawed(copy, k) => Begins(copy, k))'
    BY <1>2, <1>8 DEF Unflawed, EventFlaw, LinkFlaw, SignatureHolds, RootKey, Begins
<1>10. (flaw = Verdict(copy))'
  <2>1. \A i : EventFlaw(copy, i)' = EventFlaw(d, i)'
      BY <1>2 DEF EventFlaw, LinkFlaw, SignatureHolds, RootKey
  <2>2. DOMAIN copy' = DOMAIN d /\ Len(copy)' = Len(d)
      BY <1>2
  <2>3. Verdict(copy)' = Verdict(d)'
      BY <2>1, <2>2 DEF Verdict
  <2>4. Verdict(d)' = Verdict(d)
      BY <1>2, ChainsKept
  <2>5. flaw' = Verdict(d)
      BY <1>2
  <2> QED
      BY <2>3, <2>4, <2>5
<1>11. (\A h \in histories \cup {chain} : IsChain(h))'
    BY <1>2, ChainsKept DEF ChainInv
<1>12. (\A g, h \in histories \cup {chain} : OnePast(g, h))'
    BY <1>2 DEF ChainInv, OnePast
<1> QED
    BY <1>2, <1>3, <1>4, <1>8, <1>9, <1>10, <1>11, <1>12 DEF ChainInv

LEMMA ChainInvStep == ChainInv /\ [ChainNext]_chainVars => ChainInv'
<1> SUFFICES ASSUME ChainInv, [ChainNext]_chainVars
             PROVE  ChainInv'
    OBVIOUS
<1>1. CASE ChainNext
    BY <1>1, SealStep, RestoreChainStep, GatherStep DEF ChainNext
<1>2. CASE UNCHANGED chainVars
  <2>1. UNCHANGED <<rootSuite, chain, histories, copy, flaw>>
      BY <1>2 DEF chainVars
  <2>2. AllSealed' = AllSealed
      BY <2>1 DEF AllSealed
  <2>3. (\A h \in histories \cup {chain} : IsChain(h))'
      BY <2>1, ChainsKept DEF ChainInv
  <2>4. (\A g, h \in histories \cup {chain} : OnePast(g, h))'
      BY <2>1 DEF ChainInv, OnePast
  <2>5. /\ (\A k \in 0..Len(copy) : Unflawed(copy, k) => Begins(copy, k))'
        /\ (flaw = Verdict(copy))'
      BY <2>1, ReaderKept
  <2> QED
      BY <2>1, <2>2, <2>3, <2>4, <2>5 DEF ChainInv
<1> QED
    BY <1>1, <1>2

\* Root's seal is right, but for an old event sealed with an SM2 key.
LEMMA SealHolds ==
    ASSUME rootSuite \in {"legacy", "sm2"}, NEW core, NEW old \in BOOLEAN, NEW event,
           event = Sealed(core, old), ~(rootSuite = "sm2" /\ event.suite = NoItem)
    PROVE  event.hash = Hash(EventSuite(event), event.core) /\ SignatureHolds(event)
<1> DEFINE payload == [eventHash |-> event.hash]
           proof == BuildProof(payload, RootKey, TRUE)
<1>1. rootSuite # NoItem /\ "legacy" # NoItem
    BY NoItemAssumption DEF Suites
<1>2. /\ event.core = core /\ event.hash = Hash(rootSuite, core)
      /\ event.suite = (IF old THEN NoItem ELSE rootSuite)
    BY SealedParts
<1>3. event.signature = proof.value /\ event.proof = (IF old THEN NoItem ELSE proof)
  <2>1. payload = [eventHash |-> Hash(rootSuite, core)]
      BY <1>2
  <2>2. proof = BuildProof([eventHash |-> Hash(rootSuite, core)], RootKey, TRUE)
      BY <2>1
  <2> HIDE DEF proof, payload
  <2> QED
      BY <2>2, SealedParts
<1>4. RootKey.owner = "root" /\ RootKey.suite = rootSuite
    BY DEF RootKey
<1>5. /\ proof.suite = rootSuite
      /\ proof.value = SignBytes(RootKey, SignatureInput(rootSuite, payload))
    BY <1>4 DEF BuildProof
<1>6. ProofSuite(proof) = rootSuite
    BY <1>1, <1>5 DEF ProofSuite
<1> HIDE DEF proof, payload
<1>7. EventSuite(event) = rootSuite
    BY <1>1, <1>2, <1>3 DEF EventSuite
<1>8. VerifyBytes(RootKey, SignatureInput(EventSuite(event), payload), event.signature)
    BY <1>3, <1>5, <1>7 DEF VerifyBytes
<1>9. event.proof # NoItem => ProofHolds(payload, event.proof, RootKey)
    BY <1>3, <1>4, <1>5, <1>6 DEF ProofHolds, VerifyBytes
<1>10. SignatureHolds(event)
    BY <1>8, <1>9 DEF SignatureHolds, payload
<1> QED
    BY <1>2, <1>7, <1>10

LEMMA OwnChainIsRight == ChainInv => OwnChainVerifies
<1> SUFFICES ASSUME ChainInv, Verdict(chain).is # NoItem
             PROVE  rootSuite = "sm2" /\ chain[Verdict(chain).at].suite = NoItem
    BY DEF OwnChainVerifies
<1> DEFINE i == Verdict(chain).at
<1>1. chain \in Seq(AllSealed) /\ IsChain(chain) /\ rootSuite \in {"legacy", "sm2"}
    BY DEF ChainInv
<1>2. i \in 1..Len(chain) /\ EventFlaw(chain, i) # NoItem
    BY <1>1, FirstFlaw
<1> HIDE DEF i
<1>3. /\ chain[i].core.sequence = i
      /\ chain[i].core.previous = (IF i = 1 THEN NoItem ELSE chain[i - 1].hash)
      /\ \E old \in BOOLEAN : chain[i] = Sealed(chain[i].core, old)
    BY <1>1, <1>2 DEF IsChain
<1>4. LinkFlaw(chain, i) = NoItem
    BY <1>3 DEF LinkFlaw
<1>5. ~(chain[i].hash = Hash(EventSuite(chain[i]), chain[i].core) /\ SignatureHolds(chain[i]))
    BY <1>2, <1>3, <1>4 DEF EventFlaw
<1>6. rootSuite = "sm2" /\ chain[i].suite = NoItem
    BY <1>1, <1>3, <1>5, SealHolds
<1> QED
    BY <1>6 DEF i

LEMMA SoundIsRight == ChainInv => SoundIsHistory
<1> SUFFICES ASSUME ChainInv PROVE SoundIsHistory
    OBVIOUS
<1>1. copy \in Seq(AllSealed) /\ flaw = Verdict(copy)
    BY DEF ChainInv
<1>2. flaw.at \in 1..(Len(copy) + 1) /\ Unflawed(copy, flaw.at - 1)
    BY <1>1, FirstFlaw
<1>3. flaw.at - 1 \in 0..Len(copy) /\ flaw.at \in Nat
    BY <1>1, <1>2
<1>4. PICK h \in histories : /\ flaw.at - 1 <= Len(h)
                             /\ \A i \in 1..(flaw.at - 1) : h[i].core = copy[i].core
    BY <1>2, <1>3 DEF ChainInv, Begins
<1>5. Len(h) \in Nat
    BY <1>4 DEF ChainInv
<1> QED
    BY <1>3, <1>4, <1>5 DEF SoundIsHistory

\* However often Root is restored from an older bulletin, and whatever a reader puts
\* together of the events of all its histories, in whatever order: what
\* verify_hash_chain lets pass is the beginning of one history, and of Root's own
\* bulletin nothing fails but an event from before the suites under an SM2 key.
THEOREM ChainIsOneHistory == ChainSpec => []VerdictIsRight
<1>1. ChainInit => ChainInv
    BY ChainInvInit
<1>2. ChainInv /\ [ChainNext]_chainVars => ChainInv'
    BY ChainInvStep
<1>3. ChainInv => VerdictIsRight
    BY SoundIsRight, OwnChainIsRight DEF VerdictIsRight
<1> QED
    BY <1>1, <1>2, <1>3, PTL DEF ChainSpec

----------------------------------------------------------------------------
(* The capability tree *)

\* A nonempty set of places has a first one.
LEMMA FirstPlace ==
    ASSUME NEW S \in SUBSET Nat, S # {}
    PROVE  \E i \in S : \A j \in S : i <= j
<1> DEFINE R == OpToRel(<, Nat)
<1>1. IsWellFoundedOn(R, Nat)
    BY NatLessThanWellFounded
<1>2. \A x, y \in Nat : y < x => <<y, x>> \in R
    BY DEF OpToRel
<1> HIDE DEF R
<1>3. PICK i \in S : \A j \in S : ~ (<<j, i>> \in R)
    BY <1>1, WFMin
<1>4. \A j \in S : i <= j
  <2> SUFFICES ASSUME NEW j \in S
               PROVE  i <= j
      OBVIOUS
  <2>1. i \in Nat /\ j \in Nat /\ ~ (j < i)
      BY <1>2, <1>3
  <2> QED
      BY <2>1
<1> QED
    BY <1>4

\* A nonempty set of places up to m has a last one.
LEMMA LastPlace ==
    ASSUME NEW m \in Nat, NEW S \in SUBSET (1..m), S # {}
    PROVE  \E i \in S : \A j \in S : j <= i
<1> DEFINE T == {d \in Nat : m - d \in S}
<1>1. \A i \in S : m - i \in T /\ i \in Int
  <2> SUFFICES ASSUME NEW i \in S
               PROVE  m - i \in T /\ i \in Int
      OBVIOUS
  <2>1. i \in 1..m
      OBVIOUS
  <2>2. m - i \in Nat /\ m - (m - i) = i
      BY <2>1
  <2> QED
      BY <2>1, <2>2
<1>2. T # {} /\ T \in SUBSET Nat
    BY <1>1
<1>3. PICK d \in T : \A e \in T : d <= e
    BY <1>2, FirstPlace
<1>4. m - d \in S /\ d \in Nat
    OBVIOUS
<1>5. \A j \in S : j <= m - d
  <2> SUFFICES ASSUME NEW j \in S
               PROVE  j <= m - d
      OBVIOUS
  <2>1. d <= m - j /\ j \in Int
      BY <1>1, <1>3
  <2> QED
      BY <1>4, <2>1
<1> QED
    BY <1>4, <1>5

\* What the table says of a tag.
LEMMA ParentIsTag ==
    ASSUME table \in Seq(Tag), NEW t
    PROVE  ParentOf(t) \in TagIds \cup {NoTag}
<1> DEFINE rows == {i \in 1..Len(table) : table[i].id = t}
           row == CHOOSE i \in rows : \A j \in rows : j <= i
<1>1. ASSUME rows # {}
      PROVE  table[row].parent \in TagIds \cup {NoTag}
  <2>1. Len(table) \in Nat /\ rows \in SUBSET (1..Len(table))
      OBVIOUS
  <2>2. \E i \in rows : \A j \in rows : j <= i
    <3> HIDE DEF rows
    <3> QED
        BY <1>1, <2>1, LastPlace
  <2>3. row \in 1..Len(table)
      BY <2>1, <2>2
  <2>4. table[row] \in Tag
    <3> HIDE DEF row
    <3> QED
        BY <2>3
  <2> HIDE DEF row
  <2> QED
      BY <2>4 DEF Tag
<1> QED
    BY <1>1 DEF ParentOf

LEMMA NormalizedIsTag ==
    ASSUME table \in Seq(Tag), NEW value \in TagIds
    PROVE  Normalized(value) \in TagIds
<1> DEFINE named == {i \in 1..Len(table) : value = table[i].id \/ value \in table[i].aliases}
           row == CHOOSE i \in named : \A j \in named : i <= j
<1>1. ASSUME named # {}
      PROVE  table[row].id \in TagIds
  <2>1. named \in SUBSET Nat /\ named \subseteq 1..Len(table)
      OBVIOUS
  <2>2. \E i \in named : \A j \in named : i <= j
    <3> HIDE DEF named
    <3> QED
        BY <1>1, <2>1, FirstPlace
  <2>3. row \in 1..Len(table)
      BY <2>1, <2>2
  <2>4. table[row] \in Tag
    <3> HIDE DEF row
    <3> QED
        BY <2>3
  <2> HIDE DEF row
  <2> QED
      BY <2>4 DEF Tag
<1> QED
    BY <1>1 DEF Normalized

\* The smallest closed set holds the parents of what it holds, and nothing that a
\* closed set does not hold.
LEMMA AboveIsClosed ==
    ASSUME table \in Seq(Tag), NEW t
    PROVE  /\ Closed(Above(t), t)
           /\ \A S \in SUBSET TagIds : Closed(S, t) => Above(t) \subseteq S
<1>1. ASSUME NEW u \in Above(t) \cup {t}, ParentOf(u) # NoTag
      PROVE  ParentOf(u) \in Above(t)
  <2>1. ParentOf(u) \in TagIds
      BY <1>1, ParentIsTag
  <2>2. ASSUME NEW S \in SUBSET TagIds, Closed(S, t)
        PROVE  ParentOf(u) \in S
    <3>1. u \in S \cup {t}
        BY <2>2 DEF Above
    <3> QED
        BY <1>1, <2>2, <3>1 DEF Closed
  <2> QED
      BY <2>1, <2>2 DEF Above
<1>2. Closed(Above(t), t)
    BY <1>1 DEF Closed
<1> QED
    BY <1>2 DEF Above

\* The walk from the capability c towards the domain d: it has passed only tags
\* above c, one a turn, none of them d, and holds the parent of every one of them.
Climbing(c, d) ==
    /\ c # d /\ d \notin seen
    /\ seen \subseteq Above(c) /\ at \in Above(c) \cup {NoTag}
    /\ \A u \in seen \cup {c} : ParentOf(u) \in seen \cup {at}
    /\ turns = Cardinality(seen)

InDomain(c, d) == asked.domain = Wildcard \/ d = c \/ d \in Above(c)

TagInv ==
    /\ table \in Seq(Tag) /\ asked \in [capability : TagIds, domain : TagIds \cup {Wildcard}]
    /\ at \in TagIds \cup {NoTag} /\ seen \subseteq TagIds
    /\ verdict \in {"none", "yes", "no"}
    /\ verdict = "none" =>
          /\ asked.domain # Wildcard
          /\ Climbing(Normalized(asked.capability), Normalized(asked.domain))
    /\ verdict # "none" =>
          /\ turns <= Cardinality(TagIds) + 1
          /\ verdict = "yes" <=> InDomain(Normalized(asked.capability), Normalized(asked.domain))

LEMMA TagInvInit == TagInit => TagInv
<1> SUFFICES ASSUME TagInit PROVE TagInv
    OBVIOUS
<1> DEFINE c == Normalized(asked.capability)
           d == Normalized(asked.domain)
<1>1. PICK n \in 0..MaxTags : table \in [1..n -> Tag]
    BY DEF TagInit
<1>2. table \in Seq(Tag)
    BY <1>1, TagsAssumption
<1>3. /\ asked \in [capability : TagIds, domain : TagIds \cup {Wildcard}]
      /\ at = ParentOf(c) /\ seen = {} /\ turns = 0
      /\ verdict = IF asked.domain = Wildcard \/ c = d THEN "yes" ELSE "none"
    BY DEF TagInit
<1>4. at \in TagIds \cup {NoTag}
    BY <1>2, <1>3, ParentIsTag
<1>5. Closed(Above(c), c)
    BY <1>2, AboveIsClosed
<1>6. at \in Above(c) \cup {NoTag}
    BY <1>3, <1>5 DEF Closed
<1>7. Cardinality({}) = 0 /\ Cardinality(TagIds) \in Nat
    BY FS_EmptySet, FS_CardinalityType, TagsAssumption
<1>8. verdict = "none" => asked.domain # Wildcard /\ Climbing(c, d)
  <2> HIDE DEF c, d
  <2> QED
      BY <1>3, <1>6, <1>7 DEF Climbing
<1>9. verdict # "none" => turns <= Cardinality(TagIds) + 1 /\ (verdict = "yes" <=> InDomain(c, d))
  <2> HIDE DEF c, d
  <2> QED
      BY <1>3, <1>7 DEF InDomain
<1> QED
    BY <1>2, <1>3, <1>4, <1>8, <1>9 DEF TagInv

\* The table stays as it is, and so does what it says.
LEMMA TableKept ==
    ASSUME table' = table
    PROVE  /\ \A t : ParentOf(t)' = ParentOf(t) /\ Above(t)' = Above(t)
           /\ \A value : Normalized(value)' = Normalized(value)
<1>1. \A t : ParentOf(t)' = ParentOf(t)
    BY DEF ParentOf
<1>2. \A S, t : Closed(S, t)' <=> Closed(S, t)
    BY <1>1 DEF Closed
<1>3. \A t : Above(t)' = Above(t)
    BY <1>2 DEF Above
<1>4. \A value : Normalized(value)' = Normalized(value)
    BY DEF Normalized
<1> QED
    BY <1>1, <1>3, <1>4

LEMMA TagInvStep == TagInv /\ [TagNext]_tagVars => TagInv'
<1> SUFFICES ASSUME TagInv, [TagNext]_tagVars
             PROVE  TagInv'
    OBVIOUS
<1>1. PICK c : c = Normalized(asked.capability)
    OBVIOUS
<1>2. PICK d : d = Normalized(asked.domain)
    OBVIOUS
<1>3. table' = table /\ asked' = asked
    BY DEF TagNext, Climb, tagVars
<1>4. /\ \A t : ParentOf(t)' = ParentOf(t) /\ Above(t)' = Above(t)
      /\ Normalized(asked.capability)' = c /\ Normalized(asked.domain)' = d
    BY <1>1, <1>2, <1>3, TableKept
<1>5. CASE Climb
  <2>1. /\ verdict = "none" /\ turns' = turns + 1
        /\ seen' = IF at = NoTag THEN seen ELSE seen \cup {at}
        /\ at' = IF verdict' = "none" THEN ParentOf(at) ELSE at
      BY <1>5 DEF Climb, Passed
  <2>2. /\ table \in Seq(Tag) /\ asked \in [capability : TagIds, domain : TagIds \cup {Wildcard}]
        /\ at \in TagIds \cup {NoTag} /\ seen \subseteq TagIds
        /\ asked.domain # Wildcard /\ Climbing(c, d)
      BY <1>1, <1>2, <2>1 DEF TagInv
  <2>3. d \in TagIds
      BY <1>2, <2>2, NormalizedIsTag
  <2>4. /\ IsFiniteSet(seen) /\ Cardinality(seen) <= Cardinality(TagIds)
        /\ Cardinality(seen) \in Nat /\ Cardinality(TagIds) \in Nat
      BY <2>2, FS_Subset, FS_CardinalityType, TagsAssumption
  <2>5. Closed(Above(c), c) /\ \A S \in SUBSET TagIds : Closed(S, c) => Above(c) \subseteq S
      BY <2>2, AboveIsClosed
  <2>6. turns' <= Cardinality(TagIds) + 1
      BY <2>1, <2>2, <2>4 DEF Climbing
  <2>7. ASSUME at = NoTag \/ at \in seen
        PROVE  d \notin Above(c)
    <3>1. Closed(seen, c)
        BY <2>2, <2>7 DEF Climbing, Closed
    <3> QED
        BY <2>2, <2>5, <3>1 DEF Climbing
  <2>8. CASE at = NoTag
    <3>1. verdict' = "no" /\ at' = at /\ seen' = seen
        BY <1>5, <2>1, <2>8 DEF Climb
    <3>2. ~ InDomain(c, d)'
        BY <1>3, <1>4, <2>2, <2>7, <2>8 DEF InDomain, Climbing
    <3> QED
        BY <1>3, <1>4, <2>2, <2>6, <3>1, <3>2 DEF TagInv
  <2>9. CASE at # NoTag /\ at = d
    <3>1. verdict' = "yes" /\ at' = at /\ seen' = seen \cup {at}
        BY <1>2, <1>5, <2>1, <2>9 DEF Climb
    <3>2. InDomain(c, d)'
        BY <1>3, <1>4, <2>2, <2>9 DEF InDomain, Climbing
    <3> QED
        BY <1>3, <1>4, <2>2, <2>3, <2>6, <2>9, <3>1, <3>2 DEF TagInv
  <2>10. CASE at # NoTag /\ at # d /\ at \in seen
    <3>1. verdict' = "no" /\ at' = at /\ seen' = seen
        BY <1>2, <1>5, <2>1, <2>10 DEF Climb, CycleVerdict
    <3>2. ~ InDomain(c, d)'
        BY <1>3, <1>4, <2>2, <2>7, <2>10 DEF InDomain, Climbing
    <3> QED
        BY <1>3, <1>4, <2>2, <2>6, <3>1, <3>2 DEF TagInv
  <2>11. CASE at # NoTag /\ at # d /\ at \notin seen
    <3>1. verdict' = "none" /\ at' = ParentOf(at) /\ seen' = seen \cup {at}
        BY <1>2, <1>5, <2>1, <2>11 DEF Climb
    <3>2. at \in TagIds /\ at \in Above(c)
        BY <2>2, <2>11 DEF Climbing
    <3>3. at' \in TagIds \cup {NoTag}
        BY <2>2, <3>1, ParentIsTag
    <3>4. at' \in Above(c) \cup {NoTag}
        BY <2>5, <3>1, <3>2 DEF Closed
    <3>5. Cardinality(seen') = turns'
        BY <2>1, <2>2, <2>4, <2>11, <3>1, FS_AddElement DEF Climbing
    <3>6. \A u \in seen' \cup {c} : ParentOf(u) \in seen' \cup {at'}
        BY <2>2, <3>1 DEF Climbing
    <3>7. c # d /\ d \notin seen' /\ seen' \subseteq Above(c)
        BY <2>2, <2>11, <3>1, <3>2 DEF Climbing
    <3>8. Climbing(c, d)'
        BY <1>4, <3>4, <3>5, <3>6, <3>7 DEF Climbing
    <3> QED
        BY <1>3, <1>4, <2>2, <3>1, <3>2, <3>3, <3>8 DEF TagInv
  <2> QED
      BY <2>8, <2>9, <2>10, <2>11
<1>6. CASE UNCHANGED tagVars
  <2>1. UNCHANGED <<table, asked, at, seen, verdict, turns>>
      BY <1>6 DEF tagVars
  <2>2. Climbing(c, d)' <=> Climbing(c, d)
      BY <1>4, <2>1 DEF Climbing
  <2>3. InDomain(c, d)' <=> InDomain(c, d)
      BY <1>4, <2>1 DEF InDomain
  <2> QED
      BY <1>1, <1>2, <1>4, <2>1, <2>2, <2>3 DEF TagInv
<1> QED
    BY <1>5, <1>6 DEF TagNext

\* For every table of tags, with cycles, dangling parents, tags that stand in it
\* twice and aliases of other tags: the loop of is_descendant_or_same ends within
\* a turn more than there are tags, and answers that a tag is in a domain exactly
\* if the domain is the tag or in the smallest set closed under parents above it.
THEOREM WalkDecides == TagSpec => []WalkIsAncestry
<1>1. TagInv => WalkIsAncestry
  <2> SUFFICES ASSUME TagInv PROVE WalkIsAncestry
      OBVIOUS
  <2>1. verdict = "none" => turns <= Cardinality(TagIds) + 1
    <3> SUFFICES ASSUME verdict = "none" PROVE turns <= Cardinality(TagIds) + 1
        OBVIOUS
    <3>1. turns = Cardinality(seen) /\ seen \subseteq TagIds
        BY DEF TagInv, Climbing
    <3>2. Cardinality(seen) <= Cardinality(TagIds) /\ Cardinality(seen) \in Nat /\ Cardinality(TagIds) \in Nat
        BY <3>1, FS_Subset, FS_CardinalityType, TagsAssumption
    <3> QED
        BY <3>1, <3>2
  <2> QED
      BY <2>1 DEF TagInv, WalkIsAncestry, InDomain
<1> QED
    BY <1>1, TagInvInit, TagInvStep, PTL DEF TagSpec

----------------------------------------------------------------------------
(* Queries *)

\* Of the packages read up to n, those that match are the candidates, once each.
Gathered(c, n) ==
    /\ c \in Seq(1..Len(index))
    /\ \A k, l \in 1..Len(c) : c[k] = c[l] => k = l
    /\ \A i \in 1..Len(index) :
          (\E k \in 1..Len(c) : c[k] = i) <=> (i < n /\ matches_query(index[i]))

\* AnswerIsBest, of the candidates c.
Best(c) ==
    /\ \A k \in 1..Len(c) : matches_query(index[c[k]]) /\ index[c[k]].active
    /\ \A i \in 1..Len(index) :
          matches_query(index[i]) /\ (\A k \in 1..Len(c) : c[k] # i) =>
              /\ Len(c) = query.limit
              /\ \A k \in 1..Len(c) : score(c[k]) >= score(i)

QueryInv ==
    /\ index \in Seq(IndexedPackages) /\ query \in Queries
    /\ next \in 1..(Len(index) + 1)
    /\ answered \in BOOLEAN
    /\ ~answered => Gathered(candidates, next)
    /\ answered => next = Len(index) + 1 /\ Best(candidates)

\* Score, and place among equals, put every two packages in an order.
LEMMA BeforeIsAnOrder ==
    ASSUME query \in Queries
    PROVE  /\ \A i : score(i) \in Nat
           /\ \A i \in Nat : ~ Before(i, i)
           /\ \A i, j, k \in Nat : Before(i, j) /\ Before(j, k) => Before(i, k)
           /\ \A i, j \in Nat : i = j \/ Before(i, j) \/ Before(j, i)
<1>1. ASSUME NEW i
      PROVE  score(i) \in Nat
  <2>1. IsFiniteSet(query.tags)
      BY QueriesAssumption
  <2>2. query.tags \cap index[i].tags \in SUBSET query.tags
      OBVIOUS
  <2>3. Cardinality(query.tags \cap index[i].tags) \in Nat
      BY <2>1, <2>2, FS_Subset, FS_CardinalityType
  <2> QED
      BY <2>3 DEF score
<1>2. \A i : score(i) \in Nat
    BY <1>1
<1> QED
    BY <1>2 DEF Before

\* How many of S come before x.
Ahead(S, x) == {y \in S : Before(y, x)}

LEMMA AheadGrows ==
    ASSUME query \in Queries, NEW S \in SUBSET Nat, IsFiniteSet(S)
    PROVE  /\ \A x \in S : Cardinality(Ahead(S, x)) \in Nat /\ Cardinality(Ahead(S, x)) < Cardinality(S)
           /\ \A x, y \in S : Before(x, y) => Cardinality(Ahead(S, x)) < Cardinality(Ahead(S, y))
<1>1. ASSUME NEW x \in S, NEW T \in SUBSET S, x \in T, Ahead(S, x) \subseteq T
      PROVE  /\ Cardinality(Ahead(S, x)) \in Nat /\ Cardinality(T) \in Nat
             /\ Cardinality(Ahead(S, x)) < Cardinality(T)
  <2>1. x \notin Ahead(S, x)
      BY BeforeIsAnOrder DEF Ahead
  <2>2. Ahead(S, x) \in SUBSET S
      BY DEF Ahead
  <2>3. IsFiniteSet(T) /\ IsFiniteSet(Ahead(S, x))
      BY <2>2, FS_Subset
  <2>4. Cardinality(Ahead(S, x) \cup {x}) = Cardinality(Ahead(S, x)) + 1
      BY <2>1, <2>3, FS_AddElement
  <2>5. Ahead(S, x) \cup {x} \in SUBSET T
      BY <1>1
  <2>6. Cardinality(Ahead(S, x) \cup {x}) <= Cardinality(T)
      BY <2>3, <2>5, FS_Subset
  <2>7. Cardinality(Ahead(S, x)) \in Nat /\ Cardinality(T) \in Nat
      BY <2>3, FS_CardinalityType
  <2> QED
      BY <2>4, <2>6, <2>7
<1>2. \A x \in S : Cardinality(Ahead(S, x)) \in Nat /\ Cardinality(Ahead(S, x)) < Cardinality(S)
    BY <1>1 DEF Ahead
<1>3. ASSUME NEW x \in S, NEW y \in S, Before(x, y)
      PROVE  Cardinality(Ahead(S, x)) < Cardinality(Ahead(S, y))
  <2>1. Ahead(S, y) \in SUBSET S /\ x \in Ahead(S, y)
      BY <1>3 DEF Ahead
  <2>2. Ahead(S, x) \subseteq Ahead(S, y)
    <3> SUFFICES ASSUME NEW z \in S, Before(z, x)
                 PROVE  Before(z, y)
        BY DEF Ahead
    <3>1. x \in Nat /\ y \in Nat /\ z \in Nat
        OBVIOUS
    <3> QED
        BY <1>3, <3>1, BeforeIsAnOrder
  <2> QED
      BY <1>1, <2>1, <2>2
<1> QED
    BY <1>2, <1>3

\* A sequence without repetitions has its elements in order in exactly one way, and
\* Sorted chooses it: for each place there is the element that has so many ahead.
LEMMA SortedIsInOrder ==
    ASSUME query \in Queries, NEW s \in Seq(Nat),
           \A k, l \in 1..Len(s) : s[k] = s[l] => k = l
    PROVE  LET R == {s[k] : k \in 1..Len(s)} IN
           /\ Sorted(s) \in [1..Len(s) -> R]
           /\ \A k, l \in 1..Len(s) : k < l => Before(Sorted(s)[k], Sorted(s)[l])
           /\ \A x \in R : \E k \in 1..Len(s) : Sorted(s)[k] = x
<1> DEFINE n == Len(s)
           R == {s[k] : k \in 1..n}
           rank == [x \in R |-> Cardinality(Ahead(R, x)) + 1]
           t == [k \in 1..n |-> CHOOSE x \in R : rank[x] = k]
           InOrder(f) == \A k, l \in 1..n : k < l => Before(f[k], f[l])
<1>1. n \in Nat /\ R \in SUBSET Nat
    OBVIOUS
<1>2. IsFiniteSet(1..n) /\ Cardinality(1..n) = n
    BY <1>1, FS_Interval
<1>3. IsFiniteSet(R) /\ Cardinality(R) = n
  <2>1. s \in [1..n -> R]
      OBVIOUS
  <2>2. \A k, l \in 1..n : s[k] = s[l] => k = l
      OBVIOUS
  <2>3. \A x \in R : \E k \in 1..n : s[k] = x
      OBVIOUS
  <2> HIDE DEF n, R
  <2>4. s \in Bijection(1..n, R)
      BY <2>1, <2>2, <2>3 DEF Bijection, Injection, IsInjective, Surjection
  <2>5. ExistsBijection(1..n, R)
      BY <2>4 DEF ExistsBijection
  <2> QED
      BY <1>2, <2>5, FS_Bijection
<1> HIDE DEF n, R
<1>4. \A x \in R : rank[x] = Cardinality(Ahead(R, x)) + 1
    OBVIOUS
<1>5. /\ \A x \in R : Cardinality(Ahead(R, x)) \in Nat /\ Cardinality(Ahead(R, x)) < n
      /\ \A x, y \in R : Before(x, y) => Cardinality(Ahead(R, x)) < Cardinality(Ahead(R, y))
    BY <1>1, <1>3, AheadGrows
<1>6. rank \in [R -> 1..n]
  <2>1. \A x \in R : rank[x] \in 1..n
      BY <1>1, <1>4, <1>5
  <2> QED
      BY <2>1
<1>7. \A x, y \in R : Before(x, y) => rank[x] < rank[y]
    BY <1>4, <1>5
<1>8. \A x, y \in R : x = y \/ Before(x, y) \/ Before(y, x)
    BY <1>1, BeforeIsAnOrder
<1> HIDE DEF rank
<1>9. \A k \in 1..n : \E x \in R : rank[x] = k
  <2>1. \A x, y \in R : rank[x] = rank[y] => x = y
      BY <1>6, <1>7, <1>8
  <2>2. rank \in Injection(R, 1..n)
      BY <1>6, <2>1 DEF Injection, IsInjective
  <2>3. rank \in Surjection(R, 1..n)
      BY <1>2, <1>3, <2>2, FS_Injection
  <2> QED
      BY <2>3 DEF Surjection
<1>10. \A k \in 1..n : t[k] \in R /\ rank[t[k]] = k
    BY <1>9
<1>11. t \in [1..n -> R]
    BY <1>10
<1> HIDE DEF t
<1>12. InOrder(t)
  <2> SUFFICES ASSUME NEW k \in 1..n, NEW l \in 1..n, k < l
               PROVE  Before(t[k], t[l])
      OBVIOUS
  <2>1. /\ t[k] \in R /\ t[l] \in R
        /\ rank[t[k]] = k /\ rank[t[l]] = l
      BY <1>10
  <2>2. ~ Before(t[l], t[k]) /\ t[k] # t[l]
      BY <1>7, <2>1
  <2> QED
      BY <1>8, <2>1, <2>2
<1>13. PICK f : f = Sorted(s)
    OBVIOUS
<1>14. f \in [1..n -> R] /\ InOrder(f)
  <2>1. f = CHOOSE g \in [1..n -> R] : InOrder(g)
      BY <1>13 DEF Sorted, n, R
  <2> HIDE DEF InOrder
  <2> QED
      BY <1>11, <1>12, <2>1
<1>15. \A x \in R : \E k \in 1..n : f[k] = x
  <2>1. \A k, l \in 1..n : f[k] = f[l] => k = l
    <3> SUFFICES ASSUME NEW k \in 1..n, NEW l \in 1..n, f[k] = f[l], k # l
                 PROVE  FALSE
        OBVIOUS
    <3>1. f[k] \in Nat
        BY <1>1, <1>14
    <3>2. k < l \/ l < k
        BY <1>1
    <3>3. Before(f[k], f[k])
        BY <1>14, <3>2
    <3> QED
        BY <3>1, <3>3, BeforeIsAnOrder
  <2>2. f \in Injection(1..n, R)
      BY <1>14, <2>1 DEF Injection, IsInjective
  <2>3. f \in Surjection(1..n, R)
      BY <1>2, <1>3, <2>2, FS_Injection
  <2> QED
      BY <2>3 DEF Surjection
<1> QED
    BY <1>13, <1>14, <1>15 DEF n, R

\* The best of the candidates in order are the best of what matches.
LEMMA BestFirst ==
    ASSUME QueryInv, ~answered, next > Len(index),
           NEW t, t = Sorted(candidates),
           NEW m, m = (IF Len(t) < query.limit THEN Len(t) ELSE query.limit)
    PROVE  Best(SubSeq(t, 1, m))
<1> DEFINE c == candidates
           n == Len(candidates)
           cut == SubSeq(t, 1, m)
<1>1. /\ query \in Queries /\ next = Len(index) + 1 /\ Len(index) \in Nat /\ query.limit \in Nat
      /\ Gathered(c, next)
    BY QueriesAssumption DEF QueryInv
<1>2. c \in Seq(Nat) /\ n \in Nat /\ \A k, l \in 1..n : c[k] = c[l] => k = l
  <2>1. c \in Seq(1..Len(index)) /\ \A k, l \in 1..n : c[k] = c[l] => k = l
      BY <1>1 DEF Gathered
  <2>2. \A k \in 1..n : c[k] \in Nat
      BY <2>1
  <2> QED
      BY <2>1, <2>2
<1>3. /\ \A k \in 1..n : \E l \in 1..n : t[k] = c[l]
      /\ \A k, l \in 1..n : k < l => Before(t[k], t[l])
      /\ \A l \in 1..n : \E k \in 1..n : t[k] = c[l]
      /\ t \in Seq({c[k] : k \in 1..n}) /\ Len(t) = n
  <2> DEFINE R == {c[k] : k \in 1..n}
  <2>1. /\ t \in [1..n -> R]
        /\ \A k, l \in 1..n : k < l => Before(t[k], t[l])
        /\ \A x \in R : \E k \in 1..n : t[k] = x
    <3>1. /\ Sorted(c) \in [1..Len(c) -> {c[k] : k \in 1..Len(c)}]
          /\ \A k, l \in 1..Len(c) : k < l => Before(Sorted(c)[k], Sorted(c)[l])
          /\ \A x \in {c[k] : k \in 1..Len(c)} : \E k \in 1..Len(c) : Sorted(c)[k] = x
        BY <1>1, <1>2, SortedIsInOrder
    <3> QED
        BY <3>1
  <2>2. \A x \in R : \E l \in 1..n : x = c[l]
      OBVIOUS
  <2>3. \A l \in 1..n : c[l] \in R
      OBVIOUS
  <2> HIDE DEF R
  <2>4. t \in Seq(R) /\ Len(t) = n
      BY <1>2, <2>1
  <2> QED
      BY <2>1, <2>2, <2>3, <2>4 DEF R
<1>4. m \in Nat /\ m <= n /\ m <= query.limit /\ (m = n \/ m = query.limit)
    BY <1>1, <1>2, <1>3
<1>5. Len(cut) = m /\ \A k \in 1..m : cut[k] = t[k]
  <2>1. PICK R : t \in Seq(R)
      BY <1>3
  <2>2. m \in Nat /\ m <= Len(t)
      BY <1>3, <1>4
  <2> QED
      BY <2>1, <2>2
<1> HIDE DEF cut
<1>6. ASSUME NEW k \in 1..n
      PROVE  matches_query(index[t[k]]) /\ index[t[k]].active /\ t[k] \in 1..Len(index)
  <2>1. PICK l \in 1..n : t[k] = c[l]
      BY <1>3
  <2>2. c[l] \in 1..Len(index)
      BY <1>1 DEF Gathered
  <2>3. matches_query(index[c[l]])
      BY <1>1, <2>2 DEF Gathered
  <2> QED
      BY <2>1, <2>2, <2>3 DEF matches_query
<1>7. ASSUME NEW k \in 1..m
      PROVE  matches_query(index[cut[k]]) /\ index[cut[k]].active
  <2>1. k \in 1..n /\ cut[k] = t[k]
      BY <1>2, <1>4, <1>5
  <2> QED
      BY <1>6, <2>1
<1>8. ASSUME NEW i \in 1..Len(index), matches_query(index[i]), \A k \in 1..m : cut[k] # i
      PROVE  m = query.limit /\ \A k \in 1..m : score(cut[k]) >= score(i)
  <2>1. i < next
      BY <1>1
  <2>2. PICK l \in 1..n : c[l] = i
      BY <1>1, <1>8, <2>1 DEF Gathered
  <2>3. PICK j \in 1..n : t[j] = i
      BY <1>3, <2>2
  <2>4. j > m
      BY <1>2, <1>4, <1>5, <1>8, <2>3
  <2>5. m = query.limit
      BY <1>2, <1>4, <2>4
  <2>6. ASSUME NEW k \in 1..m
        PROVE  score(cut[k]) >= score(i)
    <3>1. k \in 1..n /\ k < j
        BY <1>2, <1>4, <2>4
    <3>2. Before(t[k], i)
        BY <1>3, <2>3, <3>1
    <3>3. score(t[k]) \in Nat /\ score(i) \in Nat
        BY <1>1, BeforeIsAnOrder
    <3>4. score(t[k]) >= score(i)
        BY <3>2, <3>3 DEF Before
    <3> QED
        BY <1>5, <3>4
  <2> QED
      BY <2>5, <2>6
<1> QED
    BY <1>5, <1>7, <1>8 DEF Best, cut

LEMMA QueryInvInit == QueryInit => QueryInv
<1> SUFFICES ASSUME QueryInit PROVE QueryInv
    OBVIOUS
<1>1. PICK n \in 0..IndexSize : index \in [1..n -> IndexedPackages]
    BY DEF QueryInit
<1>2. index \in Seq(IndexedPackages)
    BY <1>1, QueriesAssumption
<1>3. query \in Queries /\ next = 1 /\ candidates = <<>> /\ answered = FALSE
    BY DEF QueryInit
<1>4. Gathered(candidates, next)
    BY <1>2, <1>3 DEF Gathered
<1>5. next \in 1..(Len(index) + 1)
    BY <1>2, <1>3
<1>6. answered \in BOOLEAN /\ ~answered
    BY <1>3
<1> QED
    BY <1>2, <1>3, <1>4, <1>5, <1>6 DEF QueryInv

LEMMA QueryInvStep == QueryInv /\ [QueryNext]_queryVars => QueryInv'
<1> SUFFICES ASSUME QueryInv, [QueryNext]_queryVars
             PROVE  QueryInv'
    OBVIOUS
<1>1. /\ index \in Seq(IndexedPackages) /\ query \in Queries /\ Len(index) \in Nat
      /\ next \in 1..(Len(index) + 1) /\ answered \in BOOLEAN
    BY DEF QueryInv
<1>2. ASSUME index' = index, query' = query
      PROVE  /\ \A i : matches_query(index[i])' <=> matches_query(index[i])
             /\ \A i : score(i)' = score(i)
    BY <1>2 DEF matches_query, score
<1>3. CASE Filter
  <2>1. /\ next <= Len(index) /\ next' = next + 1
        /\ candidates' = IF matches_query(index[next]) THEN Append(candidates, next) ELSE candidates
        /\ index' = index /\ query' = query /\ answered' = answered
      BY <1>3 DEF Filter
  <2>2. ~answered
      BY <1>1, <2>1 DEF QueryInv
  <2>3. PICK c : c = candidates'
      OBVIOUS
  <2>4. Gathered(candidates, next)
      BY <2>2 DEF QueryInv
  <2>5. next \in 1..Len(index) /\ next' \in 1..(Len(index) + 1)
      BY <1>1, <2>1
  <2>6. Gathered(c, next + 1)
    <3>1. CASE matches_query(index[next])
      <4>1. c = Append(candidates, next) /\ candidates \in Seq(1..Len(index))
          BY <2>1, <2>3, <2>4, <3>1 DEF Gathered
      <4>2. PICK n : n = Len(candidates) /\ n \in Nat
          BY <4>1
      <4>3. /\ c \in Seq(1..Len(index)) /\ Len(c) = n + 1 /\ c[n + 1] = next
            /\ \A k \in 1..n : c[k] = candidates[k]
          BY <2>5, <4>1, <4>2
      <4>4. /\ \A k \in 1..n : candidates[k] \in 1..Len(index)
            /\ \A k, l \in 1..n : candidates[k] = candidates[l] => k = l
            /\ \A i \in 1..Len(index) :
                  (\E k \in 1..n : candidates[k] = i) <=> (i < next /\ matches_query(index[i]))
          BY <2>4, <4>1, <4>2 DEF Gathered
      <4>5. \A k \in 1..n : candidates[k] # next
          BY <1>1, <2>5, <4>4
      <4>6. \A k \in 1..(n + 1) : k \in 1..n \/ k = n + 1
          BY <4>2
      <4>7. \A k, l \in 1..(n + 1) : c[k] = c[l] => k = l
          BY <4>3, <4>4, <4>5, <4>6
      <4>8. ASSUME NEW i \in 1..Len(index)
            PROVE  (\E k \in 1..(n + 1) : c[k] = i) <=> (i < next + 1 /\ matches_query(index[i]))
        <5>1. (\E k \in 1..(n + 1) : c[k] = i) <=> ((\E k \in 1..n : candidates[k] = i) \/ i = next)
            BY <4>2, <4>3, <4>6
        <5>2. i < next + 1 <=> i < next \/ i = next
            BY <2>5
        <5>3. i = next => ~ (i < next)
            BY <2>5
        <5> QED
            BY <3>1, <4>4, <5>1, <5>2, <5>3
      <4> QED
          BY <4>3, <4>7, <4>8 DEF Gathered
    <3>2. CASE ~matches_query(index[next])
      <4>1. c = candidates
          BY <2>1, <2>3, <3>2
      <4>2. \A i \in 1..Len(index) : i < next + 1 <=> i < next \/ i = next
          BY <2>5
      <4> QED
          BY <2>4, <3>2, <4>1, <4>2 DEF Gathered
    <3> QED
        BY <3>1, <3>2
  <2>7. Gathered(candidates, next)'
    <3>1. candidates' = c /\ next' = next + 1 /\ Len(index') = Len(index)
        BY <2>1, <2>3
    <3>2. \A i : matches_query(index[i])' <=> matches_query(index[i])
        BY <1>2, <2>1
    <3>3. c \in Seq(1..Len(index')) /\ \A k, l \in 1..Len(c) : c[k] = c[l] => k = l
        BY <2>6, <3>1 DEF Gathered
    <3>4. \A i \in 1..Len(index') :
             (\E k \in 1..Len(c) : c[k] = i) <=> (i < next + 1 /\ matches_query(index[i])')
        BY <2>6, <3>1, <3>2 DEF Gathered
    <3> QED
        BY <3>1, <3>3, <3>4 DEF Gathered
  <2> QED
      BY <1>1, <2>1, <2>2, <2>5, <2>7 DEF QueryInv
<1>4. CASE Respond
  <2>1. /\ next > Len(index) /\ ~answered /\ answered' = TRUE
        /\ index' = index /\ query' = query /\ next' = next
      BY <1>4 DEF Respond
  <2>2. PICK t : t = Sorted(candidates)
      OBVIOUS
  <2>3. PICK m : m = (IF Len(t) < query.limit THEN Len(t) ELSE query.limit)
      OBVIOUS
  <2>4. candidates' = SubSeq(t, 1, m)
      BY <1>4, <2>2, <2>3 DEF Respond
  <2>5. Best(SubSeq(t, 1, m))
      BY <2>1, <2>2, <2>3, BestFirst
  <2>6. PICK c : c = candidates'
      OBVIOUS
  <2>7. Best(c)
      BY <2>4, <2>5, <2>6
  <2>8. Best(candidates)'
      BY <1>2, <2>1, <2>6, <2>7 DEF Best
  <2>9. next' = Len(index') + 1
      BY <1>1, <2>1
  <2> QED
      BY <1>1, <2>1, <2>8, <2>9 DEF QueryInv
<1>5. CASE UNCHANGED queryVars
  <2>1. UNCHANGED <<index, query, next, candidates, answered>>
      BY <1>5 DEF queryVars
  <2>2. Gathered(candidates, next)' <=> Gathered(candidates, next)
      BY <1>2, <2>1 DEF Gathered
  <2>3. Best(candidates)' <=> Best(candidates)
      BY <1>2, <2>1 DEF Best
  <2> QED
      BY <2>1, <2>2, <2>3 DEF QueryInv
<1> QED
    BY <1>3, <1>4, <1>5 DEF QueryNext

\* The answer of the query handler, for any index, query and limit: a withdrawn
\* package, or one that was not asked for, is not in it, what is left out scores
\* no better than anything in it, and only a full answer leaves something out.
THEOREM AnswersAreBest == QuerySpec => []AnswerIsBest
<1>1. QueryInv => AnswerIsBest
    BY DEF QueryInv, Best, AnswerIsBest
<1> QED
    BY <1>1, QueryInvInit, QueryInvStep, PTL DEF QuerySpec
=============================================================================
