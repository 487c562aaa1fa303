------------------------------ MODULE HashChain ------------------------------
(***************************************************************************)
(* The bulletin as a chain of hashes: what Root seals, and what a reader   *)
(* makes of the events it puts together.  Root may have been restored from *)
(* an older bulletin, and then seals other events under the same numbers;  *)
(* events written before suites and proofs were recorded carry neither.    *)
(***************************************************************************)
EXTENDS SignatureSuites, Sequences

CONSTANTS
    ChainSubjects,  \* what events are about
    MaxSealed,      \* bound on the events of a bulletin
    MaxRestored     \* bound on the restorations

VARIABLES
    rootSuite,  \* the suite of Root's key
    chain,      \* Root's bulletin
    histories,  \* history: every bulletin Root has had
    copy,       \* the events a reader has put together
    flaw,       \* what verify_hash_chain says of them
    restored

chainVars == <<rootSuite, chain, histories, copy, flaw, restored>>

\* The kinds of BulletinError; no error is none of them.
ChainFlaws == {"SequenceMismatch", "PreviousHashMismatch", "EventHashMismatch", "SignatureMismatch"}

ASSUME FlawAssumption == NoItem \notin ChainFlaws

RootKey == [owner |-> "root", suite |-> rootSuite]

\* BulletinEventCore.
Core(sequence, previous, subject) == [sequence |-> sequence, previous |-> previous, subject |-> subject]

\* BulletinEventCore::sign; an old event has a bare signature.
Sealed(core, old) ==
    LET hash == Hash(rootSuite, core)
        proof == BuildProof([eventHash |-> hash], RootKey, TRUE) IN
    [core |-> core, hash |-> hash, signature |-> proof.value,
     proof |-> IF old THEN NoItem ELSE proof, suite |-> IF old THEN NoItem ELSE rootSuite]

----------------------------------------------------------------------------
(* Verification *)

\* Mutant: links are not followed.
LinksUnfollowed(events, i) == NoItem

\* BulletinEvent::crypto_suite.
EventSuite(event) ==
    IF event.suite # NoItem THEN event.suite
    ELSE IF event.proof # NoItem THEN ProofSuite(event.proof) ELSE "legacy"

SignatureHolds(event) ==
    LET payload == [eventHash |-> event.hash] IN
    IF event.proof # NoItem THEN ProofHolds(payload, event.proof, RootKey)
    ELSE VerifyBytes(RootKey, SignatureInput(EventSuite(event), payload), event.signature)

\* What is wrong with the i-th event, the checks in the code's order.
LinkFlaw(events, i) ==
    LET previous == IF i = 1 THEN NoItem ELSE events[i - 1].hash IN
    IF events[i].core.previous # previous THEN "PreviousHashMismatch" ELSE NoItem
EventFlaw(events, i) ==
    LET event == events[i] IN
    IF event.core.sequence # i THEN "SequenceMismatch"
    ELSE IF LinkFlaw(events, i) # NoItem THEN LinkFlaw(events, i)
    ELSE IF event.hash # Hash(EventSuite(event), event.core) THEN "EventHashMismatch"
    ELSE IF ~SignatureHolds(event) THEN "SignatureMismatch" ELSE NoItem

\* verify_hash_chain: the first event with a flaw, and the flaw.
Verdict(events) ==
    LET flawed == {i \in DOMAIN events : EventFlaw(events, i) # NoItem} IN
    IF flawed = {} THEN [at |-> Len(events) + 1, is |-> NoItem]
    ELSE LET first == CHOOSE i \in flawed : \A j \in flawed : i <= j IN
         [at |-> first, is |-> EventFlaw(events, first)]

----------------------------------------------------------------------------
(* Root and its readers *)

ChainInit ==
    /\ rootSuite \in {"legacy", "sm2"}
    /\ chain = <<>> /\ histories = {<<>>} /\ copy = <<>> /\ restored = 0
    /\ flaw = [at |-> 1, is |-> NoItem]

\* Events without suite and proof come before all that have them.
Seal(subject, old) ==
    LET previous == IF chain = <<>> THEN NoItem ELSE chain[Len(chain)].hash
        event == Sealed(Core(Len(chain) + 1, previous, subject), old) IN
    /\ Len(chain) < MaxSealed
    /\ old => \A i \in DOMAIN chain : chain[i].suite = NoItem
    /\ chain' = Append(chain, event) /\ histories' = histories \union {chain'}
    /\ UNCHANGED <<rootSuite, copy, flaw, restored>>

RestoreChain(length) ==
    /\ restored < MaxRestored /\ restored' = restored + 1
    /\ length < Len(chain) /\ chain' = SubSeq(chain, 1, length)
    /\ UNCHANGED <<rootSuite, histories, copy, flaw>>

\* A reader puts one more event to those it has, and verifies them all.
AllSealed == UNION {{h[i] : i \in DOMAIN h} : h \in histories}
Gather(event) ==
    /\ Len(copy) < MaxSealed /\ copy' = Append(copy, event)
    /\ flaw' = Verdict(copy')
    /\ UNCHANGED <<rootSuite, chain, histories, restored>>

ChainNext ==
    \/ \E s \in ChainSubjects, old \in BOOLEAN : Seal(s, old)
    \/ \E length \in 0..MaxSealed : RestoreChain(length)
    \/ \E event \in AllSealed : Gather(event)

ChainSpec == ChainInit /\ [][ChainNext]_chainVars

----------------------------------------------------------------------------
(* Properties *)

\* Whatever a reader has put together, the events before the first flaw that
\* verify_hash_chain reports are the beginning of a bulletin Root had: no
\* event left out, none moved, no two histories mixed.
SoundIsHistory ==
    \E h \in histories : /\ Len(h) >= flaw.at - 1
                         /\ \A i \in 1..(flaw.at - 1) : h[i].core = copy[i].core

\* Root's own bulletin verifies under either suite, but for the old events of
\* a Root with an SM2 key, which are taken for legacy ones.
OwnChainVerifies ==
    Verdict(chain).is # NoItem =>
        rootSuite = "sm2" /\ chain[Verdict(chain).at].suite = NoItem

\* verify_hash_chain accepts Root's own bulletins and beginnings of them only.
VerdictIsRight == SoundIsHistory /\ OwnChainVerifies
============================================================================
