------------------------------ MODULE Envelopes ------------------------------
(***************************************************************************)
(* Signed request envelopes of the reference services: how a receiver      *)
(* tells a request it has already taken from a fresh one.  Time runs in    *)
(* ticks, PerSecond of them a second, for the age of a request is counted  *)
(* in whole seconds and a nonce is kept to the tick.  The nonce file is    *)
(* read, pruned and rewritten under one lock; a crash may leave it         *)
(* truncated, and then every request is refused.                           *)
(***************************************************************************)
EXTENDS Integers, FiniteSets

CONSTANTS
    Nonces,         \* request nonces, one per envelope
    PerSecond,      \* ticks in a second
    MaxClockSkew,   \* max_clock_skew_seconds
    NonceTtl,       \* nonce_ttl_seconds
    MaxEntries,     \* DEFAULT_MAX_NONCE_ENTRIES
    MaxTick         \* bound on the clock

\* The policy's seconds are signed numbers; a tick is no longer than a second.
ASSUME PolicyAssumption ==
    PerSecond \in Nat \ {0} /\ MaxClockSkew \in Int /\ NonceTtl \in Int

VARIABLES
    tick,       \* the receiver's clock
    envelopes,  \* the envelopes that were signed; the network may deliver each again and again
    store,      \* the nonce file: the nonces kept
    readable,   \* whether the file can be parsed
    taken,      \* history: how often an envelope was accepted, counted to 2
    evicted     \* history: nonces dropped to make room, once there were more than the maximum

envelopeVars == <<tick, envelopes, store, readable, taken, evicted>>

EnvelopesInit ==
    /\ tick = 0 /\ envelopes = {} /\ store = {} /\ readable = TRUE
    /\ taken = [n \in Nonces |-> 0] /\ evicted = {}

\* create_signed_request_envelope, by a sender whose clock is within the skew.
SignEnvelope(nonce, ahead, sound) ==
    /\ \A e \in envelopes : e.nonce # nonce
    /\ envelopes' = envelopes \union {[nonce |-> nonce, signed |-> tick + ahead, sound |-> sound]}
    /\ UNCHANGED <<tick, store, readable, taken, evicted>>

\* verify_freshness: num_seconds rounds towards zero.
Distance(a, b) == IF a > b THEN a - b ELSE b - a
Fresh(e) == Distance(tick, e.signed) \div PerSecond <= MaxClockSkew

\* Mutant: a nonce is kept for the skew alone.
KeptForSkew(e) == e.signed >= tick - MaxClockSkew * PerSecond

Kept(e) == e.signed >= tick - NonceTtl * PerSecond
Unused(e, nonces) == \A k \in nonces : k.nonce # e.nonce

\* prune_nonce_store: the oldest go when there are too many.
Overflow(nonces) == IF Cardinality(nonces) <= MaxEntries THEN 0 ELSE Cardinality(nonces) - MaxEntries
Dropped(nonces) ==
    {gone \in SUBSET nonces : /\ Cardinality(gone) = Overflow(nonces)
                              /\ \A k \in gone, o \in nonces \ gone : k.signed <= o.signed}

\* verify_signed_request_envelope: the nonce is recorded before the signature
\* and the body are verified.
DeliverEnvelope(e) ==
    LET kept == {k \in store : Kept(k)}
        added == {k \in kept \union {e} : Kept(k)} IN
    /\ e \in envelopes /\ readable /\ Fresh(e) /\ Unused(e, kept)
    /\ \E gone \in Dropped(added) :
          /\ store' = added \ gone
          /\ evicted' = evicted \union {k.nonce : k \in gone}
    /\ taken' = IF e.sound THEN [taken EXCEPT ![e.nonce] = IF @ = 2 THEN 2 ELSE @ + 1] ELSE taken
    /\ UNCHANGED <<tick, envelopes, readable>>

TearNonceFile ==
    /\ readable /\ store # {}
    /\ readable' = FALSE
    /\ UNCHANGED <<tick, envelopes, store, taken, evicted>>

Tick ==
    /\ tick < MaxTick /\ tick' = tick + 1
    /\ UNCHANGED <<envelopes, store, readable, taken, evicted>>

EnvelopesNext ==
    \/ \E n \in Nonces, ahead \in -1..1, sound \in BOOLEAN : SignEnvelope(n, ahead, sound)
    \/ \E e \in envelopes : DeliverEnvelope(e)
    \/ TearNonceFile \/ Tick

EnvelopesSpec == EnvelopesInit /\ [][EnvelopesNext]_envelopeVars

----------------------------------------------------------------------------
(* Properties *)

\* An envelope is accepted once, however often and however late the network
\* delivers it, unless its nonce had to make room for others.  This needs a
\* nonce to be kept for longer than the skew.
AcceptedOnce == \A n \in Nonces : taken[n] = 2 => n \in evicted
============================================================================
