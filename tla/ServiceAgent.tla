---------------------------- MODULE ServiceAgent ----------------------------
(***************************************************************************)
(* The Service Agent: an HTTP server with a thread for every request, and  *)
(* a set of the nonces it has seen, in memory.  A thread looks the nonce   *)
(* up, verifies the caller's signature and credential, and only then adds  *)
(* the nonce.  A restart forgets the set.                                  *)
(***************************************************************************)
EXTENDS Integers, FiniteSets

CONSTANTS
    Invocations,   \* the nonces of invocations
    Threads,       \* requests handled at a time
    MaxAge,        \* MAX_INVOCATION_AGE
    FutureSkew,    \* how far ahead a timestamp may be
    MaxMade,       \* bound on the invocations sent
    MaxClock,      \* bound on the clock
    MaxRestarts    \* bound on the restarts

VARIABLES
    now,
    made,      \* the invocations callers sent; the network may repeat them, to everybody
    nonces,    \* SEEN_NONCES
    threads,   \* the invocation a thread has looked up, or none
    restarts,
    spent,     \* history: nonces of invocations answered since the start
    replays    \* history: invocations answered that were looked up after their nonce was answered

agentVars == <<now, made, nonces, threads, restarts, spent, replays>>

NoThread == [at |-> "idle"]

AgentInit ==
    /\ now = 0 /\ made = {} /\ nonces = {}
    /\ threads = [t \in Threads |-> NoThread]
    /\ restarts = 0 /\ spent = {} /\ replays = {}

\* genuine: the request and the caller's credential are signed as they should be.
Invoke(nonce, ahead, genuine) ==
    /\ Cardinality(made) < MaxMade
    /\ made' = made \union {[nonce |-> nonce, time |-> now + ahead, genuine |-> genuine]}
    /\ UNCHANGED <<now, nonces, threads, restarts, spent, replays>>

Young(invocation) == invocation.time <= now + FutureSkew /\ now - invocation.time <= MaxAge

\* Mutant: the nonce is added as it is looked up.
AddedAtOnce(invocation) == nonces \union {invocation.nonce}

Unseen(invocation) == invocation.nonce \notin nonces
AddedAtLookup(invocation) == nonces

\* verify_invocation, to the lookup of the nonce ...
LookUp(t, invocation) ==
    /\ threads[t] = NoThread
    /\ invocation \in made /\ Young(invocation) /\ Unseen(invocation)
    /\ threads' = [threads EXCEPT ![t] = [at |-> "verify", invocation |-> invocation,
                                          late |-> invocation.nonce \in spent]]
    /\ nonces' = AddedAtLookup(invocation)
    /\ UNCHANGED <<now, made, restarts, spent, replays>>

\* ... and from there: the signatures, and the nonce is added.
Verify(t) ==
    /\ threads[t].at = "verify"
    /\ threads' = [threads EXCEPT ![t] = NoThread]
    /\ LET i == threads[t].invocation IN
       IF i.genuine
       THEN /\ nonces' = nonces \union {i.nonce}
            /\ spent' = spent \union {i.nonce}
            /\ replays' = IF threads[t].late THEN replays \union {i.nonce} ELSE replays
       ELSE UNCHANGED <<nonces, spent, replays>>
    /\ UNCHANGED <<now, made, restarts>>

Restart ==
    /\ restarts < MaxRestarts /\ restarts' = restarts + 1
    /\ nonces' = {} /\ spent' = {}
    /\ threads' = [t \in Threads |-> NoThread]
    /\ UNCHANGED <<now, made, replays>>

PassTime ==
    /\ now < MaxClock /\ now' = now + 1
    /\ UNCHANGED <<made, nonces, threads, restarts, spent, replays>>

AgentNext ==
    \/ \E n \in Invocations, ahead \in -1..2, genuine \in BOOLEAN : Invoke(n, ahead, genuine)
    \/ \E t \in Threads, i \in made : LookUp(t, i)
    \/ \E t \in Threads : Verify(t)
    \/ Restart \/ PassTime

AgentSpec == AgentInit /\ [][AgentNext]_agentVars

----------------------------------------------------------------------------
(* Properties *)

\* An invocation repeated after its answer is refused until the next restart.
\* (Two that overlap may both be answered: the lookup and the addition are
\* apart.)
RepeatedIsRefused == replays = {}

\* Nobody uses up the nonce of a caller: only a genuine invocation puts its
\* nonce among the seen ones.
OnlyGenuineSpend == \A n \in nonces : n \in spent /\ \E i \in made : i.nonce = n /\ i.genuine

\* The nonces guard the agent, and only genuine callers spend them.
NoncesGuard == RepeatedIsRefused /\ OnlyGenuineSpend
============================================================================
