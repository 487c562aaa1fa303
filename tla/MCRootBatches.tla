---------------------------- MODULE MCRootBatches ----------------------------
(***************************************************************************)
(* RootBatches on small instances: the request sets, seed bulletins and    *)
(* document domains of the runs.                                           *)
(***************************************************************************)
EXTENDS RootViews, TLC

CONSTANTS r1, s1, a1, a2, d1, d2, k1, k2, n1

Publish(agent, document) ==
    [op |-> "publish", registrarDid |-> r1, agentDid |-> agent,
     didDocument |-> document, nonce |-> NoNonce,
     signature_ok |-> TRUE, credential_ok |-> TRUE]

Govern(op, did, domains) ==
    [op |-> op, did |-> did, role |-> "discovery", authorizedDomains |-> domains]

Authorized(sequence, did) ==
    [sequence |-> sequence, event_type |-> "REGISTRAR_AUTHORIZED",
     subject_did |-> did,
     payload |-> [role |-> "registrar", authorizedDomains |-> {}]]

RegistrarSeed == <<Authorized(1, r1)>>

\* d1 is a document about domain k1, d2 one about k2.
DocumentDomains == [d \in Documents |-> IF d = d1 THEN {k1} ELSE {k2}]

PublishRequests == {Publish(a, d) : a \in Agents, d \in Documents}

GovernAs(role) ==
    [op |-> "authorize_registrar", did |-> s1, role |-> role, authorizedDomains |-> {}]

\* Registrations, one of them with a nonce, and every governance request on
\* one node, for the run that interrupts writes.
MixedRequests ==
    {[Publish(a1, d1) EXCEPT !.nonce = n1], Publish(a1, d2)}
    \cup {GovernAs(role) : role \in {"registrar", "vc-issuer"}}
    \cup {Govern("authorize_discovery", s1, {}),
          Govern("update_domains", s1, {k1}),
          Govern("revoke", s1, {})}

ProcSymmetry == Permutations(Procs)

NotifyRequests ==
    {Publish(a1, d) : d \in Documents}
    \cup {Govern("authorize_discovery", s1, {}),
          Govern("update_domains", s1, {k1}),
          Govern("revoke", s1, {})}
=============================================================================
