----------------------------- MODULE MCRootNode -----------------------------
(***************************************************************************)
(* RootNode on small instances: the request sets and seed bulletins of the *)
(* runs.                                                                   *)
(***************************************************************************)
EXTENDS RootNode, TLC

CONSTANTS r1, r2, a1, a2, d1, d2, k1, k2, n1, n2

Publish(registrar, agent, document, nonce, signature, credential) ==
    [op |-> "publish", registrarDid |-> registrar, agentDid |-> agent,
     didDocument |-> document, nonce |-> nonce,
     signature_ok |-> signature, credential_ok |-> credential]

Govern(op, did, role, domains) ==
    [op |-> op, did |-> did, role |-> role, authorizedDomains |-> domains]

Authorized(sequence, did) ==
    [sequence |-> sequence, event_type |-> "REGISTRAR_AUTHORIZED",
     subject_did |-> did,
     payload |-> [role |-> "registrar", authorizedDomains |-> {}]]

EmptySeed == <<>>
RegistrarSeed == <<Authorized(1, r1)>>

\* One Agent, two documents, a registrar with two nonces: every outcome of
\* verify-and-publish, requests that repeat a nonce among them, and a second
\* registrar that is authorized on the way; its domains have no entry to go to.
RegistrationRequests ==
    {Publish(r1, a1, d, n, TRUE, TRUE) : d \in {d1, d2}, n \in {n1, n2, NoNonce}}
    \cup {Publish(r1, a1, d1, n1, FALSE, TRUE), Publish(r1, a1, d1, n1, TRUE, FALSE),
          Publish(r2, a1, d1, n2, TRUE, TRUE)}
    \cup {Govern("authorize_registrar", r2, "registrar", {}),
          Govern("update_domains", r2, "discovery", {k1})}

RevocationRequests ==
    {Govern("revoke", r1, "registrar", {}),
     Govern("authorize_registrar", r1, "registrar", {}),
     Publish(r1, a1, d1, NoNonce, TRUE, TRUE)}

ProcSymmetry == Permutations(Procs)
=============================================================================
