---------------------------- MODULE AgentRegistry ----------------------------
(***************************************************************************)
(* What Root promises about the versions of an Agent's DID Document,       *)
(* whatever handlers, files, failures and restarts are behind it: each     *)
(* Agent has one current document, registering the same document again     *)
(* changes nothing, and registering another one makes it current under the *)
(* next version number.                                                    *)
(***************************************************************************)
EXTENDS Naturals

CONSTANTS Agents, Documents, NoDocument

VARIABLE current

Init == current = [a \in Agents |-> [version |-> 0, didDocument |-> NoDocument]]

Register(a, d) ==
    /\ current[a].didDocument # d
    /\ current' = [current EXCEPT ![a] = [version     |-> @.version + 1,
                                          didDocument |-> d]]

Next == \E a \in Agents, d \in Documents : Register(a, d)

Spec == Init /\ [][Next]_current
=============================================================================
