--------------------------- MODULE MCDiscoveryNode ---------------------------
(***************************************************************************)
(* DiscoveryNode on a small instance.                                      *)
(***************************************************************************)
EXTENDS DiscoveryNode, TLC

CONSTANTS a1, a2, d1, d2, k1, k2

\* d1 is a document about domain k1, d2 one about k2.
DocumentDomains == [d \in Documents |-> IF d = d1 THEN {k1} ELSE {k2}]

\* Two documents of one Agent, one of another.
ThreeRegistrations == {<<a1, d1>>, <<a1, d2>>, <<a2, d1>>}

OneRestriction == {{k1}}

\* A package of a2 whose proof names no event.
AlteredPackages ==
    {[did |-> a2, didDocument |-> d1, sequence |-> 0, flaws |-> {}]}

TaskSymmetry == Permutations(Syncs) \cup Permutations(CdnTasks)
=============================================================================
