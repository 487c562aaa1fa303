--------------------------- MODULE MCPropagation ---------------------------
(***************************************************************************)
(* Instances of Propagation for TLC: one Discovery node that serves two of *)
(* three Agents, which are interchangeable, as the workers are; or an only *)
(* Agent.                                                                  *)
(***************************************************************************)
EXTENDS Propagation, TLC
CONSTANTS a1, a2, a3, d1
ServesTwo == d1 :> {a1, a2}
ServesOne == d1 :> {a1}
ServedSymmetry == Permutations({a1, a2}) \union Permutations(Workers)
============================================================================
