-------------------------- MODULE MCLocalWeights ---------------------------
(***************************************************************************)
(* Small instances of LocalWeights.                                        *)
(***************************************************************************)
EXTENDS LocalWeights, TLC

CONSTANTS s1, s2, o1, o2

Symmetry == Permutations(Servers) \union Permutations(Operators)
=============================================================================
