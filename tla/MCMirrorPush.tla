--------------------------- MODULE MCMirrorPush ----------------------------
(***************************************************************************)
(* Small instances of MirrorPush.                                          *)
(***************************************************************************)
EXTENDS MirrorPush, TLC

CONSTANTS p1, p2

Symmetry == Permutations(Pushers)
=============================================================================
