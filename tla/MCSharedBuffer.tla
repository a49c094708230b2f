---------------------------- MODULE MCSharedBuffer ----------------------------
(* SharedBuffer with three calls, which overlap or follow each other.         *)
EXTENDS SharedBuffer, TLC

Symmetry == Permutations(Calls)
=============================================================================
