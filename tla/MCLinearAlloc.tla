--------------------------- MODULE MCLinearAlloc ---------------------------
(* Small instances of LinearAlloc for TLC.                                 *)
EXTENDS LinearAlloc, TLC

\* Pointer variables are interchangeable.
BlockSymmetry == Permutations(Blocks)

=============================================================================
