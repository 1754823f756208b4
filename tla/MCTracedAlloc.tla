---------------------------- MODULE MCTracedAlloc ----------------------------
(* Small instances of TracedAlloc for TLC.                                 *)
EXTENDS TracedAlloc, TLC

\* Pointer variables are interchangeable, and so are stack addresses.
TracedSymmetry == Permutations(Blocks) \union Permutations(Locals)

=============================================================================
