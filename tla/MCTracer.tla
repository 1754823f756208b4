------------------------------ MODULE MCTracer ------------------------------
(* Small instances of Tracer for TLC.                                      *)
EXTENDS Tracer, TLC

\* Threads, objects and handles are interchangeable.
TracerSymmetry ==
    Permutations(Threads) \union Permutations(Objects)
        \union Permutations(Handles)

=============================================================================
