------------------------------ MODULE MCArray -------------------------------
(* Small instances of Array for TLC.                                       *)
EXTENDS Array

=============================================================================
