------------------------------ MODULE MCLogger ------------------------------
(* The small instance of Logger for TLC.  Its threads are interchangeable, *)
(* but symmetry is not sound for the liveness property it checks.          *)
EXTENDS Logger

=============================================================================
