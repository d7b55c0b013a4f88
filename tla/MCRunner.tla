------------------------------- MODULE MCRunner -------------------------------
(***************************************************************************)
(* Constants for the runner: three threads, a threshold of two failures.   *)
(***************************************************************************)
EXTENDS Runner

CONSTANTS p, q, r

=============================================================================
