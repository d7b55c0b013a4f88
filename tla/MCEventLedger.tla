---------------------------- MODULE MCEventLedger ----------------------------
(***************************************************************************)
(* Constants for the ledger: one object at a time, two threads, two kinds *)
(* of payload.                                                             *)
(***************************************************************************)
EXTENDS EventLedger

CONSTANTS h1, h2, p, q, yes, no

=============================================================================
