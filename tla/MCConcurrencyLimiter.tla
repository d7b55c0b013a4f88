------------------------- MODULE MCConcurrencyLimiter -------------------------
(***************************************************************************)
(* Constants for the limiter: three threads, each limit within their reach.*)
(***************************************************************************)
EXTENDS ConcurrencyLimiter

CONSTANTS p, q, r, x, y, tool, m, n

=============================================================================
