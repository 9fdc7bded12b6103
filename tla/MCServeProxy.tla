---------------------------- MODULE MCServeProxy ----------------------------
(***************************************************************************)
(* ServeProxy for TLC: three requests on a single-flight lane, the         *)
(* configuration of the canary, with and without a queue timeout, under    *)
(* every combination of the environment's failures.  Lanes without a limit *)
(* and of several slots are MCInflightGate's.                              *)
(***************************************************************************)
EXTENDS ServeProxy

CONSTANTS r1, r2, r3

MCRequests == {r1, r2, r3}
MCLimits == {1}
=============================================================================
