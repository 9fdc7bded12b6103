--------------------------- MODULE MCInflightGate ---------------------------
(***************************************************************************)
(* InflightGate for TLC: four requests on a lane without a limit, a        *)
(* single-flight lane and a lane of two slots, each with and without a     *)
(* queue timeout.  Two slots and four requests are the least with which a  *)
(* permit is free while requests are parked.                               *)
(***************************************************************************)
EXTENDS InflightGate

CONSTANTS r1, r2, r3, r4

MCRequests == {r1, r2, r3, r4}
MCLimits == {0, 1, 2}
=============================================================================
