-------------------------------- MODULE Lane --------------------------------
(***************************************************************************)
(* What a serving lane promises its callers, without the semaphore: a lane *)
(* of limit slots (0: no limit) never has more than limit requests inside, *)
(* a request is inside once, and without a queue timeout a request is      *)
(* refused only while the lane is full.  InflightGate implements this.     *)
(***************************************************************************)
EXTENDS Integers, FiniteSets

CONSTANTS Requests, Limits

VARIABLES limit, queueing, inside, refused, left

laneVars == <<limit, queueing, inside, refused, left>>

Outside(r) == r \notin inside \cup refused \cup left

Full == limit # 0 /\ Cardinality(inside) >= limit

LaneInit ==
    /\ limit \in Limits
    /\ queueing \in BOOLEAN
    /\ inside = {}
    /\ refused = {}
    /\ left = {}

Enter(r) ==
    /\ Outside(r)
    /\ ~Full
    /\ inside' = inside \cup {r}
    /\ UNCHANGED <<limit, queueing, refused, left>>

\* A queueing lane may also refuse late, once a slot has come free.
Refuse(r) ==
    /\ Outside(r)
    /\ limit # 0
    /\ queueing \/ Full
    /\ refused' = refused \cup {r}
    /\ UNCHANGED <<limit, queueing, inside, left>>

Leave(r) ==
    /\ r \in inside
    /\ inside' = inside \ {r}
    /\ left' = left \cup {r}
    /\ UNCHANGED <<limit, queueing, refused>>

LaneNext == \E r \in Requests : Enter(r) \/ Refuse(r) \/ Leave(r)

LaneSpec == LaneInit /\ [][LaneNext]_laneVars
=============================================================================
