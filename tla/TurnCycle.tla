----------------------------- MODULE TurnCycle -----------------------------
(***************************************************************************)
(* What an avatar session promises about speech, without frames, buffers   *)
(* or a jitter gate.  Utterances are numbered as they begin; one is live   *)
(* at a time.  The live one is replaced by the next, cut by an interrupt,  *)
(* or announced as ended, and it is announced only after the client closed *)
(* it and all that was said of it has been played, except for what the     *)
(* announcing frame itself plays.                                          *)
(***************************************************************************)
EXTENDS Integers

CONSTANT ChunksPerFrame

VARIABLES
    begun,      \* the number of utterances begun
    live,       \* the last one begun is still live
    closed,     \* the client closed the live one
    owed,       \* chunks of the live one not played yet
    announced,  \* the utterances announced as ended
    over        \* the session plays nothing any more

turnVars == <<begun, live, closed, owed, announced, over>>

TurnInit ==
    /\ begun = 0
    /\ live = FALSE
    /\ closed = FALSE
    /\ owed = 0
    /\ announced = {}
    /\ over = FALSE

\* A new utterance, from silence or in place of the live one, whose audio
\* is owed no more.
Begin ==
    /\ begun' = begun + 1
    /\ live' = TRUE
    /\ closed' = FALSE
    /\ owed' \in Nat \ {0}
    /\ UNCHANGED <<announced, over>>

Say ==
    /\ live
    /\ owed' \in Nat
    /\ owed' >= owed
    /\ UNCHANGED <<begun, live, closed, announced, over>>

Close ==
    /\ live
    /\ closed' = TRUE
    /\ UNCHANGED <<begun, live, owed, announced, over>>

Play ==
    /\ live /\ ~over
    /\ owed' \in Nat
    /\ owed - ChunksPerFrame <= owed' /\ owed' <= owed
    /\ UNCHANGED <<begun, live, closed, announced, over>>

Cut ==
    /\ live
    /\ live' = FALSE
    /\ closed' = FALSE
    /\ owed' = 0
    /\ UNCHANGED <<begun, announced, over>>

Announce ==
    /\ live /\ closed /\ ~over
    /\ owed <= ChunksPerFrame
    /\ live' = FALSE
    /\ closed' = FALSE
    /\ owed' = 0
    /\ announced' = announced \cup {begun}
    /\ UNCHANGED <<begun, over>>

\* The session stops; the frame in the making is lost.
GoOver ==
    /\ over' = TRUE
    /\ owed' \in Nat
    /\ owed - ChunksPerFrame <= owed' /\ owed' <= owed
    /\ UNCHANGED <<begun, live, closed, announced>>

TurnNext == Begin \/ Say \/ Close \/ Play \/ Cut \/ Announce \/ GoOver

TurnSpec == TurnInit /\ [][TurnNext]_turnVars
=============================================================================
