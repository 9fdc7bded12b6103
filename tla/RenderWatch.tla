------------------------------ MODULE RenderWatch ------------------------------
(***************************************************************************)
(* The render loop of one avatar session under the watchdog's eyes: the    *)
(* ticks that raise, in hydralisk/avatar/session.py's tick_async, the      *)
(* thread of _watchdog, which sees only whether frames were counted since  *)
(* it last looked, and stop().                                             *)
(*                                                                         *)
(* The thread sleeps for two seconds, tests stopped, and writes its row    *)
(* later: the event loop goes on in between.  A render may hang, and any   *)
(* write of a receipt may raise.                                           *)
(***************************************************************************)
EXTENDS Naturals

CONSTANT RaiseLimit  \* settings.fps * 3: renders that raise in a row

ASSUME WatchAssumption == RaiseLimit \in Nat \ {0}

VARIABLES
    loop,    \* idle (between two ticks), rendering, stopping (its own
             \* session), dead (of an exception), over
    raised,  \* session._render_failures
    halt,    \* stop(): no, begun, closed (with its summary), failed
    watch,   \* the thread: asleep, writing, gone
    fresh,   \* frames were counted since it last looked
    late     \* rows that it has written behind the summary

watchVars == <<loop, raised, halt, watch, fresh, late>>

WatchTypeOK ==
    /\ loop \in {"idle", "rendering", "stopping", "dead", "over"}
    /\ raised \in 0..RaiseLimit
    /\ halt \in {"no", "begun", "closed", "failed"}
    /\ watch \in {"asleep", "writing", "gone"}
    /\ fresh \in BOOLEAN
    /\ late \in Nat

\* The thread begins with last = -1, which no count of frames is.
WatchInit ==
    /\ loop = "idle" /\ raised = 0 /\ halt = "no"
    /\ watch = "asleep" /\ fresh = TRUE /\ late = 0

-----------------------------------------------------------------------------
(* The render loop.                                                        *)

\* next_frame counts the frame before it is rendered.
TickBegins ==
    /\ loop = "idle" /\ halt = "no"
    /\ loop' = "rendering" /\ fresh' = TRUE
    /\ UNCHANGED <<raised, halt, watch, late>>

RenderReturns ==
    /\ loop = "rendering"
    /\ loop' = "idle" /\ raised' = 0
    /\ UNCHANGED <<halt, watch, fresh, late>>

\* Only the first failure in a row has a receipt; its write is inside the
\* except clause, and ends the task when it raises.
RenderRaises(written) ==
    /\ loop = "rendering"
    /\ raised' = raised + 1
    /\ \/ /\ raised = 0 /\ ~written
          /\ loop' = "dead" /\ UNCHANGED halt
       \/ /\ raised > 0 \/ written
          /\ raised' >= RaiseLimit
          /\ loop' = "stopping" /\ halt' = "begun"
       \/ /\ raised > 0 \/ written
          /\ raised' < RaiseLimit
          /\ loop' = "idle" /\ UNCHANGED halt
    /\ UNCHANGED <<watch, fresh, late>>

\* The keepalive is up.
LoopReaps ==
    /\ loop = "idle" /\ halt = "no"
    /\ loop' = "stopping" /\ halt' = "begun"
    /\ UNCHANGED <<raised, watch, fresh, late>>

-----------------------------------------------------------------------------
(* stop(), by somebody else and to its end.                                *)

\* The task is cancelled and joined, which swallows the exception of one that
\* is dead; the render goes on in its thread, and counts no frame.
StopFromOutside ==
    /\ halt = "no"
    /\ halt' = "begun"
    /\ loop' = IF loop = "dead" THEN "dead" ELSE "over"
    /\ UNCHANGED <<raised, watch, fresh, late>>

StopIsThrough ==
    /\ halt = "begun"
    /\ halt' \in {"closed", "failed"}
    /\ loop' = IF loop = "stopping" THEN "over" ELSE loop
    /\ UNCHANGED <<raised, watch, fresh, late>>

-----------------------------------------------------------------------------
(* The watchdog.                                                           *)

\* Mutant of WatchLooks: it never tests stopped.
WatchLooksOnly ==
    /\ watch = "asleep"
    /\ watch' = IF fresh THEN "asleep" ELSE "writing"
    /\ fresh' = FALSE
    /\ UNCHANGED <<loop, raised, halt, late>>

WatchLooks ==
    /\ watch = "asleep"
    /\ watch' = IF halt # "no" THEN "gone"
                ELSE IF fresh THEN "asleep" ELSE "writing"
    /\ fresh' = (fresh /\ halt # "no")
    /\ UNCHANGED <<loop, raised, halt, late>>

\* The row of a stall; a write that raises is passed over.
WatchWrites(written) ==
    /\ watch = "writing"
    /\ watch' = "asleep"
    /\ late' = IF written /\ halt = "closed" THEN late + 1 ELSE late
    /\ UNCHANGED <<loop, raised, halt, fresh>>

-----------------------------------------------------------------------------
WatchThread == WatchLooks \/ \E written \in BOOLEAN : WatchWrites(written)

WatchNext ==
    \/ TickBegins \/ RenderReturns
    \/ (\E written \in BOOLEAN : RenderRaises(written))
    \/ LoopReaps \/ StopFromOutside \/ StopIsThrough
    \/ WatchThread

\* The thread is the operating system's, and awake every two seconds.
WatchFairness == WF_watchVars(WatchThread)

WatchSpec == WatchInit /\ [][WatchNext]_watchVars /\ WatchFairness

-----------------------------------------------------------------------------
(* Properties                                                              *)

\* A session's file is complete with its summary, but for one row of the
\* watchdog at most, which had tested stopped before (session.py, _watchdog);
\* and the frames of the summary are all there are: nothing ticks once stop()
\* is through, however the loop came to its end.
StallRows ==
    /\ late <= 1
    /\ halt \in {"closed", "failed"} => loop \in {"dead", "over"}

\* "A hung loop (or a blocked event loop) must never be silent again"
\* (session.py, _watchdog): while an active session renders no more, its loop
\* dead of a receipt that was not written or its render hung, the watchdog
\* reports it again and again, whether or not its own rows can be written;
\* and the thread ends when the session has been stopped.
NeverSilent ==
    /\ <>[](halt = "no" /\ loop \in {"dead", "rendering"}) => []<>(watch = "writing")
    /\ halt # "no" ~> watch = "gone"
=============================================================================
