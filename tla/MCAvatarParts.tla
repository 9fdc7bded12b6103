---------------------------- MODULE MCAvatarParts ----------------------------
(***************************************************************************)
(* Four parts of the avatar service that share no state, checked side by   *)
(* side in one run: the shared renderer, the control sockets of a session, *)
(* the tracks of its viewer, and its render loop with the watchdog.  A     *)
(* behaviour plays one of them.                                            *)
(***************************************************************************)
EXTENDS RendererWarmup, ControlSocket, TrackQueue, RenderWatch

CONSTANTS c1, c2

VARIABLE part

Parts == {"renderer", "sockets", "tracks", "watchdog"}

partVars == <<part, warmVars, socketVars, trackVars, watchVars>>

\* A session that is over, and its watchdog with it.
WatchRests ==
    /\ loop = "over" /\ raised = 0 /\ halt = "closed"
    /\ watch = "gone" /\ fresh = FALSE /\ late = 0

Init ==
    /\ part \in Parts
    /\ WarmInit /\ SocketInit /\ TrackInit
    /\ IF part = "watchdog" THEN WatchInit ELSE WatchRests

Next ==
    /\ UNCHANGED part
    /\ \/ /\ part = "renderer" /\ WarmNext
          /\ UNCHANGED <<socketVars, trackVars, watchVars>>
       \/ /\ part = "sockets" /\ SocketNext
          /\ UNCHANGED <<warmVars, trackVars, watchVars>>
       \/ /\ part = "tracks" /\ TrackNext
          /\ UNCHANGED <<warmVars, socketVars, watchVars>>
       \/ /\ part = "watchdog" /\ WatchNext
          /\ UNCHANGED <<warmVars, socketVars, trackVars>>

Spec ==
    /\ Init /\ [][Next]_partVars
    /\ WarmFairness /\ SocketFairness /\ WatchFairness

\* The variables of the parts keep their types: renderers and askers, the
\* session's turn with its outbox and sockets, the bounded tracks, and the
\* render loop with its watchdog.
PartsTypeOK == WarmTypeOK /\ SocketTypeOK /\ TrackTypeOK /\ WatchTypeOK

\* A mint is answered, the outbox reaches a client that stays, and a loop that
\* hangs or is dead is reported.
PartsProgress == LoopComesBack /\ OutboxDrains /\ NeverSilent
=============================================================================
