--------------------------- MODULE RendererWarmup ---------------------------
(***************************************************************************)
(* The renderer that all sessions share: the default renderer_factory of   *)
(* hydralisk/avatar/service.py, SharedRenderer in renderer.py, the warm-up *)
(* thread of the lifespan, the mints, the render threads, the shutdown.    *)
(*                                                                         *)
(* The factory looks whether a renderer is there and else makes one, in    *)
(* whichever thread asks: the warm-up's or the event loop's.  A renderer   *)
(* is named after the one that made it.  While the event loop is inside    *)
(* start(), behind its lock or in the backend's warm-up, it serves nobody. *)
(***************************************************************************)
EXTENDS Naturals, FiniteSets

CONSTANT MaxMints  \* bound: sessions minted one after the other

ASSUME WarmupAssumption == MaxMints \in Nat \ {0}

Askers == {"thread", "loop"}
None == "none"

VARIABLES
    service,   \* up, leaving (the lifespan ends), down
    at,        \* each asker: idle, looked, locking, starting, done, failed
    holder,    \* shared_holder["renderer"]: None, or its maker
    ref,       \* the renderer that each asker got
    started,   \* SharedRenderer._started
    backend,   \* the wrapped renderer: cold, partial, warm, closed
    session,   \* the renderer of the active session, or None
    mints,     \* sessions asked for
    rendering  \* the renderer used by a render thread, and for whom

warmVars == <<service, at, holder, ref, started, backend, session, mints,
              rendering>>

Idle == [renderer |-> None, mint |-> 0]

WarmTypeOK ==
    /\ service \in {"up", "leaving", "down"}
    /\ at \in [Askers -> {"idle", "looked", "locking", "starting", "done",
                          "failed"}]
    /\ holder \in Askers \cup {None}
    /\ ref \in [Askers -> Askers \cup {None}]
    /\ started \in [Askers -> BOOLEAN]
    /\ backend \in [Askers -> {"cold", "partial", "warm", "closed"}]
    /\ session \in Askers \cup {None}
    /\ mints \in 0..MaxMints
    /\ rendering \in [renderer : Askers \cup {None}, mint : 0..MaxMints]

WarmInit ==
    /\ service = "up"
    /\ at = [a \in Askers |-> "idle"]
    /\ holder = None
    /\ ref = [a \in Askers |-> None]
    /\ started = [r \in Askers |-> FALSE]
    /\ backend = [r \in Askers |-> "cold"]
    /\ session = None
    /\ mints = 0
    /\ rendering = Idle

\* The event loop is in the factory or in start(): it serves nobody.
LoopBlocked == at["loop"] \in {"looked", "locking", "starting", "done"}

Enters(a, where) == at' = [at EXCEPT ![a] = where]

\* The lock of r is held by an asker inside the backend's start().
Locked(r) == \E a \in Askers : at[a] = "starting" /\ ref[a] = r

-----------------------------------------------------------------------------
(* renderer_factory().start(), by the warm-up thread or by a mint.         *)

Find(a) ==
    IF holder = None
    THEN Enters(a, "looked") /\ UNCHANGED ref
    ELSE Enters(a, "locking") /\ ref' = [ref EXCEPT ![a] = holder]

WarmUp ==
    /\ service # "down"
    /\ at["thread"] = "idle"
    /\ Find("thread")
    /\ UNCHANGED <<service, holder, started, backend, session, mints,
                   rendering>>

\* A mint, on the event loop, when the slot is free.
Mint ==
    /\ service = "up" /\ session = None
    /\ ~LoopBlocked /\ mints < MaxMints
    /\ mints' = mints + 1
    /\ Find("loop")
    /\ UNCHANGED <<service, holder, started, backend, session, rendering>>

\* select_renderer raises when MuseTalk is asked for and not there.
Make(a) ==
    /\ at[a] = "looked"
    /\ \/ /\ holder' = a
          /\ ref' = [ref EXCEPT ![a] = a]
          /\ Enters(a, "locking")
       \/ /\ Enters(a, "failed")
          /\ UNCHANGED <<holder, ref>>
    /\ UNCHANGED <<service, started, backend, session, mints, rendering>>

\* Mutant of Lock: start() does not take its lock.
LockNot(a) ==
    /\ at[a] = "locking"
    /\ Enters(a, IF started[ref[a]] THEN "done" ELSE "starting")
    /\ UNCHANGED <<service, holder, ref, started, backend, session, mints,
                   rendering>>

Lock(a) ==
    /\ at[a] = "locking"
    /\ ~Locked(ref[a])
    /\ Enters(a, IF started[ref[a]] THEN "done" ELSE "starting")
    /\ UNCHANGED <<service, holder, ref, started, backend, session, mints,
                   rendering>>

\* The backend warms up, or raises after a part of it: the next one to ask
\* starts it again.
StartEnds(a) ==
    /\ at[a] = "starting"
    /\ \/ /\ started' = [started EXCEPT ![ref[a]] = TRUE]
          /\ backend' = [backend EXCEPT ![ref[a]] = "warm"]
          /\ Enters(a, "done")
       \/ /\ backend' = [backend EXCEPT ![ref[a]] = "partial"]
          /\ Enters(a, "failed")
          /\ UNCHANGED started
    /\ UNCHANGED <<service, holder, ref, session, mints, rendering>>

\* The mint's start() has returned: the session renders.
Minted ==
    /\ at["loop"] = "done"
    /\ Enters("loop", "idle")
    /\ session' = ref["loop"]
    /\ UNCHANGED <<service, holder, ref, started, backend, mints, rendering>>

-----------------------------------------------------------------------------
(* A session's renders, and its end.                                       *)

\* A tick hands its job to a thread; one at a time, but the thread of a
\* session that was stopped may still be at work.
RenderBegins ==
    /\ ~LoopBlocked
    /\ session # None /\ rendering = Idle
    /\ rendering' = [renderer |-> session, mint |-> mints]
    /\ UNCHANGED <<service, at, holder, ref, started, backend, session, mints>>

RenderEnds ==
    /\ rendering # Idle
    /\ rendering' = Idle
    /\ UNCHANGED <<service, at, holder, ref, started, backend, session, mints>>

\* Its loop is cancelled, which does not end the render in its thread, and
\* its close() leaves the shared renderer warm.
SessionEnds ==
    /\ ~LoopBlocked
    /\ session # None
    /\ session' = None
    /\ UNCHANGED <<service, at, holder, ref, started, backend, mints,
                   rendering>>

-----------------------------------------------------------------------------
(* The lifespan ends.                                                      *)

\* The warm-up task is cancelled, which ends the thread's work only when it
\* has not begun.
LifespanEnds ==
    /\ service = "up" /\ ~LoopBlocked
    /\ service' = "leaving"
    /\ at' = IF at["thread"] = "idle" THEN [at EXCEPT !["thread"] = "failed"]
             ELSE at
    /\ UNCHANGED <<holder, ref, started, backend, session, mints, rendering>>

\* When stop_all is through the factory is asked once more, which may make
\* a renderer for the purpose, and the shared one is shut down, without the
\* start lock.
CloseRenderer ==
    /\ service = "leaving" /\ ~LoopBlocked
    /\ session = None
    /\ service' = "down"
    /\ LET last == IF holder = None THEN "loop" ELSE holder
       IN  /\ holder' = last
           /\ backend' = [backend EXCEPT ![last] = "closed"]
           /\ started' = [started EXCEPT ![last] = FALSE]
    /\ UNCHANGED <<at, ref, session, mints, rendering>>

-----------------------------------------------------------------------------
Asking(a) == Make(a) \/ Lock(a) \/ StartEnds(a)

WarmNext ==
    \/ WarmUp \/ Mint \/ Minted
    \/ \E a \in Askers : Asking(a)
    \/ RenderBegins \/ RenderEnds \/ SessionEnds
    \/ LifespanEnds \/ CloseRenderer

WarmFairness ==
    WF_warmVars(Minted) /\ \A a \in Askers : WF_warmVars(Asking(a))

WarmSpec == WarmInit /\ [][WarmNext]_warmVars /\ WarmFairness

-----------------------------------------------------------------------------
(* Properties                                                              *)

\* No two warm-ups of one renderer run at once, however the warm-up thread
\* and a mint meet (renderer.py, SharedRenderer.start), and no session
\* renders with a renderer that is not warm, though both may have made one
\* (service.py, renderer_factory) and the session have the other.  One that
\* the shutdown closes under a render (renderer.py, shutdown) is closed under
\* that of a session which was stopped, whose frame nobody waits for.
RendererReady ==
    /\ \A a, b \in Askers :
         a # b /\ at[a] = "starting" /\ at[b] = "starting" => ref[a] # ref[b]
    /\ session # None => backend[session] = "warm" /\ started[session]
    /\ rendering # Idle /\ backend[rendering.renderer] # "warm" =>
         service = "down" /\ session = None

\* A mint gets its answer: neither the start lock nor a lost holder keeps
\* the event loop for ever (renderer.py, start; service.py, the factory).
LoopComesBack == LoopBlocked ~> ~LoopBlocked
=============================================================================
