-------------------------- MODULE SessionLifecycle --------------------------
(***************************************************************************)
(* The sessions of the avatar service: SessionManager and the life of each *)
(* AvatarSession in hydralisk/avatar/session.py, with the handlers of      *)
(* service.py that mint, stop, control and connect them, and the shutdown. *)
(*                                                                         *)
(* A session is named after the request that mints it.  Stopping one takes *)
(* two awaits, of its render loop and of its egress; a step is what the    *)
(* event loop runs between two of them, and everybody else runs in the     *)
(* gaps: other mints, another stop of the same session, late messages.     *)
(*                                                                         *)
(* What a session plays is in AvatarSession; here it only says that an     *)
(* agent.interrupt that cuts speech writes a row.                          *)
(***************************************************************************)
EXTENDS Integers, Sequences, FiniteSets

CONSTANTS
    MintOrder,    \* the requests to POST /avatar/sessions and /sessions, as
                  \* they arrive
    MaxSessions,  \* settings.max_sessions
    Failures,     \* what may raise: "start", "close"
    MaxRows       \* bound: rows in a receipt file when one more event comes

Mints == {MintOrder[i] : i \in DOMAIN MintOrder}

\* A mint evicts; the loop stops its own session for two reasons.
TheLoop == {"keepalive", "render_error"}

Callers == Mints \cup TheLoop \cup {"client", "shutdown"}

\* No request is named like another caller of stop().
ASSUME SessionsAssumption ==
    /\ \A i, j \in DOMAIN MintOrder : MintOrder[i] = MintOrder[j] => i = j
    /\ Mints \cap (TheLoop \cup {"client", "shutdown", "nobody"}) = {}
    /\ MaxSessions \in Nat \ {0}
    /\ Failures \subseteq {"start", "close"}
    /\ MaxRows \in Nat

VARIABLES
    service,   \* the application: up, leaving (its lifespan ends), down
    pending,   \* the sessions stop_all has yet to see to
    mint,      \* each request: new, evicting, made, refused, failed
    sessions,  \* manager.sessions, oldest first
    stopped,   \* session.stopped
    loop,      \* the render loop's task: none, running, cancelled, ended
    stage,     \* how far stop() has come: none, joining, closing, done, failed
    caller,    \* who awaits that stop()
    peer,      \* a viewer's WebRTC peer is connected
    rows       \* the session's receipt file

serviceVars == <<service, pending>>
managerVars == <<mint, sessions>>
stopVars == <<stopped, loop, stage, caller>>
vars == <<serviceVars, managerVars, stopVars, peer, rows>>

Known == {sessions[i] : i \in 1..Len(sessions)}

Active == {s \in Known : ~stopped[s]}

Full == Cardinality(Active) >= MaxSessions

LifecycleTypeOK ==
    /\ service \in {"up", "leaving", "down"}
    /\ pending \in Seq(Mints)
    /\ mint \in [Mints -> {"new", "evicting", "made", "refused", "failed"}]
    /\ sessions \in Seq(Mints)
    /\ stopped \in [Mints -> BOOLEAN]
    /\ loop \in [Mints -> {"none", "running", "cancelled", "ended"}]
    /\ stage \in [Mints -> {"none", "joining", "closing", "done", "failed"}]
    /\ caller \in [Mints -> Callers \cup {"nobody"}]
    /\ peer \in [Mints -> BOOLEAN]
    /\ rows \in [Mints -> Seq({"started", "event", "summary"})]

Init ==
    /\ service = "up"
    /\ pending = <<>>
    /\ mint = [m \in Mints |-> "new"]
    /\ sessions = <<>>
    /\ stopped = [s \in Mints |-> FALSE]
    /\ loop = [s \in Mints |-> "none"]
    /\ stage = [s \in Mints |-> "none"]
    /\ caller = [s \in Mints |-> "nobody"]
    /\ peer = [s \in Mints |-> FALSE]
    /\ rows = [s \in Mints |-> <<>>]

-----------------------------------------------------------------------------
(* AvatarSession.stop, from its call to its first await.                   *)

\* Mutant of StopBegin: the stopped flag is not looked at.
StopTwice(s, who) ==
    /\ s \in Known /\ loop[s] = "running"
    /\ stopped' = [stopped EXCEPT ![s] = TRUE]
    /\ caller' = [caller EXCEPT ![s] = who]
    /\ stage' = [stage EXCEPT ![s] = "closing"]
    /\ UNCHANGED loop

\* Mutant of StopBegin: the loop that stops its session joins itself.
StopJoining(s, who) ==
    /\ s \in Active
    /\ stopped' = [stopped EXCEPT ![s] = TRUE]
    /\ caller' = [caller EXCEPT ![s] = who]
    /\ stage' = [stage EXCEPT ![s] = "joining"]
    /\ UNCHANGED loop

\* Only one call gets past the stopped flag; it cancels and joins the loop,
\* unless the loop is the caller or was never started.
StopBegin(s, who) ==
    /\ s \in Active
    /\ stopped' = [stopped EXCEPT ![s] = TRUE]
    /\ caller' = [caller EXCEPT ![s] = who]
    /\ IF who \in TheLoop \/ loop[s] = "none"
       THEN /\ stage' = [stage EXCEPT ![s] = "closing"]
            /\ UNCHANGED loop
       ELSE /\ stage' = [stage EXCEPT ![s] = "joining"]
            /\ loop' = [loop EXCEPT ![s] = "cancelled"]

-----------------------------------------------------------------------------
(* Minting: create_session and compat_create_session.                      *)

Answer(m, answer) == mint' = [mint EXCEPT ![m] = answer]

\* Mutant of Create: the limit was looked at before the eviction.
CreateUnchecked(m, receipts) ==
    /\ Answer(m, "made")
    /\ sessions' = Append(sessions, m)
    /\ loop' = [loop EXCEPT ![m] = "running"]
    /\ rows' = [receipts EXCEPT ![m] = <<"started">>]

\* manager.create, on the given receipts: no await between the limit and the
\* session's place in the table.  A start that raises leaves it there.
Create(m, receipts) ==
    \/ /\ Full
       /\ Answer(m, "refused")
       /\ rows' = receipts
       /\ UNCHANGED <<sessions, loop>>
    \/ /\ ~Full
       /\ Answer(m, "made")
       /\ sessions' = Append(sessions, m)
       /\ loop' = [loop EXCEPT ![m] = "running"]
       /\ rows' = [receipts EXCEPT ![m] = <<"started">>]
    \/ /\ ~Full /\ "start" \in Failures
       /\ Answer(m, "failed")
       /\ sessions' = Append(sessions, m)
       /\ rows' = receipts
       /\ UNCHANGED loop

Arrives(m) ==
    /\ service = "up" /\ mint[m] = "new"
    /\ \E i \in DOMAIN MintOrder :
        /\ MintOrder[i] = m
        /\ \A j \in 1..(i - 1) : mint[MintOrder[j]] # "new"

Peerless ==
    {i \in 1..Len(sessions) : sessions[i] \in Active /\ ~peer[sessions[i]]}

\* A slot is free, or all are watched and evict_one_stale finds nobody.
MintAtOnce(m) ==
    /\ Arrives(m)
    /\ ~Full \/ Peerless = {}
    /\ Create(m, rows)
    /\ UNCHANGED <<serviceVars, stopped, stage, caller, peer>>

\* Mutant of MintEvicting: the oldest goes, watched or not.
EvictOldest(m) ==
    /\ Arrives(m)
    /\ Full
    /\ \E s \in Active : StopBegin(s, m)
    /\ Answer(m, "evicting")
    /\ UNCHANGED <<serviceVars, sessions, peer, rows>>

\* evict_one_stale stops the oldest session nobody watches, and awaits it.
MintEvicting(m) ==
    /\ Arrives(m)
    /\ Full
    /\ \E i \in Peerless :
        /\ \A j \in Peerless : i <= j
        /\ StopBegin(sessions[i], m)
    /\ Answer(m, "evicting")
    /\ UNCHANGED <<serviceVars, sessions, peer, rows>>

-----------------------------------------------------------------------------
(* The other callers of stop().                                            *)

ClientStop(s) ==
    /\ service = "up"
    /\ StopBegin(s, "client")
    /\ UNCHANGED <<serviceVars, managerVars, peer, rows>>

\* After a frame, a loop without a viewer looks at the clock; it may be up.
KeepaliveTimeout(s) ==
    /\ service # "down"
    /\ loop[s] = "running" /\ ~peer[s]
    /\ StopBegin(s, "keepalive")
    /\ UNCHANGED <<serviceVars, managerVars, peer, rows>>

\* The renderer kept raising.
RenderError(s) ==
    /\ service # "down"
    /\ loop[s] = "running"
    /\ StopBegin(s, "render_error")
    /\ UNCHANGED <<serviceVars, managerVars, peer, rows>>

-----------------------------------------------------------------------------
(* The rest of stop().                                                     *)

LoopEnds(s) ==
    /\ service # "down"
    /\ loop[s] = "cancelled"
    /\ loop' = [loop EXCEPT ![s] = "ended"]
    /\ UNCHANGED <<serviceVars, managerVars, stopped, stage, caller>>
    /\ UNCHANGED <<peer, rows>>

Joined(s) ==
    /\ service # "down"
    /\ stage[s] = "joining" /\ loop[s] = "ended"
    /\ stage' = [stage EXCEPT ![s] = "closing"]
    /\ UNCHANGED <<serviceVars, managerVars, stopped, loop, caller>>
    /\ UNCHANGED <<peer, rows>>

\* Mutant of LoopReturns: the task's result is kept for its state.
LoopResult(s) == loop' = [loop EXCEPT ![s] = caller[s]]

\* The loop that called stop() returns from it and ends.
LoopReturns(s) ==
    loop' = [loop EXCEPT ![s] = IF caller[s] \in TheLoop THEN "ended" ELSE @]

\* The egress is closed: the summary is written, and the caller goes on, a
\* mint with create().
Close(s) ==
    LET receipts == [rows EXCEPT ![s] = Append(@, "summary")]
    IN  /\ service # "down"
        /\ stage[s] = "closing"
        /\ stage' = [stage EXCEPT ![s] = "done"]
        /\ peer' = [peer EXCEPT ![s] = FALSE]
        /\ caller' = [caller EXCEPT ![s] = "nobody"]
        /\ \/ /\ caller[s] \notin Mints
              /\ rows' = receipts
              /\ LoopReturns(s)
              /\ UNCHANGED managerVars
           \/ /\ caller[s] \in Mints
              /\ Create(caller[s], receipts)
        /\ UNCHANGED <<serviceVars, stopped>>

\* The egress, the renderer or the receipt raises, and so does stop(): a mint
\* answers 500, and stop_all leaves the sessions it had not come to.
CloseFails(s) ==
    /\ service # "down"
    /\ stage[s] = "closing" /\ "close" \in Failures
    /\ stage' = [stage EXCEPT ![s] = "failed"]
    /\ caller' = [caller EXCEPT ![s] = "nobody"]
    /\ LoopReturns(s)
    /\ \/ caller[s] \in Mints /\ Answer(caller[s], "failed")
       \/ caller[s] \notin Mints /\ UNCHANGED mint
    /\ service' = IF caller[s] = "shutdown" THEN "down" ELSE service
    /\ UNCHANGED <<pending, sessions, stopped>>
    /\ UNCHANGED <<peer, rows>>

-----------------------------------------------------------------------------
(* Messages and viewers.  Neither POST /control nor an open control socket *)
(* asks whether the session has stopped.  A viewer who comes or goes while *)
(* the session stops changes nothing any more.                             *)

\* An agent.interrupt that finds the machine speaking; stop() leaves the
\* machine as it is.
Interrupt(s) ==
    /\ service = "up" /\ s \in Known
    /\ Len(rows[s]) <= MaxRows
    /\ rows' = [rows EXCEPT ![s] = Append(@, "event")]
    /\ UNCHANGED <<serviceVars, managerVars, stopVars, peer>>

PeerConnects(s) ==
    /\ service = "up" /\ s \in Active /\ ~peer[s]
    /\ peer' = [peer EXCEPT ![s] = TRUE]
    /\ UNCHANGED <<serviceVars, managerVars, stopVars, rows>>

PeerLeaves(s) ==
    /\ service # "down" /\ s \in Active /\ peer[s]
    /\ peer' = [peer EXCEPT ![s] = FALSE]
    /\ UNCHANGED <<serviceVars, managerVars, stopVars, rows>>

-----------------------------------------------------------------------------
(* The end of the lifespan, once no request is in flight.                  *)

Stopping(s) == stage[s] \in {"joining", "closing"}

ShutdownBegins ==
    /\ service = "up"
    /\ \A s \in Known : Stopping(s) => caller[s] \in TheLoop
    /\ service' = "leaving"
    /\ pending' = sessions
    /\ UNCHANGED <<managerVars, stopVars, peer, rows>>

ShutdownStops ==
    /\ service = "leaving" /\ pending # <<>>
    /\ StopBegin(Head(pending), "shutdown")
    /\ UNCHANGED <<serviceVars, managerVars, peer, rows>>

\* stop() answers at once for a session that somebody stopped or is stopping.
ShutdownPasses ==
    LET s == Head(pending)
    IN  /\ service = "leaving" /\ pending # <<>>
        /\ stopped[s]
        /\ ~(caller[s] = "shutdown" /\ Stopping(s))
        /\ pending' = Tail(pending)
        /\ UNCHANGED <<service, managerVars, stopVars, peer, rows>>

ShutdownEnds ==
    /\ service = "leaving" /\ pending = <<>>
    /\ service' = "down"
    /\ UNCHANGED <<pending, managerVars, stopVars, peer, rows>>

-----------------------------------------------------------------------------

StopGoesOn(s) == LoopEnds(s) \/ Joined(s) \/ Close(s) \/ CloseFails(s)

Next ==
    \/ \E s \in Mints :
        \/ MintAtOnce(s) \/ MintEvicting(s)
        \/ ClientStop(s) \/ KeepaliveTimeout(s) \/ RenderError(s)
        \/ StopGoesOn(s)
        \/ Interrupt(s) \/ PeerConnects(s) \/ PeerLeaves(s)
    \/ ShutdownBegins \/ ShutdownStops \/ ShutdownPasses \/ ShutdownEnds

Safety == Init /\ [][Next]_vars

\* A cancelled task runs, a join and a close return; nobody has to mint,
\* stop, watch or speak.
Fairness == \A s \in Mints : WF_vars(StopGoesOn(s))

Spec == Safety /\ Fairness

-----------------------------------------------------------------------------
(* What the sessions promise.                                              *)

\* A receipt file begins with the start of its session, unless the start
\* raised, and holds one summary once stop() has returned and none before,
\* whoever stops the session and how often.
Summaries(s) == {i \in 1..Len(rows[s]) : rows[s][i] = "summary"}

ReceiptShape ==
    \A s \in Mints :
        /\ mint[s] = "made" => rows[s][1] = "started"
        /\ Cardinality(Summaries(s)) = IF stage[s] = "done" THEN 1 ELSE 0

\* The GPU's slots are a lane: never more active sessions than slots, and a
\* mint is refused only while all are taken, however mints, evictions and
\* stops interleave.
Lane == INSTANCE Lane WITH
    Requests <- Mints,
    Limits   <- {MaxSessions},
    limit    <- MaxSessions,
    queueing <- FALSE,
    inside   <- Active,
    refused  <- {m \in Mints : mint[m] = "refused"},
    left     <- {s \in Known : stopped[s]}

SlotsAreALane == Lane!LaneSpec

\* "A slot a viewer is actually watching is never evicted" nor reaped: with a
\* peer connected, a session is stopped by a client, by a renderer that keeps
\* raising or by the shutdown only.
WatchedKept ==
    [][\A s \in Mints :
            ~stopped[s] /\ stopped'[s] /\ peer[s] =>
                caller'[s] \in {"client", "render_error", "shutdown"}]_vars

\* A stop that has begun comes to its end, or the service goes down first;
\* with it a mint that evicts is answered.
StopEnds ==
    \A s \in Mints :
        stopped[s] ~> stage[s] \in {"done", "failed"} \/ service = "down"

\* "A closing avatar.session_summary" (receipts.py): no row comes after it.
SummaryLast ==
    \A s \in Mints :
        stage[s] = "done" => rows[s][Len(rows[s])] = "summary"

\* When the service is down, every session it started has its summary, unless
\* the closing failed.
ShutdownSummaries ==
    service = "down" =>
        \A s \in Mints :
            mint[s] = "made" => stage[s] = "failed" \/ Summaries(s) # {}
=============================================================================
