--------------------------- MODULE AvatarSession ---------------------------
(***************************************************************************)
(* One avatar session: AvatarSession.handle_control and tick_async of      *)
(* hydralisk/avatar/session.py, over the state machine of state.py, the    *)
(* FrameScheduler of scheduler.py and the PcmChunkAssembler of audio.py.   *)
(*                                                                         *)
(* Control messages and the render loop share one event loop.  A tick      *)
(* takes its audio, awaits the renderer in a thread, then pushes the frame *)
(* and looks whether the utterance is over: any number of messages may be  *)
(* handled between its two halves, and between two ticks.                  *)
(*                                                                         *)
(* A sample is the number of the utterance it belongs to, which is the     *)
(* value machine.utterances had when it came; a chunk is the set of the    *)
(* utterances that have a sample in it.  Clips, crossfades and pixels are  *)
(* left out, and so are the control events with no effect here             *)
(* (agent.keepalive).                                                      *)
(***************************************************************************)
EXTENDS Integers, Sequences, FiniteSets

CONSTANTS
    Events,          \* the event ids a client uses
    None,            \* no event id
    ChunkSamples,    \* samples in a chunk
    ChunksPerFrame,  \* settings.audio_chunks_per_frame
    JitterChunks,    \* max(1, scheduler.jitter_buffer_chunks)
    MaxFailures,     \* settings.fps * 3, consecutive failures tolerated
    Reordered,       \* POSTs to /control may overtake each other
    MaxUtterances,   \* bound: utterances begun
    MaxBuffered,     \* bound: chunks buffered when a client speaks on
    MaxSaid          \* bound: samples in one message

ASSUME EventsAssumption == None \notin Events
ASSUME AudioAssumption ==
    /\ ChunkSamples \in Nat \ {0}
    /\ ChunksPerFrame \in Nat \ {0}
    /\ JitterChunks \in Nat \ {0}
    /\ MaxFailures \in Nat \ {0}
ASSUME BoundsAssumption ==
    /\ Reordered \in BOOLEAN
    /\ MaxUtterances \in Nat
    /\ MaxBuffered \in Nat
    /\ MaxSaid \in Nat

VARIABLES
    state,       \* machine.state
    active,      \* machine.active_event_id
    endPending,  \* machine.end_pending
    utterances,  \* machine.utterances
    interrupts,  \* machine.interrupts
    chunks,      \* assembler._chunks, oldest first
    tail,        \* assembler._pending, less than a chunk
    gate,        \* scheduler._jitter_gate_open
    shown,       \* scheduler._active_state, the state of the last frame
    tick,        \* the render loop: between frames, rendering, or off
    job,         \* the speech chunks of the frame being rendered
    failures,    \* session._render_failures
    stopped,     \* session.stopped
    announced    \* the utterances whose agent.speak_ended is in the outbox

machineVars == <<state, active, endPending, utterances, interrupts>>
audioVars == <<chunks, tail, gate>>
loopVars == <<shown, tick, job, failures, stopped>>
vars == <<machineVars, audioVars, loopVars, announced>>

States == {"idle", "listening", "speaking"}

AvatarTypeOK ==
    /\ state \in States
    /\ active \in Events \cup {None}
    /\ endPending \in BOOLEAN
    /\ utterances \in Nat
    /\ interrupts \in Nat
    /\ chunks \in Seq(SUBSET Nat)
    /\ tail \in Seq(Nat) /\ Len(tail) < ChunkSamples
    /\ gate \in BOOLEAN
    /\ shown \in States
    /\ tick \in {"between", "rendering", "off"}
    /\ job \in Seq(SUBSET Nat) /\ Len(job) <= ChunksPerFrame
    /\ failures \in Nat
    /\ stopped \in BOOLEAN
    /\ announced \in SUBSET Nat

Init ==
    /\ state = "idle"
    /\ active = None
    /\ endPending = FALSE
    /\ utterances = 0
    /\ interrupts = 0
    /\ chunks = <<>>
    /\ tail = <<>>
    /\ gate = FALSE
    /\ shown = "idle"
    /\ tick = "between"
    /\ job = <<>>
    /\ failures = 0
    /\ stopped = FALSE
    /\ announced = {}

-----------------------------------------------------------------------------
(* PcmChunkAssembler.                                                      *)

\* Mutant of Push: a chunk is cut one sample late.
PushLazily(whole, rest, u, n) ==
    LET samples == rest \o [i \in 1..n |-> u]
        k == (Len(samples) - 1) \div ChunkSamples
    IN  /\ chunks' = whole \o [i \in 1..k |-> {u}]
        /\ tail' = SubSeq(samples, k * ChunkSamples + 1, Len(samples))

\* push: n samples of utterance u after the chunks whole and the rest.
Push(whole, rest, u, n) ==
    LET samples == rest \o [i \in 1..n |-> u]
        k == Len(samples) \div ChunkSamples
        Chunk(i) == {samples[(i - 1) * ChunkSamples + j] : j \in 1..ChunkSamples}
    IN  /\ chunks' = whole \o [i \in 1..k |-> Chunk(i)]
        /\ tail' = SubSeq(samples, k * ChunkSamples + 1, Len(samples))

FlushTail ==
    /\ chunks' = IF tail = <<>>
                 THEN chunks
                 ELSE Append(chunks, {tail[i] : i \in 1..Len(tail)})
    /\ tail' = <<>>

Drained == chunks = <<>> /\ tail = <<>>

-----------------------------------------------------------------------------
(* handle_control, one action per message type.  None of them looks at     *)
(* stopped: a control socket outlives its session, and POST /control never *)
(* asks.                                                                   *)

\* The websocket keeps a client's order; requests of their own need not.
InOrder(e) == Reordered \/ e # active \/ ~endPending

\* agent.speak: a chunk of the active utterance, or the first of a new one,
\* which takes the place of the active one and drops what it has buffered.
Speak(e, n) ==
    /\ InOrder(e)
    /\ Len(chunks) <= MaxBuffered
    /\ state' = "speaking"
    /\ active' = e
    /\ \/ /\ e = active
          /\ UNCHANGED <<utterances, endPending, gate>>
          /\ Push(chunks, tail, utterances, n)
       \/ /\ e # active
          /\ utterances < MaxUtterances
          /\ utterances' = utterances + 1
          /\ endPending' = FALSE
          /\ \/ /\ active = None
                /\ UNCHANGED gate
                /\ Push(chunks, tail, utterances', n)
             \/ /\ active # None
                /\ gate' = FALSE
                /\ Push(<<>>, <<>>, utterances', n)
    /\ UNCHANGED <<interrupts, loopVars, announced>>

\* Mutant of SpeakEnd: the partial chunk is not padded.
SpeakEndUnpadded(e) ==
    /\ endPending' = (endPending \/ (e \in {None, active} /\ state = "speaking"))
    /\ gate' = TRUE
    /\ UNCHANGED <<state, active, utterances, interrupts, chunks, tail>>
    /\ UNCHANGED <<loopVars, announced>>

\* agent.speak_end: the machine ignores one for another utterance than the
\* active one, or in silence; the scheduler pads and opens its gate for all.
SpeakEnd(e) ==
    /\ endPending' = (endPending \/ (e \in {None, active} /\ state = "speaking"))
    /\ FlushTail
    /\ gate' = TRUE
    /\ UNCHANGED <<state, active, utterances, interrupts, loopVars, announced>>

\* Mutant of Interrupt: the state moves and the audio stays.
InterruptUnflushed ==
    /\ state = "speaking"
    /\ state' = "listening"
    /\ active' = None
    /\ endPending' = FALSE
    /\ interrupts' = interrupts + 1
    /\ UNCHANGED <<chunks, tail, gate, utterances, loopVars, announced>>

\* Mutant of Interrupt: not ignored in silence.
InterruptAnyway ==
    /\ interrupts < MaxUtterances
    /\ state' = "listening"
    /\ active' = None
    /\ endPending' = FALSE
    /\ interrupts' = interrupts + 1
    /\ chunks' = <<>> /\ tail' = <<>> /\ gate' = FALSE
    /\ UNCHANGED <<utterances, loopVars, announced>>

\* agent.interrupt, ignored unless speaking.
Interrupt ==
    /\ state = "speaking"
    /\ state' = "listening"
    /\ active' = None
    /\ endPending' = FALSE
    /\ interrupts' = interrupts + 1
    /\ chunks' = <<>> /\ tail' = <<>> /\ gate' = FALSE
    /\ UNCHANGED <<utterances, loopVars, announced>>

\* agent.start_listening, ignored while speaking: speech owns the frame.
StartListening ==
    /\ state # "speaking"
    /\ state' = "listening"
    /\ UNCHANGED <<active, endPending, utterances, interrupts>>
    /\ UNCHANGED <<audioVars, loopVars, announced>>

\* agent.stop_listening
StopListening ==
    /\ state = "listening"
    /\ state' = "idle"
    /\ UNCHANGED <<active, endPending, utterances, interrupts>>
    /\ UNCHANGED <<audioVars, loopVars, announced>>

-----------------------------------------------------------------------------
(* The render loop.                                                        *)

LesserOf(m, n) == IF m <= n THEN m ELSE n

\* _observe_state closes the gate when a frame first shows a silent state.
GateSeen == gate /\ (state = shown \/ state = "speaking")

\* next_frame, up to the await of the renderer: a speaking frame takes what
\* audio there is once the gate is open, and finds it shut once all is gone.
NextFrame ==
    /\ tick = "between"
    /\ tick' = "rendering"
    /\ shown' = state
    /\ IF state = "speaking" /\ (GateSeen \/ Len(chunks) >= JitterChunks)
       THEN LET k == LesserOf(ChunksPerFrame, Len(chunks))
            IN  /\ job' = SubSeq(chunks, 1, k)
                /\ chunks' = SubSeq(chunks, k + 1, Len(chunks))
                /\ gate' = ~(chunks = <<>> /\ tail = <<>>)
       ELSE /\ job' = <<>>
            /\ gate' = GateSeen
            /\ UNCHANGED chunks
    /\ UNCHANGED <<machineVars, tail, failures, stopped, announced>>

\* Mutant of FinishTick: the end is announced without asking the buffer.
FinishEarly ==
    /\ tick' = "between"
    /\ job' = <<>>
    /\ IF endPending
       THEN /\ state' = "idle"
            /\ active' = None
            /\ endPending' = FALSE
            /\ announced' = announced \cup {utterances}
       ELSE UNCHANGED <<state, active, endPending, announced>>
    /\ UNCHANGED <<utterances, interrupts, audioVars, shown>>

\* _finish_tick: the job goes to the egress; an utterance the client closed
\* ends when nothing of it is buffered any more.
FinishTick ==
    /\ tick' = "between"
    /\ job' = <<>>
    /\ IF endPending /\ Drained
       THEN /\ state' = "idle"
            /\ active' = None
            /\ endPending' = FALSE
            /\ announced' = announced \cup {utterances}
       ELSE UNCHANGED <<state, active, endPending, announced>>
    /\ UNCHANGED <<utterances, interrupts, audioVars, shown>>

\* The renderer returned a frame.
Rendered ==
    /\ tick = "rendering"
    /\ failures' = 0
    /\ FinishTick
    /\ UNCHANGED stopped

\* It raised: the last good frame is pushed again, with the job's audio.
RenderRaised ==
    /\ tick = "rendering"
    /\ failures + 1 < MaxFailures
    /\ failures' = failures + 1
    /\ FinishTick
    /\ UNCHANGED stopped

Quit ==
    /\ stopped' = TRUE
    /\ tick' = "off"
    /\ job' = <<>>
    /\ UNCHANGED <<machineVars, audioVars, shown, announced>>

\* It kept raising: the loop stops its own session.
GiveUp ==
    /\ tick = "rendering"
    /\ failures + 1 >= MaxFailures
    /\ failures' = failures + 1
    /\ Quit

\* stop() from outside cancels the loop wherever it is suspended; between
\* frames the loop may stop for keepalive_timeout itself.
Stop ==
    /\ stopped = FALSE
    /\ Quit
    /\ UNCHANGED failures

-----------------------------------------------------------------------------

Control ==
    \/ \E e \in Events, n \in 1..MaxSaid : Speak(e, n)
    \/ \E e \in Events \cup {None} : SpeakEnd(e)
    \/ Interrupt
    \/ StartListening
    \/ StopListening

RenderReturns == Rendered \/ RenderRaised \/ GiveUp

Next == Control \/ NextFrame \/ RenderReturns \/ Stop

Safety == Init /\ [][Next]_vars

\* The paced loop comes round, and a render in the thread returns or raises.
Fairness == WF_vars(NextFrame) /\ WF_vars(RenderReturns)

Spec == Safety /\ Fairness

-----------------------------------------------------------------------------
(* What a session promises.                                                *)

\* The avatar is in the speaking state exactly while an utterance is active,
\* and only an active utterance can be waiting for its end, whatever mix of
\* messages, frames and stops has come.
TurnShape ==
    /\ state = "speaking" <=> active # None
    /\ endPending => state = "speaking"

\* No stale audio: whatever is buffered belongs to the active utterance, so
\* no frame is ever cut from one that was replaced, interrupted or ended.
BufferOwned ==
    /\ active = None => Drained
    /\ \A i \in 1..Len(chunks) : chunks[i] = {utterances}
    /\ \A i \in 1..Len(tail) : tail[i] = utterances

\* The closing receipt adds up: each utterance it counts was interrupted,
\* or announced as ended, or is active, or was replaced; never two of these.
CountsAgree ==
    LET current == IF active = None THEN 0 ELSE 1
    IN  interrupts + Cardinality(announced) + current <= utterances

\* Turns as the client sees them: agent.speak_ended comes once at most for an
\* utterance, for the active one, after the client closed it, and with every
\* chunk of it in the egress.
InJob(u) == IF \E i \in 1..Len(job) : u \in job[i] THEN Len(job) ELSE 0

Spoken(u) == Len(chunks) + (IF tail = <<>> THEN 0 ELSE 1) + InJob(u)

Owed == IF active = None THEN 0 ELSE Spoken(utterances)

T == INSTANCE TurnCycle WITH
        begun  <- utterances,
        live   <- active # None,
        closed <- endPending,
        owed   <- Owed,
        over   <- stopped

ImplementsTurnCycle == T!TurnSpec

\* A closed utterance leaves the speaking state in the end, as long as the
\* renderer answers; or it is replaced or interrupted, or the session stops.
EndDrains == endPending ~> ~endPending \/ stopped

\* "The avatar keeps speaking until buffered audio drains, then returns to
\* idle" (state.py): also when a chunk overtook the speak_end, once the client
\* says no more.
ClientQuiet == <>[][Len(chunks') <= Len(chunks) /\ Len(tail') <= Len(tail)]_vars

LateChunkDrains == ClientQuiet => EndDrains
=============================================================================
