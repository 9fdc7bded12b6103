----------------------------- MODULE TtsService -----------------------------
(***************************************************************************)
(* The text-to-speech service: POST /hydralisk/tts/v1/synthesize and its   *)
(* alias in hydralisk/tts/service.py, the measured stream of seam.py, the  *)
(* receipt log, and the two adapters.  Chirp's stream is remote and lives  *)
(* on the event loop.  CosyVoice makes its chunks in a thread of its own   *)
(* that hands each to the loop with run_coroutine_threadsafe and waits for *)
(* the result, through a bounded queue; the consumer, when it is through,  *)
(* joins that thread on the loop that everybody shares.                    *)
(*                                                                         *)
(* A step is what the event loop runs between two awaits of a stream, or   *)
(* what a thread does on its own.  A step of the loop needs the loop free. *)
(***************************************************************************)
EXTENDS Naturals, Sequences, FiniteSets

CONSTANTS
    Streams,    \* the requests to synthesize
    QueueSize,  \* max_queue_chunks
    MaxChunks,  \* bound: chunks the model makes of any text
    Longest     \* bound: chunks the model makes of each stream's text at most

Free == "free"

ASSUME TtsAssumption ==
    /\ IsFiniteSet(Streams) /\ Free \notin Streams
    /\ QueueSize \in Nat \ {0}
    /\ MaxChunks \in Nat \ {0}
    /\ Longest \in [Streams -> 1..MaxChunks]

End == MaxChunks + 1    \* _STREAM_END
Raised == MaxChunks + 2 \* an exception of the synthesis

Chunks == 1..MaxChunks
Items == 1..Raised

VARIABLES
    adapter,   \* HYDRALISK_TTS_ADAPTER: chirp3hd, cosyvoice
    loop,      \* Free, or the stream that blocks the event loop in join
    modelLock, \* Free, or the stream whose thread loads the model
    loads,     \* how often the model was loaded
    pc,        \* where the request stands in its handler and its stream
    thread,    \* its thread: the pool's that asks for the model, then its own
    item,      \* what the thread hands to the queue
    queue,     \* the queue of one synthesis
    hand,      \* the chunk the server is sending
    counted,   \* metrics.chunks_out of the synthesis
    how,       \* how its stream ended: none, ok, failed, left
    made,      \* chunks the model made
    finished,  \* the model said that there are no more
    heard,     \* chunks sent to the client
    receipt,   \* its receipt: none, clean, empty, blocked, or lost
    totals     \* _ServiceMetrics

loopVars == <<adapter, loop>>
modelVars == <<modelLock, loads>>
threadVars == <<thread, item, made, finished>>
streamVars == <<pc, how>>
bookVars == <<receipt, totals>>
vars == <<loopVars, modelVars, threadVars, streamVars, queue, hand, counted,
          heard, bookVars>>

TtsTypeOK ==
    /\ adapter \in {"chirp3hd", "cosyvoice"}
    /\ loop \in Streams \cup {Free}
    /\ modelLock \in Streams \cup {Free}
    /\ loads \in 0..1
    /\ pc \in [Streams -> {"new", "refused", "open", "model", "get", "send",
                           "join", "closing", "orphan", "dropped", "over"}]
    /\ thread \in [Streams -> {"none", "asking", "loading", "answered",
                               "broken", "making", "putting", "resulting",
                               "returning", "done"}]
    /\ item \in [Streams -> {0} \cup Items]
    /\ queue \in [Streams -> Seq(Items)]
    /\ \A s \in Streams : Len(queue[s]) <= QueueSize
    /\ hand \in [Streams -> {0} \cup Chunks]
    /\ counted \in [Streams -> 0..MaxChunks]
    /\ how \in [Streams -> {"none", "ok", "failed", "left"}]
    /\ made \in [Streams -> 0..MaxChunks]
    /\ finished \in [Streams -> BOOLEAN]
    /\ heard \in [Streams -> Seq(Chunks)]
    /\ receipt \in [Streams -> {"none", "clean", "empty", "blocked", "lost"}]
    /\ totals \in [requests : Nat, completed : Nat, errors : Nat]

Init ==
    /\ adapter \in {"chirp3hd", "cosyvoice"}
    /\ loop = Free
    /\ modelLock = Free
    /\ loads = 0
    /\ pc = [s \in Streams |-> "new"]
    /\ thread = [s \in Streams |-> "none"]
    /\ item = [s \in Streams |-> 0]
    /\ queue = [s \in Streams |-> <<>>]
    /\ hand = [s \in Streams |-> 0]
    /\ counted = [s \in Streams |-> 0]
    /\ how = [s \in Streams |-> "none"]
    /\ made = [s \in Streams |-> 0]
    /\ finished = [s \in Streams |-> FALSE]
    /\ heard = [s \in Streams |-> <<>>]
    /\ receipt = [s \in Streams |-> "none"]
    /\ totals = [requests |-> 0, completed |-> 0, errors |-> 0]

LoopFree == loop = Free

Goto(s, where) == pc' = [pc EXCEPT ![s] = where]

-----------------------------------------------------------------------------
(* The end of a body: the finally clause of pcm_chunks.                    *)

\* What the receipt of a stream says: its blockers, or none.
Verdict(s, outcome) ==
    IF outcome = "failed" THEN "blocked"
    ELSE IF counted[s] = 0 THEN "empty" ELSE "clean"

\* Mutant of Finalise: the totals are updated before the receipt is written.
FinaliseTotalsFirst(s, outcome, next) ==
    LET verdict == Verdict(s, outcome)
    IN  /\ Goto(s, next)
        /\ how' = [how EXCEPT ![s] = outcome]
        /\ receipt' \in {[receipt EXCEPT ![s] = v] : v \in {verdict, "lost"}}
        /\ totals' = IF verdict = "clean"
                     THEN [totals EXCEPT !.completed = @ + 1]
                     ELSE [totals EXCEPT !.errors = @ + 1]

\* The receipt is appended, then the totals are updated.  When the append
\* raises, the totals are not, and a response under way fails.
Finalise(s, outcome, next) ==
    LET verdict == Verdict(s, outcome)
    IN  /\ Goto(s, next)
        /\ \/ /\ how' = [how EXCEPT ![s] = outcome]
              /\ receipt' = [receipt EXCEPT ![s] = verdict]
              /\ totals' = IF verdict = "clean"
                           THEN [totals EXCEPT !.completed = @ + 1]
                           ELSE [totals EXCEPT !.errors = @ + 1]
           \/ /\ how' = [how EXCEPT ![s] = IF outcome = "left" THEN "left"
                                           ELSE "failed"]
              /\ receipt' = [receipt EXCEPT ![s] = "lost"]
              /\ UNCHANGED totals

-----------------------------------------------------------------------------
(* The request, on the event loop.                                         *)

\* No bearer token, no JSON object, no text or one too long, a bad voice,
\* a foreign format or rate, or an adapter that cannot be built.
Refuse(s) ==
    /\ LoopFree
    /\ pc[s] = "new"
    /\ Goto(s, "refused")
    /\ UNCHANGED <<loopVars, modelVars, threadVars, how, queue, hand, counted,
                   heard, bookVars>>

Accept(s) ==
    /\ LoopFree
    /\ pc[s] = "new"
    /\ Goto(s, "open")
    /\ totals' = [totals EXCEPT !.requests = @ + 1]
    /\ UNCHANGED <<loopVars, modelVars, threadVars, how, queue, hand, counted,
                   heard, receipt>>

\* The server asks for the first chunk; CosyVoice sends for the model.
StartBody(s) ==
    /\ LoopFree
    /\ pc[s] = "open"
    /\ Goto(s, "model")
    /\ thread' = IF adapter = "cosyvoice"
                 THEN [thread EXCEPT ![s] = "asking"] ELSE thread
    /\ UNCHANGED <<loopVars, modelVars, item, made, finished, how, queue, hand,
                   counted, heard, bookVars>>

\* CosyVoice serves its own voice only, and says so inside the stream.
WrongVoice(s) ==
    /\ LoopFree
    /\ pc[s] = "open" /\ adapter = "cosyvoice"
    /\ Finalise(s, "failed", "over")
    /\ UNCHANGED <<loopVars, modelVars, threadVars, queue, hand, counted,
                   heard>>

-----------------------------------------------------------------------------
(* CosyVoice: the model, under its lock, in a thread of the pool.          *)

\* Mutant of AskModel: _get_model without its lock.
AskModelUnlocked(s) ==
    /\ thread[s] = "asking"
    /\ thread' = [thread EXCEPT ![s] = IF loads > 0 THEN "answered"
                                       ELSE "loading"]
    /\ UNCHANGED <<loopVars, modelVars, item, made, finished, streamVars,
                   queue, hand, counted, heard, bookVars>>

AskModel(s) ==
    /\ thread[s] = "asking"
    /\ modelLock = Free
    /\ IF loads > 0
       THEN /\ thread' = [thread EXCEPT ![s] = "answered"]
            /\ UNCHANGED modelLock
       ELSE /\ thread' = [thread EXCEPT ![s] = "loading"]
            /\ modelLock' = s
    /\ UNCHANGED <<loopVars, loads, item, made, finished, streamVars, queue,
                   hand, counted, heard, bookVars>>

LoadEnds(s) ==
    /\ thread[s] = "loading"
    /\ modelLock' = Free
    /\ \/ /\ thread' = [thread EXCEPT ![s] = "answered"]
          /\ loads' = loads + 1
       \/ /\ thread' = [thread EXCEPT ![s] = "broken"]
          /\ UNCHANGED loads
    /\ UNCHANGED <<loopVars, item, made, finished, streamVars, queue, hand,
                   counted, heard, bookVars>>

ModelReady(s) ==
    /\ LoopFree
    /\ pc[s] = "model" /\ thread[s] = "answered"
    /\ Goto(s, "get")
    /\ thread' = [thread EXCEPT ![s] = "making"]
    /\ UNCHANGED <<loopVars, modelVars, item, made, finished, how, queue, hand,
                   counted, heard, bookVars>>

ModelBroken(s) ==
    /\ LoopFree
    /\ pc[s] = "model" /\ thread[s] = "broken"
    /\ Finalise(s, "failed", "over")
    /\ UNCHANGED <<loopVars, modelVars, threadVars, queue, hand, counted,
                   heard>>

-----------------------------------------------------------------------------
(* CosyVoice: the synthesis thread, produce.                               *)

\* A chunk without samples is not handed over, which leaves no trace.
MakeChunk(s) ==
    /\ thread[s] = "making"
    /\ made[s] < Longest[s]
    /\ thread' = [thread EXCEPT ![s] = "putting"]
    /\ made' = [made EXCEPT ![s] = @ + 1]
    /\ item' = [item EXCEPT ![s] = made[s] + 1]
    /\ UNCHANGED <<loopVars, modelVars, finished, streamVars, queue, hand,
                   counted, heard, bookVars>>

MakeEnd(s) ==
    /\ thread[s] = "making"
    /\ thread' = [thread EXCEPT ![s] = "putting"]
    /\ item' = [item EXCEPT ![s] = End]
    /\ finished' = [finished EXCEPT ![s] = TRUE]
    /\ UNCHANGED <<loopVars, modelVars, made, streamVars, queue, hand, counted,
                   heard, bookVars>>

\* Mutant of MakeError: an exception ends the thread and is told nobody.
MakeErrorSilent(s) ==
    /\ thread[s] = "making"
    /\ thread' = [thread EXCEPT ![s] = "done"]
    /\ UNCHANGED <<loopVars, modelVars, item, made, finished, streamVars,
                   queue, hand, counted, heard, bookVars>>

\* The synthesis raises, and the exception goes through the queue.
MakeError(s) ==
    /\ thread[s] = "making"
    /\ thread' = [thread EXCEPT ![s] = "putting"]
    /\ item' = [item EXCEPT ![s] = Raised]
    /\ UNCHANGED <<loopVars, modelVars, made, finished, streamVars, queue,
                   hand, counted, heard, bookVars>>

\* Mutant of Put: a full queue drops its oldest chunk.
PutDropping(s) ==
    /\ LoopFree
    /\ thread[s] = "putting"
    /\ queue' = [queue EXCEPT ![s] = IF Len(@) < QueueSize
                                     THEN Append(@, item[s])
                                     ELSE Append(Tail(@), item[s])]
    /\ thread' = [thread EXCEPT ![s] = "resulting"]
    /\ UNCHANGED <<loopVars, modelVars, item, made, finished, streamVars, hand,
                   counted, heard, bookVars>>

\* Mutant of Put: an asyncio.Queue without maxsize.
PutUnbounded(s) ==
    /\ LoopFree
    /\ thread[s] = "putting"
    /\ queue' = [queue EXCEPT ![s] = Append(@, item[s])]
    /\ thread' = [thread EXCEPT ![s] = "resulting"]
    /\ UNCHANGED <<loopVars, modelVars, item, made, finished, streamVars, hand,
                   counted, heard, bookVars>>

\* The loop runs queue.put for the thread, as soon as there is room.
Put(s) ==
    /\ LoopFree
    /\ thread[s] = "putting"
    /\ Len(queue[s]) < QueueSize
    /\ queue' = [queue EXCEPT ![s] = Append(@, item[s])]
    /\ thread' = [thread EXCEPT ![s] = "resulting"]
    /\ UNCHANGED <<loopVars, modelVars, item, made, finished, streamVars, hand,
                   counted, heard, bookVars>>

\* The put's task is done, and the loop's next turn gives the future that the
\* thread waits for its result.  A consumer that the put has woken runs before
\* that.
Answer(s) ==
    /\ LoopFree
    /\ thread[s] = "resulting"
    /\ ~(pc[s] = "get" /\ queue[s] # <<>>)
    /\ thread' = [thread EXCEPT ![s] = "returning"]
    /\ UNCHANGED <<loopVars, modelVars, item, made, finished, streamVars,
                   queue, hand, counted, heard, bookVars>>

\* The thread comes back out of result(), whatever the loop is at: on to the
\* next chunk, or to the end of produce behind its last item.
Return(s) ==
    /\ thread[s] = "returning"
    /\ thread' = [thread EXCEPT ![s] = IF item[s] \in Chunks THEN "making"
                                       ELSE "done"]
    /\ UNCHANGED <<loopVars, modelVars, item, made, finished, streamVars,
                   queue, hand, counted, heard, bookVars>>

-----------------------------------------------------------------------------
(* The stream, on the event loop.                                          *)

\* The chunk is measured, and handed to the server.
Yield(s, chunk) ==
    /\ Goto(s, "send")
    /\ hand' = [hand EXCEPT ![s] = chunk]
    /\ counted' = [counted EXCEPT ![s] = @ + 1]

\* worker.join in the finally clause of synthesize_stream.
Join(s, outcome) ==
    /\ Goto(s, "join")
    /\ how' = [how EXCEPT ![s] = outcome]
    /\ loop' = s

TakeChunk(s) ==
    /\ LoopFree
    /\ pc[s] = "get" /\ queue[s] # <<>>
    /\ Head(queue[s]) \in Chunks
    /\ Yield(s, Head(queue[s]))
    /\ queue' = [queue EXCEPT ![s] = Tail(@)]
    /\ UNCHANGED <<loopVars, modelVars, threadVars, how, heard, bookVars>>

TakeLast(s) ==
    /\ LoopFree
    /\ pc[s] = "get" /\ queue[s] # <<>>
    /\ Head(queue[s]) \notin Chunks
    /\ Join(s, IF Head(queue[s]) = End THEN "ok" ELSE "failed")
    /\ queue' = [queue EXCEPT ![s] = Tail(@)]
    /\ UNCHANGED <<adapter, modelVars, threadVars, hand, counted, heard,
                   bookVars>>

Sent(s) ==
    /\ LoopFree
    /\ pc[s] = "send"
    /\ Goto(s, "get")
    /\ heard' = [heard EXCEPT ![s] = Append(@, hand[s])]
    /\ UNCHANGED <<loopVars, modelVars, threadVars, how, queue, hand, counted,
                   bookVars>>

\* The thread is done or the second is over: the loop goes on, and the
\* stream unwinds up to pcm_chunks, unless that one ended before it.
JoinReturns(s) ==
    /\ loop = s
    /\ loop' = Free
    /\ IF receipt[s] = "none" THEN Finalise(s, how[s], "over")
       ELSE /\ Goto(s, "over")
            /\ UNCHANGED <<how, bookVars>>
    /\ UNCHANGED <<adapter, modelVars, threadVars, queue, hand, counted, heard>>

-----------------------------------------------------------------------------
(* Chirp: the remote stream.                                               *)

ChirpOpens(s) ==
    /\ LoopFree
    /\ adapter = "chirp3hd" /\ pc[s] = "model"
    /\ Goto(s, "get")
    /\ UNCHANGED <<loopVars, modelVars, threadVars, how, queue, hand, counted,
                   heard, bookVars>>

ChirpChunk(s) ==
    /\ LoopFree
    /\ adapter = "chirp3hd" /\ pc[s] = "get"
    /\ ~finished[s] /\ made[s] < Longest[s]
    /\ made' = [made EXCEPT ![s] = @ + 1]
    /\ Yield(s, made[s] + 1)
    /\ UNCHANGED <<loopVars, modelVars, thread, item, finished, how, queue,
                   heard, bookVars>>

\* The remote service closes its stream, whatever the loop is at.
ChirpCloses(s) ==
    /\ adapter = "chirp3hd" /\ pc[s] \in {"get", "send"} /\ ~finished[s]
    /\ finished' = [finished EXCEPT ![s] = TRUE]
    /\ UNCHANGED <<loopVars, modelVars, thread, item, made, streamVars, queue,
                   hand, counted, heard, bookVars>>

ChirpEnds(s) ==
    /\ LoopFree
    /\ adapter = "chirp3hd" /\ pc[s] = "get" /\ finished[s]
    /\ Finalise(s, "ok", "over")
    /\ UNCHANGED <<loopVars, modelVars, threadVars, queue, hand, counted,
                   heard>>

ChirpFails(s) ==
    /\ LoopFree
    /\ adapter = "chirp3hd" /\ pc[s] \in {"model", "get"}
    /\ Finalise(s, "failed", "over")
    /\ UNCHANGED <<loopVars, modelVars, threadVars, queue, hand, counted,
                   heard>>

-----------------------------------------------------------------------------
(* The client leaves: the server cancels the response.                     *)

\* Before the first chunk was asked for: a server may drop the body without
\* entering it, or start it all the same.
LeaveEarly(s) ==
    /\ LoopFree
    /\ pc[s] = "open"
    /\ Goto(s, "dropped")
    /\ how' = [how EXCEPT ![s] = "left"]
    /\ UNCHANGED <<loopVars, modelVars, threadVars, queue, hand, counted,
                   heard, bookVars>>

\* While the stream awaits: the cancellation is raised in it.  Without a
\* thread of its own it unwinds at once.
LeaveAwaiting(s) ==
    /\ LoopFree
    /\ pc[s] = "model" \/ (pc[s] = "get" /\ adapter = "chirp3hd")
    /\ Finalise(s, "left", "over")
    /\ UNCHANGED <<loopVars, modelVars, threadVars, queue, hand, counted,
                   heard>>

LeaveGetting(s) ==
    /\ LoopFree
    /\ pc[s] = "get" /\ adapter = "cosyvoice"
    /\ Join(s, "left")
    /\ UNCHANGED <<adapter, modelVars, threadVars, queue, hand, counted, heard,
                   bookVars>>

\* While a chunk is sent: the body is left at its yield, and closed by the
\* collector of asynchronous generators, the outer one first.
LeaveSending(s) ==
    /\ LoopFree
    /\ pc[s] = "send"
    /\ Goto(s, "closing")
    /\ how' = [how EXCEPT ![s] = "left"]
    /\ UNCHANGED <<loopVars, modelVars, threadVars, queue, hand, counted,
                   heard, bookVars>>

CloseBody(s) ==
    /\ LoopFree
    /\ pc[s] = "closing"
    /\ Finalise(s, "left", IF adapter = "cosyvoice" THEN "orphan" ELSE "over")
    /\ UNCHANGED <<loopVars, modelVars, threadVars, queue, hand, counted,
                   heard>>

CloseAdapter(s) ==
    /\ LoopFree
    /\ pc[s] = "orphan"
    /\ Join(s, "left")
    /\ UNCHANGED <<adapter, modelVars, threadVars, queue, hand, counted, heard,
                   bookVars>>

-----------------------------------------------------------------------------
Handler(s) == Refuse(s) \/ Accept(s) \/ StartBody(s) \/ WrongVoice(s)

PoolStep(s) == AskModel(s) \/ LoadEnds(s)

Making(s) == MakeChunk(s) \/ MakeEnd(s) \/ MakeError(s)

Synthesis(s) == Making(s) \/ Return(s)

LoopStep(s) ==
    \/ ModelReady(s) \/ ModelBroken(s)
    \/ Put(s) \/ Answer(s)
    \/ TakeChunk(s) \/ TakeLast(s) \/ JoinReturns(s)
    \/ CloseBody(s) \/ CloseAdapter(s)

Chirp(s) ==
    ChirpOpens(s) \/ ChirpChunk(s) \/ ChirpCloses(s) \/ ChirpEnds(s)
        \/ ChirpFails(s)

Leave(s) ==
    LeaveEarly(s) \/ LeaveAwaiting(s) \/ LeaveGetting(s) \/ LeaveSending(s)

Next ==
    \E s \in Streams :
        \/ Handler(s) \/ PoolStep(s) \/ Synthesis(s) \/ LoopStep(s)
        \/ Chirp(s) \/ Sent(s) \/ Leave(s)

\* The loop and the threads run what is ready, a synthesis and a remote
\* stream come to an end, and a client takes what it is sent or leaves.
Fairness ==
    \A s \in Streams :
        /\ WF_vars(PoolStep(s)) /\ WF_vars(Synthesis(s))
        /\ WF_vars(LoopStep(s)) /\ WF_vars(Chirp(s))
        /\ WF_vars(Sent(s) \/ LeaveSending(s))

Spec == Init /\ [][Next]_vars /\ Fairness

-----------------------------------------------------------------------------
(* Properties                                                              *)

Counted(verdicts) == Cardinality({s \in Streams : receipt[s] \in verdicts})

\* A receipt without a blocker says that the client heard all that the model
\* made, and the model had finished, or that the client left (service.py,
\* pcm_chunks: a client that leaves in the middle counts as completed).  It
\* counts no chunk that was not made, and one at most that was not sent, and
\* the totals of the metrics endpoint are those of the receipts.
ReceiptsHonest ==
    /\ \A s \in Streams :
        /\ receipt[s] = "clean" =>
             \/ how[s] = "left"
             \/ how[s] = "ok" /\ finished[s] /\ Len(heard[s]) = made[s]
        /\ receipt[s] = "empty" => heard[s] = <<>>
        /\ receipt[s] # "none" =>
             counted[s] - Len(heard[s]) \in (IF how[s] = "left" THEN {0, 1}
                                            ELSE {0})
    /\ totals.completed = Counted({"clean"})
    /\ totals.errors = Counted({"empty", "blocked"})

\* What a synthesis thread may still be about (cosyvoice.py, the bounded queue
\* and the join of synthesize_stream, whose timeout leaves the thread behind).
\* The model is never further ahead of what the server was given than the
\* queue holds and one chunk in the thread's hand, also when the client has
\* left and nobody reads the queue; and behind a stream that came to an end
\* of its own nothing is left to make or to take, whether the thread returned
\* before the join, during it, or was given up by it.
ThreadBounded ==
    \A s \in Streams :
        /\ made[s] <= counted[s] + QueueSize + 1
        /\ pc[s] \in {"join", "over"} /\ how[s] # "left" =>
             thread[s] \notin {"making", "putting"} /\ queue[s] = <<>>

Phase(s) ==
    IF pc[s] \in {"new", "refused", "open"} THEN "idle"
    ELSE IF pc[s] = "dropped" \/ how[s] = "left" THEN "left"
    ELSE IF pc[s] # "over" THEN "speaking"
    ELSE IF how[s] = "ok" THEN "complete" ELSE "failed"

Promised == INSTANCE SpeechStream
    WITH phase <- [s \in Streams |-> Phase(s)]

\* Every synthesis behaves as the seam promises: its chunks in order, none
\* lost or twice, and complete only when all was heard.
ImplementsStream == Promised!StreamSpec

\* A body that was started ends and is accounted for, whoever else joins on
\* the loop meanwhile, and the synthesis thread ends unless the client left:
\* then it may wait for ever for room in a queue that nobody reads.
SynthesisEnds ==
    \A s \in Streams :
        /\ pc[s] = "model" ~> pc[s] = "over" /\ receipt[s] # "none"
        /\ thread[s] = "making" ~> thread[s] = "done" \/ how[s] = "left"
=============================================================================
