# Hydralisk in TLA+

Hydralisk serves models from GPUs that it does not share: a proxy in front of an inference engine
(`hydralisk/serve`), a real-time avatar renderer (`hydralisk/avatar`) and a speech synthesiser
(`hydralisk/tts`), with tools that decide whether a model may be put on a machine at all
(`hydralisk/admission`, `hydralisk/evals`). These modules model the parts that run concurrently
and hold something scarce (a slot in front of the engine, a slot on the GPU, the floor in a
conversation, a model in memory), and the tools whose answers depend on files that change. TLC checks them on small instances and TLAPS proves what matters most for all.

To check: `tlc -config MCServeProxy.cfg MCServeProxy`, `tlapm ServeProxy_proofs.tla`, and so on
for each run below and each `*_proofs` module.

## Inventory

| part | state | operations | hard behaviour | what makes it correct | here |
|---|---|---|---|---|---|
| inflight gate (`serve/proxy.py`) | the semaphore, `current`, each lease's `_released` | acquire, refuse, wait, time out, release | a grant races a timeout; release twice; overtaking | no permit lost or doubled, fair queue, bounded wait | `InflightGate`, `Lane` |
| proxy requests (`serve/proxy.py`) | each handler, its lease, metrics, receipt files | two POST routes, streamed or not | engine, client or disk fail between two awaits | single-flight, slots come back, metrics and receipts agree | `ServeProxy` |
| serve configuration, read-only routes | settings | health, capabilities, models, metrics | none | the busy flag is honest | `Busy` only |
| serve receipts | one JSON file per run | write, read, normalise usage | a write that fails | public-safe, atomic | outcome only |
| avatar state machine, scheduler, audio (`avatar/state.py`, `scheduler.py`, `audio.py`) | turn, buffered chunks and rest, jitter gate | speak, end, interrupt, listen, take a frame | messages between the two halves of a tick | no stale audio, an utterance ends once and when drained | `AvatarSession`, `TurnCycle` |
| avatar session (`avatar/session.py`) | outbox, failures, stopped, task | handle_control, tick_async, stop | render failures, stops in mid-render | the same, and it stops once | `AvatarSession`, `SessionLifecycle` |
| session manager (`avatar/session.py`, `service.py`) | the table of sessions | create, evict, stop, stop_all | awaits inside eviction and stop | slots never exceeded, watched sessions kept, one summary each | `SessionLifecycle` |
| avatar routes (`avatar/service.py`) | shared renderer, control sockets | mint, offer, control, stop, delete, shutdown | two writers on a socket, two sockets on one outbox, warm-up in a thread | events told once and in order, one start at a time | `SessionLifecycle`, `ControlSocket`, `RendererWarmup` |
| render loop and watchdog (`avatar/session.py`) | failures in a row, frames counted | tick, give up, look, write | a thread beside the loop, receipts that raise | a dead loop is reported, the file closes | `RenderWatch` |
| renderers (`avatar/renderer.py`) | weights, `_started` | start, render, close, shutdown | renders that outlive a cancel | warm while anybody renders | `RendererWarmup` |
| egress (`avatar/egress.py`) | track queues, the peer | push, recv, offer, close | a full queue, a late viewer | a watched track loses nothing | `TrackQueue`, `SessionLifecycle` |
| avatar receipts | a JSONL file per session | started, event, summary | rows after the summary | started first, one summary last | rows only |
| protocol, clips, simulator, config | none | parse, index | none | pure | not modelled |
| tts seam, adapters, service (`tts/`) | queue between thread and loop, metrics, receipts | synthesize_stream | a thread waits for the loop that waits for it; clients leave | every chunk once and in order, receipts that say what happened | `SpeechStream`, `TtsService` |
| admission (`admission/`) | reports and packed deltas on disk, installed packages | preflight, probe, canary, plan, pack, patch | inputs that change between two tools, a tool that dies between two writes | decisions follow the evidence, routes are kept | `FlashPreflight`, `FableLadder`, `FableTransform`, `VendorPatches`, `ExpertRouting`, `SparseDecode` |
| evals (`evals/terminal_bench.py`) | receipts | reduce a job, a list, counts | a job that still runs | counts add up, a solved task stays so | `TerminalBench` |
| scripts, deploy, profiles | outside this repository | gcloud, systemd | | | not modelled |

How they interact: the two HTTP applications are separate processes, each one event loop. In the
proxy the handlers share the gate, the metrics and the receipt directory; the engine and the client
are the environment. In the avatar service the routes and control sockets call `handle_control` on a
session, whose render loop is a task of the same event loop; the renderer runs in a worker thread
that the loop awaits; what the loop emits goes through an outbox to the socket. Sessions share the
renderer and the receipt directory, and the manager's table. The TTS service is a third process; its
synthesis threads hand chunks to its loop. The admission and evaluation tools are commands that an
operator runs one after the other: they meet only in the files they leave.

## Modules

    Lane  <==  InflightGate  ---  ServeProxy            TurnCycle  <==  AvatarSession
      ^===============  SessionLifecycle              SpeechStream <==  TtsService

    MCAvatarParts --- RendererWarmup, ControlSocket, TrackQueue, RenderWatch
    MCAdmission   --- TerminalBench, VendorPatches, FlashPreflight, ExpertRouting,
                      SparseDecode, FableLadder, FableTransform

`<==` is a refinement that is checked, `---` EXTENDS. The two MC modules of several parts put modules
that share no state into one run: a variable `part` is chosen in the initial state, and the others
rest.

A step of a module is what the event loop runs between two awaits that really suspend. In Python
that is where interleaving happens, so an action is a stretch of a handler from one suspension to
the next and not a line. `asyncio.Lock` in the metrics is never held across a suspension,
hence never contended, and is left out.

**Lane** says what a lane of slots promises: at most `limit` inside, each admitted once, and refused
(unless the lane queues) only while full.

**InflightGate** is `_InflightGate` and `_InflightLease`. `asyncio.Semaphore` is external code,
modelled from the use made of it and from what it documents: `value` and `waiters` are its counter
and its parked futures, and `granted` are the futures that have been given a permit and whose task has
not run yet. In that window a timeout may fire (`TimeoutGranted`), and a newcomer must queue
(`Locked`). `lease` is each request's lease; `busyRejections` and `current` are the gate's counters.
`limit` and `queueing` are chosen in the initial state and stay. The limit 0 is the code's `None`.

**ServeProxy** EXTENDS InflightGate and puts a handler around each request; `pc` is where it is
suspended. `SendFails`, `JsonAnswer`, `StreamErrorAnswer`, `Finalise` and `StreamClosed` are the
paths of `_json_upstream_response`, of the `>= 400` branch, and of `chunks()`. `abandoned` is a
stream that nobody will continue. `/v1/responses` is the same handler with another URL. Two assumptions about libraries: a
generator that was never entered runs no `finally`, which is Python's rule, and closing the connection
to the engine in a cancelled task completes, because httpcore shields it. `faults` says what may go wrong
around the handlers: `receipt_io`, a receipt that cannot be written, and `unsent_start`, a server that raises
or is cancelled while it sends the start of a response to a client that has left, so that the body is
`dropped` before it is entered. A server that swallows such a send (uvicorn does) has only the first; the
body then starts for a client that is gone, and is cancelled or runs to its end.

**TurnCycle** says what a session promises about speech with neither frames nor buffers: utterances
are numbered, one is live, it ends by being replaced, cut or announced, and it is announced only
when the client has closed it and at most the chunks of the announcing frame were not played yet.

**AvatarSession** is one session. `state`, `active`, `endPending`, `utterances` and `interrupts` are
the state machine's; `chunks` and `tail` the assembler's; `gate` and `shown` the scheduler's. A
sample is the number of its utterance, so a chunk is the set of the utterances in it: that is
all the properties tell apart. `NextFrame` is `tick_async` to its await, `Rendered`,
`RenderRaised` and `GiveUp` are what follows it; control messages come in between. `stop()` from
outside cancels the loop at its next suspension and does nothing else to a session, so
`Stop` is one step here; its own awaits are in SessionLifecycle.

**SessionLifecycle** is `SessionManager` with the routes and the lifespan. `stage` and `caller` say how far a
`stop()` has come and who awaits it, `loop` is the task, `peer` the viewer, `rows` the receipt
file. A mint is one step when there is a slot, two with an eviction's `stop()` between. `Close` runs
from the end of `egress.close()` to the end of whatever its caller does without
suspending: for a mint that is `create`.

**SpeechStream** says what the seam promises of one synthesis: the caller hears the chunks that the
model makes, each once and in order, and a stream is complete only when all was heard.

**TtsService** is the service with both adapters. `pc` is where a request stands; a step of the loop
needs it free (`LoopFree`), which it is not while a stream joins its thread (`loop`). `thread` is first
the pool's thread that asks for the model, under `modelLock`, and then the synthesis thread: it makes
a chunk, asks the loop to put it (`Put`), waits until the loop says so (`Answer`), and comes back in its own
time (`Return`), so that a join may begin before the thread has returned and see it end. `Finalise`
is the `finally` clause of `pcm_chunks`, reached by an end, an exception, a client that leaves at
any await, or the collector of abandoned generators, and it may fail to write its receipt.

**RendererWarmup** is `renderer_factory`, `SharedRenderer` and the lifespan: the warm-up thread and
the event loop look for the shared renderer, make it, and start it under its lock; renders go on in
their threads when a session is stopped. **ControlSocket** is the outbox, one pump for each socket, the
replies that go past it, and `POST /control`. **TrackQueue** is `QueueMediaTrack` for both tracks,
in ticks. **RenderWatch** is the loop as the watchdog sees it: it ticks, hangs, raises, gives up, or
dies of a receipt that could not be written, while the thread tests and writes in two steps.

**FlashPreflight** sizes an artifact that is still growing (`TakeSize`), reads its head later, and classifies
the lanes with the numbers of the code. **FableLadder** is the chain of reports on the adapter, each made of the file that an earlier
tool left. **FableTransform** is what is made of the payload itself: smoke, context map, loader proof and
the writer, whose header is on disk before its deltas. **VendorPatches** are the two tools that edit
installed packages, killed between any two writes or in one. **ExpertRouting** is the remapping of
routes to a rank's shard with its reference (the check of the kernel's clamp is a function that neither calls,
and left out), **SparseDecode** the reference and the
fallback for sparse attention: numbers are left out and the bags of contributions compared.
**TerminalBench** is the receipt of a job that runs while it is read. These modules abstract a tensor
to its module and rank, a file to what the tools look for in it, and a report to its decision.

Some definitions named "Mutant of X" are plausible bugs in X that violate a property; four of them
(`EditSkipping`, `DecisionByMemory`, `LocalOfAny`, `OutputsSwapped`) violate the parts of
`ReportsHonest` and `RoutesKept` that the other two mutants leave, and can be put in by hand.

## Runs

| run | instance | shows |
|---|---|---|
| `gate` | 4 requests, limits none, 1, 2, with and without a queue | types, `SlotConservation`, `PermitNotStranded`, `Fifo`, `ImplementsLane`, `WaitEnds` |
| `proxy` | 3 requests, limit 1, every set of faults, clients of streams that leave at any time | `SingleFlight`, `SlotComesBack`, `MetricsBalance`, `BusyIsHonest`, `ReceiptBeforeRelease`, `JsonSlotReturns`, `DisconnectFreesSlot` |
| `proxy_leak` | the same, no fairness | **violated**: `StreamReleasesSlot` |
| `avatar` | 2 event ids, chunks of 2 samples, 2 chunks a frame, jitter of 3 chunks, 3 utterances | `BufferOwned`, `CountsAgree`, `ImplementsTurnCycle`, `EndDrains` |
| `avatar_late` | the same, with requests that overtake | **violated**: `LateChunkDrains` |
| `lifecycle` | 3 mints, 1 slot, starts and closes that may fail | `ReceiptShape`, `SlotsAreALane`, `WatchedKept`, `StopEnds` |
| `summary_last` | the same, nothing fails | **violated**: `SummaryLast` |
| `shutdown` | the same | **violated**: `ShutdownSummaries` |
| `tts` | 2 streams, 3 chunks of one text and 2 of the other, a queue of 1, both adapters | `ReceiptsHonest`, `ThreadBounded`, `ImplementsStream`, `SynthesisEnds` |
| `avatar_parts` | 2 mints; 2 sockets, 2 utterances, 3 messages; tracks of 4, 12 ticks; giving up after 2 renders | `RendererReady`, `OutboxKept`, `EndAfterStart`, `WatchedSeesAll`, `StallRows`, `PartsProgress` |
| `reports` | 2 tasks of 2 trials; 12 edits and a vLLM file, 2 runs or releases; 3 metadata entries, 9 sizes; 3 routes, 5 experts in shards of 2; 2 requests, 3 slots; 3 modules and a change; 2 runs of the writer | `ReportsHonest`, `RoutesKept`, `SolvedIsSolved` |
| `bench_total` | the benchmark part | **violated**: `TotalIsRunSet` |

Why these bounds. Two slots and four requests are the fewest with a free permit while two requests
are parked, the case `PassOn` exists for. In the proxy every hazard is between the request that holds
the slot, one that waits and one that comes; more slots are the gate's matter. Two samples a chunk
and messages of up to three make every rest, and messages that fill none, one or two chunks; a jitter
of three chunks is more than one frame takes, so the gate has something to do. `MaxBuffered` and
`MaxUtterances` bound only what a client says, never what the code does. Three mints are an
occupant, an evictor and the one that comes between; `MaxRows` bounds late interrupts. One slot
is the service's default and the only configuration with a test.

Two streams are the one that joins and the one that waits for the loop; a queue of one and two
chunks of a text make a put wait with the end still to come, and a third chunk (`Longest`, for one of the
streams) is the first that a queue without its bound would take too early. Two sockets share an outbox,
and two utterances and three messages make an end meet the next start. Tracks of four and twelve ticks
let a queue overflow before a viewer comes and run its course after. A loop that gives up after two
failures has a first one (with a receipt) and a last one. Five experts in shards of two leave the
last shard short, and -1 and 5 are routes to nobody. The sizes of the artifact are those at
which a lane's class changes and their neighbours. One change of image or adapter between any two
tools makes every pair of reports of different days, and `LadderIsHonest` holds for any number. A payload is
one that differs from the configuration in one module or has few of them. Tasks are symmetric.

Runs that turn deadlock checking off: a proxy whose requests are all done, a service that is
down, a synthesis that is over and a tool that has ended have nothing more to do. The gate can always repeat a release, and a session's clients can
always send.

## Fairness

Weak fairness of what the event loop runs when it is ready: a woken task (`Resume`,
`LeaveQueue`), a due timer (`TimeoutParked`, `QueueTimeout`), the next frame, a response's next chunk,
a cancelled task, a join, a close that returns. For the proxy also the end of an unanswered POST
that is not streamed, because `httpx` is given `request_timeout_seconds`; there is none for a
stream, whose timeout is `None`, and none for the engine. For a session: a render in its thread
returns or raises. Nobody has to mint, speak, leave, stop or release. A close of the egress is
assumed to return. For the TTS service: a model's load and a synthesis end, by an
exception too, a remote stream comes to an end, and a client takes what it is sent or leaves; nobody has to
leave otherwise. For the avatar's parts: the backend's warm-up returns or raises, a socket's tasks run when they
can, and the watchdog is a thread of the operating system that sleeps two seconds. The tools
have no fairness: nothing is promised but what a run says.

## Proofs

Every invariant, action property and refinement of the passing runs is also a theorem, of the same
specification (or of its part without fairness), for every value of the constants that the modules' named
assumptions allow. Each module of proofs states an inductive invariant, a lemma for each action, and the
theorems.

`InflightGate_proofs`. `IInv` adds to the types and `SlotConservation` what the queue looks like (nobody is
parked twice, who is parked has no lease) and `PermitNotStranded`; it is preserved by each action, with
lemmas about `PassOn`, `WakeOne` and `Without`. From it follow `GateTyped`, `SlotsConserved`,
`NoLostWakeup`, `GateIsFair` (in every step the queue is served in order, and nobody is admitted past it)
and `GateImplementsLane`, where each step maps to `Enter`, `Refuse`, `Leave` or a stutter. The assumptions
are that `Requests` is finite and `Limits` are naturals.

`ServeProxy_proofs`. Every step of the proxy is one of the gate or leaves it alone (`ProxyImplementsGate`),
which brings all of the gate's theorems. `LeaseInv` relates a handler's place to its lease; with it
`ProxyTyped`, `ProxySingleFlight` (the requests at the engine are among the holders, who are at most
`limit`), `ProxyBusyIsHonest` and `ProxyMetricsBalance`. `ReturnInv` adds that a handler has no lease before
it is admitted and no held one when it is over, and that without faults none is abandoned or dropped; hence
`ProxySlotComesBack`. `ReceiptInv` (a stream that closes has its receipt) gives the action property
`ProxyReceiptFirst`.

`AvatarSession_proofs`. `Inv` is the types, `TurnShape`, `BufferOwned` and `LoopShape` (a job only while
rendering, off exactly when stopped). `BufferOwned` needs the types' bound on the rest and the arithmetic of
cutting: `ChunkDivision` and `ChunkIndex` say that a push cuts whole chunks within the samples,
`OwnedSlice`, `OwnedExtension`, `PushOwned` and `FlushOwned` that cutting and padding keep the owner. It
follows that for every chunk size, frame size and jitter depth no frame is cut from audio that was replaced
or interrupted (`NoStaleAudio`). `CountInv` adds that the active utterance is not announced yet, which is
what makes the receipt's counts inductive (`AvatarCounts`). For `AvatarImplementsTurnCycle` each action has
a lemma: what is owed of an utterance is what is buffered and what the frame in the making holds, so that
taking a frame and padding the rest change nothing that TurnCycle sees, and an end is announced with at most
a frame owed.

`SessionLifecycle_proofs`. Types and `ReceiptShape` are not inductive: `Inv` adds that a session is in the
table once its mint has got that far (`TableShape`), that a stop has begun exactly when the session's flag
is up (`StopShape`), that a mint which awaits a stop is evicting and awaits no other (`EvictionShape`), and
that a receipt begins with the start and has its one summary exactly when the stop is done (`RowShape`). It
follows that there is one summary (`OneSummary`); `WatchedAreKept` says that neither an eviction nor the
reaper stops a session that is watched. In `SessionsImplementLane` those inside are the sessions in the
table that are not stopped, those that left the stopped ones: every step enters, refuses, leaves or is none
of the lane's business. The assumption is that no mint is called like one of the other callers of `stop`.

`TtsService_proofs`. `Inv` follows a chunk from the thread's hand through the queue to the client: the queue
holds, in order, the chunks that follow those counted, what the thread hands over comes next, and its last
item is the queue's last (`CountShape`, `PipeShape`); a stream that came to its proper end was heard whole
(`WholeShape`). From it `TtsTyped`, `ReceiptsAreHonest` and `ServiceKeepsThePromise`: the service implements
SpeechStream. `ThreadInv` adds that what was made is counted, in the queue or in the thread's hand
(`LeadShape`), and that a stream that ended of itself leaves an empty queue and a thread that has handed over
its last item (`RestShape`); hence `ThreadsAreBounded`. The assumptions are that `Streams` is finite, the
bounds positive, and `Free` is no stream.

`AvatarParts_proofs` is about the four parts that run side by side, on the specification that the run
checks. `WarmInv` is about the renderer's flag `_started`: it is set under the lock only, a start is under
way only while it is not set, and only the shutdown clears it, when no session is left. From this
`SessionsRenderWarm` for any number of mints, two renderers or one. `WatchInv`: a row behind the summary
leaves the thread asleep with its next look ending it, hence `WatchRowsBounded` for every number of
failures. `SocketInv`: what was emitted has its place; what was taken out of the outbox is the beginning of
it, each told on one socket or lost; what has ended is over, so that a later start is of a later utterance.
It gives `EventsAreKept` and `EndsComeAfterStarts`. `TrackInv`: what is queued and what was taken since the
viewer came are within the size and what the clock has allowed, so that a track that is watched drops
nothing more (`ViewersSeeAll`). The pushes of one frame are a recursive function of the chunks, and the
induction over them is made first-order by taking the least chunk at which a claim would fail
(`NatLessThanWellFounded`). `PartsTyped` is the types of all four.

`AdmissionReports_proofs`. Reports outlive what they were made of, and no invariant of the present state
would say anything of them. `LadderInv` says what each report of the ladder says of the source that it
keeps, and each tool hands that on (`PlanSortsMissing`; `LadderIsHonest`). `FableInv` says which run made
the file of packed deltas and which the writer's report, and that the specs of each are those of the
payload; `FlashInv` that a report is of a size that the artifact had, and decisions are monotone in the
size; `PatchInv` that edits are made in order by one run or several, and what the overlay's last words say
of them.

`Admission_proofs`. `RoutingInv`: each expert number belongs to one offset (`EveryExpertHasAnOffset`,
`OneOffsetAtMost`), and a rank that sees the remapped routes adds what the reference adds of the original
ones (`ShimIsReference`), for every number of experts, shard and route. `DecodeInv`: each new token has one
row of slots, and the fallback, which is told no positions, finds in it those the reference attends to
(`RoutesAgree`). `BenchInv`: what a receipt of the job calls solved has a trial that passed, and each
receipt's counts come from its lines (`JobLines`). The last section composes: a step of one tool leaves what
the others are about alone, a tool at rest satisfies its invariant, and the theorems `ReportsTyped`,
`ReportsAreHonest`, `RoutesAreKept` and `SolvedStaysSolved` are about the specification that the run
`reports` checks. The assumptions are that payloads are finite sets of deltas, bounds are naturals, shards,
slots and windows positive, the published payload is one of the payloads, and no task is a number.

Only model-checked: liveness (`WaitEnds`, `JsonSlotReturns`, `DisconnectFreesSlot`, `EndDrains`, `StopEnds`,
`SynthesisEnds`, `PartsProgress`), because the prover has no rules for fairness and ENABLED; and the five
violations, which are counterexamples. What a sum or a fold comes to for any number of lines is induction
over data and out of the prover's reach too. No module with a theorem uses RECURSIVE operators.

## What the violations say

1. A stream can leave its slot taken for ever (`proxy_leak`): its receipt cannot be written, and the release
   stands behind the write in the same `finally` clause. On a single-flight lane that is a permanent 429. A
   second way depends on the server: one that raises or is cancelled while it sends the start of the response
   to a client that has left never enters the body. `SlotComesBack` shows there is no third way.
2. An utterance whose last chunk is handled after its `speak_end` may never end (`avatar_late`).
3. A late interrupt writes behind the closing summary (`summary_last`); a session that was
   stopping itself when the service stopped may lose its summary (`shutdown`).
4. The total of a job with several attempts for each task counts trials, and the difference to the tasks is
   reported as tasks that were not started (`bench_total`).

Divergences from docs and comments that were met while modelling and have no run of their own; the
modules have the behaviour of the code:

- `scheduler.py:96-98` says that the jitter gate is shut at the start of an utterance; a `speak_end` in
  silence opens it, and a new utterance may begin before a frame has shut it.
- `tests/test_avatar_service.py:119-121` says that a slot nobody watches never blocks a visitor; of two
  concurrent mints the one that evicts may be refused, because the other takes the slot.
- `session.py` says that a render exception can never silently kill the loop; a receipt that
  cannot be written inside the `except` clause does. `NeverSilent` shows that the watchdog reports it.
- `renderer.py:99` says that the renderer is loaded once per service; two may be made and warmed.
  `service.py:80-81` says that a mint never blocks on the warm-up; it waits for the lock on the event loop.
- `egress.py:88` drops the oldest frame to stay realtime; a viewer who connects late stays behind by
  what was queued, for good, since nothing that is watched is dropped (`WatchedSeesAll`).
- A client that leaves a synthesis is counted as completed, and its receipt has no blocker.
- `deepseek_v4_fable.py`: the canary's markdown says "blocked" whatever the decision; a lab evaluation of a
  load that was not attempted is "rejected_runtime_unstable" without a blocker; a context map of an
  empty payload is ready; a loader proof without layers holds; whether a semantic canary can
  run is judged over the whole payload and not over the deltas that were written.
- `deepseek_v4_flash.py`: the report's recommendation is a constant, also with negative margins; the
  lane of kernel risk is given a better decision when the artifact does not fit.
- `deepseek_v4_sparse_mla_vllm_patch.py`: a write that was cut off behind the helper is later
  "already patched", and one that was cut off within it makes the next run raise.
- `terminal_bench.py`: a trial that has not finished makes its task a failed one unless another has passed,
  also when it is the only one.
- `proxy.py`: a refused stream is counted as finished before its receipt is written; if that write raises,
  the handler's `except` clause counts it again. `MetricsBalance` is about receipts that can be written.

## Not modelled

Pixels, clips, PCM values, tokens, receipt contents and HTTP bodies: no property is about them.
The stop of a server with requests in flight. What a renderer or a model does inside a call, SDP and
aiortc. Control protocol parsing, the clip catalog, the simulator, usage normalisation and the serve
smoke client: pure functions or one request after another. The audits of the clamp and of FlashMLA, which
look for text in source files once and keep nothing, and the markdown of all reports. Scripts,
deployment and profiles, whose effects are on machines outside this repository.

## Plan

Done: Lane and InflightGate, ServeProxy, TurnCycle and AvatarSession, SessionLifecycle, SpeechStream and
TtsService, the four parts of the avatar service, the tools of admission and evaluation; the proofs
above, of all that is not liveness.

1. A composition of SessionLifecycle with RenderWatch, for a mint that comes while the loop is dead, and the theorem
   that the eviction still gives its slot back.
2. The safety half of the liveness properties as theorems: that while a request is parked somebody holds a
   lease, that a thread with a full queue has a reader or a join that times out, that a loop of the avatar with
   nothing to render has ended its utterance. Each says that what must happen next can happen, without ENABLED.
