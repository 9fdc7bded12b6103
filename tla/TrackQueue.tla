----------------------------- MODULE TrackQueue -----------------------------
(***************************************************************************)
(* The two media tracks of one viewer (hydralisk/avatar/egress.py): the    *)
(* render loop pushes a video frame each tick and, while the avatar speaks,*)
(* the chunks that go with it; aiortc takes them out, a track at a time    *)
(* and no faster than the track's clock.  Nobody takes anything before the *)
(* peer is connected, and a full track drops its oldest.                   *)
(*                                                                         *)
(* Time is counted in ticks of the render loop.  Frames and chunks carry   *)
(* the tick that made them.  A reader that is due takes before the next    *)
(* tick: what lags is the queue's doing and not the network's.             *)
(***************************************************************************)
EXTENDS Naturals, Sequences

CONSTANTS
    Size,           \* the maxsize of a track's queue
    ChunksPerFrame, \* settings.audio_chunks_per_frame
    MaxTicks        \* bound: ticks of the render loop

ASSUME TrackAssumption ==
    /\ {Size, ChunksPerFrame, MaxTicks} \subseteq Nat \ {0}

Tracks == {"video", "audio"}

VARIABLES
    tick,     \* ticks of the render loop
    viewer,   \* the peer is connected: aiortc calls recv
    queue,    \* the frames or chunks of a track, by the tick that made them
    start,    \* the tick of a track's first recv, or 0
    taken,    \* how many recv has returned
    shown     \* the tick that made what the viewer has last of a track

trackVars == <<tick, viewer, queue, start, taken, shown>>

TrackTypeOK ==
    /\ tick \in 0..MaxTicks
    /\ viewer \in BOOLEAN
    /\ queue \in [Tracks -> Seq(1..MaxTicks)]
    /\ \A k \in Tracks : Len(queue[k]) <= Size
    /\ start \in [Tracks -> 0..MaxTicks]
    /\ taken \in [Tracks -> Nat]
    /\ shown \in [Tracks -> 0..MaxTicks]

TrackInit ==
    /\ tick = 0
    /\ viewer = FALSE
    /\ queue = [k \in Tracks |-> <<>>]
    /\ start = [k \in Tracks |-> 0]
    /\ taken = [k \in Tracks |-> 0]
    /\ shown = [k \in Tracks |-> 0]

PerTick(k) == IF k = "video" THEN 1 ELSE ChunksPerFrame

\* recv does not wait for its clock: the first one never does.
Due(k) ==
    /\ viewer /\ queue[k] # <<>>
    /\ start[k] = 0 \/ taken[k] < PerTick(k) * (tick - start[k] + 1)

\* Mutant of Push: a full track keeps what it has.
PushUnlessFull(q, item) == IF Len(q) < Size THEN Append(q, item) ELSE q

\* QueueMediaTrack.push: a full track loses its oldest.
Push(q, item) == IF Len(q) < Size THEN Append(q, item)
                 ELSE Append(Tail(q), item)

Pushed(q, item, n) ==
    LET from[i \in 0..n] == IF i = 0 THEN q ELSE Push(from[i - 1], item)
    IN  from[n]

\* _finish_tick: the frame, and the chunks of a frame that speaks.
Tick(speaking) ==
    /\ tick < MaxTicks
    /\ \A k \in Tracks : ~Due(k)
    /\ tick' = tick + 1
    /\ queue' = [video |-> Pushed(queue["video"], tick + 1, 1),
                 audio |-> Pushed(queue["audio"], tick + 1,
                                  IF speaking THEN ChunksPerFrame ELSE 0)]
    /\ UNCHANGED <<viewer, start, taken, shown>>

Connects ==
    /\ ~viewer
    /\ viewer' = TRUE
    /\ UNCHANGED <<tick, queue, start, taken, shown>>

\* QueueMediaTrack.recv, after its wait.
Recv(k) ==
    /\ Due(k)
    /\ shown' = [shown EXCEPT ![k] = Head(queue[k])]
    /\ queue' = [queue EXCEPT ![k] = Tail(@)]
    /\ start' = [start EXCEPT ![k] = IF @ = 0 THEN tick ELSE @]
    /\ taken' = [taken EXCEPT ![k] = @ + 1]
    /\ UNCHANGED <<tick, viewer>>

TrackNext ==
    \/ \E speaking \in BOOLEAN : Tick(speaking)
    \/ Connects
    \/ \E k \in Tracks : Recv(k)

-----------------------------------------------------------------------------
(* Properties                                                              *)

\* Once a viewer takes from a track, nothing more of it is dropped: every
\* frame is shown, one after the other, and every chunk played.  What was
\* queued before the peer connected is never caught up, so that the lips may
\* be behind the sound by as much as a full queue of frames, for good, and
\* by no more (egress.py, push and recv).
WatchedSeesAll ==
    [][/\ start["video"] # 0 /\ shown'["video"] # shown["video"] =>
            shown'["video"] = shown["video"] + 1
       /\ start["audio"] # 0 /\ tick' # tick =>
            SubSeq(queue'["audio"], 1, Len(queue["audio"])) = queue["audio"]
       /\ start["video"] # 0 /\ ~Due("video") =>
            tick - shown["video"] \in 0..Size]_trackVars
=============================================================================
