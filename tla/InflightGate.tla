---------------------------- MODULE InflightGate ----------------------------
(***************************************************************************)
(* The admission gate of the serve proxy: _InflightGate and _InflightLease *)
(* of hydralisk/serve/proxy.py, over the asyncio.Semaphore of the Python   *)
(* 3.12 the project requires.  A request asks for a lease; it gets one, is *)
(* refused with HTTP 429, or waits, in FIFO order and never longer than    *)
(* the queue timeout.  A release hands the permit to the oldest waiter,    *)
(* which counts itself in only when its task runs again; between the two   *)
(* the permit is in nobody's hands, and that window is where a gate of     *)
(* this kind loses permits.                                                *)
(***************************************************************************)
EXTENDS Integers, Sequences, FiniteSets

CONSTANTS
    Requests,  \* the requests that reach the gate, each once
    Limits     \* the limits a lane may be configured with; 0 stands for None

ASSUME RequestsAssumption == IsFiniteSet(Requests)
ASSUME LimitsAssumption == Limits \subseteq Nat

VARIABLES
    limit,          \* gate.limit, from HYDRALISK_MAX_INFLIGHT_REQUESTS
    queueing,       \* whether gate.queue_timeout_seconds is positive
    value,          \* the semaphore's counter of free permits
    waiters,        \* requests parked in the semaphore, oldest first
    granted,        \* parked requests given a permit whose task has not run yet
    lease,          \* each request's lease: none, held, released, or refused
    current,        \* gate.current, what the metrics publish
    busyRejections  \* gate.busy_rejections_total

settings == <<limit, queueing>>
gateVars == <<limit, queueing, value, waiters, granted, lease, current, busyRejections>>

Holders == {r \in Requests : lease[r] = "held"}

Parked(r) == r \in granted \/ \E i \in 1..Len(waiters) : waiters[i] = r

GateTypeOK ==
    /\ limit \in Limits
    /\ queueing \in BOOLEAN
    /\ value \in Nat
    /\ waiters \in Seq(Requests)
    /\ granted \in SUBSET Requests
    /\ lease \in [Requests -> {"none", "held", "released", "refused"}]
    /\ current \in Nat
    /\ busyRejections \in Nat

GateInit ==
    /\ limit \in Limits
    /\ queueing \in BOOLEAN
    /\ value = limit
    /\ waiters = <<>>
    /\ granted = {}
    /\ lease = [r \in Requests |-> "none"]
    /\ current = 0
    /\ busyRejections = 0

-----------------------------------------------------------------------------
(* asyncio.Semaphore.                                                      *)

\* A newcomer must queue behind anyone parked, even when a permit is free.
Locked == value = 0 \/ waiters # <<>> \/ granted # {}

LesserOf(m, n) == IF m <= n THEN m ELSE n

\* Mutant of PassOn: a leaving task passes nothing on.
PassNothing(q, v, w) == value' = v /\ waiters' = q /\ granted' = w

\* Hand up to v permits to the oldest of q; w had permits before.  The task
\* that leaves the queue, granted or timed out, does this with what is left.
PassOn(q, v, w) ==
    LET k == LesserOf(v, Len(q))
    IN  /\ value' = v - k
        /\ waiters' = [i \in 1..(Len(q) - k) |-> q[i + k]]
        /\ granted' = w \cup {q[i] : i \in 1..k}

\* Mutant of WakeOne: the youngest waiter is woken.
WakeYoungest ==
    IF waiters = <<>>
    THEN /\ value' = value + 1
         /\ UNCHANGED <<waiters, granted>>
    ELSE /\ granted' = granted \cup {waiters[Len(waiters)]}
         /\ waiters' = SubSeq(waiters, 1, Len(waiters) - 1)
         /\ UNCHANGED value

\* release() alone wakes one waiter, the oldest.
WakeOne ==
    IF waiters = <<>>
    THEN /\ value' = value + 1
         /\ UNCHANGED <<waiters, granted>>
    ELSE /\ granted' = granted \cup {Head(waiters)}
         /\ waiters' = Tail(waiters)
         /\ UNCHANGED value

Without(q, i) == [j \in 1..(Len(q) - 1) |-> IF j < i THEN q[j] ELSE q[j + 1]]

-----------------------------------------------------------------------------
(* _InflightGate.acquire and _InflightLease.release.                       *)

CountIn(r) ==
    /\ current' = current + 1
    /\ lease' = [lease EXCEPT ![r] = "held"]
    /\ UNCHANGED <<busyRejections, settings>>

Saturated(r) ==
    /\ busyRejections' = busyRejections + 1
    /\ lease' = [lease EXCEPT ![r] = "refused"]
    /\ UNCHANGED <<current, settings>>

Newcomer(r) == lease[r] = "none" /\ ~Parked(r)

\* A permit is free and nobody is ahead (or there is no limit): the awaits of
\* acquire() do not suspend, so the whole call is one step.
AcquireNow(r) ==
    /\ Newcomer(r)
    /\ IF limit = 0
       THEN UNCHANGED value
       ELSE ~Locked /\ value' = value - 1
    /\ CountIn(r)
    /\ UNCHANGED <<waiters, granted>>

\* Mutant of RefuseBusy: off by one, the last permit is never lent.
RefuseOneEarly(r) ==
    /\ Newcomer(r)
    /\ limit # 0 /\ (Locked \/ value = 1) /\ ~queueing
    /\ Saturated(r)
    /\ UNCHANGED <<value, waiters, granted>>

\* Saturated and no queue: fail closed at once.
RefuseBusy(r) ==
    /\ Newcomer(r)
    /\ limit # 0 /\ Locked /\ ~queueing
    /\ Saturated(r)
    /\ UNCHANGED <<value, waiters, granted>>

\* Saturated with a queue timeout: park in the semaphore.
JoinQueue(r) ==
    /\ Newcomer(r)
    /\ limit # 0 /\ Locked /\ queueing
    /\ waiters' = Append(waiters, r)
    /\ UNCHANGED <<value, granted, lease, current, busyRejections, settings>>

\* The woken task runs again: it leaves the queue and counts itself in.
Resume(r) ==
    /\ r \in granted
    /\ PassOn(waiters, value, granted \ {r})
    /\ CountIn(r)

\* Mutant of TimeoutParked: wait_for is given no timeout.
NoTimer(r) == FALSE /\ Saturated(r)

\* wait_for's timer fires first: the wait is cancelled and answered with 429.
TimeoutParked(r) ==
    \E i \in 1..Len(waiters) :
        /\ waiters[i] = r
        /\ PassOn(Without(waiters, i), value, granted)
        /\ Saturated(r)

\* The timer fires after the grant and before the task runs: the semaphore
\* takes the permit back and passes it on.
TimeoutGranted(r) ==
    /\ r \in granted
    /\ PassOn(waiters, value + 1, granted \ {r})
    /\ Saturated(r)

\* Mutant of ReleaseLease: a lease without the _released flag.
ReleaseEachTime(r) ==
    /\ lease[r] \in {"held", "released"}
    /\ lease' = [lease EXCEPT ![r] = "released"]
    /\ current' = current - 1
    /\ IF limit = 0 THEN UNCHANGED <<value, waiters, granted>> ELSE WakeOne
    /\ UNCHANGED <<busyRejections, settings>>

\* release() calls past the first do nothing.
ReleaseLease(r) ==
    \/ /\ lease[r] = "held"
       /\ lease' = [lease EXCEPT ![r] = "released"]
       /\ current' = IF current = 0 THEN 0 ELSE current - 1
       /\ IF limit = 0 THEN UNCHANGED <<value, waiters, granted>> ELSE WakeOne
       /\ UNCHANGED <<busyRejections, settings>>
    \/ /\ lease[r] = "released"
       /\ UNCHANGED gateVars

GateNext ==
    \E r \in Requests :
        \/ AcquireNow(r)
        \/ RefuseBusy(r)
        \/ JoinQueue(r)
        \/ Resume(r)
        \/ TimeoutParked(r)
        \/ TimeoutGranted(r)
        \/ ReleaseLease(r)

GateSafety == GateInit /\ [][GateNext]_gateVars

\* The event loop runs a woken task, and fires a due timer.
GateFairness ==
    \A r \in Requests :
        /\ WF_gateVars(Resume(r))
        /\ WF_gateVars(TimeoutParked(r))

GateSpec == GateSafety /\ GateFairness

-----------------------------------------------------------------------------
(* What the gate promises.                                                 *)

\* Every permit is accounted for: it is free, on its way to one woken waiter,
\* or behind one unreleased lease, through any race of release, timeout and
\* resumption; and the published count is the number of unreleased leases.
SlotConservation ==
    /\ limit # 0 => value + Cardinality(granted) + Cardinality(Holders) = limit
    /\ current = Cardinality(Holders)

\* No lost wakeup: a permit lies free while a request is parked only as long
\* as an earlier waiter has been woken and has yet to pass the permit on.
PermitNotStranded == value > 0 /\ waiters # <<>> => granted # {}

\* First come, first served: no parked request is granted a permit, and no
\* newcomer admitted past the queue, before the requests parked ahead of it.
Fifo ==
    [][/\ \A i, j \in 1..Len(waiters) :
            (i < j /\ waiters[j] \in granted') =>
                waiters[i] \in granted' \/ lease'[waiters[i]] = "refused"
       /\ \A r \in Requests :
            (Newcomer(r) /\ lease'[r] = "held" /\ limit # 0) => waiters = <<>>
      ]_gateVars

\* The gate implements the lane: at no time more leases than slots, each
\* request admitted once, and with queue timeout 0 a request is answered 429
\* only while every slot is behind an unreleased lease.
L == INSTANCE Lane WITH
        inside  <- Holders,
        refused <- {r \in Requests : lease[r] = "refused"},
        left    <- {r \in Requests : lease[r] = "released"}

ImplementsLane == L!LaneSpec

\* A request that joins the queue is admitted or refused in the end, whatever
\* the requests that hold the slots do.
WaitEnds ==
    \A r \in Requests : Parked(r) ~> lease[r] \in {"held", "refused"}
=============================================================================
