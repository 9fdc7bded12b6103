----------------------------- MODULE ServeProxy -----------------------------
(***************************************************************************)
(* The request lifecycle of hydralisk/serve/proxy.py: /v1/chat/completions *)
(* and /v1/responses (the two handlers differ in the upstream URL and the  *)
(* payload defaults only), streamed and not, over the gate of              *)
(* InflightGate, with the metrics and the run receipts.                    *)
(*                                                                         *)
(* A step is what the event loop runs between two awaits that suspend.     *)
(* The metrics lock is never held across one, so record_started and        *)
(* record_finished belong to the step that calls them.                     *)
(*                                                                         *)
(* The environment: the engine may answer anything at any time or break    *)
(* the connection; the client of a stream may leave at any time.  faults   *)
(* says which of the two failures that lose a slot may happen: a receipt   *)
(* that cannot be written, and a server that raises, or waits until it is  *)
(* cancelled, in sending the start of a response to a client that is gone. *)
(***************************************************************************)
EXTENDS InflightGate

VARIABLES
    faults,          \* of the environment: "receipt_io", "unsent_start"
    pc,              \* where each request's handler is suspended
    stream,          \* the request asked for a streamed answer
    connected,       \* its client is still there
    receipt,         \* none, clean, or with a blocker
    requestsTotal,   \* _ProxyMetrics.requests_total
    responsesTotal,  \* _ProxyMetrics.responses_total
    errorsTotal      \* _ProxyMetrics.errors_total

requestVars == <<pc, stream, connected, receipt>>
metricVars == <<requestsTotal, responsesTotal, errorsTotal>>
vars == <<gateVars, faults, requestVars, metricVars>>

PCs == {"idle", "queued", "sending", "reading", "starting", "streaming",
        "closing", "done", "abandoned", "dropped"}

ProxyTypeOK ==
    /\ GateTypeOK
    /\ faults \in SUBSET {"receipt_io", "unsent_start"}
    /\ pc \in [Requests -> PCs]
    /\ stream \in [Requests -> BOOLEAN]
    /\ connected \in [Requests -> BOOLEAN]
    /\ receipt \in [Requests -> {"none", "clean", "blocked"}]
    /\ requestsTotal \in Nat
    /\ responsesTotal \in Nat
    /\ errorsTotal \in Nat

Init ==
    /\ GateInit
    /\ faults \in SUBSET {"receipt_io", "unsent_start"}
    /\ pc = [r \in Requests |-> "idle"]
    /\ stream = [r \in Requests |-> FALSE]
    /\ connected = [r \in Requests |-> TRUE]
    /\ receipt = [r \in Requests |-> "none"]
    /\ requestsTotal = 0
    /\ responsesTotal = 0
    /\ errorsTotal = 0

-----------------------------------------------------------------------------
(* Parts of steps.                                                         *)

Goto(r, state) == pc' = [pc EXCEPT ![r] = state]

RecordStarted ==
    /\ requestsTotal' = requestsTotal + 1
    /\ UNCHANGED <<responsesTotal, errorsTotal>>

\* Mutant of RecordFinished: requests_total is kept as a gauge.
RecordFinishedGauge(n, errors) ==
    /\ requestsTotal' = requestsTotal - n
    /\ responsesTotal' = responsesTotal + n
    /\ errorsTotal' = errorsTotal + errors

\* n calls of record_finished, of which errors count as errors.
RecordFinished(n, errors) ==
    /\ responsesTotal' = responsesTotal + n
    /\ errorsTotal' = errorsTotal + errors
    /\ UNCHANGED requestsTotal

WriteReceipt(r, clean) ==
    receipt' = [receipt EXCEPT ![r] = IF clean THEN "clean" ELSE "blocked"]

WriteMayFail == "receipt_io" \in faults

-----------------------------------------------------------------------------
(* Admission.                                                              *)

\* Bearer token, readiness, body, model or policy refused: 401, 503, 400 or
\* 403 before the gate is asked.
RefuseRequest(r) ==
    /\ pc[r] = "idle"
    /\ Goto(r, "done")
    /\ UNCHANGED <<gateVars, faults, stream, connected, receipt, metricVars>>

Admit(r) ==
    /\ pc[r] = "idle"
    /\ AcquireNow(r)
    /\ \E s \in BOOLEAN : stream' = [stream EXCEPT ![r] = s]
    /\ Goto(r, "sending")
    /\ RecordStarted
    /\ UNCHANGED <<faults, connected, receipt>>

TurnAway(r) ==
    /\ pc[r] = "idle"
    /\ RefuseBusy(r)
    /\ Goto(r, "done")
    /\ UNCHANGED <<faults, stream, connected, receipt, metricVars>>

Queue(r) ==
    /\ pc[r] = "idle"
    /\ JoinQueue(r)
    /\ \E s \in BOOLEAN : stream' = [stream EXCEPT ![r] = s]
    /\ Goto(r, "queued")
    /\ UNCHANGED <<faults, connected, receipt, metricVars>>

LeaveQueue(r) ==
    /\ pc[r] = "queued"
    /\ Resume(r)
    /\ Goto(r, "sending")
    /\ RecordStarted
    /\ UNCHANGED <<faults, stream, connected, receipt>>

QueueTimeout(r) ==
    /\ pc[r] = "queued"
    /\ TimeoutParked(r) \/ TimeoutGranted(r)
    /\ Goto(r, "done")
    /\ UNCHANGED <<faults, stream, connected, receipt, metricVars>>

-----------------------------------------------------------------------------
(* The exchange with the engine.                                           *)

\* Mutant of SendFails: the except clause forgets the release.
SendFailsKeepsLease(r) ==
    /\ pc[r] \in {"sending", "reading"}
    /\ RecordFinished(1, 1)
    /\ Goto(r, "done")
    /\ UNCHANGED <<gateVars, faults, stream, connected, receipt>>

\* Mutant of SendFails: the except clause forgets the metrics.
SendFailsUncounted(r) ==
    /\ pc[r] \in {"sending", "reading"}
    /\ ReleaseLease(r)
    /\ Goto(r, "done")
    /\ UNCHANGED <<faults, stream, connected, receipt, metricVars>>

\* Mutant of SendFails: a POST without a timeout.
SendFailsStreamOnly(r) ==
    /\ pc[r] \in {"sending", "reading"} /\ stream[r]
    /\ RecordFinished(1, 1)
    /\ ReleaseLease(r)
    /\ Goto(r, "done")
    /\ UNCHANGED <<faults, stream, connected, receipt>>

\* The engine cannot be reached or breaks off, before the answer's headers
\* or while an error body is read: counted as a 502, no receipt.
SendFails(r) ==
    /\ pc[r] \in {"sending", "reading"}
    /\ RecordFinished(1, 1)
    /\ ReleaseLease(r)
    /\ Goto(r, "done")
    /\ UNCHANGED <<faults, stream, connected, receipt>>

\* A whole answer, of a status and a usage the engine chooses.  A receipt
\* that cannot be written turns it into a 502.
JsonAnswer(r) ==
    /\ pc[r] = "sending" /\ ~stream[r]
    /\ \E failed \in BOOLEAN, usage \in BOOLEAN :
        \/ /\ WriteReceipt(r, ~failed /\ usage)
           /\ RecordFinished(1, IF failed THEN 1 ELSE 0)
        \/ /\ WriteMayFail
           /\ RecordFinished(1, 1)
           /\ UNCHANGED receipt
    /\ ReleaseLease(r)
    /\ Goto(r, "done")
    /\ UNCHANGED <<faults, stream, connected>>

\* The engine answers a streamed request with status 400 or above.
StreamRefused(r) ==
    /\ pc[r] = "sending" /\ stream[r]
    /\ Goto(r, "reading")
    /\ UNCHANGED <<gateVars, faults, stream, connected, receipt, metricVars>>

\* Its body has been read.  The response is counted before the receipt is
\* written: when the write fails, the handler counts it again, as a 502, and
\* its second release() does nothing.
StreamErrorAnswer(r) ==
    /\ pc[r] = "reading"
    /\ \/ WriteReceipt(r, FALSE) /\ RecordFinished(1, 1)
       \/ WriteMayFail /\ RecordFinished(2, 2) /\ UNCHANGED receipt
    /\ ReleaseLease(r)
    /\ Goto(r, "done")
    /\ UNCHANGED <<faults, stream, connected>>

\* Mutant of StreamOpened: the slot is held for the headers only.
StreamOpenedReleases(r) ==
    /\ pc[r] = "sending" /\ stream[r]
    /\ ReleaseLease(r)
    /\ Goto(r, "starting")
    /\ UNCHANGED <<faults, stream, connected, receipt, metricVars>>

\* Headers of a stream: the handler returns a StreamingResponse.
StreamOpened(r) ==
    /\ pc[r] = "sending" /\ stream[r]
    /\ Goto(r, "starting")
    /\ UNCHANGED <<gateVars, faults, stream, connected, receipt, metricVars>>

\* The server asks the response for its first chunk, also when the client has
\* left and nothing tells it so.
StartBody(r) ==
    /\ pc[r] = "starting"
    /\ Goto(r, "streaming")
    /\ UNCHANGED <<gateVars, faults, stream, connected, receipt, metricVars>>

\* It does not come to that: sending the start of the response to a client
\* that is gone raised or was cancelled.  chunks() is never entered, and its
\* finally clause never runs.
DropBody(r) ==
    /\ pc[r] = "starting" /\ ~connected[r]
    /\ "unsent_start" \in faults
    /\ Goto(r, "dropped")
    /\ UNCHANGED <<gateVars, faults, stream, connected, receipt, metricVars>>

\* Mutant of Finalise: the release comes before the receipt.
FinaliseReleasing(r) ==
    /\ ReleaseLease(r)
    /\ Goto(r, "closing")
    /\ UNCHANGED <<faults, stream, connected, receipt, metricVars>>

\* The finally clause of chunks(), up to its first suspension: the receipt,
\* and nothing more when it cannot be written.
Finalise(r) ==
    /\ \/ \E usage \in BOOLEAN :
            WriteReceipt(r, usage) /\ Goto(r, "closing")
       \/ WriteMayFail /\ Goto(r, "abandoned") /\ UNCHANGED receipt
    /\ UNCHANGED <<gateVars, faults, stream, connected, metricVars>>

\* The engine ends the stream or breaks it off.
StreamEnds(r) == pc[r] = "streaming" /\ Finalise(r)

\* Mutant of StreamCancelled: a client that left does not end its stream.
StreamNotCancelled(r) == FALSE /\ Finalise(r)

\* The server cancels the stream of a client that has left.
StreamCancelled(r) == pc[r] = "streaming" /\ ~connected[r] /\ Finalise(r)

\* The connections to the engine are closed: the rest of the finally clause.
StreamClosed(r) ==
    /\ pc[r] = "closing"
    /\ ReleaseLease(r)
    /\ RecordFinished(1, IF receipt[r] = "clean" THEN 0 ELSE 1)
    /\ Goto(r, "done")
    /\ UNCHANGED <<faults, stream, connected, receipt>>

\* The client of a stream goes away.  Only the server's end of the stream
\* learns of it: a handler that is queued or waits for the engine goes on.
Disconnect(r) ==
    /\ connected[r] /\ stream[r]
    /\ pc[r] \in {"queued", "sending", "starting", "streaming"}
    /\ connected' = [connected EXCEPT ![r] = FALSE]
    /\ UNCHANGED <<gateVars, faults, pc, stream, receipt, metricVars>>

Next ==
    \E r \in Requests :
        \/ RefuseRequest(r) \/ Admit(r) \/ TurnAway(r) \/ Queue(r)
        \/ LeaveQueue(r) \/ QueueTimeout(r)
        \/ SendFails(r) \/ JsonAnswer(r)
        \/ StreamRefused(r) \/ StreamErrorAnswer(r)
        \/ StreamOpened(r) \/ StartBody(r) \/ DropBody(r)
        \/ StreamEnds(r) \/ StreamCancelled(r) \/ StreamClosed(r)
        \/ Disconnect(r)

\* The event loop runs what is ready, and httpx ends an unanswered POST of a
\* request that is not streamed.  Nothing bounds a stream: its httpx timeout
\* is None, so no fairness is assumed of the engine.
Fairness ==
    \A r \in Requests :
        /\ WF_vars(LeaveQueue(r)) /\ WF_vars(QueueTimeout(r))
        /\ WF_vars(~stream[r] /\ SendFails(r))
        /\ WF_vars(StartBody(r) \/ DropBody(r))
        /\ WF_vars(StreamCancelled(r)) /\ WF_vars(StreamClosed(r))

Safety == Init /\ [][Next]_vars

Spec == Safety /\ Fairness

-----------------------------------------------------------------------------
(* What the metrics publish.                                               *)

\* Mutant of Busy: the lane counts as busy only past its limit.
BusyPastLimit == limit # 0 /\ current > limit

Busy == limit # 0 /\ current >= limit

-----------------------------------------------------------------------------
(* What the proxy promises.                                                *)

\* Requests with a connection to the engine, those whose stream was left
\* without being closed included.
Upstream == {r \in Requests : pc[r] \notin {"idle", "queued", "done"}}

\* "Enforceably single-flight": the engine never has more requests of this
\* lane than the limit, from the POST to the closing of the stream, and each
\* of them is covered by an unreleased lease.
SingleFlight ==
    /\ Upstream \subseteq Holders
    /\ limit # 0 => Cardinality(Upstream) <= limit

\* Whatever the engine does, and whenever clients leave, a request that is over
\* has given its slot back, as long as receipts can be written and the server
\* starts the bodies of its responses.
SlotComesBack ==
    faults = {} => \A r \in Requests :
        pc[r] \in {"done", "abandoned", "dropped"} => lease[r] # "held"

\* Each admitted request is counted once when it starts and once when it
\* ends, so the totals differ by the requests under way, unless a receipt
\* could not be written.
MetricsBalance ==
    "receipt_io" \notin faults =>
        requestsTotal = responsesTotal + Cardinality(Upstream)

\* Without a queue, the published busy flag says what the gate will do to the
\* next request.
BusyIsHonest == (limit # 0 /\ ~queueing) => (Busy <=> Locked)

\* A stream holds its slot until its receipt is written.
ReceiptBeforeRelease ==
    [][\A r \in Requests :
        (pc[r] \in {"streaming", "closing"} /\ lease'[r] = "released") =>
            receipt'[r] # "none"]_vars

\* A request that is not streamed gives its slot back, even if the engine
\* never answers.
JsonSlotReturns ==
    \A r \in Requests :
        (lease[r] = "held" /\ ~stream[r]) ~> lease[r] = "released"

\* A client that leaves its stream frees the slot, even if the engine never
\* ends the stream: in the middle of it, and, when the server starts the body
\* all the same, before it.  Receipts have to be writable.
DisconnectFreesSlot ==
    \A r \in Requests :
        (/\ "receipt_io" \notin faults /\ ~connected[r]
         /\ \/ pc[r] = "streaming"
            \/ pc[r] = "starting" /\ "unsent_start" \notin faults)
            ~> lease[r] = "released"

\* What docs/evidence/2026-06-24-deepseek-v4-singleflight-envelope.md says of
\* streams without condition: one whose generator ran and is over has released
\* its slot.
StreamReleasesSlot ==
    \A r \in Requests :
        (stream[r] /\ pc[r] \in {"done", "abandoned"}) => lease[r] # "held"
=============================================================================
