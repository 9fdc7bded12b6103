-------------------------- MODULE ServeProxy_proofs --------------------------
(***************************************************************************)
(* Proofs about ServeProxy, for any finite set of requests and any limits. *)
(* The proxy drives the gate as the gate's own specification allows, so    *)
(* everything proved of the gate holds of it; what is added is that every  *)
(* exchange with the engine is covered by a lease, and that the request    *)
(* and response totals account for the exchanges under way.                *)
(***************************************************************************)
EXTENDS ServeProxy, InflightGate_proofs

UpstreamPC == PCs \ {"idle", "queued", "done"}

LeaseInv == \A r \in Requests : pc[r] \in UpstreamPC => lease[r] = "held"

-----------------------------------------------------------------------------
(* The proxy is a client of the gate.                                      *)

LEMMA ProxyStepIsGateStep == [Next]_vars => [GateNext]_gateVars
<1> SUFFICES ASSUME [Next]_vars PROVE [GateNext]_gateVars
  OBVIOUS
<1>1. CASE UNCHANGED vars
  BY <1>1 DEF vars
<1>2. CASE Next
  <2>1. PICK r \in Requests :
          \/ RefuseRequest(r) \/ Admit(r) \/ TurnAway(r) \/ Queue(r)
          \/ LeaveQueue(r) \/ QueueTimeout(r)
          \/ SendFails(r) \/ JsonAnswer(r)
          \/ StreamRefused(r) \/ StreamErrorAnswer(r)
          \/ StreamOpened(r) \/ StartBody(r) \/ DropBody(r)
          \/ StreamEnds(r) \/ StreamCancelled(r) \/ StreamClosed(r)
          \/ Disconnect(r)
    BY <1>2 DEF Next
  <2>2. \/ AcquireNow(r) \/ RefuseBusy(r) \/ JoinQueue(r) \/ Resume(r)
        \/ TimeoutParked(r) \/ TimeoutGranted(r) \/ ReleaseLease(r)
        \/ UNCHANGED gateVars
    BY <2>1 DEF RefuseRequest, Admit, TurnAway, Queue, LeaveQueue, QueueTimeout,
       SendFails, JsonAnswer, StreamRefused, StreamErrorAnswer, StreamOpened,
       StartBody, DropBody, StreamEnds, StreamCancelled, Finalise,
       StreamClosed, Disconnect
  <2> QED
    BY <2>2 DEF GateNext
<1> QED
  BY <1>1, <1>2

\* Whatever the engine, the clients and the disk do, the proxy uses the gate
\* only as the gate's specification allows.
THEOREM ProxyImplementsGate == Safety => GateSafety
<1>1. Init => GateInit
  BY DEF Init
<1> QED
  BY <1>1, ProxyStepIsGateStep, PTL DEF Safety, GateSafety

\* So no permit is lost or duplicated while the proxy runs.
THEOREM ProxySlotsConserved == Safety => []SlotConservation
BY ProxyImplementsGate, SlotsConserved, PTL

-----------------------------------------------------------------------------
(* Types, and a lease behind every exchange with the engine.               *)

LEMMA InitTyped == Init => ProxyTypeOK /\ LeaseInv
<1> SUFFICES ASSUME Init PROVE ProxyTypeOK /\ LeaseInv
  OBVIOUS
<1>1. GateTypeOK
  BY InitInv DEF Init, IInv
<1> QED
  BY <1>1 DEF Init, ProxyTypeOK, LeaseInv, UpstreamPC, PCs

\* A release by r changes no other lease, and none but from held to released.
LEMMA ReleaseFrame ==
    ASSUME GateTypeOK, NEW r \in Requests, ReleaseLease(r)
    PROVE  \A s \in Requests \ {r} : lease'[s] = lease[s]
BY DEF ReleaseLease, gateVars, GateTypeOK

LEMMA StepTyped ==
    ASSUME ProxyTypeOK, IInv, LeaseInv, NEW r \in Requests,
           \/ RefuseRequest(r) \/ Admit(r) \/ TurnAway(r) \/ Queue(r)
           \/ LeaveQueue(r) \/ QueueTimeout(r)
           \/ SendFails(r) \/ JsonAnswer(r)
           \/ StreamRefused(r) \/ StreamErrorAnswer(r)
           \/ StreamOpened(r) \/ StartBody(r) \/ DropBody(r)
           \/ StreamEnds(r) \/ StreamCancelled(r) \/ StreamClosed(r)
           \/ Disconnect(r),
           GateTypeOK'
    PROVE  ProxyTypeOK' /\ LeaseInv'
<1> USE DEF ProxyTypeOK, LeaseInv, UpstreamPC, PCs, Goto, RecordStarted,
            RecordFinished, metricVars
<1>1. CASE RefuseRequest(r) \/ StreamRefused(r) \/ StreamOpened(r)
           \/ StartBody(r) \/ DropBody(r)
  <2>1. CASE RefuseRequest(r)
    BY <2>1 DEF RefuseRequest, gateVars
  <2>2. CASE StreamRefused(r) \/ StreamOpened(r)
    BY <2>2 DEF StreamRefused, StreamOpened, gateVars
  <2>3. CASE StartBody(r) \/ DropBody(r)
    BY <2>3 DEF StartBody, DropBody, gateVars
  <2> QED
    BY <1>1, <2>1, <2>2, <2>3
<1>2. CASE Admit(r)
  BY <1>2 DEF Admit, AcquireNow, CountIn, GateTypeOK
<1>3. CASE LeaveQueue(r)
  BY <1>3 DEF LeaveQueue, Resume, CountIn, GateTypeOK
<1>4. CASE TurnAway(r)
  BY <1>4 DEF TurnAway, RefuseBusy, Newcomer, Saturated, GateTypeOK
<1>5. CASE Queue(r)
  BY <1>5 DEF Queue, JoinQueue
<1>6. CASE QueueTimeout(r)
  BY <1>6 DEF QueueTimeout, TimeoutParked, TimeoutGranted, Saturated, GateTypeOK
<1>7. CASE SendFails(r)
  BY <1>7, ReleaseFrame DEF SendFails
<1>8. CASE JsonAnswer(r)
  <2>1. receipt' \in [Requests -> {"none", "clean", "blocked"}]
    BY <1>8 DEF JsonAnswer, WriteReceipt
  <2>2. responsesTotal' \in Nat /\ errorsTotal' \in Nat /\ requestsTotal' \in Nat
    BY <1>8 DEF JsonAnswer
  <2>3. /\ ReleaseLease(r) /\ pc' = [pc EXCEPT ![r] = "done"]
        /\ UNCHANGED <<faults, stream, connected>>
    BY <1>8 DEF JsonAnswer
  <2>4. \A s \in Requests \ {r} : lease'[s] = lease[s]
    BY <2>3, ReleaseFrame
  <2> QED
    BY <2>1, <2>2, <2>3, <2>4
<1>9. CASE StreamErrorAnswer(r)
  BY <1>9, ReleaseFrame DEF StreamErrorAnswer, WriteReceipt
<1>10. CASE StreamEnds(r) \/ StreamCancelled(r)
  <2>1. Finalise(r) /\ pc[r] = "streaming"
    BY <1>10 DEF StreamEnds, StreamCancelled
  <2> QED
    BY <2>1 DEF Finalise, WriteReceipt, gateVars
<1>11. CASE StreamClosed(r)
  BY <1>11, ReleaseFrame DEF StreamClosed
<1>12. CASE Disconnect(r)
  BY <1>12 DEF Disconnect, gateVars
<1> QED
  BY <1>1, <1>2, <1>3, <1>4, <1>5, <1>6, <1>7, <1>8, <1>9, <1>10, <1>11, <1>12

LEMMA TypedAgain ==
    ProxyTypeOK /\ LeaseInv /\ IInv /\ IInv' /\ [Next]_vars
        => ProxyTypeOK' /\ LeaseInv'
<1> SUFFICES ASSUME ProxyTypeOK, LeaseInv, IInv, IInv', [Next]_vars
             PROVE  ProxyTypeOK' /\ LeaseInv'
  OBVIOUS
<1>1. GateTypeOK'
  BY DEF IInv
<1>2. CASE UNCHANGED vars
  BY <1>1, <1>2 DEF vars, requestVars, metricVars, gateVars, ProxyTypeOK, LeaseInv
<1>3. CASE Next
  BY <1>1, <1>3, StepTyped DEF Next
<1> QED
  BY <1>2, <1>3

\* Every variable of the proxy keeps to its type.
THEOREM ProxyTyped == Safety => [](ProxyTypeOK /\ LeaseInv)
<1>1. Safety => []IInv
  BY ProxyImplementsGate, GateInvariant, PTL
<1>2. Safety => [][Next]_vars /\ Init
  BY PTL DEF Safety
<1> QED
  BY <1>1, <1>2, InitTyped, TypedAgain, PTL

\* The lane is enforceably single-flight: never more exchanges with the engine
\* than the limit, whatever leaks, fails or leaves.
THEOREM ProxySingleFlight == Safety => []SingleFlight
<1>1. IInv /\ ProxyTypeOK /\ LeaseInv => SingleFlight
  <2> SUFFICES ASSUME IInv, ProxyTypeOK, LeaseInv PROVE SingleFlight
    OBVIOUS
  <2>1. Upstream \subseteq Holders
    BY DEF Upstream, Holders, LeaseInv, UpstreamPC, ProxyTypeOK
  <2>2. Cardinality(Upstream) <= Cardinality(Holders)
    BY <2>1, Counts, FS_Subset DEF IInv
  <2>3. Cardinality(Upstream) \in Nat
    BY <2>1, Counts, FS_Subset, FS_CardinalityType DEF IInv
  <2>4. limit # 0 => Cardinality(Holders) <= limit
    BY Counts DEF IInv, SlotConservation, GateTypeOK
  <2> QED
    BY <2>1, <2>2, <2>3, <2>4, Counts DEF SingleFlight, IInv
<1>2. Safety => []IInv
  BY ProxyImplementsGate, GateInvariant, PTL
<1> QED
  BY <1>1, <1>2, ProxyTyped, PTL

\* Without a queue the published busy flag is the gate's own verdict on the
\* next request.
THEOREM ProxyBusyIsHonest == Safety => []BusyIsHonest
<1>1. IInv => BusyIsHonest
  <2> SUFFICES ASSUME IInv, limit # 0, ~queueing PROVE Busy <=> Locked
    BY DEF BusyIsHonest
  <2>1. waiters = <<>> /\ granted = {} /\ Cardinality(granted) = 0
    BY FS_EmptySet DEF IInv, ModeInv
  <2>2. value + Cardinality(Holders) = limit /\ current = Cardinality(Holders)
    BY <2>1, Counts DEF IInv, SlotConservation, GateTypeOK
  <2> QED
    BY <2>1, <2>2, Counts DEF Busy, Locked, IInv, GateTypeOK
<1>2. Safety => []IInv
  BY ProxyImplementsGate, GateInvariant, PTL
<1> QED
  BY <1>1, <1>2, PTL

-----------------------------------------------------------------------------
(* The totals.                                                             *)

LEMMA Widen ==
    ASSUME ProxyTypeOK, ProxyTypeOK', NEW r \in Requests,
           pc[r] \notin UpstreamPC, pc'[r] \in UpstreamPC,
           \A s \in Requests \ {r} : pc'[s] = pc[s]
    PROVE  Cardinality(Upstream') = Cardinality(Upstream) + 1
<1>1. Upstream' = Upstream \cup {r} /\ r \notin Upstream /\ Upstream \in SUBSET Requests
  BY DEF Upstream, UpstreamPC, PCs, ProxyTypeOK
<1> QED
  BY <1>1, RequestsAssumption, FS_Subset, FS_AddElement

LEMMA Narrow ==
    ASSUME ProxyTypeOK, ProxyTypeOK', NEW r \in Requests,
           pc[r] \in UpstreamPC, pc'[r] \notin UpstreamPC,
           \A s \in Requests \ {r} : pc'[s] = pc[s]
    PROVE  Cardinality(Upstream') = Cardinality(Upstream) - 1
<1>1. Upstream' = Upstream \ {r} /\ r \in Upstream /\ Upstream \in SUBSET Requests
  BY DEF Upstream, UpstreamPC, PCs, ProxyTypeOK
<1> QED
  BY <1>1, RequestsAssumption, FS_Subset, FS_RemoveElement

LEMMA Same ==
    ASSUME ProxyTypeOK, ProxyTypeOK', NEW r \in Requests,
           pc[r] \in UpstreamPC <=> pc'[r] \in UpstreamPC,
           \A s \in Requests \ {r} : pc'[s] = pc[s]
    PROVE  Upstream' = Upstream
BY DEF Upstream, UpstreamPC, PCs, ProxyTypeOK

LEMMA BalanceStep ==
    ASSUME ProxyTypeOK, ProxyTypeOK', MetricsBalance, [Next]_vars
    PROVE  MetricsBalance'
<1> SUFFICES ASSUME "receipt_io" \notin faults'
             PROVE  requestsTotal' = responsesTotal' + Cardinality(Upstream')
  BY DEF MetricsBalance
<1>1. CASE UNCHANGED vars
  BY <1>1 DEF vars, requestVars, metricVars, Upstream, MetricsBalance
<1>2. CASE Next
  <2>1. PICK r \in Requests :
          \/ RefuseRequest(r) \/ Admit(r) \/ TurnAway(r) \/ Queue(r)
          \/ LeaveQueue(r) \/ QueueTimeout(r)
          \/ SendFails(r) \/ JsonAnswer(r)
          \/ StreamRefused(r) \/ StreamErrorAnswer(r)
          \/ StreamOpened(r) \/ StartBody(r) \/ DropBody(r)
          \/ StreamEnds(r) \/ StreamCancelled(r) \/ StreamClosed(r)
          \/ Disconnect(r)
    BY <1>2 DEF Next
  <2>2. faults' = faults
    BY <2>1 DEF RefuseRequest, Admit, TurnAway, Queue, LeaveQueue, QueueTimeout,
       SendFails, JsonAnswer, StreamRefused, StreamErrorAnswer, StreamOpened,
       StartBody, DropBody, StreamEnds, StreamCancelled, Finalise,
       StreamClosed, Disconnect
  <2>3. requestsTotal = responsesTotal + Cardinality(Upstream) /\ ~WriteMayFail
    BY <2>2 DEF MetricsBalance, WriteMayFail
  <2>4. IsFiniteSet(Upstream) /\ Cardinality(Upstream) \in Nat
    BY RequestsAssumption, FS_Subset, FS_CardinalityType DEF Upstream
  <2>5. CASE Admit(r) \/ LeaveQueue(r)
    <3>1. /\ pc[r] \notin UpstreamPC /\ pc'[r] \in UpstreamPC
          /\ \A s \in Requests \ {r} : pc'[s] = pc[s]
          /\ requestsTotal' = requestsTotal + 1 /\ responsesTotal' = responsesTotal
      BY <2>5 DEF Admit, LeaveQueue, Goto, RecordStarted, UpstreamPC, PCs, ProxyTypeOK
    <3>2. Cardinality(Upstream') = Cardinality(Upstream) + 1
      BY <3>1, Widen
    <3> QED
      BY <2>3, <2>4, <3>1, <3>2 DEF ProxyTypeOK
  <2>6. CASE SendFails(r) \/ JsonAnswer(r) \/ StreamErrorAnswer(r) \/ StreamClosed(r)
    <3>1. /\ pc[r] \in UpstreamPC /\ pc'[r] \notin UpstreamPC
          /\ \A s \in Requests \ {r} : pc'[s] = pc[s]
      BY <2>6 DEF SendFails, JsonAnswer, StreamErrorAnswer, StreamClosed, Goto,
         UpstreamPC, PCs, ProxyTypeOK
    <3>2. requestsTotal' = requestsTotal /\ responsesTotal' = responsesTotal + 1
      BY <2>3, <2>6 DEF SendFails, JsonAnswer, StreamErrorAnswer, StreamClosed,
         RecordFinished
    <3>3. Cardinality(Upstream') = Cardinality(Upstream) - 1
      BY <3>1, Narrow
    <3> QED
      BY <2>3, <2>4, <3>2, <3>3 DEF ProxyTypeOK
  <2>7. CASE \/ RefuseRequest(r) \/ TurnAway(r) \/ Queue(r) \/ QueueTimeout(r)
             \/ StreamRefused(r) \/ StreamOpened(r) \/ StartBody(r) \/ DropBody(r)
             \/ StreamEnds(r) \/ StreamCancelled(r) \/ Disconnect(r)
    <3>1. /\ pc[r] \in UpstreamPC <=> pc'[r] \in UpstreamPC
          /\ \A s \in Requests \ {r} : pc'[s] = pc[s]
          /\ UNCHANGED metricVars
      BY <2>7 DEF RefuseRequest, TurnAway, Queue, QueueTimeout, StreamRefused,
         StreamOpened, StartBody, DropBody, StreamEnds, StreamCancelled, Finalise,
         Disconnect, Goto, UpstreamPC, PCs, ProxyTypeOK
    <3>2. Upstream' = Upstream
      BY <3>1, Same
    <3> QED
      BY <2>3, <3>1, <3>2 DEF metricVars
  <2> QED
    BY <2>1, <2>5, <2>6, <2>7
<1> QED
  BY <1>1, <1>2

\* While receipts can be written, requests counted as started are those counted
\* as finished and those under way: each is counted once at either end.
THEOREM ProxyMetricsBalance == Safety => []MetricsBalance
<1>1. Init => MetricsBalance
  <2> SUFFICES ASSUME Init PROVE MetricsBalance
    OBVIOUS
  <2>1. Upstream = {}
    BY DEF Init, Upstream
  <2> QED
    BY <2>1, FS_EmptySet DEF Init, MetricsBalance
<1>2. MetricsBalance /\ ProxyTypeOK /\ ProxyTypeOK' /\ [Next]_vars => MetricsBalance'
  BY BalanceStep
<1>3. Safety => []ProxyTypeOK
  BY ProxyTyped, PTL
<1> QED
  BY <1>1, <1>2, <1>3, PTL DEF Safety

-----------------------------------------------------------------------------
(* Every slot comes back.                                                  *)

\* A handler that has yet to be admitted has no lease, one that is over has
\* none that is unreleased; and while nothing fails around the proxy, no
\* handler is abandoned and no body dropped.
ReturnInv ==
    \A r \in Requests :
        /\ pc[r] \in {"idle", "queued"} => lease[r] = "none"
        /\ pc[r] = "done" => lease[r] # "held"
        /\ faults = {} => pc[r] \notin {"abandoned", "dropped"}

\* The lease of a handler that releases is a released one.
LEMMA Releases ==
    ASSUME GateTypeOK, NEW r \in Requests, ReleaseLease(r)
    PROVE  lease'[r] = "released"
BY DEF ReleaseLease, gateVars, GateTypeOK

\* A step of r moves no other handler, and takes and gives no other lease.
LEMMA OneHandler ==
    ASSUME ProxyTypeOK, NEW r \in Requests,
           \/ RefuseRequest(r) \/ Admit(r) \/ TurnAway(r) \/ Queue(r)
           \/ LeaveQueue(r) \/ QueueTimeout(r)
           \/ SendFails(r) \/ JsonAnswer(r)
           \/ StreamRefused(r) \/ StreamErrorAnswer(r)
           \/ StreamOpened(r) \/ StartBody(r) \/ DropBody(r)
           \/ StreamEnds(r) \/ StreamCancelled(r) \/ StreamClosed(r)
           \/ Disconnect(r)
    PROVE  /\ faults' = faults
           /\ \A s \in Requests \ {r} :
                /\ lease'[s] = lease[s]
                /\ pc'[s] = pc[s]
<1>1. /\ faults' = faults
      /\ \A s \in Requests \ {r} : pc'[s] = pc[s]
  <2> USE DEF ProxyTypeOK, Goto
  <2>1. CASE RefuseRequest(r) \/ Admit(r) \/ TurnAway(r) \/ Queue(r)
             \/ LeaveQueue(r) \/ QueueTimeout(r)
    BY <2>1 DEF RefuseRequest, Admit, TurnAway, Queue, LeaveQueue, QueueTimeout
  <2>2. CASE SendFails(r) \/ JsonAnswer(r) \/ StreamRefused(r)
             \/ StreamErrorAnswer(r) \/ StreamOpened(r)
    BY <2>2 DEF SendFails, JsonAnswer, StreamRefused, StreamErrorAnswer,
                StreamOpened
  <2>3. CASE StartBody(r) \/ DropBody(r) \/ StreamClosed(r) \/ Disconnect(r)
    BY <2>3 DEF StartBody, DropBody, StreamClosed, Disconnect
  <2>4. CASE StreamEnds(r) \/ StreamCancelled(r)
    BY <2>4 DEF StreamEnds, StreamCancelled, Finalise
  <2> QED
    BY <2>1, <2>2, <2>3, <2>4
<1>2. \A s \in Requests \ {r} : lease'[s] = lease[s]
  <2>0. GateTypeOK
    BY DEF ProxyTypeOK
  <2>1. CASE Admit(r) \/ TurnAway(r) \/ Queue(r) \/ LeaveQueue(r) \/ QueueTimeout(r)
    BY <2>0, <2>1 DEF Admit, TurnAway, Queue, LeaveQueue, QueueTimeout, AcquireNow,
       RefuseBusy, JoinQueue, Resume, TimeoutParked, TimeoutGranted, CountIn,
       Saturated, GateTypeOK
  <2>2. CASE SendFails(r) \/ JsonAnswer(r) \/ StreamErrorAnswer(r) \/ StreamClosed(r)
    BY <2>0, <2>2, ReleaseFrame
    DEF SendFails, JsonAnswer, StreamErrorAnswer, StreamClosed
  <2>3. CASE RefuseRequest(r) \/ StreamRefused(r) \/ StreamOpened(r)
             \/ StartBody(r) \/ DropBody(r) \/ Disconnect(r)
             \/ StreamEnds(r) \/ StreamCancelled(r)
    BY <2>3 DEF RefuseRequest, StreamRefused, StreamOpened, StartBody, DropBody,
       Disconnect, StreamEnds, StreamCancelled, Finalise, gateVars
  <2> QED
    BY <2>1, <2>2, <2>3
<1> QED
  BY <1>1, <1>2

\* Where a step leaves its own handler.
LEMMA OwnReturn ==
    ASSUME ProxyTypeOK, ReturnInv, NEW r \in Requests,
           \/ RefuseRequest(r) \/ Admit(r) \/ TurnAway(r) \/ Queue(r)
           \/ LeaveQueue(r) \/ QueueTimeout(r)
           \/ SendFails(r) \/ JsonAnswer(r)
           \/ StreamRefused(r) \/ StreamErrorAnswer(r)
           \/ StreamOpened(r) \/ StartBody(r) \/ DropBody(r)
           \/ StreamEnds(r) \/ StreamCancelled(r) \/ StreamClosed(r)
           \/ Disconnect(r)
    PROVE  /\ pc'[r] \in {"idle", "queued"} => lease'[r] = "none"
           /\ pc'[r] = "done" => lease'[r] # "held"
           /\ faults = {} => pc'[r] \notin {"abandoned", "dropped"}
<1> USE DEF ProxyTypeOK, ReturnInv, Goto
<1>0. GateTypeOK
  OBVIOUS
<1>1. CASE RefuseRequest(r)
  BY <1>1 DEF RefuseRequest, gateVars
<1>2. CASE Admit(r)
  BY <1>2 DEF Admit
<1>3. CASE TurnAway(r)
  BY <1>0, <1>3 DEF TurnAway, RefuseBusy, Saturated, GateTypeOK
<1>4. CASE Queue(r)
  BY <1>4 DEF Queue, JoinQueue
<1>5. CASE LeaveQueue(r)
  BY <1>5 DEF LeaveQueue
<1>6. CASE QueueTimeout(r)
  BY <1>0, <1>6 DEF QueueTimeout, TimeoutParked, TimeoutGranted, Saturated, GateTypeOK
<1>7. CASE SendFails(r) \/ JsonAnswer(r) \/ StreamErrorAnswer(r) \/ StreamClosed(r)
  <2>1. lease'[r] = "released" /\ pc' = [pc EXCEPT ![r] = "done"]
    BY <1>0, <1>7, Releases DEF SendFails, JsonAnswer, StreamErrorAnswer, StreamClosed
  <2> QED
    BY <2>1
<1>8. CASE StreamRefused(r) \/ StreamOpened(r)
  BY <1>8 DEF StreamRefused, StreamOpened
<1>9. CASE StartBody(r) \/ DropBody(r)
  BY <1>9 DEF StartBody, DropBody
<1>10. CASE StreamEnds(r) \/ StreamCancelled(r)
  BY <1>10 DEF StreamEnds, StreamCancelled, Finalise, WriteMayFail
<1>11. CASE Disconnect(r)
  BY <1>11 DEF Disconnect, gateVars
<1> QED
  BY <1>1, <1>2, <1>3, <1>4, <1>5, <1>6, <1>7, <1>8, <1>9, <1>10, <1>11

LEMMA ReturnStep == ProxyTypeOK /\ ReturnInv /\ [Next]_vars => ReturnInv'
<1> SUFFICES ASSUME ProxyTypeOK, ReturnInv, [Next]_vars PROVE ReturnInv'
  OBVIOUS
<1>1. CASE UNCHANGED vars
  BY <1>1 DEF ReturnInv, vars, requestVars, gateVars
<1>2. CASE Next
  <2>1. PICK r \in Requests :
           \/ RefuseRequest(r) \/ Admit(r) \/ TurnAway(r) \/ Queue(r)
           \/ LeaveQueue(r) \/ QueueTimeout(r)
           \/ SendFails(r) \/ JsonAnswer(r)
           \/ StreamRefused(r) \/ StreamErrorAnswer(r)
           \/ StreamOpened(r) \/ StartBody(r) \/ DropBody(r)
           \/ StreamEnds(r) \/ StreamCancelled(r) \/ StreamClosed(r)
           \/ Disconnect(r)
    BY <1>2 DEF Next
  <2> QED
    BY <2>1, OneHandler, OwnReturn DEF ReturnInv
<1> QED
  BY <1>1, <1>2

\* While receipts can be written and bodies are started, a request that is over
\* has given its slot back, whatever the engine did and whenever clients left.
THEOREM ProxySlotComesBack == Safety => []SlotComesBack
<1>1. Init => ReturnInv
  BY DEF Init, GateInit, ReturnInv
<1>2. ReturnInv => SlotComesBack
  BY DEF ReturnInv, SlotComesBack
<1>3. Safety => [](ProxyTypeOK /\ LeaseInv)
  BY ProxyTyped
<1> QED
  BY <1>1, <1>2, <1>3, ReturnStep, PTL DEF Safety

\* A streamed request keeps its slot until its receipt has a row: only the end
\* of the finally clause releases it, and that follows the write.
ReceiptInv == \A r \in Requests : pc[r] = "closing" => receipt[r] # "none"

THEOREM ProxyReceiptFirst == Safety => ReceiptBeforeRelease
<1> DEFINE First == \A r \in Requests :
                      (pc[r] \in {"streaming", "closing"} /\ lease'[r] = "released")
                        => receipt'[r] # "none"
<1>1. Init => ReceiptInv
  BY DEF Init, ReceiptInv
<1>2. ProxyTypeOK /\ LeaseInv /\ ReceiptInv /\ [Next]_vars =>
        ReceiptInv' /\ [First]_vars
  <2> SUFFICES ASSUME ProxyTypeOK, LeaseInv, ReceiptInv, [Next]_vars
               PROVE  ReceiptInv' /\ [First]_vars
    OBVIOUS
  <2>1. CASE UNCHANGED vars
    BY <2>1 DEF vars, requestVars, ReceiptInv
  <2>2. CASE Next
    <3>1. PICK r \in Requests :
            \/ RefuseRequest(r) \/ Admit(r) \/ TurnAway(r) \/ Queue(r)
            \/ LeaveQueue(r) \/ QueueTimeout(r)
            \/ SendFails(r) \/ JsonAnswer(r)
            \/ StreamRefused(r) \/ StreamErrorAnswer(r)
            \/ StreamOpened(r) \/ StartBody(r) \/ DropBody(r)
            \/ StreamEnds(r) \/ StreamCancelled(r) \/ StreamClosed(r)
            \/ Disconnect(r)
      BY <2>2 DEF Next
    <3>2. \A s \in Requests \ {r} : lease'[s] = lease[s] /\ pc'[s] = pc[s]
      BY <3>1, OneHandler
    <3>3. \A s \in Requests \ {r} : receipt'[s] = receipt[s]
      <4> USE DEF ProxyTypeOK, WriteReceipt
      <4>1. CASE RefuseRequest(r) \/ Admit(r) \/ TurnAway(r) \/ Queue(r)
                 \/ LeaveQueue(r) \/ QueueTimeout(r) \/ SendFails(r)
        BY <4>1 DEF RefuseRequest, Admit, TurnAway, Queue, LeaveQueue,
                    QueueTimeout, SendFails
      <4>2. CASE JsonAnswer(r) \/ StreamErrorAnswer(r)
        BY <4>2 DEF JsonAnswer, StreamErrorAnswer
      <4>3. CASE StreamRefused(r) \/ StreamOpened(r) \/ StartBody(r)
                 \/ DropBody(r) \/ StreamClosed(r) \/ Disconnect(r)
        BY <4>3 DEF StreamRefused, StreamOpened, StartBody, DropBody,
                    StreamClosed, Disconnect
      <4>4. CASE StreamEnds(r) \/ StreamCancelled(r)
        BY <4>4 DEF StreamEnds, StreamCancelled, Finalise
      <4> QED
        BY <3>1, <4>1, <4>2, <4>3, <4>4
    <3>4. pc'[r] = "closing" => receipt'[r] # "none"
      <4> USE DEF ProxyTypeOK, Goto
      <4>1. CASE RefuseRequest(r) \/ Admit(r) \/ TurnAway(r) \/ Queue(r)
                 \/ LeaveQueue(r) \/ QueueTimeout(r) \/ SendFails(r)
        BY <4>1 DEF RefuseRequest, Admit, TurnAway, Queue, LeaveQueue,
                    QueueTimeout, SendFails
      <4>2. CASE JsonAnswer(r) \/ StreamErrorAnswer(r) \/ StreamRefused(r)
                 \/ StreamOpened(r) \/ StartBody(r) \/ DropBody(r)
                 \/ StreamClosed(r)
        BY <4>2 DEF JsonAnswer, StreamErrorAnswer, StreamRefused, StreamOpened,
                    StartBody, DropBody, StreamClosed
      <4>3. CASE Disconnect(r)
        BY <4>3 DEF Disconnect, ReceiptInv
      <4>4. CASE StreamEnds(r) \/ StreamCancelled(r)
        BY <4>4 DEF StreamEnds, StreamCancelled, Finalise, WriteReceipt
      <4> QED
        BY <3>1, <4>1, <4>2, <4>3, <4>4
    <3>5. ReceiptInv'
      BY <3>2, <3>3, <3>4 DEF ReceiptInv
    <3>6. \A s \in Requests : pc[s] \in {"streaming", "closing"} => lease[s] = "held"
      BY DEF LeaseInv, UpstreamPC, PCs
    <3>7. ASSUME pc[r] \in {"streaming", "closing"}, lease'[r] = "released"
          PROVE  receipt'[r] # "none"
      <4>1. CASE pc[r] = "closing" /\ StreamClosed(r)
        BY <4>1 DEF StreamClosed, ReceiptInv
      <4>2. CASE StreamEnds(r) \/ StreamCancelled(r) \/ Disconnect(r)
        <5>1. lease'[r] = "held"
          BY <3>6, <3>7, <4>2
          DEF StreamEnds, StreamCancelled, Finalise, Disconnect, gateVars
        <5> QED
          BY <3>7, <5>1
      <4>3. \/ pc[r] = "closing" /\ StreamClosed(r)
            \/ StreamEnds(r) \/ StreamCancelled(r) \/ Disconnect(r)
        BY <3>1, <3>7 DEF RefuseRequest, Admit, TurnAway, Queue, LeaveQueue,
           QueueTimeout, SendFails, JsonAnswer, StreamRefused, StreamErrorAnswer,
           StreamOpened, StartBody, DropBody, StreamClosed
      <4> QED
        BY <4>1, <4>2, <4>3
    <3>8. First
      BY <3>2, <3>6, <3>7
    <3> QED
      BY <3>5, <3>8
  <2> QED
    BY <2>1, <2>2
<1> QED
  BY <1>1, <1>2, ProxyTyped, PTL DEF Safety, ReceiptBeforeRelease
=============================================================================
