-------------------------- MODULE TtsService_proofs --------------------------
(***************************************************************************)
(* Proofs about TtsService, for every finite set of streams, every queue   *)
(* size and every bound on the chunks, with either adapter.                *)
(***************************************************************************)
EXTENDS TtsService, FiniteSetTheorems, SequenceTheorems, TLAPS

Working == {"making", "putting", "resulting", "returning", "done"}

\* One load at a time, and the first that succeeds is the last.
ModelShape == \A s \in Streams : thread[s] = "loading" => modelLock = s /\ loads = 0

\* Only a stream that joins its thread blocks the loop.
LoopShape == \A s \in Streams : loop = s => pc[s] = "join"

\* How a stream ended is known when its handler says so, and not before; a
\* receipt is written at the end.
EndShape(s) ==
    /\ pc[s] \in {"new", "refused", "open", "model", "get", "send"} =>
         how[s] = "none"
    /\ pc[s] \in {"closing", "orphan", "dropped"} => how[s] = "left"
    /\ pc[s] \in {"join", "over"} => how[s] # "none"
    /\ receipt[s] # "none" =>
         pc[s] \in {"over", "orphan"} \/ (pc[s] = "join" /\ how[s] = "left")

\* Before its first chunk a stream has made, queued, counted and sent nothing.
StartShape(s) ==
    /\ pc[s] \in {"new", "refused", "open", "model", "dropped"} =>
         /\ thread[s] \notin Working
         /\ made[s] = 0 /\ counted[s] = 0 /\ queue[s] = <<>> /\ heard[s] = <<>>
         /\ ~finished[s]
    /\ pc[s] \in {"new", "refused", "open", "dropped"} => thread[s] = "none"
    /\ adapter = "chirp3hd" => thread[s] = "none" /\ queue[s] = <<>>

\* The thread made its last item: the end of the stream, or an exception.
LastItem(s) == item[s] \in {End, Raised}

\* What the thread is about.
ThreadShape(s) ==
    /\ thread[s] \in {"putting", "resulting", "returning", "done"} =>
         item[s] \in Items
    /\ thread[s] = "done" => LastItem(s)
    /\ thread[s] = "making" => ~finished[s]
    /\ thread[s] \in {"putting", "resulting", "returning"} /\ item[s] \in Chunks =>
         ~finished[s]
    /\ thread[s] \in {"putting", "resulting", "returning", "done"} /\ item[s] = End =>
         finished[s]

\* A chunk is counted when the server gets it, and heard when it is sent.
CountShape(s) ==
    /\ how[s] # "left" =>
         counted[s] = Len(heard[s]) + (IF pc[s] = "send" THEN 1 ELSE 0)
    /\ how[s] = "left" => counted[s] - Len(heard[s]) \in {0, 1}
    /\ pc[s] = "send" => hand[s] = counted[s] /\ hand[s] \in Chunks

\* The thread's last item is in the queue, or was.
Closed(s) == thread[s] \in {"resulting", "returning", "done"} /\ LastItem(s)

\* From the thread to the client nothing is lost: the queue holds the chunks
\* that follow those counted, and what the thread hands over comes next.
PipeShape(s) ==
    pc[s] \in {"get", "send"} =>
        /\ adapter = "chirp3hd" => made[s] = counted[s]
        /\ adapter = "cosyvoice" =>
             /\ thread[s] \in Working
             /\ Closed(s) =>
                  /\ queue[s] # <<>> /\ queue[s][Len(queue[s])] = item[s]
                  /\ \A i \in 1..(Len(queue[s]) - 1) : queue[s][i] = counted[s] + i
                  /\ made[s] = counted[s] + Len(queue[s]) - 1
             /\ ~Closed(s) =>
                  /\ \A i \in 1..Len(queue[s]) : queue[s][i] = counted[s] + i
                  /\ LET taken == counted[s] + Len(queue[s])
                     IN  IF thread[s] = "putting" /\ ~LastItem(s)
                         THEN made[s] = taken + 1 /\ item[s] = made[s]
                         ELSE made[s] = taken

\* A stream that came to its proper end was heard whole.
WholeShape(s) ==
    how[s] = "ok" =>
        /\ finished[s] /\ Len(heard[s]) = made[s]
        /\ adapter = "cosyvoice" => Closed(s)

StreamShape(s) ==
    /\ EndShape(s) /\ StartShape(s) /\ ThreadShape(s)
    /\ CountShape(s) /\ PipeShape(s) /\ WholeShape(s)

\* What a receipt says of its stream.
ReceiptShape(s) ==
    /\ receipt[s] = "clean" => how[s] \in {"ok", "left"}
    /\ receipt[s] = "empty" => heard[s] = <<>>

TotalsAgree ==
    /\ totals.completed = Counted({"clean"})
    /\ totals.errors = Counted({"empty", "blocked"})

Inv ==
    /\ TtsTypeOK /\ ModelShape /\ LoopShape /\ TotalsAgree
    /\ \A s \in Streams : StreamShape(s) /\ ReceiptShape(s)

\* The counters of a stream, and the lengths of its sequences.
LEMMA StreamNumbers ==
    ASSUME TtsTypeOK, NEW s \in Streams
    PROVE  /\ counted[s] \in Nat /\ made[s] \in Nat /\ made[s] <= MaxChunks
           /\ queue[s] \in Seq(Items) /\ Len(queue[s]) \in Nat
           /\ heard[s] \in Seq(Chunks) /\ Len(heard[s]) \in Nat
<1>1. counted[s] \in 0..MaxChunks /\ made[s] \in 0..MaxChunks
      /\ queue[s] \in Seq(Items) /\ heard[s] \in Seq(Chunks)
  BY DEF TtsTypeOK
<1>2. MaxChunks \in Nat
  BY TtsAssumption
<1>3. Len(queue[s]) \in Nat /\ Len(heard[s]) \in Nat
  BY <1>1
<1>4. counted[s] \in Nat /\ made[s] \in Nat /\ made[s] <= MaxChunks
  BY <1>1, <1>2
<1> QED
  BY <1>1, <1>3, <1>4

-----------------------------------------------------------------------------
(* A step is one stream's.                                                 *)

\* What one stream may do, on the loop or in its threads.
Step(s) ==
    \/ Handler(s) \/ PoolStep(s) \/ Synthesis(s) \/ LoopStep(s)
    \/ Chirp(s) \/ Sent(s) \/ Leave(s)

Still(t) ==
    /\ pc'[t] = pc[t] /\ thread'[t] = thread[t] /\ item'[t] = item[t]
    /\ queue'[t] = queue[t] /\ hand'[t] = hand[t] /\ counted'[t] = counted[t]
    /\ how'[t] = how[t] /\ made'[t] = made[t] /\ finished'[t] = finished[t]
    /\ heard'[t] = heard[t] /\ receipt'[t] = receipt[t]

Others(s) == adapter' = adapter /\ \A t \in Streams \ {s} : Still(t)

LEMMA StillShape ==
    ASSUME NEW t \in Streams, adapter' = adapter, Still(t),
           StreamShape(t), ReceiptShape(t)
    PROVE  StreamShape(t)' /\ ReceiptShape(t)'
<1> USE DEF Still
<1>1. EndShape(t)' /\ StartShape(t)' /\ ReceiptShape(t)'
  BY DEF StreamShape, EndShape, StartShape, ReceiptShape
<1>2. LastItem(t)' = LastItem(t) /\ Closed(t)' = Closed(t)
  BY DEF LastItem, Closed
<1>3. ThreadShape(t)' /\ CountShape(t)' /\ WholeShape(t)'
  BY <1>2 DEF StreamShape, ThreadShape, CountShape, WholeShape
<1>4. PipeShape(t)'
  BY <1>2 DEF StreamShape, PipeShape
<1> QED
  BY <1>1, <1>3, <1>4 DEF StreamShape

\* What the finally clause decides: the receipt, and how the stream ended.
LEMMA FinaliseFacts ==
    ASSUME TtsTypeOK, NEW s \in Streams,
           NEW outcome \in {"ok", "failed", "left"}, NEW next,
           Finalise(s, outcome, next)
    PROVE  \E v \in {"clean", "empty", "blocked", "lost"},
              h \in {"ok", "failed", "left"} :
             /\ pc' = [pc EXCEPT ![s] = next]
             /\ receipt' = [receipt EXCEPT ![s] = v]
             /\ how' = [how EXCEPT ![s] = h]
             /\ h = "left" <=> outcome = "left"
             /\ h = "ok" => outcome = "ok"
             /\ v = "clean" => h \in {"ok", "left"}
             /\ v = "empty" => counted[s] = 0
             /\ totals' = IF v = "clean"
                          THEN [totals EXCEPT !.completed = @ + 1]
                          ELSE IF v = "lost" THEN totals
                          ELSE [totals EXCEPT !.errors = @ + 1]
<1> DEFINE v == Verdict(s, outcome)
<1>1. /\ v \in {"clean", "empty", "blocked"}
      /\ v = "clean" => outcome \in {"ok", "left"}
      /\ v = "empty" => counted[s] = 0
  BY DEF Verdict
<1>2. CASE /\ how' = [how EXCEPT ![s] = outcome]
           /\ receipt' = [receipt EXCEPT ![s] = v]
           /\ totals' = IF v = "clean"
                        THEN [totals EXCEPT !.completed = @ + 1]
                        ELSE [totals EXCEPT !.errors = @ + 1]
  <2> HIDE DEF v
  <2>1. pc' = [pc EXCEPT ![s] = next] /\ v # "lost"
    BY <1>1 DEF Finalise, Goto
  <2> QED
    BY <1>1, <1>2, <2>1
<1>3. CASE /\ how' = [how EXCEPT ![s] = IF outcome = "left" THEN "left"
                                        ELSE "failed"]
           /\ receipt' = [receipt EXCEPT ![s] = "lost"]
           /\ UNCHANGED totals
  <2> DEFINE h == IF outcome = "left" THEN "left" ELSE "failed"
  <2>1. pc' = [pc EXCEPT ![s] = next]
    BY DEF Finalise, Goto
  <2>2. h \in {"ok", "failed", "left"} /\ (h = "left" <=> outcome = "left") /\ h # "ok"
    OBVIOUS
  <2> QED
    BY <1>3, <2>1, <2>2
<1> QED
  BY <1>2, <1>3 DEF Finalise

\* The totals count a receipt when it is written, and a lost one never.
LEMMA TotalsStep ==
    ASSUME TtsTypeOK, TotalsAgree, NEW s \in Streams, receipt[s] = "none",
           NEW v \in {"clean", "empty", "blocked", "lost"},
           receipt' = [receipt EXCEPT ![s] = v],
           totals' = IF v = "clean"
                     THEN [totals EXCEPT !.completed = @ + 1]
                     ELSE IF v = "lost" THEN totals
                     ELSE [totals EXCEPT !.errors = @ + 1]
    PROVE  TotalsAgree' /\ totals' \in [requests : Nat, completed : Nat, errors : Nat]
<1> DEFINE With(verdicts) == {t \in Streams : receipt[t] \in verdicts}
           Then(verdicts) == {t \in Streams : receipt'[t] \in verdicts}
           Clean == {"clean"}
           Bad == {"empty", "blocked"}
<1>1. /\ \A t \in Streams : receipt'[t] = IF t = s THEN v ELSE receipt[t]
      /\ totals \in [requests : Nat, completed : Nat, errors : Nat]
  BY DEF TtsTypeOK
<1>2. IsFiniteSet(With(Clean)) /\ IsFiniteSet(With(Bad))
  BY TtsAssumption, FS_Subset
<1>3. s \notin With(Clean) /\ s \notin With(Bad)
  OBVIOUS
<1>4. /\ Then(Clean) = IF v = "clean" THEN With(Clean) \cup {s} ELSE With(Clean)
      /\ Then(Bad) = IF v \in Bad THEN With(Bad) \cup {s} ELSE With(Bad)
  BY <1>1, <1>3
<1>5. /\ totals.completed = Cardinality(With(Clean))
      /\ totals.errors = Cardinality(With(Bad))
  BY DEF TotalsAgree, Counted
<1>6. (/\ totals'.completed = Cardinality(Then(Clean))
       /\ totals'.errors = Cardinality(Then(Bad))) => TotalsAgree'
  BY DEF TotalsAgree, Counted
<1> HIDE DEF With, Then
<1>7. /\ Cardinality(With(Clean) \cup {s}) = Cardinality(With(Clean)) + 1
      /\ Cardinality(With(Bad) \cup {s}) = Cardinality(With(Bad)) + 1
  BY <1>2, <1>3, FS_AddElement
<1>8. CASE v = "clean"
  <2>1. /\ totals' = [totals EXCEPT !.completed = totals.completed + 1]
        /\ Then(Clean) = With(Clean) \cup {s} /\ Then(Bad) = With(Bad)
    BY <1>4, <1>8
  <2>2. totals'.completed = totals.completed + 1 /\ totals'.errors = totals.errors
        /\ totals' \in [requests : Nat, completed : Nat, errors : Nat]
    BY <1>1, <2>1
  <2> QED
    BY <1>5, <1>6, <1>7, <2>1, <2>2
<1>9. CASE v = "lost"
  BY <1>1, <1>4, <1>5, <1>6, <1>9
<1>10. CASE v \in Bad
  <2>1. /\ totals' = [totals EXCEPT !.errors = totals.errors + 1]
        /\ Then(Clean) = With(Clean) /\ Then(Bad) = With(Bad) \cup {s}
    BY <1>4, <1>10
  <2>2. totals'.errors = totals.errors + 1 /\ totals'.completed = totals.completed
        /\ totals' \in [requests : Nat, completed : Nat, errors : Nat]
    BY <1>1, <2>1
  <2> QED
    BY <1>5, <1>6, <1>7, <2>1, <2>2
<1> QED
  BY <1>8, <1>9, <1>10

-----------------------------------------------------------------------------
(* The steps that end a body: all but a join whose body has ended before.  *)

Ends(s) ==
    \/ WrongVoice(s) \/ ModelBroken(s) \/ ChirpEnds(s) \/ ChirpFails(s)
    \/ LeaveAwaiting(s) \/ CloseBody(s)
    \/ JoinReturns(s) /\ receipt[s] = "none"

Book == [requests : Nat, completed : Nat, errors : Nat]

\* Such a step moves nothing but the stream's place, its end and the books.
LEMMA EndsFacts ==
    ASSUME Inv, NEW s \in Streams, Ends(s)
    PROVE  \E next \in {"over", "orphan"}, outcome \in {"ok", "failed", "left"},
              v \in {"clean", "empty", "blocked", "lost"},
              h \in {"ok", "failed", "left"} :
             /\ receipt[s] = "none"
             /\ pc' = [pc EXCEPT ![s] = next]
             /\ receipt' = [receipt EXCEPT ![s] = v]
             /\ how' = [how EXCEPT ![s] = h]
             /\ next = "orphan" => h = "left"
             /\ h = "left" <=> outcome = "left"
             /\ h = "ok" => outcome = "ok"
             /\ v = "clean" => h \in {"ok", "left"}
             /\ v = "empty" => counted[s] = 0
             /\ totals' \in Book /\ TotalsAgree'
             /\ how[s] = "left" => outcome = "left"
             /\ outcome = "ok" => how[s] = "ok" \/ ChirpEnds(s)
             /\ pc[s] \in {"open", "model", "get", "closing", "join"}
             /\ pc[s] # "join" => loop' = loop
             /\ pc[s] = "join" => loop' = Free
             /\ UNCHANGED <<adapter, modelVars, threadVars, queue, hand, counted,
                            heard>>
<1>1. TtsTypeOK /\ TotalsAgree /\ EndShape(s)
      /\ (loop = s => pc[s] = "join")
  BY DEF Inv, StreamShape, LoopShape
<1>2. /\ receipt[s] = "none"
      /\ pc[s] \in {"open", "model", "get", "closing", "join"}
      /\ pc[s] # "join" => loop' = loop
      /\ pc[s] = "join" => loop' = Free
      /\ UNCHANGED <<adapter, modelVars, threadVars, queue, hand, counted, heard>>
  BY <1>1 DEF Ends, WrongVoice, ModelBroken, ChirpEnds, ChirpFails, LeaveAwaiting,
     CloseBody, JoinReturns, EndShape, loopVars, LoopFree
<1>3. PICK next \in {"over", "orphan"}, outcome \in {"ok", "failed", "left"} :
        /\ Finalise(s, outcome, next)
        /\ next = "orphan" => outcome = "left"
        /\ how[s] = "left" => outcome = "left"
        /\ outcome = "ok" => how[s] = "ok" \/ ChirpEnds(s)
  <2>1. CASE JoinReturns(s) /\ receipt[s] = "none"
    <3>1. how[s] \in {"ok", "failed", "left"} /\ Finalise(s, how[s], "over")
      BY <1>1, <2>1 DEF JoinReturns, EndShape, TtsTypeOK
    <3> QED
      BY <3>1
  <2>2. CASE WrongVoice(s) \/ ModelBroken(s) \/ ChirpFails(s)
    <3>1. how[s] = "none" /\ Finalise(s, "failed", "over")
      BY <1>1, <2>2 DEF WrongVoice, ModelBroken, ChirpFails, EndShape
    <3> QED
      BY <3>1
  <2>3. CASE ChirpEnds(s)
    <3>1. how[s] = "none" /\ Finalise(s, "ok", "over")
      BY <1>1, <2>3 DEF ChirpEnds, EndShape
    <3> QED
      BY <2>3, <3>1
  <2>4. CASE LeaveAwaiting(s)
    <3>1. Finalise(s, "left", "over")
      BY <2>4 DEF LeaveAwaiting
    <3> QED
      BY <3>1
  <2>5. CASE CloseBody(s)
    <3>1. \/ Finalise(s, "left", "over")
          \/ Finalise(s, "left", "orphan")
      BY <2>5 DEF CloseBody
    <3> QED
      BY <3>1
  <2> QED
    BY <2>1, <2>2, <2>3, <2>4, <2>5 DEF Ends
<1>4. PICK v \in {"clean", "empty", "blocked", "lost"},
           h \in {"ok", "failed", "left"} :
        /\ pc' = [pc EXCEPT ![s] = next]
        /\ receipt' = [receipt EXCEPT ![s] = v]
        /\ how' = [how EXCEPT ![s] = h]
        /\ h = "left" <=> outcome = "left"
        /\ h = "ok" => outcome = "ok"
        /\ v = "clean" => h \in {"ok", "left"}
        /\ v = "empty" => counted[s] = 0
        /\ totals' = IF v = "clean"
                     THEN [totals EXCEPT !.completed = @ + 1]
                     ELSE IF v = "lost" THEN totals
                     ELSE [totals EXCEPT !.errors = @ + 1]
  BY <1>1, <1>3, FinaliseFacts
<1>5. totals' \in Book /\ TotalsAgree'
  BY <1>1, <1>2, <1>4, TotalsStep DEF Book
<1>6. next = "orphan" => h = "left"
  BY <1>3, <1>4
<1> QED
  BY <1>2, <1>3, <1>4, <1>5, <1>6

\* The invariant's parts for the other streams come with the frame.
LEMMA OwnIsEnough ==
    ASSUME Inv, NEW s \in Streams, Others(s),
           TtsTypeOK', ModelShape', LoopShape', TotalsAgree',
           StreamShape(s)', ReceiptShape(s)'
    PROVE  Inv'
<1>1. ASSUME NEW t \in Streams PROVE StreamShape(t)' /\ ReceiptShape(t)'
  <2>1. CASE t = s
    BY <2>1
  <2>2. CASE t # s
    BY <2>2, StillShape DEF Others, Inv
  <2> QED
    BY <2>1, <2>2
<1> QED
  BY <1>1 DEF Inv

LEMMA EndsInv ==
    ASSUME Inv, NEW s \in Streams, Ends(s)
    PROVE  Inv' /\ Others(s)
<1>1. PICK next \in {"over", "orphan"}, outcome \in {"ok", "failed", "left"},
           v \in {"clean", "empty", "blocked", "lost"},
           h \in {"ok", "failed", "left"} :
             /\ receipt[s] = "none"
             /\ pc' = [pc EXCEPT ![s] = next]
             /\ receipt' = [receipt EXCEPT ![s] = v]
             /\ how' = [how EXCEPT ![s] = h]
             /\ next = "orphan" => h = "left"
             /\ h = "left" <=> outcome = "left"
             /\ h = "ok" => outcome = "ok"
             /\ v = "clean" => h \in {"ok", "left"}
             /\ v = "empty" => counted[s] = 0
             /\ totals' \in Book /\ TotalsAgree'
             /\ how[s] = "left" => outcome = "left"
             /\ outcome = "ok" => how[s] = "ok" \/ ChirpEnds(s)
             /\ pc[s] \in {"open", "model", "get", "closing", "join"}
             /\ pc[s] # "join" => loop' = loop
             /\ pc[s] = "join" => loop' = Free
             /\ UNCHANGED <<adapter, modelVars, threadVars, queue, hand, counted,
                            heard>>
  BY EndsFacts
<1>2. TtsTypeOK /\ ModelShape /\ LoopShape /\ StreamShape(s) /\ ReceiptShape(s)
  BY DEF Inv
<1>3. /\ UNCHANGED <<adapter, modelLock, loads, thread, item, made, finished>>
      /\ UNCHANGED <<queue, hand, counted, heard>>
  BY <1>1 DEF modelVars, threadVars
<1>4. /\ pc' \in [Streams -> {"new", "refused", "open", "model", "get", "send",
                              "join", "closing", "orphan", "dropped", "over"}]
      /\ how' \in [Streams -> {"none", "ok", "failed", "left"}]
      /\ receipt' \in [Streams -> {"none", "clean", "empty", "blocked", "lost"}]
      /\ pc'[s] = next /\ how'[s] = h /\ receipt'[s] = v
      /\ \A t \in Streams \ {s} :
            pc'[t] = pc[t] /\ how'[t] = how[t] /\ receipt'[t] = receipt[t]
  BY <1>1, <1>2 DEF TtsTypeOK
<1>5. loop' \in Streams \cup {Free} /\ LoopShape'
  <2>1. loop \in Streams \cup {Free} /\ Free \notin Streams
    BY <1>2, TtsAssumption DEF TtsTypeOK
  <2>2. CASE pc[s] = "join"
    <3>1. loop' = Free
      BY <1>1, <2>2
    <3> QED
      BY <2>1, <3>1 DEF LoopShape
  <2>3. CASE pc[s] # "join"
    <3>1. loop' = loop /\ loop # s
      BY <1>1, <1>2, <2>3 DEF LoopShape
    <3>2. \A t \in Streams : loop = t => pc'[t] = pc[t]
      BY <1>4, <3>1
    <3> QED
      BY <1>2, <2>1, <3>1, <3>2 DEF LoopShape
  <2> QED
    BY <2>2, <2>3
<1>6. TtsTypeOK'
  <2>1. totals' \in Book /\ loop' \in Streams \cup {Free}
    BY <1>1, <1>5
  <2> QED
    BY <1>2, <1>3, <1>4, <2>1 DEF TtsTypeOK, Book
<1>7. Others(s)
  BY <1>3, <1>4 DEF Others, Still
<1>8. ModelShape'
  BY <1>2, <1>3 DEF ModelShape
<1>9. EndShape(s)'
  BY <1>1, <1>4 DEF EndShape
<1>10. StartShape(s)' /\ ThreadShape(s)'
  BY <1>2, <1>3, <1>4 DEF StreamShape, StartShape, ThreadShape, LastItem
<1>13. Len(heard[s]) \in Nat /\ counted[s] \in Nat /\ made[s] \in Nat
  BY <1>2, TtsAssumption DEF TtsTypeOK
<1>11. CountShape(s)'
  <2>1. CountShape(s) /\ pc[s] # "send" /\ pc'[s] # "send"
    BY <1>1, <1>2, <1>4 DEF StreamShape
  <2>2. /\ how[s] # "left" => counted[s] = Len(heard[s])
        /\ how[s] = "left" => counted[s] - Len(heard[s]) \in {0, 1}
    BY <1>13, <2>1 DEF CountShape
  <2>3. how'[s] # "left" => counted[s] = Len(heard[s])
    BY <1>1, <1>4, <2>2
  <2>4. counted[s] - Len(heard[s]) \in {0, 1}
    BY <1>13, <2>2
  <2>5. counted'[s] = counted[s] /\ heard'[s] = heard[s]
    BY <1>3
  <2> QED
    BY <1>13, <2>1, <2>3, <2>4, <2>5 DEF CountShape
<1>12. PipeShape(s)'
  BY <1>4 DEF PipeShape
<1>14. WholeShape(s)'
  <2>1. CASE how[s] = "ok"
    BY <1>2, <1>3, <2>1 DEF StreamShape, WholeShape, Closed, LastItem
  <2>2. CASE ChirpEnds(s)
    <3>1. /\ adapter = "chirp3hd" /\ finished[s] /\ pc[s] = "get"
          /\ how[s] = "none"
      BY <1>2, <2>2 DEF ChirpEnds, StreamShape, EndShape
    <3>2. Len(heard[s]) = made[s]
      <4>1. CountShape(s) /\ PipeShape(s)
        BY <1>2 DEF StreamShape
      <4>2. counted[s] = Len(heard[s])
        BY <1>13, <3>1, <4>1 DEF CountShape
      <4>3. made[s] = counted[s]
        BY <3>1, <4>1 DEF PipeShape
      <4> QED
        BY <4>2, <4>3
    <3> QED
      BY <1>3, <3>1, <3>2 DEF WholeShape
  <2>3. CASE h # "ok"
    BY <1>4, <2>3 DEF WholeShape
  <2> QED
    BY <1>1, <2>1, <2>2, <2>3
<1>15. ReceiptShape(s)'
  <2>1. counted[s] = 0 => heard[s] = <<>>
    <3>1. counted[s] = 0 => Len(heard[s]) = 0
      <4>1. CountShape(s) /\ pc[s] # "send"
        BY <1>1, <1>2 DEF StreamShape
      <4>2. \/ counted[s] = Len(heard[s])
            \/ counted[s] - Len(heard[s]) \in {0, 1}
        BY <1>13, <4>1 DEF CountShape
      <4> QED
        BY <1>13, <4>2
    <3> QED
      BY <1>2, <3>1 DEF TtsTypeOK
  <2> QED
    BY <1>1, <1>3, <1>4, <2>1 DEF ReceiptShape
<1>16. StreamShape(s)'
  BY <1>9, <1>10, <1>11, <1>12, <1>14 DEF StreamShape
<1> QED
  BY <1>1, <1>6, <1>5, <1>7, <1>8, <1>15, <1>16, OwnIsEnough

-----------------------------------------------------------------------------
(* The steps that write no receipt.                                        *)

BooksKept ==
    /\ receipt' = receipt
    /\ totals'.completed = totals.completed /\ totals'.errors = totals.errors

LEMMA TotalsKept ==
    ASSUME Inv, BooksKept
    PROVE  TotalsAgree'
BY DEF Inv, TotalsAgree, Counted, BooksKept

\* A stream that has no receipt yet needs none to be right.
LEMMA NoReceipt ==
    ASSUME NEW s \in Streams, receipt'[s] = "none"
    PROVE  ReceiptShape(s)'
BY DEF ReceiptShape

\* Such a step is right when the other streams and the books are let alone.
LEMMA QuietIsEnough ==
    ASSUME Inv, NEW s \in Streams, Others(s), BooksKept, receipt[s] = "none",
           TtsTypeOK', ModelShape', LoopShape', StreamShape(s)'
    PROVE  Inv'
<1>1. TotalsAgree' /\ ReceiptShape(s)'
  BY TotalsKept, NoReceipt DEF BooksKept
<1> QED
  BY <1>1, OwnIsEnough

\* The request comes in, and its body starts or never does.
LEMMA EarlyInv ==
    ASSUME Inv, NEW s \in Streams,
           Refuse(s) \/ Accept(s) \/ StartBody(s) \/ LeaveEarly(s) \/ ChirpOpens(s)
    PROVE  Inv' /\ Others(s)
<1>1. TtsTypeOK /\ ModelShape /\ LoopShape /\ StreamShape(s)
  BY DEF Inv
<1> USE DEF Refuse, Accept, StartBody, LeaveEarly, ChirpOpens, Goto, loopVars,
        modelVars, threadVars, bookVars
<1>2. /\ pc[s] \in {"new", "open", "model"} /\ loop = Free
      /\ UNCHANGED <<adapter, loop, modelLock, loads, item, made, finished>>
      /\ UNCHANGED <<queue, hand, counted, heard, receipt>>
  BY DEF LoopFree
<1>3. PICK next \in {"refused", "open", "model", "dropped", "get"} :
        /\ pc' = [pc EXCEPT ![s] = next]
        /\ next = "get" => pc[s] = "model" /\ adapter = "chirp3hd"
        /\ next = "model" => pc[s] = "open"
        /\ next = "dropped" => how' = [how EXCEPT ![s] = "left"]
        /\ next # "dropped" => how' = how
        /\ next = "model" /\ adapter = "cosyvoice" =>
             thread' = [thread EXCEPT ![s] = "asking"]
        /\ next # "model" \/ adapter = "chirp3hd" => thread' = thread
        /\ next # "open" => totals' = totals
        /\ next = "open" => totals' = [totals EXCEPT !.requests = totals.requests + 1]
        /\ next \in {"refused", "open"} => pc[s] = "new"
        /\ next = "dropped" => pc[s] = "open"
  BY <1>1 DEF TtsTypeOK
<1> USE DEF TtsTypeOK
<1>4. /\ pc' \in [Streams -> {"new", "refused", "open", "model", "get", "send",
                              "join", "closing", "orphan", "dropped", "over"}]
      /\ pc'[s] = next /\ \A t \in Streams \ {s} : pc'[t] = pc[t]
  BY <1>1, <1>3
<1>5. /\ how' \in [Streams -> {"none", "ok", "failed", "left"}]
      /\ how'[s] = IF next = "dropped" THEN "left" ELSE how[s]
      /\ \A t \in Streams \ {s} : how'[t] = how[t]
  <2>1. how \in [Streams -> {"none", "ok", "failed", "left"}]
    BY <1>1
  <2>2. CASE next = "dropped"
    <3>1. how' = [how EXCEPT ![s] = "left"]
      BY <1>3, <2>2
    <3> QED
      BY <2>1, <2>2, <3>1
  <2>3. CASE next # "dropped"
    <3>1. how' = how
      BY <1>3, <2>3
    <3> QED
      BY <2>1, <2>3, <3>1
  <2> QED
    BY <2>2, <2>3
<1>6. /\ thread' \in [Streams -> {"none", "asking", "loading", "answered",
                                  "broken", "making", "putting", "resulting",
                                  "returning", "done"}]
      /\ thread'[s] = IF next = "model" /\ adapter = "cosyvoice" THEN "asking"
                      ELSE thread[s]
      /\ \A t \in Streams \ {s} : thread'[t] = thread[t]
  BY <1>1, <1>3
<1>7. totals' \in [requests : Nat, completed : Nat, errors : Nat] /\ BooksKept
  <2>1. totals \in [requests : Nat, completed : Nat, errors : Nat]
    BY <1>1
  <2> QED
    BY <1>2, <1>3, <2>1 DEF BooksKept
<1>8. TtsTypeOK'
  BY <1>1, <1>2, <1>4, <1>5, <1>6, <1>7
<1>9. Others(s)
  BY <1>2, <1>4, <1>5, <1>6 DEF Others, Still
<1>10. ModelShape' /\ LoopShape'
  BY <1>1, <1>2, <1>6, TtsAssumption DEF ModelShape, LoopShape
<1>11. receipt[s] = "none" /\ EndShape(s)'
  BY <1>1, <1>2, <1>3, <1>4, <1>5 DEF StreamShape, EndShape
<1>12. StartShape(s)' /\ ThreadShape(s)'
  BY <1>1, <1>2, <1>3, <1>4, <1>6 DEF StreamShape, StartShape, ThreadShape,
     Working, LastItem
<1>13. /\ made[s] = 0 /\ counted[s] = 0 /\ queue[s] = <<>> /\ heard[s] = <<>>
  BY <1>1, <1>2 DEF StreamShape, StartShape
<1>14. CountShape(s)' /\ WholeShape(s)'
  <2>1. counted'[s] = 0 /\ Len(heard'[s]) = 0
    BY <1>2, <1>13
  <2>2. how'[s] \in {"none", "left"} /\ pc'[s] # "send"
    BY <1>1, <1>2, <1>3, <1>4, <1>5 DEF StreamShape, EndShape
  <2> QED
    BY <2>1, <2>2 DEF CountShape, WholeShape
<1>15. PipeShape(s)'
  BY <1>2, <1>3, <1>4, <1>13 DEF PipeShape
<1> QED
  BY <1>7, <1>8, <1>9, <1>10, <1>11, <1>12, <1>14, <1>15, QuietIsEnough DEF StreamShape

\* A request for the model goes on, whatever became of its stream.
LEMMA PoolInv ==
    ASSUME Inv, NEW s \in Streams, PoolStep(s)
    PROVE  Inv' /\ Others(s)
<1>1. TtsTypeOK /\ ModelShape /\ LoopShape /\ StreamShape(s) /\ ReceiptShape(s)
  BY DEF Inv
<1>2. /\ UNCHANGED <<adapter, loop, item, made, finished>>
      /\ UNCHANGED <<pc, how, queue, hand, counted, heard, receipt, totals>>
  BY DEF PoolStep, AskModel, LoadEnds, loopVars, streamVars, bookVars
<1>3. PICK next \in {"loading", "answered", "broken"} :
        /\ thread' = [thread EXCEPT ![s] = next]
        /\ thread[s] \in {"asking", "loading"}
        /\ next = "loading" => modelLock = Free /\ modelLock' = s
                               /\ loads = 0 /\ loads' = 0
        /\ next # "loading" =>
             \/ modelLock' = modelLock /\ loads' = loads
             \/ thread[s] = "loading" /\ modelLock' = Free /\ loads' \in 0..1
  <2>1. CASE AskModel(s)
    BY <1>1, <2>1 DEF AskModel, TtsTypeOK
  <2>2. CASE LoadEnds(s)
    <3>1. loads = 0
      BY <1>1, <2>2 DEF LoadEnds, ModelShape
    <3> QED
      BY <2>2, <3>1 DEF LoadEnds
  <2> QED
    BY <2>1, <2>2 DEF PoolStep
<1>4. /\ thread' \in [Streams -> {"none", "asking", "loading", "answered",
                                  "broken", "making", "putting", "resulting",
                                  "returning", "done"}]
      /\ thread'[s] = next /\ \A t \in Streams \ {s} : thread'[t] = thread[t]
  BY <1>1, <1>3 DEF TtsTypeOK
<1>5. modelLock' \in Streams \cup {Free} /\ loads' \in 0..1
  BY <1>1, <1>3 DEF TtsTypeOK
<1>6. TtsTypeOK'
  BY <1>1, <1>2, <1>4, <1>5 DEF TtsTypeOK
<1>7. Others(s)
  BY <1>2, <1>4 DEF Others, Still
<1>8. ModelShape'
  <2>1. ASSUME NEW t \in Streams, thread'[t] = "loading"
        PROVE  modelLock' = t /\ loads' = 0
    <3>1. CASE t = s
      BY <1>3, <1>4, <2>1, <3>1
    <3>2. CASE t # s
      <4>1. thread[t] = "loading" /\ modelLock = t /\ loads = 0
        BY <1>1, <1>4, <2>1, <3>2 DEF ModelShape
      <4>2. modelLock # Free /\ thread[s] # "loading"
        BY <1>1, <4>1, <3>2, TtsAssumption DEF ModelShape
      <4> QED
        BY <1>3, <4>1, <4>2
    <3> QED
      BY <3>1, <3>2
  <2> QED
    BY <2>1 DEF ModelShape
<1>9. LoopShape' /\ TotalsAgree' /\ ReceiptShape(s)'
  BY <1>1, <1>2, TotalsKept DEF LoopShape, BooksKept, ReceiptShape
<1>10. adapter = "cosyvoice" /\ pc[s] \notin {"get", "send"} /\ how[s] # "ok"
  BY <1>1, <1>3 DEF TtsTypeOK, StreamShape, StartShape, PipeShape, WholeShape,
     Working, Closed
<1>11. EndShape(s)' /\ StartShape(s)' /\ ThreadShape(s)'
  BY <1>1, <1>2, <1>3, <1>4, <1>10 DEF StreamShape, EndShape, StartShape, ThreadShape,
     Working, LastItem
<1>12. CountShape(s)' /\ PipeShape(s)' /\ WholeShape(s)'
  BY <1>1, <1>2, <1>10 DEF StreamShape, CountShape, PipeShape, WholeShape
<1> QED
  BY <1>6, <1>7, <1>8, <1>9, <1>11, <1>12, OwnIsEnough DEF StreamShape

\* The stream has its model, and its thread begins with an empty queue.
LEMMA ModelReadyInv ==
    ASSUME Inv, NEW s \in Streams, ModelReady(s)
    PROVE  Inv' /\ Others(s)
<1>1. TtsTypeOK /\ ModelShape /\ LoopShape /\ StreamShape(s)
  BY DEF Inv
<1>2. /\ UNCHANGED <<adapter, loop, modelLock, loads, item, made, finished>>
      /\ UNCHANGED <<how, queue, hand, counted, heard, receipt, totals>>
      /\ pc[s] = "model" /\ thread[s] = "answered" /\ loop = Free
  BY DEF ModelReady, loopVars, modelVars, bookVars, LoopFree
<1>3. /\ pc' \in [Streams -> {"new", "refused", "open", "model", "get", "send",
                              "join", "closing", "orphan", "dropped", "over"}]
      /\ pc'[s] = "get" /\ \A t \in Streams \ {s} : pc'[t] = pc[t]
  BY <1>1 DEF ModelReady, Goto, TtsTypeOK
<1>4. /\ thread' \in [Streams -> {"none", "asking", "loading", "answered",
                                  "broken", "making", "putting", "resulting",
                                  "returning", "done"}]
      /\ thread'[s] = "making" /\ \A t \in Streams \ {s} : thread'[t] = thread[t]
  BY <1>1 DEF ModelReady, TtsTypeOK
<1>5. TtsTypeOK'
  BY <1>1, <1>2, <1>3, <1>4 DEF TtsTypeOK
<1>6. Others(s)
  BY <1>2, <1>3, <1>4 DEF Others, Still
<1>7. ModelShape' /\ LoopShape'
  BY <1>1, <1>2, <1>4, TtsAssumption DEF ModelShape, LoopShape
<1>8. /\ receipt[s] = "none" /\ how[s] = "none" /\ adapter = "cosyvoice"
      /\ made[s] = 0 /\ counted[s] = 0 /\ queue[s] = <<>> /\ heard[s] = <<>>
      /\ ~finished[s]
  BY <1>1, <1>2 DEF StreamShape, EndShape, StartShape, TtsTypeOK
<1>10. EndShape(s)' /\ StartShape(s)' /\ ThreadShape(s)'
  BY <1>1, <1>2, <1>3, <1>4, <1>8 DEF StreamShape, EndShape, StartShape,
     ThreadShape, Working, LastItem
<1>11. CountShape(s)' /\ PipeShape(s)' /\ WholeShape(s)'
  <2>1. Len(<<>>) = 0
    OBVIOUS
  <2>2. ~Closed(s)' /\ thread'[s] \in Working /\ thread'[s] # "putting"
    BY <1>4 DEF Closed, Working
  <2> QED
    BY <1>2, <1>3, <1>8, <2>1, <2>2 DEF CountShape, PipeShape, WholeShape
<1> QED
  BY <1>2, <1>5, <1>6, <1>7, <1>8, <1>10, <1>11, QuietIsEnough DEF StreamShape, BooksKept

-----------------------------------------------------------------------------
(* The synthesis thread and its queue.                                     *)

\* An item is a chunk, the end or an exception, and only one of them.
LEMMA ItemKinds ==
    /\ End \notin Chunks /\ Raised \notin Chunks /\ End # Raised
    /\ End \in Items /\ Raised \in Items
    /\ \A i \in Items : i \in Chunks \/ i = End \/ i = Raised
    /\ \A i \in Chunks : i \in Items /\ i \in Nat /\ i # 0
BY TtsAssumption DEF End, Raised, Chunks, Items

LEMMA ChunkBounds == \A i \in Chunks : i \in Nat /\ i \in 0..MaxChunks
BY TtsAssumption DEF Chunks

\* A text that is not yet at its bound has room for one chunk more.
LEMMA RoomForOne ==
    ASSUME NEW s \in Streams, NEW n \in 0..MaxChunks, n < Longest[s]
    PROVE  n + 1 \in Chunks /\ n + 1 \in Items /\ n + 1 \in 0..MaxChunks
<1>1. Longest[s] \in Nat /\ Longest[s] <= MaxChunks /\ MaxChunks \in Nat
  <2>1. Longest[s] \in 1..MaxChunks /\ MaxChunks \in Nat
    BY TtsAssumption
  <2> QED
    BY <2>1
<1> QED
  BY <1>1 DEF Chunks, Items, Raised

LEMMA MakingInv ==
    ASSUME Inv, NEW s \in Streams, Making(s)
    PROVE  Inv' /\ Others(s)
<1>1. TtsTypeOK /\ ModelShape /\ LoopShape /\ StreamShape(s) /\ ReceiptShape(s)
  BY DEF Inv
<1> USE DEF Making, MakeChunk, MakeEnd, MakeError
<1>2. /\ UNCHANGED <<adapter, loop, modelLock, loads, pc, how>>
      /\ UNCHANGED <<queue, hand, counted, heard, receipt, totals>>
      /\ thread[s] = "making" /\ thread' = [thread EXCEPT ![s] = "putting"]
  BY DEF loopVars, modelVars, streamVars, bookVars
<1>3. PICK next \in Items :
        /\ item' = [item EXCEPT ![s] = next]
        /\ next \in Chunks =>
             /\ next = made[s] + 1
             /\ made' = [made EXCEPT ![s] = made[s] + 1] /\ finished' = finished
        /\ next \notin Chunks => made' = made
        /\ next = End => finished' = [finished EXCEPT ![s] = TRUE]
        /\ next = Raised => finished' = finished
  <2>1. CASE MakeChunk(s)
    <3>1. made[s] + 1 \in Chunks /\ made[s] + 1 \in Items
      BY <1>1, <2>1, RoomForOne DEF TtsTypeOK
    <3> QED
      BY <1>1, <2>1, <3>1, ItemKinds DEF TtsTypeOK
  <2>2. CASE MakeEnd(s)
    BY <2>2, ItemKinds
  <2>3. CASE MakeError(s)
    BY <2>3, ItemKinds
  <2> QED
    BY <2>1, <2>2, <2>3
<1> USE DEF TtsTypeOK
<1>4. /\ thread' \in [Streams -> {"none", "asking", "loading", "answered",
                                  "broken", "making", "putting", "resulting",
                                  "returning", "done"}]
      /\ thread'[s] = "putting" /\ \A t \in Streams \ {s} : thread'[t] = thread[t]
  BY <1>1, <1>2
<1>5. /\ item' \in [Streams -> {0} \cup Items]
      /\ item'[s] = next /\ \A t \in Streams \ {s} : item'[t] = item[t]
  BY <1>1, <1>3
<1>6. /\ made' \in [Streams -> 0..MaxChunks]
      /\ made'[s] = IF next \in Chunks THEN next ELSE made[s]
      /\ \A t \in Streams \ {s} : made'[t] = made[t]
  <2>1. made \in [Streams -> 0..MaxChunks]
    BY <1>1
  <2>2. next \in Chunks => made[s] + 1 \in 0..MaxChunks
    BY <1>3, <2>1, ChunkBounds
  <2> QED
    BY <1>3, <2>1, <2>2
<1>7. /\ finished' \in [Streams -> BOOLEAN]
      /\ next = End => finished'[s]
      /\ next # End => finished'[s] = finished[s]
      /\ \A t \in Streams \ {s} : finished'[t] = finished[t]
  <2>1. finished \in [Streams -> BOOLEAN]
    BY <1>1
  <2>2. CASE next = End
    <3>1. finished' = [finished EXCEPT ![s] = TRUE]
      BY <1>3, <2>2
    <3> QED
      BY <2>1, <2>2, <3>1
  <2>3. CASE next # End
    <3>1. finished' = finished
      BY <1>3, <2>3, ItemKinds
    <3> QED
      BY <2>1, <2>3, <3>1
  <2> QED
    BY <2>2, <2>3
<1>8. TtsTypeOK'
  BY <1>1, <1>2, <1>4, <1>5, <1>6, <1>7
<1>9. Others(s)
  BY <1>2, <1>4, <1>5, <1>6, <1>7 DEF Others, Still
<1>10. ModelShape' /\ LoopShape' /\ TotalsAgree' /\ ReceiptShape(s)'
  BY <1>1, <1>2, <1>4, TotalsKept DEF ModelShape, LoopShape, BooksKept, ReceiptShape
<1>11. adapter = "cosyvoice" /\ ~finished[s] /\ how[s] # "ok"
  BY <1>1, <1>2 DEF StreamShape, StartShape, ThreadShape, WholeShape, Closed
<1>12. EndShape(s)' /\ StartShape(s)'
  BY <1>1, <1>2, <1>4, <1>11 DEF StreamShape, EndShape, StartShape, Working
<1>13. ThreadShape(s)'
  BY <1>3, <1>4, <1>5, <1>7, <1>11, ItemKinds DEF ThreadShape
<1>14. CountShape(s)' /\ WholeShape(s)'
  BY <1>1, <1>2, <1>11 DEF StreamShape, CountShape, WholeShape
<1>15. PipeShape(s)'
  <2>1. PipeShape(s) /\ ~Closed(s) /\ ~Closed(s)' /\ thread'[s] \in Working
    BY <1>1, <1>2, <1>4 DEF StreamShape, Closed, Working
  <2>2. LastItem(s)' <=> next \notin Chunks
    BY <1>5, ItemKinds DEF LastItem
  <2>3. SUFFICES ASSUME pc[s] \in {"get", "send"}
                 PROVE  PipeShape(s)'
    BY <1>2 DEF PipeShape
  <2>4. /\ \A i \in 1..Len(queue[s]) : queue[s][i] = counted[s] + i
        /\ made[s] = counted[s] + Len(queue[s])
    BY <1>2, <1>11, <2>1, <2>3 DEF PipeShape
  <2>5. IF thread'[s] = "putting" /\ ~LastItem(s)'
        THEN made'[s] = counted[s] + Len(queue[s]) + 1 /\ item'[s] = made'[s]
        ELSE made'[s] = counted[s] + Len(queue[s])
    BY <1>3, <1>4, <1>5, <1>6, <2>2, <2>4
  <2> HIDE DEF TtsTypeOK, Making, MakeChunk, MakeEnd, MakeError
  <2> QED
    BY <1>2, <1>11, <2>1, <2>4, <2>5 DEF PipeShape
<1> QED
  BY <1>8, <1>9, <1>10, <1>12, <1>13, <1>14, <1>15, OwnIsEnough DEF StreamShape

LEMMA PutInv ==
    ASSUME Inv, NEW s \in Streams, Put(s)
    PROVE  Inv' /\ Others(s)
<1>1. TtsTypeOK /\ ModelShape /\ LoopShape /\ StreamShape(s) /\ ReceiptShape(s)
  BY DEF Inv
<1>2. /\ UNCHANGED <<adapter, loop, modelLock, loads, pc, how, item, made, finished>>
      /\ UNCHANGED <<hand, counted, heard, receipt, totals>>
      /\ thread[s] = "putting" /\ thread' = [thread EXCEPT ![s] = "resulting"]
      /\ Len(queue[s]) < QueueSize
      /\ queue' = [queue EXCEPT ![s] = Append(queue[s], item[s])]
  BY DEF Put, loopVars, modelVars, streamVars, bookVars
<1>3. /\ thread' \in [Streams -> {"none", "asking", "loading", "answered",
                                  "broken", "making", "putting", "resulting",
                                  "returning", "done"}]
      /\ thread'[s] = "resulting" /\ \A t \in Streams \ {s} : thread'[t] = thread[t]
  BY <1>1, <1>2 DEF TtsTypeOK
<1>4. item[s] \in Items
  BY <1>1, <1>2 DEF StreamShape, ThreadShape
<1>5. /\ queue[s] \in Seq(Items) /\ Len(queue[s]) \in Nat
      /\ Append(queue[s], item[s]) \in Seq(Items)
      /\ Len(Append(queue[s], item[s])) = Len(queue[s]) + 1
      /\ \A i \in 1..Len(queue[s]) : Append(queue[s], item[s])[i] = queue[s][i]
      /\ Append(queue[s], item[s])[Len(queue[s]) + 1] = item[s]
  <2>1. queue[s] \in Seq(Items)
    BY <1>1, StreamNumbers
  <2> QED
    BY <1>4, <2>1
<1>6. /\ queue' \in [Streams -> Seq(Items)]
      /\ queue'[s] = Append(queue[s], item[s])
      /\ \A t \in Streams \ {s} : queue'[t] = queue[t]
      /\ \A t \in Streams : Len(queue'[t]) <= QueueSize
  <2>1. queue \in [Streams -> Seq(Items)] /\ \A t \in Streams : Len(queue[t]) <= QueueSize
    BY <1>1 DEF TtsTypeOK
  <2>2. /\ queue' \in [Streams -> Seq(Items)]
        /\ queue'[s] = Append(queue[s], item[s])
        /\ \A t \in Streams \ {s} : queue'[t] = queue[t]
    BY <1>2, <1>5, <2>1
  <2>3. Len(queue'[s]) <= QueueSize
    BY <1>2, <1>5, <2>2, TtsAssumption
  <2> QED
    BY <2>1, <2>2, <2>3
<1>7. TtsTypeOK'
  BY <1>1, <1>2, <1>3, <1>6 DEF TtsTypeOK
<1>8. Others(s)
  BY <1>2, <1>3, <1>6 DEF Others, Still
<1>9. ModelShape' /\ LoopShape' /\ TotalsAgree' /\ ReceiptShape(s)'
  BY <1>1, <1>2, <1>3, TotalsKept DEF ModelShape, LoopShape, BooksKept, ReceiptShape
<1>10. adapter = "cosyvoice" /\ how[s] # "ok"
  BY <1>1, <1>2 DEF TtsTypeOK, StreamShape, StartShape, WholeShape, Closed
<1>11. EndShape(s)' /\ StartShape(s)' /\ ThreadShape(s)'
  BY <1>1, <1>2, <1>3, <1>10 DEF StreamShape, EndShape, StartShape, ThreadShape,
     Working, LastItem
<1>12. CountShape(s)' /\ WholeShape(s)'
  BY <1>1, <1>2, <1>10 DEF StreamShape, CountShape, WholeShape
<1>13. PipeShape(s)'
  <2>1. PipeShape(s) /\ ~Closed(s) /\ thread'[s] \in Working
    BY <1>1, <1>2, <1>3 DEF StreamShape, Closed, Working
  <2>2. LastItem(s)' = LastItem(s) /\ (Closed(s)' <=> LastItem(s))
    BY <1>2, <1>3 DEF LastItem, Closed
  <2>3. SUFFICES ASSUME pc[s] \in {"get", "send"}
                 PROVE  PipeShape(s)'
    BY <1>2 DEF PipeShape
  <2>4. /\ \A i \in 1..Len(queue[s]) : queue[s][i] = counted[s] + i
        /\ LastItem(s) => made[s] = counted[s] + Len(queue[s])
        /\ ~LastItem(s) =>
             made[s] = counted[s] + Len(queue[s]) + 1 /\ item[s] = made[s]
    BY <1>2, <1>10, <2>1, <2>3 DEF PipeShape
  <2>5. /\ Len(queue'[s]) = Len(queue[s]) + 1
        /\ \A i \in 1..Len(queue[s]) : queue'[s][i] = counted[s] + i
        /\ queue'[s][Len(queue'[s])] = item[s]
        /\ queue'[s] # <<>>
    BY <1>5, <1>6, <2>4
  <2>6. counted[s] \in Nat /\ made[s] \in Nat
    BY <1>1, StreamNumbers
  <2>7. CASE LastItem(s)
    <3>1. /\ queue'[s] # <<>> /\ queue'[s][Len(queue'[s])] = item'[s]
          /\ \A i \in 1..(Len(queue'[s]) - 1) : queue'[s][i] = counted'[s] + i
          /\ made'[s] = counted'[s] + Len(queue'[s]) - 1
      BY <1>2, <1>5, <2>4, <2>5, <2>6, <2>7
    <3>2. pc'[s] \in {"get", "send"} /\ adapter' = "cosyvoice" /\ Closed(s)'
      BY <1>2, <1>10, <2>2, <2>3, <2>7
    <3> QED
      BY <2>1, <3>1, <3>2 DEF PipeShape
  <2>8. CASE ~LastItem(s)
    <3>1. /\ \A i \in 1..Len(queue'[s]) : queue'[s][i] = counted'[s] + i
          /\ made'[s] = counted'[s] + Len(queue'[s])
      <4>1. counted'[s] = counted[s] /\ made'[s] = made[s] /\ Len(queue[s]) \in Nat
        BY <1>2, <1>5
      <4>2. made[s] = counted[s] + Len(queue[s]) + 1 /\ item[s] = made[s]
        BY <2>4, <2>8, Zenon
      <4>3. made'[s] = counted'[s] + Len(queue'[s])
            /\ item[s] = counted[s] + Len(queue'[s])
        <5>1. Len(queue'[s]) = Len(queue[s]) + 1
          BY <2>5
        <5>2. counted[s] + Len(queue[s]) + 1 = counted[s] + (Len(queue[s]) + 1)
          BY <2>6, <4>1
        <5> QED
          BY <4>1, <4>2, <5>1, <5>2, Zenon
      <4>4. ASSUME NEW i \in 1..Len(queue'[s])
            PROVE  queue'[s][i] = counted[s] + i
        <5>1. i \in 1..Len(queue[s]) \/ i = Len(queue'[s])
          BY <2>5, <4>1
        <5> QED
          BY <2>5, <4>3, <5>1, Zenon
      <4> QED
        BY <4>1, <4>3, <4>4, Zenon
    <3>2. pc'[s] \in {"get", "send"} /\ adapter' = "cosyvoice"
          /\ ~Closed(s)' /\ thread'[s] # "putting"
      BY <1>2, <1>3, <1>10, <2>2, <2>3, <2>8
    <3> QED
      BY <2>1, <3>1, <3>2 DEF PipeShape
  <2> QED
    BY <2>7, <2>8
<1> QED
  BY <1>7, <1>8, <1>9, <1>11, <1>12, <1>13, OwnIsEnough DEF StreamShape

\* The thread is answered, and returns: to make the next chunk, or for good.
LEMMA AnswerInv ==
    ASSUME Inv, NEW s \in Streams, Answer(s) \/ Return(s)
    PROVE  Inv' /\ Others(s)
<1>1. TtsTypeOK /\ ModelShape /\ LoopShape /\ StreamShape(s) /\ ReceiptShape(s)
  BY DEF Inv
<1>2. PICK next \in {"returning", "making", "done"} :
        /\ UNCHANGED <<adapter, loop, modelLock, loads, pc, how, item, made, finished>>
        /\ UNCHANGED <<queue, hand, counted, heard, receipt, totals>>
        /\ thread[s] \in {"resulting", "returning"}
        /\ thread' = [thread EXCEPT ![s] = next]
        /\ next = "making" => item[s] \in Chunks
        /\ next = "done" => item[s] \notin Chunks
  BY DEF Answer, Return, loopVars, modelVars, streamVars, bookVars
<1>3. /\ thread' \in [Streams -> {"none", "asking", "loading", "answered",
                                  "broken", "making", "putting", "resulting",
                                  "returning", "done"}]
      /\ thread'[s] = next
      /\ \A t \in Streams \ {s} : thread'[t] = thread[t]
  BY <1>1, <1>2 DEF TtsTypeOK
<1>4. TtsTypeOK'
  BY <1>1, <1>2, <1>3 DEF TtsTypeOK
<1>5. Others(s)
  BY <1>2, <1>3 DEF Others, Still
<1>6. ModelShape' /\ LoopShape' /\ TotalsAgree' /\ ReceiptShape(s)'
  BY <1>1, <1>2, <1>3, TotalsKept DEF ModelShape, LoopShape, BooksKept, ReceiptShape
<1>7. adapter = "cosyvoice"
  BY <1>1, <1>2 DEF TtsTypeOK, StreamShape, StartShape
<1>8. item[s] \in Items /\ (LastItem(s) <=> item[s] \notin Chunks)
  BY <1>1, <1>2, ItemKinds DEF StreamShape, ThreadShape, LastItem
<1>9. LastItem(s)' = LastItem(s) /\ Closed(s)' = Closed(s)
  BY <1>2, <1>3, <1>8 DEF LastItem, Closed
<1>10. EndShape(s)' /\ StartShape(s)' /\ ThreadShape(s)'
  BY <1>1, <1>2, <1>3, <1>7, <1>8, <1>9 DEF StreamShape, EndShape, StartShape,
     ThreadShape, Working
<1>11. CountShape(s)' /\ WholeShape(s)'
  BY <1>1, <1>2, <1>9 DEF StreamShape, CountShape, WholeShape
<1>12. PipeShape(s)'
  <2>1. PipeShape(s) /\ thread'[s] \in Working /\ thread'[s] # "putting"
    BY <1>1, <1>3 DEF StreamShape, Working
  <2> QED
    BY <1>2, <1>7, <1>9, <2>1 DEF PipeShape
<1> QED
  BY <1>4, <1>5, <1>6, <1>10, <1>11, <1>12, OwnIsEnough DEF StreamShape

-----------------------------------------------------------------------------
(* The stream takes, sends and ends.                                       *)

LEMMA Counting ==
    /\ \A n \in Nat : n >= 1 => n = 1 \/ n > 1
    /\ \A c, i \in Nat : (c + 1) + i = c + (i + 1)
    /\ \A c, l \in Nat : (c + 1) + (l - 1) = c + l
OBVIOUS

\* The head of the queue is the next chunk, or the thread's last item, alone.
LEMMA HeadOfQueue ==
    ASSUME Inv, NEW s \in Streams, pc[s] = "get", queue[s] # <<>>
    PROVE  /\ adapter = "cosyvoice" /\ how[s] = "none" /\ receipt[s] = "none"
           /\ Head(queue[s]) \in Chunks => Head(queue[s]) = counted[s] + 1
           /\ Head(queue[s]) \notin Chunks =>
                /\ Closed(s) /\ made[s] = counted[s]
                /\ Head(queue[s]) = item[s]
<1>1. TtsTypeOK /\ StreamShape(s) /\ PipeShape(s)
  BY DEF Inv, StreamShape
<1>2. adapter = "cosyvoice" /\ how[s] = "none" /\ receipt[s] = "none"
  BY <1>1 DEF TtsTypeOK, StreamShape, StartShape, EndShape
<1>3. /\ Head(queue[s]) = queue[s][1]
      /\ Len(queue[s]) \in Nat /\ Len(queue[s]) >= 1
      /\ counted[s] \in Nat /\ made[s] \in Nat /\ made[s] <= MaxChunks
  <2>1. queue[s] \in Seq(Items) /\ Len(queue[s]) \in Nat
        /\ counted[s] \in Nat /\ made[s] \in Nat /\ made[s] <= MaxChunks
    BY <1>1, StreamNumbers
  <2>2. Head(queue[s]) = queue[s][1] /\ Len(queue[s]) >= 1
    BY <2>1
  <2> QED
    BY <2>1, <2>2
<1>4. CASE Closed(s)
  <2>1. /\ queue[s][Len(queue[s])] = item[s]
        /\ \A i \in 1..(Len(queue[s]) - 1) : queue[s][i] = counted[s] + i
        /\ made[s] = counted[s] + Len(queue[s]) - 1
    BY <1>1, <1>2, <1>4 DEF PipeShape
  <2>2. item[s] \notin Chunks
    BY <1>4, ItemKinds DEF Closed, LastItem
  <2>3. CASE Len(queue[s]) = 1
    BY <1>2, <1>3, <1>4, <2>1, <2>2, <2>3
  <2>4. CASE Len(queue[s]) > 1
    <3>1. 1 \in 1..(Len(queue[s]) - 1) /\ counted[s] + 1 \in 1..MaxChunks
      BY <1>3, <2>1, <2>4, TtsAssumption
    <3>2. queue[s][1] = counted[s] + 1
      BY <2>1, <3>1
    <3> QED
      BY <1>2, <1>3, <3>1, <3>2 DEF Chunks
  <2>5. Len(queue[s]) \in Nat /\ Len(queue[s]) >= 1
    BY <1>3
  <2>6. Len(queue[s]) = 1 \/ Len(queue[s]) > 1
    BY <2>5, Counting
  <2> QED
    BY <2>3, <2>4, <2>6
<1>5. CASE ~Closed(s)
  <2>1. /\ \A i \in 1..Len(queue[s]) : queue[s][i] = counted[s] + i
        /\ \/ made[s] = counted[s] + Len(queue[s]) + 1
           \/ made[s] = counted[s] + Len(queue[s])
    BY <1>1, <1>2, <1>5 DEF PipeShape
  <2>2. 1 \in 1..Len(queue[s]) /\ counted[s] + 1 \in 1..MaxChunks
    BY <1>3, <2>1, TtsAssumption
  <2>3. queue[s][1] = counted[s] + 1
    BY <2>1, <2>2
  <2> QED
    BY <1>2, <1>3, <2>2, <2>3 DEF Chunks
<1> QED
  BY <1>4, <1>5

LEMMA TakeChunkInv ==
    ASSUME Inv, NEW s \in Streams, TakeChunk(s)
    PROVE  Inv' /\ Others(s)
<1>1. TtsTypeOK /\ ModelShape /\ StreamShape(s)
  BY DEF Inv
<1>2. /\ UNCHANGED <<adapter, loop, modelLock, loads, thread, how, item, made, finished>>
      /\ UNCHANGED <<heard, receipt, totals>>
      /\ loop = Free /\ pc[s] = "get" /\ queue[s] # <<>>
      /\ Head(queue[s]) \in Chunks
      /\ pc' = [pc EXCEPT ![s] = "send"]
      /\ hand' = [hand EXCEPT ![s] = Head(queue[s])]
      /\ counted' = [counted EXCEPT ![s] = counted[s] + 1]
      /\ queue' = [queue EXCEPT ![s] = Tail(queue[s])]
  BY DEF TakeChunk, Yield, Goto, LoopFree, loopVars, modelVars, threadVars, bookVars
<1>3. /\ adapter = "cosyvoice" /\ how[s] = "none" /\ receipt[s] = "none"
      /\ Head(queue[s]) = counted[s] + 1
  BY <1>2, HeadOfQueue
<1>4. /\ pc' \in [Streams -> {"new", "refused", "open", "model", "get", "send",
                              "join", "closing", "orphan", "dropped", "over"}]
      /\ pc'[s] = "send" /\ \A t \in Streams \ {s} : pc'[t] = pc[t]
  BY <1>1, <1>2 DEF TtsTypeOK
<1>5. /\ hand' \in [Streams -> {0} \cup Chunks] /\ hand'[s] = counted[s] + 1
      /\ \A t \in Streams \ {s} : hand'[t] = hand[t]
      /\ hand'[s] \in Chunks
  BY <1>1, <1>2, <1>3 DEF TtsTypeOK
<1>6. /\ counted' \in [Streams -> 0..MaxChunks] /\ counted'[s] = counted[s] + 1
      /\ \A t \in Streams \ {s} : counted'[t] = counted[t]
  <2>1. counted[s] + 1 \in 0..MaxChunks
    BY <1>2, <1>3, TtsAssumption DEF Chunks
  <2> QED
    BY <1>1, <1>2, <2>1 DEF TtsTypeOK
<1>7. /\ queue[s] \in Seq(Items) /\ Len(queue[s]) \in Nat /\ Len(queue[s]) >= 1
      /\ Tail(queue[s]) \in Seq(Items) /\ Len(Tail(queue[s])) = Len(queue[s]) - 1
      /\ \A i \in 1..(Len(queue[s]) - 1) : Tail(queue[s])[i] = queue[s][i + 1]
      /\ Len(queue[s]) <= QueueSize
  BY <1>1, <1>2 DEF TtsTypeOK
<1>8. /\ queue' \in [Streams -> Seq(Items)]
      /\ queue'[s] = Tail(queue[s])
      /\ \A t \in Streams \ {s} : queue'[t] = queue[t]
      /\ \A t \in Streams : Len(queue'[t]) <= QueueSize
  <2>1. queue \in [Streams -> Seq(Items)] /\ \A t \in Streams : Len(queue[t]) <= QueueSize
    BY <1>1 DEF TtsTypeOK
  <2>2. /\ queue' \in [Streams -> Seq(Items)]
        /\ queue'[s] = Tail(queue[s])
        /\ \A t \in Streams \ {s} : queue'[t] = queue[t]
    BY <1>2, <1>7, <2>1
  <2>3. Len(queue'[s]) <= QueueSize
    BY <1>7, <2>2, TtsAssumption
  <2> QED
    BY <2>1, <2>2, <2>3
<1>9. TtsTypeOK'
  BY <1>1, <1>2, <1>4, <1>5, <1>6, <1>8 DEF TtsTypeOK
<1>10. Others(s)
  BY <1>2, <1>4, <1>5, <1>6, <1>8 DEF Others, Still
<1>11. ModelShape' /\ LoopShape'
  BY <1>1, <1>2, TtsAssumption DEF ModelShape, LoopShape
<1>12. EndShape(s)' /\ StartShape(s)' /\ ThreadShape(s)' /\ WholeShape(s)'
  BY <1>1, <1>2, <1>3, <1>4 DEF StreamShape, EndShape, StartShape, ThreadShape,
     LastItem, WholeShape
<1>13. Len(heard[s]) \in Nat /\ counted[s] \in Nat /\ made[s] \in Nat
  BY <1>1, TtsAssumption DEF TtsTypeOK
<1>14. CountShape(s)'
  <2>1. counted[s] = Len(heard[s])
    BY <1>1, <1>2, <1>3, <1>13 DEF StreamShape, CountShape
  <2> QED
    BY <1>2, <1>3, <1>4, <1>5, <1>6, <1>13, <2>1 DEF CountShape
<1>15. PipeShape(s)'
  <2>1. /\ PipeShape(s) /\ Closed(s)' = Closed(s) /\ LastItem(s)' = LastItem(s)
    BY <1>1, <1>2 DEF StreamShape, Closed, LastItem
  <2>2. thread'[s] \in Working
    BY <1>2, <1>3, <2>1 DEF PipeShape
  <2>3. CASE Closed(s)
    <3>1. /\ queue[s][Len(queue[s])] = item[s] /\ item[s] \notin Chunks
          /\ \A i \in 1..(Len(queue[s]) - 1) : queue[s][i] = counted[s] + i
          /\ made[s] = counted[s] + Len(queue[s]) - 1
      BY <1>2, <1>3, <2>1, <2>3, ItemKinds DEF PipeShape, Closed, LastItem
    <3>2. Len(queue[s]) > 1
      <4>1. Head(queue[s]) = queue[s][1]
        BY <1>7
      <4> QED
        BY <1>2, <1>7, <3>1, <4>1
    <3>3. /\ queue'[s] # <<>> /\ queue'[s][Len(queue'[s])] = item'[s]
          /\ made'[s] = counted'[s] + Len(queue'[s]) - 1
      <4>1. Len(queue'[s]) = Len(queue[s]) - 1
        BY <1>7, <1>8
      <4>2. queue'[s][Len(queue[s]) - 1] = queue[s][Len(queue[s]) - 1 + 1]
        BY <1>7, <1>8, <3>2
      <4>3. Len(queue[s]) - 1 + 1 = Len(queue[s]) /\ Len(<<>>) = 0
        BY <1>7
      <4>4. queue'[s][Len(queue'[s])] = item'[s]
        BY <1>2, <3>1, <4>1, <4>2, <4>3
      <4>5. made'[s] = counted'[s] + Len(queue'[s]) - 1
        BY <1>2, <1>6, <1>7, <1>13, <3>1, <4>1
      <4> QED
        BY <1>7, <3>2, <4>1, <4>3, <4>4, <4>5
    <3>4. ASSUME NEW i \in 1..(Len(queue'[s]) - 1)
          PROVE  queue'[s][i] = counted'[s] + i
      <4>1. Len(queue'[s]) = Len(queue[s]) - 1
        BY <1>7, <1>8
      <4>2. i \in Nat /\ i \in 1..(Len(queue[s]) - 1) /\ i + 1 \in 1..(Len(queue[s]) - 1)
        BY <1>7, <4>1
      <4>3. queue'[s][i] = queue[s][i + 1]
        BY <1>7, <1>8, <4>2
      <4>4. queue[s][i + 1] = counted[s] + (i + 1)
        BY <3>1, <4>2
      <4>5. counted'[s] + i = counted[s] + (i + 1)
        <5>1. counted'[s] = counted[s] + 1
          BY <1>6
        <5>2. (counted[s] + 1) + i = counted[s] + (i + 1)
          BY <1>13, <4>2, Counting
        <5> QED
          BY <5>1, <5>2
      <4> QED
        BY <4>3, <4>4, <4>5
    <3> QED
      BY <1>2, <1>3, <2>1, <2>2, <2>3, <3>3, <3>4 DEF PipeShape
  <2>4. CASE ~Closed(s)
    <3>1. \A i \in 1..Len(queue[s]) : queue[s][i] = counted[s] + i
      BY <1>2, <1>3, <2>1, <2>4 DEF PipeShape
    <3>2. LET taken == counted[s] + Len(queue[s])
          IN  IF thread[s] = "putting" /\ ~LastItem(s)
              THEN made[s] = taken + 1 /\ item[s] = made[s]
              ELSE made[s] = taken
      BY <1>2, <1>3, <2>1, <2>4 DEF PipeShape
    <3>3. counted'[s] + Len(queue'[s]) = counted[s] + Len(queue[s])
      <4>1. counted'[s] = counted[s] + 1
        BY <1>6
      <4>2. Len(queue'[s]) = Len(queue[s]) - 1
        BY <1>7, <1>8
      <4>3. (counted[s] + 1) + (Len(queue[s]) - 1) = counted[s] + Len(queue[s])
        BY <1>7, <1>13, Counting
      <4> QED
        BY <4>1, <4>2, <4>3
    <3>4. ASSUME NEW i \in 1..Len(queue'[s])
          PROVE  queue'[s][i] = counted'[s] + i
      <4>1. Len(queue'[s]) = Len(queue[s]) - 1
        BY <1>7, <1>8
      <4>2. i \in Nat /\ i \in 1..(Len(queue[s]) - 1) /\ i + 1 \in 1..Len(queue[s])
        BY <1>7, <4>1
      <4>3. queue'[s][i] = queue[s][i + 1]
        BY <1>7, <1>8, <4>2
      <4>4. queue[s][i + 1] = counted[s] + (i + 1)
        BY <3>1, <4>2
      <4>5. counted'[s] + i = counted[s] + (i + 1)
        <5>1. counted'[s] = counted[s] + 1
          BY <1>6
        <5>2. (counted[s] + 1) + i = counted[s] + (i + 1)
          BY <1>13, <4>2, Counting
        <5> QED
          BY <5>1, <5>2
      <4> QED
        BY <4>3, <4>4, <4>5
    <3> QED
      BY <1>2, <1>3, <2>1, <2>2, <2>4, <3>2, <3>3, <3>4 DEF PipeShape
  <2> QED
    BY <2>3, <2>4
<1> QED
  BY <1>2, <1>3, <1>9, <1>10, <1>11, <1>12, <1>14, <1>15, QuietIsEnough
  DEF StreamShape, BooksKept

LEMMA SentInv ==
    ASSUME Inv, NEW s \in Streams, Sent(s)
    PROVE  Inv' /\ Others(s)
<1>1. TtsTypeOK /\ ModelShape /\ StreamShape(s)
  BY DEF Inv
<1>2. /\ UNCHANGED <<adapter, loop, modelLock, loads, thread, how, item, made, finished>>
      /\ UNCHANGED <<queue, hand, counted, receipt, totals>>
      /\ loop = Free /\ pc[s] = "send"
      /\ pc' = [pc EXCEPT ![s] = "get"]
      /\ heard' = [heard EXCEPT ![s] = Append(heard[s], hand[s])]
  BY DEF Sent, Goto, LoopFree, loopVars, modelVars, threadVars, bookVars
<1>3. /\ how[s] = "none" /\ receipt[s] = "none" /\ hand[s] \in Chunks
      /\ CountShape(s)
  BY <1>1, <1>2 DEF StreamShape, EndShape, CountShape
<1>4. /\ pc' \in [Streams -> {"new", "refused", "open", "model", "get", "send",
                              "join", "closing", "orphan", "dropped", "over"}]
      /\ pc'[s] = "get" /\ \A t \in Streams \ {s} : pc'[t] = pc[t]
  BY <1>1, <1>2 DEF TtsTypeOK
<1>5. /\ heard[s] \in Seq(Chunks) /\ Len(heard[s]) \in Nat /\ counted[s] \in Nat
      /\ Append(heard[s], hand[s]) \in Seq(Chunks)
      /\ Len(Append(heard[s], hand[s])) = Len(heard[s]) + 1
  BY <1>1, <1>3, TtsAssumption DEF TtsTypeOK
<1>6. /\ heard' \in [Streams -> Seq(Chunks)]
      /\ heard'[s] = Append(heard[s], hand[s])
      /\ \A t \in Streams \ {s} : heard'[t] = heard[t]
  BY <1>1, <1>2, <1>5 DEF TtsTypeOK
<1>7. TtsTypeOK'
  BY <1>1, <1>2, <1>4, <1>6 DEF TtsTypeOK
<1>8. Others(s)
  BY <1>2, <1>4, <1>6 DEF Others, Still
<1>9. ModelShape' /\ LoopShape'
  BY <1>1, <1>2, TtsAssumption DEF ModelShape, LoopShape
<1>10. EndShape(s)' /\ StartShape(s)' /\ ThreadShape(s)' /\ WholeShape(s)'
  BY <1>1, <1>2, <1>3, <1>4 DEF StreamShape, EndShape, StartShape, ThreadShape,
     LastItem, WholeShape
<1>11. CountShape(s)'
  <2>1. counted[s] = Len(heard[s]) + 1
    BY <1>2, <1>3, <1>5 DEF CountShape
  <2>2. counted'[s] = Len(heard'[s]) /\ how'[s] = "none"
    BY <1>2, <1>3, <1>5, <1>6, <2>1
  <2> QED
    BY <1>4, <1>5, <1>6, <2>2 DEF CountShape
<1>12. PipeShape(s)'
  <2>1. PipeShape(s) /\ Closed(s)' = Closed(s) /\ LastItem(s)' = LastItem(s)
    BY <1>1, <1>2 DEF StreamShape, Closed, LastItem
  <2> QED
    BY <1>2, <1>4, <2>1 DEF PipeShape
<1> QED
  BY <1>2, <1>3, <1>7, <1>8, <1>9, <1>10, <1>11, <1>12, QuietIsEnough
  DEF StreamShape, BooksKept

\* The stream joins its thread: at its end, or because the client left.
LEMMA JoinInv ==
    ASSUME Inv, NEW s \in Streams, TakeLast(s) \/ LeaveGetting(s) \/ CloseAdapter(s)
    PROVE  Inv' /\ Others(s)
<1>1. TtsTypeOK /\ ModelShape /\ LoopShape /\ StreamShape(s) /\ ReceiptShape(s)
  BY DEF Inv
<1>2. /\ UNCHANGED <<adapter, modelLock, loads, thread, item, made, finished>>
      /\ UNCHANGED <<hand, counted, heard, receipt, totals>>
      /\ loop = Free /\ loop' = s /\ pc[s] \in {"get", "orphan"}
      /\ pc' = [pc EXCEPT ![s] = "join"]
  BY DEF TakeLast, LeaveGetting, CloseAdapter, Join, Goto, LoopFree, modelVars,
     threadVars, bookVars
<1>3. PICK next \in {"ok", "failed", "left"}, rest \in {queue[s], Tail(queue[s])} :
        /\ how' = [how EXCEPT ![s] = next]
        /\ queue' = [queue EXCEPT ![s] = rest]
        /\ rest # queue[s] => queue[s] # <<>>
        /\ next # "left" => receipt[s] = "none" /\ pc[s] = "get"
        /\ next = "ok" => Closed(s) /\ finished[s] /\ made[s] = counted[s]
        /\ pc[s] = "orphan" => next = "left"
        /\ adapter = "chirp3hd" => rest = queue[s]
  <2>1. CASE LeaveGetting(s) \/ CloseAdapter(s)
    <3>1. queue' = [queue EXCEPT ![s] = queue[s]] /\ how' = [how EXCEPT ![s] = "left"]
      BY <1>1, <2>1 DEF LeaveGetting, CloseAdapter, Join, TtsTypeOK
    <3> QED
      BY <3>1
  <2>2. CASE TakeLast(s)
    <3>1. pc[s] = "get" /\ queue[s] # <<>> /\ Head(queue[s]) \notin Chunks
      BY <2>2 DEF TakeLast
    <3>2. /\ adapter = "cosyvoice" /\ receipt[s] = "none"
          /\ Closed(s) /\ made[s] = counted[s] /\ Head(queue[s]) = item[s]
      BY <3>1, HeadOfQueue
    <3>3. item[s] = End => finished[s]
      BY <1>1, <3>2 DEF StreamShape, ThreadShape, Closed
    <3>4. /\ queue' = [queue EXCEPT ![s] = Tail(queue[s])]
          /\ how' = [how EXCEPT ![s] = IF item[s] = End THEN "ok" ELSE "failed"]
      BY <2>2, <3>2 DEF TakeLast, Join
    <3> QED
      BY <3>1, <3>2, <3>3, <3>4
  <2> QED
    BY <2>1, <2>2
<1>4. /\ pc' \in [Streams -> {"new", "refused", "open", "model", "get", "send",
                              "join", "closing", "orphan", "dropped", "over"}]
      /\ pc'[s] = "join" /\ \A t \in Streams \ {s} : pc'[t] = pc[t]
  BY <1>1, <1>2 DEF TtsTypeOK
<1>5. /\ how' \in [Streams -> {"none", "ok", "failed", "left"}]
      /\ how'[s] = next /\ \A t \in Streams \ {s} : how'[t] = how[t]
  BY <1>1, <1>3 DEF TtsTypeOK
<1>6. rest \in Seq(Items) /\ Len(rest) <= QueueSize
  <2>1. /\ queue[s] \in Seq(Items) /\ Len(queue[s]) \in Nat
        /\ Len(queue[s]) <= QueueSize
    BY <1>1 DEF TtsTypeOK
  <2>2. CASE rest = queue[s]
    BY <2>1, <2>2
  <2>3. CASE rest # queue[s]
    <3>1. Tail(queue[s]) \in Seq(Items) /\ Len(Tail(queue[s])) = Len(queue[s]) - 1
      BY <1>3, <2>1, <2>3
    <3>2. Len(Tail(queue[s])) <= QueueSize
      BY <2>1, <3>1, TtsAssumption
    <3> QED
      BY <2>3, <3>1, <3>2
  <2> QED
    BY <2>2, <2>3
<1>7. /\ queue' \in [Streams -> Seq(Items)]
      /\ queue'[s] = rest /\ \A t \in Streams \ {s} : queue'[t] = queue[t]
      /\ \A t \in Streams : Len(queue'[t]) <= QueueSize
  <2>1. queue \in [Streams -> Seq(Items)] /\ \A t \in Streams : Len(queue[t]) <= QueueSize
    BY <1>1 DEF TtsTypeOK
  <2>2. /\ queue' \in [Streams -> Seq(Items)]
        /\ queue'[s] = rest /\ \A t \in Streams \ {s} : queue'[t] = queue[t]
    BY <1>3, <1>6, <2>1
  <2> QED
    BY <1>6, <2>1, <2>2
<1>8. TtsTypeOK'
  BY <1>1, <1>2, <1>4, <1>5, <1>7 DEF TtsTypeOK
<1>9. Others(s)
  BY <1>2, <1>4, <1>5, <1>7 DEF Others, Still
<1>10. ModelShape' /\ LoopShape' /\ TotalsAgree'
  BY <1>1, <1>2, <1>4, TotalsKept DEF ModelShape, LoopShape, BooksKept
<1>11. EndShape(s)' /\ ReceiptShape(s)'
  BY <1>1, <1>2, <1>3, <1>4, <1>5 DEF StreamShape, EndShape, ReceiptShape
<1>12. StartShape(s)' /\ ThreadShape(s)' /\ PipeShape(s)'
  BY <1>1, <1>2, <1>3, <1>4, <1>7 DEF StreamShape, StartShape, ThreadShape, LastItem,
     PipeShape
<1>13. Len(heard[s]) \in Nat /\ counted[s] \in Nat
  BY <1>1, TtsAssumption DEF TtsTypeOK
<1>14. CountShape(s)'
  <2>1. CountShape(s) /\ (pc[s] = "get" => how[s] = "none")
        /\ (pc[s] = "orphan" => how[s] = "left")
    BY <1>1 DEF StreamShape, EndShape
  <2>2. /\ pc[s] = "get" => counted[s] = Len(heard[s])
        /\ counted[s] - Len(heard[s]) \in {0, 1}
    <3>1. CASE pc[s] = "get"
      <4>1. counted[s] = Len(heard[s])
        BY <1>13, <2>1, <3>1 DEF CountShape
      <4> QED
        BY <1>13, <3>1, <4>1
    <3>2. CASE pc[s] = "orphan"
      BY <2>1, <3>2 DEF CountShape
    <3> QED
      BY <1>2, <3>1, <3>2
  <2>3. next # "left" => counted[s] = Len(heard[s])
    BY <1>3, <2>2
  <2> QED
    BY <1>2, <1>4, <1>5, <1>13, <2>2, <2>3 DEF CountShape
<1>15. WholeShape(s)'
  <2>1. next = "ok" => Closed(s)' /\ finished'[s] /\ made[s] = counted[s]
    BY <1>2, <1>3 DEF Closed, LastItem
  <2>2. next = "ok" => counted[s] = Len(heard[s])
    BY <1>2, <1>4, <1>5, <1>13, <1>14 DEF CountShape
  <2> QED
    BY <1>2, <1>5, <2>1, <2>2 DEF WholeShape
<1> QED
  BY <1>8, <1>9, <1>10, <1>11, <1>12, <1>14, <1>15, OwnIsEnough DEF StreamShape

\* A client leaves while a chunk is sent, or a join returns to a body that had
\* ended before.
LEMMA LeaveSendingInv ==
    ASSUME Inv, NEW s \in Streams,
           LeaveSending(s) \/ (JoinReturns(s) /\ receipt[s] # "none")
    PROVE  Inv' /\ Others(s)
<1>1. TtsTypeOK /\ ModelShape /\ LoopShape /\ StreamShape(s) /\ ReceiptShape(s)
  BY DEF Inv
<1>2. /\ UNCHANGED <<adapter, modelLock, loads, thread, item, made, finished>>
      /\ UNCHANGED <<queue, hand, counted, heard, receipt, totals>>
      /\ loop' = Free
  BY DEF LeaveSending, JoinReturns, LoopFree, loopVars, modelVars, threadVars, bookVars
<1>3. PICK next \in {"closing", "over"} :
        /\ pc' = [pc EXCEPT ![s] = next]
        /\ how' = [how EXCEPT ![s] = "left"]
        /\ next = "closing" => pc[s] = "send" /\ receipt[s] = "none"
        /\ next = "over" => pc[s] = "join" /\ how[s] = "left" /\ receipt[s] # "none"
  <2>1. CASE LeaveSending(s)
    BY <1>1, <2>1 DEF LeaveSending, Goto, StreamShape, EndShape
  <2>2. CASE JoinReturns(s) /\ receipt[s] # "none"
    <3>1. pc[s] = "join"
      BY <1>1, <2>2 DEF JoinReturns, LoopShape
    <3>2. how[s] = "left"
      BY <1>1, <2>2, <3>1 DEF StreamShape, EndShape
    <3>3. how' = how /\ pc' = [pc EXCEPT ![s] = "over"]
      BY <2>2 DEF JoinReturns, Goto
    <3>4. how' = [how EXCEPT ![s] = "left"]
      BY <1>1, <3>2, <3>3 DEF TtsTypeOK
    <3> QED
      BY <2>2, <3>1, <3>2, <3>3, <3>4
  <2> QED
    BY <2>1, <2>2
<1>4. /\ pc' \in [Streams -> {"new", "refused", "open", "model", "get", "send",
                              "join", "closing", "orphan", "dropped", "over"}]
      /\ pc'[s] = next /\ \A t \in Streams \ {s} : pc'[t] = pc[t]
  BY <1>1, <1>3 DEF TtsTypeOK
<1>5. /\ how' \in [Streams -> {"none", "ok", "failed", "left"}]
      /\ how'[s] = "left" /\ \A t \in Streams \ {s} : how'[t] = how[t]
  BY <1>1, <1>3 DEF TtsTypeOK
<1>6. TtsTypeOK'
  BY <1>1, <1>2, <1>4, <1>5 DEF TtsTypeOK
<1>7. Others(s)
  BY <1>2, <1>4, <1>5 DEF Others, Still
<1>8. ModelShape' /\ LoopShape' /\ TotalsAgree'
  BY <1>1, <1>2, TtsAssumption, TotalsKept DEF ModelShape, LoopShape, BooksKept
<1>9. EndShape(s)' /\ ReceiptShape(s)' /\ PipeShape(s)' /\ WholeShape(s)'
  BY <1>1, <1>2, <1>3, <1>4, <1>5 DEF StreamShape, EndShape, ReceiptShape, PipeShape,
     WholeShape
<1>10. StartShape(s)' /\ ThreadShape(s)'
  BY <1>1, <1>2, <1>4 DEF StreamShape, StartShape, ThreadShape, LastItem
<1>11. CountShape(s)'
  <2>1. Len(heard[s]) \in Nat /\ counted[s] \in Nat
    BY <1>1, TtsAssumption DEF TtsTypeOK
  <2>2. CountShape(s) /\ (pc[s] = "send" => how[s] # "left")
    BY <1>1 DEF StreamShape, EndShape
  <2>3. counted[s] - Len(heard[s]) \in {0, 1}
    <3>1. CASE next = "closing"
      <4>1. counted[s] = Len(heard[s]) + 1
        BY <1>3, <2>1, <2>2, <3>1 DEF CountShape
      <4> QED
        BY <2>1, <4>1
    <3>2. CASE next = "over"
      BY <1>3, <2>2, <3>2 DEF CountShape
    <3> QED
      BY <3>1, <3>2
  <2> QED
    BY <1>2, <1>4, <1>5, <2>1, <2>3 DEF CountShape
<1> QED
  BY <1>6, <1>7, <1>8, <1>9, <1>10, <1>11, OwnIsEnough DEF StreamShape

-----------------------------------------------------------------------------
(* The remote stream.                                                      *)

LEMMA ChirpChunkInv ==
    ASSUME Inv, NEW s \in Streams, ChirpChunk(s)
    PROVE  Inv' /\ Others(s)
<1>1. TtsTypeOK /\ ModelShape /\ StreamShape(s)
  BY DEF Inv
<1>2. /\ UNCHANGED <<adapter, loop, modelLock, loads, thread, how, item, finished>>
      /\ UNCHANGED <<queue, heard, receipt, totals>>
      /\ loop = Free /\ pc[s] = "get" /\ adapter = "chirp3hd"
      /\ made[s] < Longest[s]
      /\ made' = [made EXCEPT ![s] = made[s] + 1]
      /\ pc' = [pc EXCEPT ![s] = "send"]
      /\ hand' = [hand EXCEPT ![s] = made[s] + 1]
      /\ counted' = [counted EXCEPT ![s] = counted[s] + 1]
  BY DEF ChirpChunk, Yield, Goto, LoopFree, loopVars, modelVars, bookVars
<1>3. /\ how[s] = "none" /\ receipt[s] = "none" /\ made[s] = counted[s]
      /\ thread[s] = "none"
  BY <1>1, <1>2 DEF StreamShape, EndShape, PipeShape, StartShape
<1>4. /\ pc' \in [Streams -> {"new", "refused", "open", "model", "get", "send",
                              "join", "closing", "orphan", "dropped", "over"}]
      /\ pc'[s] = "send" /\ \A t \in Streams \ {s} : pc'[t] = pc[t]
  BY <1>1, <1>2 DEF TtsTypeOK
<1>5. /\ made[s] + 1 \in Chunks /\ made[s] + 1 \in 0..MaxChunks /\ made[s] \in Nat
      /\ Len(heard[s]) \in Nat
  <2>1. made[s] \in 0..MaxChunks /\ Len(heard[s]) \in Nat
    BY <1>1 DEF TtsTypeOK
  <2>2. made[s] < Longest[s]
    BY <1>2
  <2> QED
    BY <2>1, <2>2, RoomForOne
<1>6. /\ hand' \in [Streams -> {0} \cup Chunks] /\ hand'[s] = made[s] + 1
      /\ \A t \in Streams \ {s} : hand'[t] = hand[t]
  BY <1>1, <1>2, <1>5 DEF TtsTypeOK
<1>7. /\ counted' \in [Streams -> 0..MaxChunks] /\ counted'[s] = made[s] + 1
      /\ \A t \in Streams \ {s} : counted'[t] = counted[t]
      /\ made' \in [Streams -> 0..MaxChunks] /\ made'[s] = made[s] + 1
      /\ \A t \in Streams \ {s} : made'[t] = made[t]
  BY <1>1, <1>2, <1>3, <1>5 DEF TtsTypeOK
<1>8. TtsTypeOK'
  BY <1>1, <1>2, <1>4, <1>6, <1>7 DEF TtsTypeOK
<1>9. Others(s)
  BY <1>2, <1>4, <1>6, <1>7 DEF Others, Still
<1>10. ModelShape' /\ LoopShape'
  BY <1>1, <1>2, TtsAssumption DEF ModelShape, LoopShape
<1>11. EndShape(s)' /\ StartShape(s)' /\ ThreadShape(s)' /\ WholeShape(s)'
  BY <1>1, <1>2, <1>3, <1>4 DEF StreamShape, EndShape, StartShape, ThreadShape,
     LastItem, WholeShape
<1>12. CountShape(s)'
  <2>1. counted[s] = Len(heard[s])
    BY <1>1, <1>2, <1>3, <1>5 DEF StreamShape, CountShape
  <2> QED
    BY <1>2, <1>3, <1>4, <1>5, <1>6, <1>7, <2>1 DEF CountShape
<1>13. PipeShape(s)'
  BY <1>2, <1>7 DEF PipeShape
<1> QED
  BY <1>2, <1>3, <1>8, <1>9, <1>10, <1>11, <1>12, <1>13, QuietIsEnough
  DEF StreamShape, BooksKept

LEMMA ChirpClosesInv ==
    ASSUME Inv, NEW s \in Streams, ChirpCloses(s)
    PROVE  Inv' /\ Others(s)
<1>1. TtsTypeOK /\ ModelShape /\ LoopShape /\ StreamShape(s)
  BY DEF Inv
<1>2. /\ UNCHANGED <<adapter, loop, modelLock, loads, thread, how, item, made, pc>>
      /\ UNCHANGED <<queue, hand, counted, heard, receipt, totals>>
      /\ pc[s] \in {"get", "send"} /\ adapter = "chirp3hd"
      /\ finished' = [finished EXCEPT ![s] = TRUE]
  BY DEF ChirpCloses, loopVars, modelVars, streamVars, bookVars
<1>3. how[s] = "none" /\ receipt[s] = "none" /\ thread[s] = "none"
  BY <1>1, <1>2 DEF StreamShape, EndShape, StartShape
<1>4. /\ finished' \in [Streams -> BOOLEAN]
      /\ \A t \in Streams \ {s} : finished'[t] = finished[t]
  BY <1>1, <1>2 DEF TtsTypeOK
<1>5. TtsTypeOK'
  BY <1>1, <1>2, <1>4 DEF TtsTypeOK
<1>6. Others(s)
  BY <1>2, <1>4 DEF Others, Still
<1>7. ModelShape' /\ LoopShape'
  BY <1>1, <1>2 DEF ModelShape, LoopShape
<1>8. EndShape(s)' /\ StartShape(s)' /\ ThreadShape(s)' /\ WholeShape(s)'
  BY <1>1, <1>2, <1>3 DEF StreamShape, EndShape, StartShape, ThreadShape, LastItem,
     WholeShape
<1>9. CountShape(s)' /\ PipeShape(s)'
  BY <1>1, <1>2 DEF StreamShape, CountShape, PipeShape
<1> QED
  BY <1>2, <1>3, <1>5, <1>6, <1>7, <1>8, <1>9, QuietIsEnough DEF StreamShape, BooksKept

-----------------------------------------------------------------------------
(* The invariant.                                                          *)

LEMMA StepInv ==
    ASSUME Inv, NEW s \in Streams, Step(s)
    PROVE  Inv' /\ Others(s)
<1>1. CASE Ends(s)
  BY <1>1, EndsInv
<1>2. CASE Refuse(s) \/ Accept(s) \/ StartBody(s) \/ LeaveEarly(s) \/ ChirpOpens(s)
  BY <1>2, EarlyInv
<1>3. CASE PoolStep(s) \/ ModelReady(s) \/ Making(s)
  BY <1>3, PoolInv, ModelReadyInv, MakingInv
<1>4. CASE Put(s) \/ Answer(s) \/ Return(s) \/ TakeChunk(s) \/ Sent(s)
  BY <1>4, PutInv, AnswerInv, TakeChunkInv, SentInv
<1>5. CASE TakeLast(s) \/ LeaveGetting(s) \/ CloseAdapter(s)
  BY <1>5, JoinInv
<1>6. CASE LeaveSending(s) \/ (JoinReturns(s) /\ receipt[s] # "none")
  BY <1>6, LeaveSendingInv
<1>7. CASE ChirpChunk(s) \/ ChirpCloses(s)
  BY <1>7, ChirpChunkInv, ChirpClosesInv
<1> QED
  BY <1>1, <1>2, <1>3, <1>4, <1>5, <1>6, <1>7
  DEF Step, Ends, Handler, Synthesis, LoopStep, Chirp, Leave

LEMMA InitInv == Init => Inv
<1> SUFFICES ASSUME Init PROVE Inv
  OBVIOUS
<1>1. TtsTypeOK
  BY TtsAssumption DEF Init, TtsTypeOK
<1>2. ModelShape /\ LoopShape
  BY TtsAssumption DEF Init, ModelShape, LoopShape
<1>3. TotalsAgree
  <2>1. Counted({"clean"}) = Cardinality({}) /\ Counted({"empty", "blocked"}) = Cardinality({})
    <3>1. /\ {s \in Streams : receipt[s] \in {"clean"}} = {}
          /\ {s \in Streams : receipt[s] \in {"empty", "blocked"}} = {}
      BY DEF Init
    <3> QED
      BY <3>1 DEF Counted
  <2> QED
    BY <2>1, FS_EmptySet DEF Init, TotalsAgree
<1>4. ASSUME NEW s \in Streams PROVE StreamShape(s) /\ ReceiptShape(s)
  <2>1. EndShape(s) /\ StartShape(s) /\ ThreadShape(s) /\ ReceiptShape(s)
    BY DEF Init, EndShape, StartShape, ThreadShape, ReceiptShape, Working
  <2>2. CountShape(s) /\ PipeShape(s) /\ WholeShape(s)
    BY DEF Init, CountShape, PipeShape, WholeShape
  <2> QED
    BY <2>1, <2>2 DEF StreamShape
<1> QED
  BY <1>1, <1>2, <1>3, <1>4 DEF Inv

LEMMA NextInv ==
    ASSUME Inv, [Next]_vars
    PROVE  Inv'
<1>1. CASE Next
  BY <1>1, StepInv DEF Next, Step
<1>2. CASE UNCHANGED vars
  <2> USE <1>2 DEF vars, loopVars, modelVars, threadVars, streamVars, bookVars
  <2>1. TtsTypeOK' /\ ModelShape' /\ LoopShape'
    BY DEF Inv, TtsTypeOK, ModelShape, LoopShape
  <2>2. TotalsAgree'
    BY TotalsKept DEF BooksKept
  <2>3. ASSUME NEW s \in Streams PROVE StreamShape(s)' /\ ReceiptShape(s)'
    BY StillShape DEF Inv, Still
  <2> QED
    BY <2>1, <2>2, <2>3 DEF Inv
<1> QED
  BY <1>1, <1>2

\* Every property below is one of the invariant, or of the steps it allows.
LEMMA SpecInv == Spec => []Inv
BY InitInv, NextInv, PTL DEF Spec

\* Type correctness (run tts).
THEOREM TtsTyped == Spec => []TtsTypeOK
<1>1. Inv => TtsTypeOK
  BY DEF Inv
<1> QED
  BY <1>1, SpecInv, PTL

\* A clean receipt says that the client heard everything or left, no receipt
\* counts a chunk that was not made, and the totals are those of the receipts
\* (service.py, pcm_chunks and _record_complete).
THEOREM ReceiptsAreHonest == Spec => []ReceiptsHonest
<1>1. ASSUME Inv PROVE ReceiptsHonest
  <2>1. TotalsAgree /\ TtsTypeOK
    BY <1>1 DEF Inv
  <2>2. ASSUME NEW s \in Streams
        PROVE  /\ receipt[s] = "clean" =>
                    \/ how[s] = "left"
                    \/ how[s] = "ok" /\ finished[s] /\ Len(heard[s]) = made[s]
               /\ receipt[s] = "empty" => heard[s] = <<>>
               /\ receipt[s] # "none" =>
                    counted[s] - Len(heard[s]) \in (IF how[s] = "left" THEN {0, 1}
                                                   ELSE {0})
    <3>1. EndShape(s) /\ CountShape(s) /\ WholeShape(s) /\ ReceiptShape(s)
      BY <1>1 DEF Inv, StreamShape
    <3>2. Len(heard[s]) \in Nat /\ counted[s] \in Nat
      BY <2>1, TtsAssumption DEF TtsTypeOK
    <3>3. ASSUME receipt[s] # "none"
          PROVE  counted[s] - Len(heard[s]) \in (IF how[s] = "left" THEN {0, 1}
                                                 ELSE {0})
      <4>1. pc[s] # "send"
        BY <3>1, <3>3 DEF EndShape
      <4>2. CASE how[s] = "left"
        BY <3>1, <4>2 DEF CountShape
      <4>3. CASE how[s] # "left"
        <5>1. counted[s] = Len(heard[s])
          BY <3>1, <3>2, <4>1, <4>3 DEF CountShape
        <5> QED
          BY <3>2, <4>3, <5>1
      <4> QED
        BY <4>2, <4>3
    <3>4. /\ receipt[s] = "clean" =>
                \/ how[s] = "left"
                \/ how[s] = "ok" /\ finished[s] /\ Len(heard[s]) = made[s]
          /\ receipt[s] = "empty" => heard[s] = <<>>
      BY <3>1 DEF WholeShape, ReceiptShape
    <3> QED
      BY <3>3, <3>4
  <2> QED
    BY <2>1, <2>2 DEF ReceiptsHonest, TotalsAgree
<1> QED
  BY <1>1, SpecInv, PTL

-----------------------------------------------------------------------------
(* What a thread may still be about.                                       *)

\* The chunk that the thread waits to hand over.
Held(s) == IF thread[s] = "putting" /\ item[s] \in Chunks THEN 1 ELSE 0

\* What the model made was counted, or is in the queue, or in the thread's hand.
LeadShape(s) == made[s] <= counted[s] + Len(queue[s]) + Held(s)

\* Behind a stream that ended of itself the queue is empty, and its thread has
\* handed over the last of its items.
RestShape(s) ==
    pc[s] \in {"join", "over"} /\ how[s] # "left" =>
        /\ queue[s] = <<>>
        /\ thread[s] \notin {"making", "putting"}
        /\ thread[s] \in {"resulting", "returning"} => LastItem(s)

ThreadInv == \A s \in Streams : LeadShape(s) /\ RestShape(s)

LEMMA Sums ==
    /\ \A m, c, l \in Nat : m <= c + l => m + 1 <= c + l + 1
    /\ \A m, c, l, h \in Nat : m <= c + l + h /\ h <= 1 => m <= c + (l + 1) + 0
    /\ \A m, c, l \in Nat : m = c => m <= c + l + 0
    /\ \A m, c, l, h \in Nat :
         l >= 1 /\ m <= c + l + h => m <= (c + 1) + (l - 1) + h
    /\ \A m, c, l, h, q \in Nat : m <= c + l + h /\ l <= q /\ h <= 1 => m <= c + q + 1
    /\ \A c, l \in Nat : c = c + l - 1 => l = 1
OBVIOUS

\* Without a chunk made, queued, taken or counted the lead stays as it is.
LEMMA LeadKept ==
    ASSUME NEW s \in Streams, LeadShape(s), made' = made, counted' = counted,
           queue' = queue, Held(s)' = Held(s)
    PROVE  LeadShape(s)'
BY DEF LeadShape

LEMMA LeadStep ==
    ASSUME Inv, NEW s \in Streams, LeadShape(s), Step(s)
    PROVE  LeadShape(s)'
<1>1. TtsTypeOK /\ StreamShape(s)
  BY DEF Inv
<1>2. /\ made[s] \in Nat /\ counted[s] \in Nat /\ Len(queue[s]) \in Nat
      /\ queue[s] \in Seq(Items) /\ Held(s) \in Nat /\ Held(s) <= 1
  BY <1>1, StreamNumbers DEF Held
<1>3. CASE MakeChunk(s)
  <2>1. /\ thread[s] = "making" /\ thread'[s] = "putting"
        /\ item'[s] = made[s] + 1 /\ made'[s] = made[s] + 1
        /\ counted' = counted /\ queue' = queue /\ made[s] < Longest[s]
    BY <1>1, <1>3 DEF MakeChunk, TtsTypeOK
  <2>2. made[s] + 1 \in Chunks
    BY <1>1, <2>1, RoomForOne DEF TtsTypeOK
  <2>3. Held(s) = 0 /\ Held(s)' = 1
    BY <2>1, <2>2 DEF Held
  <2>4. made[s] <= counted[s] + Len(queue[s])
    BY <1>2, <2>3 DEF LeadShape
  <2> QED
    BY <1>2, <2>1, <2>3, <2>4, Sums DEF LeadShape
<1>4. CASE MakeEnd(s) \/ MakeError(s)
  <2>1. /\ thread[s] = "making" /\ item'[s] \in {End, Raised}
        /\ made' = made /\ counted' = counted /\ queue' = queue
    BY <1>1, <1>4 DEF MakeEnd, MakeError, TtsTypeOK
  <2>2. Held(s)' = Held(s)
    BY <2>1, ItemKinds DEF Held
  <2> QED
    BY <2>1, <2>2, LeadKept
<1>5. CASE Put(s)
  <2>1. /\ made' = made /\ counted' = counted /\ thread'[s] = "resulting"
        /\ queue'[s] = Append(queue[s], item[s]) /\ item[s] \in Items
    BY <1>1, <1>5 DEF Put, TtsTypeOK, StreamShape, ThreadShape
  <2>2. Len(queue'[s]) = Len(queue[s]) + 1 /\ Held(s)' = 0
    BY <1>2, <2>1 DEF Held
  <2>3. made[s] <= counted[s] + Len(queue[s]) + Held(s)
    BY DEF LeadShape
  <2>4. made[s] <= counted[s] + (Len(queue[s]) + 1) + 0
    BY <1>2, <2>3, Sums
  <2> QED
    BY <2>1, <2>2, <2>4 DEF LeadShape
<1>6. CASE TakeChunk(s)
  <2>1. /\ made' = made /\ thread' = thread /\ item' = item
        /\ counted'[s] = counted[s] + 1 /\ queue[s] # <<>>
        /\ queue'[s] = Tail(queue[s])
    BY <1>1, <1>6 DEF TakeChunk, Yield, TtsTypeOK, threadVars
  <2>2. Len(queue[s]) >= 1 /\ Len(queue'[s]) = Len(queue[s]) - 1 /\ Held(s)' = Held(s)
    BY <1>2, <2>1 DEF Held
  <2>3. made[s] <= counted[s] + Len(queue[s]) + Held(s)
    BY DEF LeadShape
  <2>4. made[s] <= (counted[s] + 1) + (Len(queue[s]) - 1) + Held(s)
    BY <1>2, <2>2, <2>3, Sums
  <2> QED
    BY <2>1, <2>2, <2>4 DEF LeadShape
<1>7. CASE TakeLast(s)
  <2>1. /\ made' = made /\ counted' = counted /\ thread' = thread /\ item' = item
        /\ pc[s] = "get" /\ queue[s] # <<>> /\ Head(queue[s]) \notin Chunks
        /\ queue'[s] = Tail(queue[s])
    BY <1>1, <1>7 DEF TakeLast, TtsTypeOK, threadVars
  <2>2. made[s] = counted[s] /\ Closed(s)
    BY <2>1, HeadOfQueue
  <2>3. Len(queue'[s]) \in Nat /\ Held(s)' = 0
    BY <1>2, <2>1, <2>2 DEF Held, Closed
  <2>4. made[s] <= counted[s] + Len(queue'[s]) + 0
    BY <1>2, <2>2, <2>3, Sums
  <2> QED
    BY <2>1, <2>3, <2>4 DEF LeadShape
<1>8. CASE ChirpChunk(s)
  <2>1. /\ made'[s] = made[s] + 1 /\ counted'[s] = counted[s] + 1 /\ queue' = queue
        /\ thread' = thread /\ item' = item /\ pc[s] = "get" /\ adapter = "chirp3hd"
    BY <1>1, <1>8 DEF ChirpChunk, Yield, TtsTypeOK
  <2>2. made[s] = counted[s] /\ thread[s] = "none"
    BY <1>1, <2>1 DEF StreamShape, PipeShape, StartShape
  <2>3. Held(s)' = 0 /\ made'[s] = counted'[s] /\ counted'[s] \in Nat
    BY <1>2, <2>1, <2>2 DEF Held
  <2>4. made'[s] <= counted'[s] + Len(queue[s]) + 0
    BY <1>2, <2>3, Sums
  <2> QED
    BY <2>1, <2>3, <2>4 DEF LeadShape
<1>9. CASE StartBody(s) \/ ModelReady(s) \/ PoolStep(s) \/ Answer(s) \/ Return(s)
  <2>1. /\ made' = made /\ counted' = counted /\ queue' = queue /\ item' = item
        /\ thread[s] # "putting" /\ thread'[s] # "putting"
    BY <1>1, <1>9 DEF StartBody, ModelReady, PoolStep, AskModel, LoadEnds, Answer,
       Return, TtsTypeOK, StreamShape, StartShape
  <2>2. Held(s)' = Held(s)
    BY <2>1 DEF Held
  <2> QED
    BY <2>1, <2>2, LeadKept
<1>10. CASE \/ Ends(s) \/ Refuse(s) \/ Accept(s) \/ Sent(s) \/ Leave(s)
            \/ CloseAdapter(s) \/ ChirpOpens(s) \/ ChirpCloses(s) \/ JoinReturns(s)
  <2>1. made' = made /\ counted' = counted /\ queue' = queue /\ thread' = thread
        /\ item' = item
    BY <1>10 DEF Ends, WrongVoice, ModelBroken, ChirpEnds, ChirpFails, CloseBody,
       Refuse, Accept, Sent, Leave, LeaveEarly, LeaveAwaiting, LeaveGetting,
       LeaveSending, CloseAdapter, ChirpOpens, ChirpCloses, JoinReturns, threadVars
  <2>2. Held(s)' = Held(s)
    BY <2>1 DEF Held
  <2> QED
    BY <2>1, <2>2, LeadKept
<1> QED
  BY <1>3, <1>4, <1>5, <1>6, <1>7, <1>8, <1>9, <1>10
  DEF Step, Ends, Handler, Synthesis, Making, LoopStep, Chirp

LEMMA TailOfOne ==
    ASSUME NEW S, NEW q \in Seq(S), Len(q) = 1
    PROVE  Tail(q) = <<>>
<1>1. q # <<>>
  BY EmptySeq
<1>2. Tail(q) \in Seq(S) /\ Len(Tail(q)) = Len(q) - 1
  BY <1>1, HeadTailProperties
<1>3. Tail(q) # <<>> => Len(Tail(q)) \in Nat \ {0}
  BY <1>2, EmptySeq
<1>4. Len(Tail(q)) \notin Nat \ {0}
  BY <1>2
<1> QED
  BY <1>3, <1>4

LEMMA RestStep ==
    ASSUME Inv, NEW s \in Streams, RestShape(s), Step(s)
    PROVE  RestShape(s)'
<1>1. TtsTypeOK /\ StreamShape(s) /\ LoopShape
  BY DEF Inv
<1>2. CASE Ends(s)
  <2>1. PICK next \in {"over", "orphan"}, outcome \in {"ok", "failed", "left"},
             h \in {"ok", "failed", "left"} :
          /\ pc' = [pc EXCEPT ![s] = next]
          /\ how' = [how EXCEPT ![s] = h]
          /\ h = "left" <=> outcome = "left"
          /\ how[s] = "left" => outcome = "left"
          /\ pc[s] \in {"open", "model", "get", "closing", "join"}
          /\ UNCHANGED <<threadVars, queue>>
    BY <1>2, EndsFacts
  <2>2. SUFFICES ASSUME h # "left"
                 PROVE  /\ queue[s] = <<>>
                        /\ thread[s] \notin {"making", "putting"}
                        /\ thread[s] \in {"resulting", "returning"} => LastItem(s)
    BY <1>1, <2>1 DEF RestShape, LastItem, TtsTypeOK, threadVars
  <2>3. CASE pc[s] \in {"open", "model"}
    BY <1>1, <2>3 DEF StreamShape, StartShape, Working
  <2>4. CASE pc[s] = "get"
    <3>1. adapter = "chirp3hd"
      BY <1>2, <2>4 DEF Ends, WrongVoice, ModelBroken, ChirpEnds, ChirpFails,
         LeaveAwaiting, CloseBody, JoinReturns, Inv, LoopShape
    <3> QED
      BY <1>1, <3>1 DEF StreamShape, StartShape
  <2>5. CASE pc[s] = "closing"
    BY <1>1, <2>1, <2>2, <2>5 DEF StreamShape, EndShape
  <2>6. CASE pc[s] = "join"
    BY <2>1, <2>2, <2>6 DEF RestShape
  <2> QED
    BY <2>1, <2>3, <2>4, <2>5, <2>6
<1>3. CASE TakeLast(s)
  <2>1. /\ thread' = thread /\ item' = item /\ pc[s] = "get" /\ queue[s] # <<>>
        /\ Head(queue[s]) \notin Chunks /\ queue'[s] = Tail(queue[s])
    BY <1>1, <1>3 DEF TakeLast, TtsTypeOK, threadVars
  <2>2. made[s] = counted[s] /\ Closed(s) /\ adapter = "cosyvoice"
    BY <2>1, HeadOfQueue
  <2>3. /\ made[s] = counted[s] + Len(queue[s]) - 1
        /\ counted[s] \in Nat /\ Len(queue[s]) \in Nat /\ queue[s] \in Seq(Items)
    BY <1>1, <2>1, <2>2, StreamNumbers DEF StreamShape, PipeShape
  <2>4. Len(queue[s]) = 1
    BY <2>2, <2>3, Sums
  <2>5. queue'[s] = <<>>
    BY <2>1, <2>3, <2>4, TailOfOne
  <2> QED
    BY <2>1, <2>2, <2>5 DEF RestShape, Closed, LastItem
<1>4. CASE LeaveGetting(s) \/ CloseAdapter(s) \/ LeaveSending(s) \/ LeaveEarly(s)
  BY <1>1, <1>4 DEF LeaveGetting, CloseAdapter, LeaveSending, LeaveEarly, Join, Goto,
     RestShape, TtsTypeOK
<1>5. CASE JoinReturns(s) /\ receipt[s] # "none"
  <2>1. pc[s] = "join" /\ how' = how /\ UNCHANGED <<thread, item, queue>>
    BY <1>1, <1>5 DEF JoinReturns, LoopShape, threadVars
  <2> QED
    BY <2>1 DEF RestShape, LastItem
<1>6. CASE Making(s) \/ Put(s) \/ Answer(s) \/ Return(s) \/ PoolStep(s)
  <2>1. SUFFICES ASSUME pc[s] \in {"join", "over"}, how[s] # "left"
                 PROVE  RestShape(s)'
    BY <1>6 DEF RestShape, Making, MakeChunk, MakeEnd, MakeError, Put, Answer, Return,
       PoolStep, AskModel, LoadEnds, streamVars
  <2>2. /\ queue[s] = <<>> /\ thread[s] \notin {"making", "putting"}
        /\ thread[s] \in {"resulting", "returning"} => LastItem(s)
    BY <2>1 DEF RestShape
  <2>3. CASE Making(s) \/ Put(s)
    BY <2>2, <2>3 DEF Making, MakeChunk, MakeEnd, MakeError, Put
  <2>4. CASE Answer(s) \/ Return(s)
    <3>1. item[s] \notin Chunks
      BY <2>2, <2>4, ItemKinds DEF Answer, Return, LastItem
    <3> QED
      BY <1>1, <2>2, <2>4, <3>1 DEF Answer, Return, LastItem, RestShape, TtsTypeOK
  <2>5. CASE PoolStep(s)
    BY <1>1, <2>2, <2>5 DEF PoolStep, AskModel, LoadEnds, RestShape, LastItem, TtsTypeOK
  <2> QED
    BY <1>6, <2>3, <2>4, <2>5
<1>7. CASE \/ Refuse(s) \/ Accept(s) \/ StartBody(s) \/ ModelReady(s) \/ TakeChunk(s)
           \/ Sent(s) \/ ChirpOpens(s) \/ ChirpChunk(s) \/ ChirpCloses(s)
  <2>1. pc'[s] \notin {"join", "over"}
    BY <1>1, <1>7 DEF Refuse, Accept, StartBody, ModelReady, TakeChunk, Sent,
       ChirpOpens, ChirpChunk, ChirpCloses, Yield, Goto, TtsTypeOK, streamVars
  <2> QED
    BY <2>1 DEF RestShape
<1> QED
  BY <1>2, <1>3, <1>4, <1>5, <1>6, <1>7
  DEF Step, Ends, Handler, Synthesis, LoopStep, Chirp, Leave

LEMMA ThreadStep ==
    ASSUME Inv, ThreadInv, [Next]_vars
    PROVE  ThreadInv'
<1>1. ASSUME NEW s \in Streams, NEW t \in Streams, Step(t)
      PROVE  LeadShape(s)' /\ RestShape(s)'
  <2>1. CASE s = t
    BY <1>1, <2>1, LeadStep, RestStep DEF ThreadInv
  <2>2. CASE s # t
    <3>1. Still(s)
      BY <1>1, <2>2, StepInv DEF Others
    <3> QED
      BY <3>1 DEF ThreadInv, Still, LeadShape, Held, RestShape, LastItem
  <2> QED
    BY <2>1, <2>2
<1>2. CASE UNCHANGED vars
  BY <1>2 DEF vars, threadVars, streamVars, ThreadInv, LeadShape, Held, RestShape,
     LastItem
<1> QED
  BY <1>1, <1>2 DEF Next, Step, ThreadInv

LEMMA ThreadInit == Init => ThreadInv
<1> SUFFICES ASSUME Init, NEW s \in Streams
             PROVE  LeadShape(s) /\ RestShape(s)
  BY DEF ThreadInv
<1>1. /\ made[s] = 0 /\ counted[s] = 0 /\ Len(queue[s]) = 0 /\ Held(s) = 0
      /\ pc[s] = "new"
  BY DEF Init, Held
<1> QED
  BY <1>1 DEF LeadShape, RestShape

\* The model is ahead of the server by the queue and one chunk at most, also
\* when nobody reads the queue any more, and behind a stream that ended of
\* itself nothing is left to make or to take (cosyvoice.py, the bounded queue
\* and the join of synthesize_stream).
THEOREM ThreadsAreBounded == Spec => []ThreadBounded
<1>1. ASSUME Inv, ThreadInv PROVE ThreadBounded
  <2>1. SUFFICES ASSUME NEW s \in Streams
                 PROVE  /\ made[s] <= counted[s] + QueueSize + 1
                        /\ pc[s] \in {"join", "over"} /\ how[s] # "left" =>
                             /\ thread[s] \notin {"making", "putting"}
                             /\ queue[s] = <<>>
    BY DEF ThreadBounded
  <2>2. LeadShape(s) /\ RestShape(s) /\ TtsTypeOK
    BY <1>1 DEF ThreadInv, Inv
  <2>3. /\ made[s] \in Nat /\ counted[s] \in Nat /\ Len(queue[s]) \in Nat
        /\ Held(s) \in Nat /\ Held(s) <= 1
        /\ Len(queue[s]) <= QueueSize /\ QueueSize \in Nat
    <3>1. Len(queue[s]) <= QueueSize
      BY <2>2 DEF TtsTypeOK
    <3> QED
      BY <2>2, <3>1, StreamNumbers, TtsAssumption DEF Held
  <2>4. made[s] <= counted[s] + Len(queue[s]) + Held(s)
    BY <2>2 DEF LeadShape
  <2>5. made[s] <= counted[s] + QueueSize + 1
    BY <2>3, <2>4, Sums
  <2> QED
    BY <2>2, <2>5 DEF RestShape
<1>2. Init /\ [][Next]_vars => []ThreadInv
  <2>1. Inv /\ ThreadInv /\ [Next]_vars => ThreadInv'
    BY ThreadStep
  <2>2. Inv /\ [Next]_vars => Inv'
    BY NextInv
  <2> QED
    BY <2>1, <2>2, InitInv, ThreadInit, PTL
<1> QED
  BY <1>1, <1>2, SpecInv, PTL DEF Spec

-----------------------------------------------------------------------------
(* What the seam promises of a stream.                                     *)

Phases == [s \in Streams |-> Phase(s)]

StreamKept == made' = made /\ finished' = finished /\ heard' = heard

LEMMA PhasesStep ==
    ASSUME NEW s \in Streams, Others(s)
    PROVE  Phases' = [Phases EXCEPT ![s] = Phase(s)']
<1>1. Phases' = [t \in Streams |-> Phase(t)']
  BY DEF Phases
<1>2. ASSUME NEW t \in Streams, t # s PROVE Phase(t)' = Phase(t)
  BY <1>2 DEF Phase, Others, Still
<1> DEFINE new == Phase(s)'
<1>3. [Phases EXCEPT ![s] = new] = [t \in Streams |-> IF t = s THEN new ELSE Phase(t)]
  BY DEF Phases
<1> QED
  BY <1>1, <1>2, <1>3

\* The steps of the promise, by what they do to the phase of their stream.
LEMMA PromisedPhase ==
    ASSUME NEW s \in Streams, Others(s), StreamKept,
           \/ Phase(s)' = Phase(s)
           \/ Phase(s) = "idle" /\ Phase(s)' = "speaking"
           \/ Phase(s) \in {"idle", "speaking"} /\ Phase(s)' \in {"failed", "left"}
           \/ /\ Phase(s) = "speaking" /\ Phase(s)' = "complete"
              /\ finished[s] /\ Len(heard[s]) = made[s]
    PROVE  [Promised!StreamNext]_(Promised!streamVars)
<1>1. Phases' = [Phases EXCEPT ![s] = Phase(s)'] /\ Phases[s] = Phase(s)
  BY PhasesStep DEF Phases
<1>2. CASE Phase(s)' = Phase(s)
  <2>1. Phases' = Phases
    BY <1>1, <1>2 DEF Phases
  <2> QED
    BY <2>1 DEF Promised!streamVars, Phases, StreamKept
<1>3. CASE Phase(s) = "idle" /\ Phase(s)' = "speaking"
  <2>1. Promised!Begin(s)
    BY <1>1, <1>3 DEF Promised!Begin, Phases, StreamKept
  <2> QED
    BY <2>1 DEF Promised!StreamNext
<1>4. CASE Phase(s) \in {"idle", "speaking"} /\ Phase(s)' \in {"failed", "left"}
  <2>1. Promised!GiveUp(s)
    BY <1>1, <1>4 DEF Promised!GiveUp, Phases, StreamKept
  <2> QED
    BY <2>1 DEF Promised!StreamNext
<1>5. CASE /\ Phase(s) = "speaking" /\ Phase(s)' = "complete"
           /\ finished[s] /\ Len(heard[s]) = made[s]
  <2>1. Promised!Complete(s)
    BY <1>1, <1>5 DEF Promised!Complete, Phases, StreamKept
  <2> QED
    BY <2>1 DEF Promised!StreamNext
<1> QED
  BY <1>2, <1>3, <1>4, <1>5

\* The end of a body completes a stream that was heard whole, or gives it up.
LEMMA EndsPromised ==
    ASSUME Inv, NEW s \in Streams, Ends(s)
    PROVE  [Promised!StreamNext]_(Promised!streamVars)
<1>1. TtsTypeOK /\ EndShape(s)
  BY DEF Inv, StreamShape
<1>2. Others(s) /\ EndShape(s)' /\ WholeShape(s)'
  BY EndsInv DEF Inv, StreamShape
<1>3. PICK next \in {"over", "orphan"}, outcome \in {"ok", "failed", "left"},
           h \in {"ok", "failed", "left"} :
        /\ pc' = [pc EXCEPT ![s] = next]
        /\ how' = [how EXCEPT ![s] = h]
        /\ next = "orphan" => h = "left"
        /\ h = "left" <=> outcome = "left"
        /\ h = "ok" => outcome = "ok"
        /\ how[s] = "left" => outcome = "left"
        /\ outcome = "ok" => how[s] = "ok" \/ ChirpEnds(s)
        /\ pc[s] \in {"open", "model", "get", "closing", "join"}
        /\ UNCHANGED <<threadVars, heard>>
  BY EndsFacts
<1>4. pc'[s] = next /\ how'[s] = h /\ StreamKept
  BY <1>1, <1>3 DEF TtsTypeOK, threadVars, StreamKept
<1>5. Phase(s)' = IF h = "left" THEN "left"
                  ELSE IF h = "ok" THEN "complete" ELSE "failed"
  BY <1>3, <1>4 DEF Phase
<1>6. CASE how[s] = "left"
  <2>1. Phase(s) = "left" /\ Phase(s)' = "left"
    <3>1. pc[s] # "open" /\ h = "left"
      BY <1>1, <1>3, <1>6 DEF EndShape
    <3> QED
      BY <1>3, <1>5, <1>6, <3>1 DEF Phase
  <2> QED
    BY <1>2, <1>4, <2>1, PromisedPhase
<1>7. CASE how[s] # "left"
  <2>1. Phase(s) = IF pc[s] = "open" THEN "idle" ELSE "speaking"
    BY <1>1, <1>3, <1>7 DEF Phase, EndShape
  <2>2. CASE h # "ok"
    <3>1. Phase(s)' \in {"failed", "left"} /\ Phase(s) \in {"idle", "speaking"}
      BY <1>5, <2>1, <2>2
    <3> QED
      BY <1>2, <1>4, <3>1, PromisedPhase
  <2>3. CASE h = "ok"
    <3>1. pc[s] # "open"
      <4>1. pc[s] = "open" => how[s] = "none" /\ ~ChirpEnds(s)
        BY <1>1 DEF EndShape, ChirpEnds
      <4> QED
        BY <1>3, <2>3, <4>1
    <3>2. finished[s] /\ Len(heard[s]) = made[s]
      BY <1>2, <1>4, <2>3 DEF WholeShape, StreamKept
    <3>3. Phase(s) = "speaking" /\ Phase(s)' = "complete"
      BY <1>5, <2>1, <2>3, <3>1
    <3> QED
      BY <1>2, <1>4, <3>2, <3>3, PromisedPhase
  <2> QED
    BY <2>2, <2>3
<1> QED
  BY <1>6, <1>7

\* A stream's place changes without a word to or from the model.
LEMMA PlacePromised ==
    ASSUME Inv, NEW s \in Streams,
           \/ Refuse(s) \/ Accept(s) \/ StartBody(s) \/ LeaveEarly(s) \/ ChirpOpens(s)
           \/ PoolStep(s) \/ ModelReady(s) \/ MakeError(s) \/ Put(s) \/ Answer(s)
           \/ Return(s)
           \/ TakeChunk(s) \/ TakeLast(s) \/ LeaveGetting(s) \/ CloseAdapter(s)
           \/ LeaveSending(s) \/ (JoinReturns(s) /\ receipt[s] # "none")
    PROVE  [Promised!StreamNext]_(Promised!streamVars)
<1>1. TtsTypeOK /\ EndShape(s) /\ LoopShape
  BY DEF Inv, StreamShape
<1>2. Others(s) /\ EndShape(s)'
  <2>1. Inv' /\ Others(s)
    BY EarlyInv, PoolInv, ModelReadyInv, MakingInv, PutInv, AnswerInv, TakeChunkInv,
       JoinInv, LeaveSendingInv DEF Making
  <2> QED
    BY <2>1 DEF Inv, StreamShape
<1> USE DEF StreamKept, threadVars, streamVars
<1>3. CASE Refuse(s) \/ Accept(s) \/ ChirpOpens(s) \/ ModelReady(s) \/ TakeChunk(s)
  <2>1. StreamKept /\ how' = how /\ how[s] = "none"
    BY <1>1, <1>3 DEF EndShape, Refuse, Accept, ChirpOpens, ModelReady, TakeChunk
  <2>2. Phase(s)' = Phase(s)
    BY <1>1, <1>3, <2>1 DEF TtsTypeOK, Refuse, Accept, ChirpOpens, ModelReady,
       TakeChunk, Goto, Yield, Phase
  <2> QED
    BY <1>2, <2>1, <2>2, PromisedPhase
<1>4. CASE PoolStep(s) \/ MakeError(s) \/ Put(s) \/ Answer(s) \/ Return(s)
  <2>1. StreamKept /\ how' = how /\ pc' = pc
    BY <1>4 DEF PoolStep, AskModel, LoadEnds, MakeError, Put, Answer, Return
  <2> QED
    BY <1>2, <2>1, PromisedPhase DEF Phase
<1>5. CASE StartBody(s)
  <2>1. StreamKept /\ pc[s] = "open" /\ pc'[s] = "model" /\ how'[s] = "none"
    BY <1>1, <1>5 DEF TtsTypeOK, EndShape, StartBody, Goto
  <2>2. Phase(s) = "idle" /\ Phase(s)' = "speaking"
    BY <2>1 DEF Phase
  <2> QED
    BY <1>2, <2>1, <2>2, PromisedPhase
<1>6. CASE LeaveEarly(s) \/ LeaveGetting(s) \/ LeaveSending(s)
  <2>1. StreamKept /\ pc[s] \in {"open", "get", "send"} /\ how[s] = "none"
    BY <1>1, <1>6 DEF EndShape, LeaveEarly, LeaveGetting, LeaveSending
  <2>2. pc'[s] \in {"dropped", "join", "closing"} /\ how'[s] = "left"
    BY <1>1, <1>6 DEF TtsTypeOK, LeaveEarly, LeaveGetting, LeaveSending, Join, Goto
  <2>3. Phase(s) \in {"idle", "speaking"} /\ Phase(s)' = "left"
    BY <2>1, <2>2 DEF Phase
  <2> QED
    BY <1>2, <2>1, <2>3, PromisedPhase
<1>7. CASE TakeLast(s)
  <2>1. StreamKept /\ pc[s] = "get" /\ how[s] = "none"
    BY <1>1, <1>7 DEF EndShape, TakeLast
  <2>2. pc'[s] = "join" /\ how'[s] # "left"
    BY <1>1, <1>7 DEF TtsTypeOK, TakeLast, Join, Goto
  <2>3. Phase(s) = "speaking" /\ Phase(s)' = "speaking"
    BY <2>1, <2>2 DEF Phase
  <2> QED
    BY <1>2, <2>1, <2>3, PromisedPhase
<1>8. CASE CloseAdapter(s) \/ (JoinReturns(s) /\ receipt[s] # "none")
  <2>1. StreamKept /\ pc[s] \in {"orphan", "join"} /\ how[s] = "left"
    BY <1>1, <1>8 DEF EndShape, LoopShape, CloseAdapter, JoinReturns
  <2>2. pc'[s] \in {"join", "over"} /\ how'[s] = "left"
    BY <1>1, <1>8, <2>1 DEF TtsTypeOK, CloseAdapter, JoinReturns, Join, Goto
  <2>3. Phase(s) = "left" /\ Phase(s)' = "left"
    BY <2>1, <2>2 DEF Phase
  <2> QED
    BY <1>2, <2>1, <2>3, PromisedPhase
<1> QED
  BY <1>3, <1>4, <1>5, <1>6, <1>7, <1>8

\* The model makes a chunk, or says that it made the last.
LEMMA MakePromised ==
    ASSUME Inv, NEW s \in Streams,
           MakeChunk(s) \/ MakeEnd(s) \/ ChirpChunk(s) \/ ChirpCloses(s)
    PROVE  [Promised!StreamNext]_(Promised!streamVars)
<1>1. TtsTypeOK /\ EndShape(s) /\ StartShape(s) /\ ThreadShape(s)
  BY DEF Inv, StreamShape
<1>2. Inv' /\ Others(s)
  BY MakingInv, ChirpChunkInv, ChirpClosesInv DEF Making
<1>3. /\ pc[s] \notin {"new", "refused", "open"} /\ ~finished[s]
      /\ how'[s] = how[s] /\ heard' = heard
      /\ pc'[s] = pc[s] \/ (pc[s] = "get" /\ pc'[s] = "send")
  BY <1>1 DEF TtsTypeOK, MakeChunk, MakeEnd, ChirpChunk, ChirpCloses, StartShape,
     ThreadShape, Working, Yield, Goto, streamVars
<1>4. Phase(s) # "idle" /\ Phase(s)' = Phase(s)
  BY <1>3 DEF Phase
<1>5. Phases' = Phases /\ Phases[s] # "idle"
  <2>1. Phases' = [Phases EXCEPT ![s] = Phase(s)]
    BY <1>2, <1>4, PhasesStep
  <2> QED
    BY <1>4, <2>1 DEF Phases
<1>6. CASE MakeChunk(s) \/ ChirpChunk(s)
  <2>1. made' = [made EXCEPT ![s] = made[s] + 1] /\ finished' = finished
    BY <1>6 DEF MakeChunk, ChirpChunk
  <2>2. Promised!Make(s)
    BY <1>3, <1>5, <2>1 DEF Promised!Make, Phases
  <2> QED
    BY <2>2 DEF Promised!StreamNext
<1>7. CASE MakeEnd(s) \/ ChirpCloses(s)
  <2>1. made' = made /\ finished' = [finished EXCEPT ![s] = TRUE]
    BY <1>7 DEF MakeEnd, ChirpCloses
  <2>2. Promised!Finish(s)
    BY <1>3, <1>5, <2>1 DEF Promised!Finish, Phases
  <2> QED
    BY <2>2 DEF Promised!StreamNext
<1> QED
  BY <1>6, <1>7

\* What the client is sent is the next chunk, and one that was made.
LEMMA SentPromised ==
    ASSUME Inv, NEW s \in Streams, Sent(s)
    PROVE  [Promised!StreamNext]_(Promised!streamVars)
<1>1. TtsTypeOK /\ EndShape(s) /\ CountShape(s) /\ PipeShape(s)
  BY DEF Inv, StreamShape
<1>2. Inv' /\ Others(s)
  BY SentInv
<1>3. pc[s] = "send" /\ how[s] = "none" /\ pc'[s] = "get" /\ how'[s] = "none"
      /\ made' = made /\ finished' = finished
  BY <1>1 DEF TtsTypeOK, EndShape, Sent, Goto, threadVars
<1>4. Phases' = Phases /\ Phases[s] = "speaking"
  <2>1. Phase(s) = "speaking" /\ Phase(s)' = "speaking"
    BY <1>3 DEF Phase
  <2>2. Phases' = [Phases EXCEPT ![s] = Phase(s)]
    BY <1>2, <2>1, PhasesStep
  <2> QED
    BY <2>1, <2>2 DEF Phases
<1>5. Len(heard[s]) \in Nat /\ counted[s] \in Nat /\ made[s] \in Nat
      /\ Len(queue[s]) \in Nat
  BY <1>1, StreamNumbers
<1>6. counted[s] = Len(heard[s]) + 1 /\ hand[s] = counted[s]
  <2>1. how[s] # "left" /\ pc[s] = "send"
    BY <1>3
  <2> QED
    BY <1>1, <2>1, Zenon DEF CountShape
<1>7. counted[s] <= made[s]
  <2>1. CASE adapter = "chirp3hd"
    BY <1>1, <1>3, <1>5, <2>1 DEF PipeShape
  <2>2. CASE adapter = "cosyvoice" /\ Closed(s)
    <3>1. made[s] = counted[s] + Len(queue[s]) - 1 /\ queue[s] # <<>>
      BY <1>1, <1>3, <2>2 DEF PipeShape
    <3>2. Len(queue[s]) # 0
      BY <1>1, <3>1 DEF TtsTypeOK
    <3> QED
      BY <1>5, <3>1, <3>2
  <2>3. CASE adapter = "cosyvoice" /\ ~Closed(s)
    <3>1. \/ made[s] = counted[s] + Len(queue[s]) + 1
          \/ made[s] = counted[s] + Len(queue[s])
      BY <1>1, <1>3, <2>3 DEF PipeShape
    <3> QED
      BY <1>5, <3>1
  <2> QED
    BY <1>1, <2>1, <2>2, <2>3 DEF TtsTypeOK
<1>8. Len(heard[s]) < made[s]
  BY <1>5, <1>6, <1>7
<1>9. heard' = [heard EXCEPT ![s] = Append(heard[s], Len(heard[s]) + 1)]
  BY <1>6 DEF Sent
<1>10. Promised!Hear(s)
  BY <1>3, <1>4, <1>8, <1>9 DEF Promised!Hear, Phases
<1> QED
  BY <1>10 DEF Promised!StreamNext

LEMMA StepPromised ==
    ASSUME Inv, [Next]_vars
    PROVE  [Promised!StreamNext]_(Promised!streamVars)
<1>1. ASSUME NEW s \in Streams, Step(s)
      PROVE  [Promised!StreamNext]_(Promised!streamVars)
  <2>1. CASE Ends(s)
    BY <2>1, EndsPromised
  <2>2. CASE MakeChunk(s) \/ MakeEnd(s) \/ ChirpChunk(s) \/ ChirpCloses(s)
    BY <2>2, MakePromised
  <2>3. CASE Sent(s)
    BY <2>3, SentPromised
  <2>4. CASE ~Ends(s) /\ ~Sent(s)
             /\ ~(MakeChunk(s) \/ MakeEnd(s) \/ ChirpChunk(s) \/ ChirpCloses(s))
    BY <1>1, <2>4, PlacePromised
    DEF Step, Ends, Handler, LoopStep, Chirp, Leave, Synthesis, Making
  <2> QED
    BY <2>1, <2>2, <2>3, <2>4
<1>2. CASE UNCHANGED vars
  BY <1>2 DEF vars, loopVars, modelVars, threadVars, streamVars, bookVars,
     Promised!streamVars, Phase
<1> QED
  BY <1>1, <1>2 DEF Next, Step

LEMMA InitPromised == Init => Promised!StreamInit
BY DEF Init, Promised!StreamInit, Phase

\* The service implements the promise of the seam (seam.py, TtsAdapter): the
\* client hears the chunks the model makes, each once and in order, and a
\* stream is complete only when the last of them was heard.
THEOREM ServiceKeepsThePromise == Spec => ImplementsStream
BY InitPromised, StepPromised, SpecInv, PTL DEF Spec, ImplementsStream, Promised!StreamSpec
=============================================================================
