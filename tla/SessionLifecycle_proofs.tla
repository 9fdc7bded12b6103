----------------------- MODULE SessionLifecycle_proofs -----------------------
(***************************************************************************)
(* Proofs about SessionLifecycle, for every sequence of mints, every limit,*)
(* every choice of what may raise and every bound on the rows.             *)
(***************************************************************************)
EXTENDS SessionLifecycle, FiniteSetTheorems, TLAPS

\* A session is in the table once its mint has got that far; a start that
\* raised leaves it there.
TableShape ==
    \A m \in Mints :
        /\ mint[m] = "made" => m \in Known
        /\ m \in Known => mint[m] \in {"made", "failed"}
        /\ m \notin Known => ~stopped[m] /\ rows[m] = <<>>

\* stop() has begun exactly when the session's flag is up.
StopShape == \A s \in Mints : stopped[s] <=> stage[s] # "none"

\* Who awaits a stop and is a mint is evicting, and awaits no other stop.
EvictionShape ==
    /\ \A s \in Mints : caller[s] \in Mints => mint[caller[s]] = "evicting"
    /\ \A s, t \in Mints :
        caller[s] \in Mints /\ caller[s] = caller[t] => s = t

\* What a receipt file holds.
RowShape ==
    \A s \in Mints :
        /\ mint[s] = "made" => rows[s] # <<>> /\ rows[s][1] = "started"
        /\ IF stage[s] = "done" THEN \E i \in Nat : Summaries(s) = {i}
                                ELSE Summaries(s) = {}

Inv == LifecycleTypeOK /\ TableShape /\ StopShape /\ EvictionShape /\ RowShape

Kinds == {"started", "event", "summary"}

-----------------------------------------------------------------------------
(* What the operators do to the table and to a receipt file.               *)

\* Where the summaries are in a row list.
At(r) == {i \in 1..Len(r) : r[i] = "summary"}

LEMMA AtAppend ==
    ASSUME NEW r \in Seq(Kinds), NEW k \in Kinds
    PROVE  /\ Append(r, k) \in Seq(Kinds)
           /\ Append(r, k) # <<>>
           /\ r # <<>> => Append(r, k)[1] = r[1]
           /\ k # "summary" => At(Append(r, k)) = At(r)
           /\ k = "summary" /\ At(r) = {} => \E i \in Nat : At(Append(r, k)) = {i}
<1> DEFINE a == Append(r, k)
<1>1. /\ Len(r) \in Nat /\ Len(a) = Len(r) + 1 /\ a \in Seq(Kinds)
      /\ a[Len(r) + 1] = k
      /\ \A i \in 1..Len(r) : a[i] = r[i]
  OBVIOUS
<1>2. r # <<>> => 1 \in 1..Len(r)
  BY <1>1
<1>3. k # "summary" => At(a) = At(r)
  BY <1>1 DEF At
<1>4. k = "summary" /\ At(r) = {} => At(a) = {Len(r) + 1}
  BY <1>1 DEF At
<1>5. a # <<>> /\ (r # <<>> => a[1] = r[1])
  BY <1>1, <1>2
<1>6. k = "summary" /\ At(r) = {} => \E i \in Nat : At(a) = {i}
  <2>1. Len(r) + 1 \in Nat
    BY <1>1
  <2> QED
    BY <1>4, <2>1, Zenon
<1> QED
  BY <1>1, <1>3, <1>5, <1>6, Zenon

LEMMA AtStarted ==
    /\ At(<<"started">>) = {}
    /\ <<"started">> # <<>> /\ <<"started">>[1] = "started"
<1>1. Len(<<"started">>) = 1 /\ <<"started">>[1] = "started"
  OBVIOUS
<1>2. <<"started">> # <<>>
  BY <1>1
<1> QED
  BY <1>1, <1>2 DEF At

LEMMA KnownAppend ==
    ASSUME LifecycleTypeOK, NEW m \in Mints, sessions' = Append(sessions, m)
    PROVE  sessions' \in Seq(Mints) /\ Known' = Known \cup {m}
<1>1. /\ sessions \in Seq(Mints) /\ Len(sessions) \in Nat
      /\ sessions' \in Seq(Mints)
      /\ Len(sessions') = Len(sessions) + 1
      /\ sessions'[Len(sessions) + 1] = m
      /\ \A i \in 1..Len(sessions) : sessions'[i] = sessions[i]
  BY DEF LifecycleTypeOK
<1>2. \A i \in 1..Len(sessions') : i \in 1..Len(sessions) \/ i = Len(sessions) + 1
  BY <1>1
<1>3. \A i \in 1..Len(sessions) : i \in 1..Len(sessions')
  BY <1>1
<1>4. Len(sessions) + 1 \in 1..Len(sessions')
  BY <1>1
<1> QED
  BY <1>1, <1>2, <1>3, <1>4 DEF Known

LEMMA KnownMints == LifecycleTypeOK => Known \subseteq Mints
  BY DEF LifecycleTypeOK, Known

\* What create() leaves behind, whoever calls it: the mint is answered, only
\* its own row list changes, and the table grows by its session or not at all.
LEMMA CreateFacts ==
    ASSUME LifecycleTypeOK, TableShape,
           NEW m \in Mints, mint[m] \in {"new", "evicting"},
           NEW receipts \in [Mints -> Seq(Kinds)],
           receipts[m] = <<>>,
           Create(m, receipts)
    PROVE  /\ m \notin Known
           /\ \E answer \in {"made", "refused", "failed"} :
                /\ mint' = [mint EXCEPT ![m] = answer]
                /\ answer = "made" => rows'[m] = <<"started">>
                /\ answer # "made" => rows'[m] = <<>>
                /\ answer \in {"made", "failed"} => ~Full /\ m \in Known'
                /\ answer = "refused" => Full /\ sessions' = sessions
           /\ sessions' \in Seq(Mints)
           /\ Known' = Known \/ Known' = Known \cup {m}
           /\ mint'[m] = "refused" => Known' = Known
           /\ loop' \in [Mints -> {"none", "running", "cancelled", "ended"}]
           /\ rows' \in [Mints -> Seq(Kinds)]
           /\ \A t \in Mints : t # m => rows'[t] = receipts[t]
           /\ At(rows'[m]) = {}
<1>1. m \notin Known
  BY DEF TableShape
<1>2. At(<<>>) = {} /\ <<"started">> \in Seq(Kinds)
  BY DEF At, Kinds
<1>3. CASE Full /\ Answer(m, "refused") /\ rows' = receipts
           /\ UNCHANGED <<sessions, loop>>
  BY <1>1, <1>2, <1>3 DEF LifecycleTypeOK, Answer, Known
<1>4. CASE /\ ~Full /\ Answer(m, "made") /\ sessions' = Append(sessions, m)
           /\ loop' = [loop EXCEPT ![m] = "running"]
           /\ rows' = [receipts EXCEPT ![m] = <<"started">>]
  BY <1>1, <1>2, <1>4, KnownAppend, AtStarted DEF LifecycleTypeOK, Answer
<1>5. CASE /\ ~Full /\ Answer(m, "failed") /\ sessions' = Append(sessions, m)
           /\ rows' = receipts /\ UNCHANGED loop
  BY <1>1, <1>2, <1>5, KnownAppend DEF LifecycleTypeOK, Answer
<1> QED
  BY <1>3, <1>4, <1>5 DEF Create

-----------------------------------------------------------------------------
(* The invariant, action by action.                                        *)

LEMMA InitInv == Init => Inv
<1> SUFFICES ASSUME Init PROVE Inv
  OBVIOUS
<1>1. Known = {}
  BY DEF Init, Known
<1>2. LifecycleTypeOK
  BY DEF Init, LifecycleTypeOK
<1>3. \A s \in Mints : Summaries(s) = {}
  BY DEF Init, Summaries
<1>4. "nobody" \notin Mints
  BY SessionsAssumption
<1> QED
  BY <1>1, <1>2, <1>3, <1>4
  DEF Inv, Init, TableShape, StopShape, EvictionShape, RowShape

\* What no step but a mint's or a close's does: it leaves the mints, the table
\* and the row lists alone.
LEMMA FrameInv ==
    ASSUME Inv, LifecycleTypeOK', UNCHANGED <<mint, sessions, stopped, stage, caller, rows>>
    PROVE  Inv'
<1>1. Known' = Known /\ \A s \in Mints : Summaries(s)' = Summaries(s)
  BY DEF Known, Summaries
<1> QED
  BY <1>1 DEF Inv, TableShape, StopShape, EvictionShape, RowShape

\* Who may call stop() on a session, with what the call does to the mints.
Calls(who) ==
    \/ who \in TheLoop \cup {"client", "shutdown"} /\ UNCHANGED mint
    \/ who \in Mints /\ mint[who] = "new" /\ Answer(who, "evicting")

LEMMA StopBeginFacts ==
    ASSUME LifecycleTypeOK, NEW s, NEW who \in Callers, StopBegin(s, who)
    PROVE  /\ s \in Mints /\ s \in Known /\ ~stopped[s]
           /\ stopped' = [stopped EXCEPT ![s] = TRUE]
           /\ caller' = [caller EXCEPT ![s] = who]
           /\ stage' \in [Mints -> {"none", "joining", "closing", "done", "failed"}]
           /\ stage'[s] \in {"joining", "closing"}
           /\ \A t \in Mints : t # s => stage'[t] = stage[t]
           /\ loop' \in [Mints -> {"none", "running", "cancelled", "ended"}]
<1>1. s \in Mints /\ s \in Known /\ ~stopped[s]
  BY KnownMints DEF StopBegin, Active
<1>2. CASE stage' = [stage EXCEPT ![s] = "closing"] /\ UNCHANGED loop
  BY <1>1, <1>2 DEF LifecycleTypeOK, StopBegin
<1>3. CASE /\ stage' = [stage EXCEPT ![s] = "joining"]
           /\ loop' = [loop EXCEPT ![s] = "cancelled"]
  BY <1>1, <1>3 DEF LifecycleTypeOK, StopBegin
<1> QED
  BY <1>2, <1>3 DEF StopBegin

LEMMA StopBeginInv ==
    ASSUME Inv, NEW s, NEW who \in Callers, StopBegin(s, who), Calls(who),
           UNCHANGED <<serviceVars, sessions, peer, rows>>
    PROVE  Inv'
<1>1. /\ LifecycleTypeOK /\ TableShape /\ StopShape /\ EvictionShape /\ RowShape
  BY DEF Inv
<1>2. /\ s \in Mints /\ s \in Known /\ ~stopped[s]
      /\ stopped' = [stopped EXCEPT ![s] = TRUE]
      /\ caller' = [caller EXCEPT ![s] = who]
      /\ stage' \in [Mints -> {"none", "joining", "closing", "done", "failed"}]
      /\ stage'[s] \in {"joining", "closing"}
      /\ \A t \in Mints : t # s => stage'[t] = stage[t]
      /\ loop' \in [Mints -> {"none", "running", "cancelled", "ended"}]
  BY <1>1, StopBeginFacts
<1>3. /\ mint' \in [Mints -> {"new", "evicting", "made", "refused", "failed"}]
      /\ \A m \in Mints : \/ mint'[m] = mint[m]
                          \/ mint[m] = "new" /\ mint'[m] = "evicting" /\ m = who
      /\ who \in Mints => mint[who] = "new" /\ mint'[who] = "evicting"
  <2>1. mint \in [Mints -> {"new", "evicting", "made", "refused", "failed"}]
    BY <1>1 DEF LifecycleTypeOK
  <2>2. CASE who \in TheLoop \cup {"client", "shutdown"} /\ UNCHANGED mint
    <3>1. who \notin Mints
      BY <2>2, SessionsAssumption
    <3>2. mint' = mint
      BY <2>2
    <3> QED
      BY <2>1, <3>1, <3>2
  <2>3. CASE who \in Mints /\ mint[who] = "new" /\ Answer(who, "evicting")
    BY <2>1, <2>3 DEF Answer
  <2> QED
    BY <2>2, <2>3 DEF Calls
<1>4. Known' = Known /\ \A t \in Mints : Summaries(t)' = Summaries(t)
  BY DEF Known, Summaries
<1>5. LifecycleTypeOK'
  BY <1>1, <1>2, <1>3 DEF LifecycleTypeOK, serviceVars
<1>6. TableShape'
  BY <1>1, <1>2, <1>3, <1>4 DEF TableShape, LifecycleTypeOK
<1>7. StopShape'
  BY <1>1, <1>2 DEF StopShape, LifecycleTypeOK
<1>8. EvictionShape'
  <2>1. \A t \in Mints : caller'[t] = IF t = s THEN who ELSE caller[t]
    BY <1>1, <1>2 DEF LifecycleTypeOK
  <2>2. \A t \in Mints : caller[t] \in Mints => caller[t] # who
    BY <1>1, <1>3 DEF EvictionShape
  <2> QED
    BY <1>1, <1>3, <2>1, <2>2 DEF EvictionShape
<1>9. RowShape'
  BY <1>1, <1>2, <1>3, <1>4 DEF RowShape, StopShape
<1> QED
  BY <1>5, <1>6, <1>7, <1>8, <1>9 DEF Inv

\* create(), called by a mint at once or after it has evicted somebody.
LEMMA MintAtOnceInv ==
    ASSUME Inv, NEW m \in Mints, MintAtOnce(m)
    PROVE  Inv'
<1>1. /\ LifecycleTypeOK /\ TableShape /\ StopShape /\ EvictionShape /\ RowShape
  BY DEF Inv
<1>2. /\ mint[m] = "new" /\ Create(m, rows)
      /\ UNCHANGED <<serviceVars, stopped, stage, caller, peer>>
  BY DEF MintAtOnce, Arrives
<1>3. rows \in [Mints -> Seq(Kinds)] /\ m \notin Known /\ rows[m] = <<>>
  BY <1>1, <1>2 DEF LifecycleTypeOK, Kinds, TableShape
<1>4. PICK answer \in {"made", "refused", "failed"} :
        /\ mint' = [mint EXCEPT ![m] = answer]
        /\ answer = "made" => rows'[m] = <<"started">>
        /\ answer # "made" => rows'[m] = <<>>
        /\ answer \in {"made", "failed"} => ~Full /\ m \in Known'
        /\ answer = "refused" => Full /\ sessions' = sessions
  BY <1>1, <1>2, <1>3, CreateFacts
<1>5. /\ sessions' \in Seq(Mints)
      /\ Known' = Known \/ Known' = Known \cup {m}
      /\ mint'[m] = "refused" => Known' = Known
      /\ loop' \in [Mints -> {"none", "running", "cancelled", "ended"}]
      /\ rows' \in [Mints -> Seq(Kinds)]
      /\ \A t \in Mints : t # m => rows'[t] = rows[t]
      /\ At(rows'[m]) = {}
  BY <1>1, <1>2, <1>3, CreateFacts
<1>6. LifecycleTypeOK'
  BY <1>1, <1>2, <1>4, <1>5 DEF LifecycleTypeOK, serviceVars, Kinds
<1>7. TableShape'
  BY <1>1, <1>2, <1>3, <1>4, <1>5 DEF TableShape, LifecycleTypeOK
<1>8. StopShape' /\ EvictionShape'
  BY <1>1, <1>2, <1>4 DEF StopShape, EvictionShape, LifecycleTypeOK
<1>9. RowShape'
  <2>1. stage'[m] = "none"
    BY <1>1, <1>2, <1>3 DEF StopShape, TableShape
  <2>2. Summaries(m)' = {}
    BY <1>5 DEF Summaries, At
  <2>3. mint'[m] = "made" => rows'[m] # <<>> /\ rows'[m][1] = "started"
    BY <1>1, <1>4, AtStarted DEF LifecycleTypeOK
  <2>4. ASSUME NEW t \in Mints, t # m
        PROVE  mint'[t] = mint[t] /\ rows'[t] = rows[t] /\ stage'[t] = stage[t]
               /\ Summaries(t)' = Summaries(t)
    BY <1>1, <1>2, <1>4, <1>5, <2>4 DEF LifecycleTypeOK, Summaries
  <2> QED
    BY <1>1, <2>1, <2>2, <2>3, <2>4 DEF RowShape
<1> QED
  BY <1>6, <1>7, <1>8, <1>9 DEF Inv

\* The close of a session somebody awaits who is no mint, or that fails.
LEMMA CloseFactsOf ==
    ASSUME Inv, NEW s \in Mints, stage[s] = "closing"
    PROVE  /\ s \in Known /\ stopped[s] /\ Summaries(s) = {}
           /\ "nobody" \notin Mints
           /\ LoopReturns(s) =>
                loop' \in [Mints -> {"none", "running", "cancelled", "ended"}]
           /\ At(Append(rows[s], "summary")) # {}
<1>1. LifecycleTypeOK /\ TableShape /\ StopShape /\ RowShape
  BY DEF Inv
<1>2. s \in Known /\ stopped[s]
  BY <1>1 DEF TableShape, StopShape
<1>3. Summaries(s) = {}
  BY <1>1 DEF RowShape
<1>4. rows[s] \in Seq(Kinds) /\ "summary" \in Kinds
  BY <1>1 DEF LifecycleTypeOK, Kinds
<1>5. At(rows[s]) = {}
  BY <1>3 DEF At, Summaries
<1>6. LoopReturns(s) =>
        loop' \in [Mints -> {"none", "running", "cancelled", "ended"}]
  BY <1>1 DEF LifecycleTypeOK, LoopReturns
<1> QED
  BY <1>2, <1>3, <1>4, <1>5, <1>6, AtAppend, SessionsAssumption

\* The row list with the summary in it.
Closed(s) == [rows EXCEPT ![s] = Append(@, "summary")]

LEMMA ClosedFacts ==
    ASSUME Inv, NEW s \in Mints, stage[s] = "closing"
    PROVE  /\ Closed(s) \in [Mints -> Seq(Kinds)]
           /\ \A t \in Mints : t # s => Closed(s)[t] = rows[t]
           /\ \E i \in Nat : At(Closed(s)[s]) = {i}
           /\ mint[s] = "made" =>
                Closed(s)[s] # <<>> /\ Closed(s)[s][1] = "started"
<1>1. LifecycleTypeOK /\ RowShape
  BY DEF Inv
<1>2. /\ rows \in [Mints -> Seq(Kinds)] /\ rows[s] \in Seq(Kinds)
      /\ "summary" \in Kinds
  BY <1>1 DEF LifecycleTypeOK, Kinds
<1>3. Summaries(s) = {} /\ (mint[s] = "made" => rows[s] # <<>> /\ rows[s][1] = "started")
  BY <1>1 DEF RowShape
<1>4. At(rows[s]) = {}
  BY <1>3 DEF At, Summaries
<1>5. /\ Append(rows[s], "summary") \in Seq(Kinds)
      /\ Append(rows[s], "summary") # <<>>
      /\ rows[s] # <<>> => Append(rows[s], "summary")[1] = rows[s][1]
      /\ \E i \in Nat : At(Append(rows[s], "summary")) = {i}
  BY <1>2, <1>4, AtAppend
<1>6. Closed(s)[s] = Append(rows[s], "summary")
  BY <1>2 DEF Closed
<1> QED
  BY <1>2, <1>3, <1>5, <1>6 DEF Closed

LEMMA CloseInv ==
    ASSUME Inv, NEW s \in Mints, Close(s)
    PROVE  Inv'
<1>1. /\ LifecycleTypeOK /\ TableShape /\ StopShape /\ EvictionShape /\ RowShape
  BY DEF Inv
<1>2. /\ stage[s] = "closing"
      /\ stage' = [stage EXCEPT ![s] = "done"]
      /\ peer' = [peer EXCEPT ![s] = FALSE]
      /\ caller' = [caller EXCEPT ![s] = "nobody"]
      /\ UNCHANGED <<service, pending, stopped>>
  BY DEF Close, serviceVars
<1>3. s \in Known /\ stopped[s] /\ "nobody" \notin Mints
  BY <1>2, CloseFactsOf
<1>4. /\ Closed(s) \in [Mints -> Seq(Kinds)]
      /\ \A t \in Mints : t # s => Closed(s)[t] = rows[t]
      /\ \E i \in Nat : At(Closed(s)[s]) = {i}
      /\ mint[s] = "made" =>
           Closed(s)[s] # <<>> /\ Closed(s)[s][1] = "started"
  BY <1>2, ClosedFacts
<1>5. StopShape'
  BY <1>1, <1>2, <1>3 DEF StopShape, LifecycleTypeOK
<1>6. CASE caller[s] \notin Mints
  <2>1. /\ rows' = Closed(s) /\ LoopReturns(s)
        /\ mint' = mint /\ sessions' = sessions
    BY <1>6 DEF Close, Closed, managerVars
  <2>2. LifecycleTypeOK'
    BY <1>1, <1>2, <1>4, <2>1, CloseFactsOf DEF LifecycleTypeOK, Kinds
  <2>3. Known' = Known
    BY <2>1 DEF Known
  <2>4. TableShape'
    BY <1>1, <1>2, <1>3, <1>4, <2>1, <2>3 DEF TableShape, LifecycleTypeOK
  <2>5. EvictionShape'
    BY <1>1, <1>2, <1>3, <2>1 DEF EvictionShape, LifecycleTypeOK
  <2>6. \A t \in Mints : t # s => Summaries(t)' = Summaries(t)
    BY <1>4, <2>1 DEF Summaries
  <2>7. Summaries(s)' = At(Closed(s)[s])
    BY <2>1 DEF Summaries, At
  <2>8. RowShape'
    <3>1. ASSUME NEW t \in Mints, mint'[t] = "made"
          PROVE  rows'[t] # <<>> /\ rows'[t][1] = "started"
      BY <1>1, <1>4, <2>1, <3>1 DEF RowShape
    <3>2. ASSUME NEW t \in Mints
          PROVE  IF stage'[t] = "done" THEN \E i \in Nat : Summaries(t)' = {i}
                                       ELSE Summaries(t)' = {}
      <4>1. CASE t = s
        BY <1>1, <1>2, <1>4, <2>7, <4>1 DEF LifecycleTypeOK
      <4>2. CASE t # s
        <5>1. stage'[t] = stage[t]
          BY <1>1, <1>2, <4>2 DEF LifecycleTypeOK
        <5> QED
          BY <1>1, <2>6, <4>2, <5>1 DEF RowShape
      <4> QED
        BY <4>1, <4>2
    <3> QED
      BY <3>1, <3>2 DEF RowShape
  <2> QED
    BY <1>5, <2>2, <2>4, <2>5, <2>8 DEF Inv
<1>7. CASE caller[s] \in Mints
  <2>5. PICK m \in Mints : caller[s] = m
    BY <1>7
  <2>1. Create(m, Closed(s)) /\ mint[m] = "evicting"
    BY <1>1, <2>5 DEF Close, Closed, EvictionShape
  <2>2. m \notin Known /\ m # s /\ rows[m] = <<>> /\ Closed(s)[m] = <<>>
    BY <1>1, <1>3, <1>4, <2>1 DEF TableShape
  <2>3. PICK answer \in {"made", "refused", "failed"} :
          /\ mint' = [mint EXCEPT ![m] = answer]
          /\ answer = "made" => rows'[m] = <<"started">>
          /\ answer # "made" => rows'[m] = <<>>
          /\ answer \in {"made", "failed"} => ~Full /\ m \in Known'
          /\ answer = "refused" => Full /\ sessions' = sessions
    BY <1>1, <1>4, <2>1, <2>2, CreateFacts
  <2>4. /\ sessions' \in Seq(Mints)
        /\ Known' = Known \/ Known' = Known \cup {m}
        /\ mint'[m] = "refused" => Known' = Known
        /\ loop' \in [Mints -> {"none", "running", "cancelled", "ended"}]
        /\ rows' \in [Mints -> Seq(Kinds)]
        /\ \A t \in Mints : t # m => rows'[t] = Closed(s)[t]
        /\ At(rows'[m]) = {}
    BY <1>1, <1>4, <2>1, <2>2, CreateFacts
  <2>6. LifecycleTypeOK'
    BY <1>1, <1>2, <2>3, <2>4, <2>5 DEF LifecycleTypeOK, Kinds
  <2>7. TableShape'
    BY <1>1, <1>2, <1>3, <1>4, <2>2, <2>3, <2>4, <2>5 DEF TableShape, LifecycleTypeOK
  <2>8. EvictionShape'
    BY <1>1, <1>2, <1>3, <2>3, <2>5 DEF EvictionShape, LifecycleTypeOK
  <2>9. RowShape'
    <3>1. stage[m] = "none"
      BY <1>1, <2>2, <2>5 DEF StopShape, TableShape
    <3>0. Summaries(m)' = {}
      BY <2>4 DEF Summaries, At
    <3>2. mint'[m] = "made" => rows'[m] # <<>> /\ rows'[m][1] = "started"
      BY <1>1, <2>3, <2>5, AtStarted DEF LifecycleTypeOK
    <3>3. Summaries(s)' = At(Closed(s)[s]) /\ rows'[s] = Closed(s)[s]
      BY <2>2, <2>4 DEF Summaries, At
    <3>4. ASSUME NEW t \in Mints, t # m, t # s
          PROVE  mint'[t] = mint[t] /\ rows'[t] = rows[t] /\ stage'[t] = stage[t]
                 /\ Summaries(t)' = Summaries(t)
      BY <1>1, <1>2, <1>4, <2>3, <2>4, <3>4 DEF LifecycleTypeOK, Summaries
    <3>5. stage'[m] = "none" /\ stage'[s] = "done" /\ mint'[s] = mint[s]
      BY <1>1, <1>2, <2>2, <2>3, <2>5, <3>1 DEF LifecycleTypeOK
    <3>6. mint'[s] = "made" => rows'[s] # <<>> /\ rows'[s][1] = "started"
      BY <1>4, <3>3, <3>5
    <3>7. ASSUME NEW t \in Mints, mint'[t] = "made"
          PROVE  rows'[t] # <<>> /\ rows'[t][1] = "started"
      BY <1>1, <3>2, <3>4, <3>6, <3>7 DEF RowShape
    <3>8. ASSUME NEW t \in Mints
          PROVE  IF stage'[t] = "done" THEN \E i \in Nat : Summaries(t)' = {i}
                                       ELSE Summaries(t)' = {}
      <4>1. CASE t = s
        BY <1>4, <3>3, <3>5, <4>1
      <4>2. CASE t = m
        BY <3>0, <3>5, <4>2
      <4>3. CASE t # s /\ t # m
        <5>1. stage'[t] = stage[t] /\ Summaries(t)' = Summaries(t)
          BY <3>4, <4>3
        <5>2. IF stage[t] = "done" THEN \E i \in Nat : Summaries(t) = {i}
                                   ELSE Summaries(t) = {}
          BY <1>1 DEF RowShape
        <5> QED
          BY <5>1, <5>2
      <4> QED
        BY <4>1, <4>2, <4>3
    <3> QED
      BY <3>7, <3>8 DEF RowShape
  <2> QED
    BY <1>5, <2>6, <2>7, <2>8, <2>9 DEF Inv
<1> QED
  BY <1>6, <1>7

LEMMA CloseFailsInv ==
    ASSUME Inv, NEW s \in Mints, CloseFails(s)
    PROVE  Inv'
<1>1. /\ LifecycleTypeOK /\ TableShape /\ StopShape /\ EvictionShape /\ RowShape
  BY DEF Inv
<1>2. /\ stage[s] = "closing"
      /\ stage' = [stage EXCEPT ![s] = "failed"]
      /\ caller' = [caller EXCEPT ![s] = "nobody"]
      /\ LoopReturns(s)
      /\ service' \in {service, "down"}
      /\ UNCHANGED <<pending, sessions, stopped, peer, rows>>
  BY DEF CloseFails
<1>3. s \in Known /\ stopped[s] /\ "nobody" \notin Mints /\ Summaries(s) = {}
  BY <1>2, CloseFactsOf
<1>4. Known' = Known /\ \A t \in Mints : Summaries(t)' = Summaries(t)
  BY <1>2 DEF Known, Summaries
<1>5. /\ mint' \in [Mints -> {"new", "evicting", "made", "refused", "failed"}]
      /\ \A m \in Mints :
            \/ mint'[m] = mint[m]
            \/ /\ caller[s] = m /\ mint[m] = "evicting" /\ mint'[m] = "failed"
  <2>1. mint \in [Mints -> {"new", "evicting", "made", "refused", "failed"}]
    BY <1>1 DEF LifecycleTypeOK
  <2>2. CASE caller[s] \in Mints /\ Answer(caller[s], "failed")
    <3>1. mint[caller[s]] = "evicting"
      BY <1>1, <2>2 DEF EvictionShape
    <3> QED
      BY <2>1, <2>2, <3>1 DEF Answer
  <2>3. CASE UNCHANGED mint
    BY <2>1, <2>3
  <2> QED
    BY <2>2, <2>3 DEF CloseFails
<1>6. LifecycleTypeOK'
  BY <1>1, <1>2, <1>5, CloseFactsOf DEF LifecycleTypeOK
<1>7. TableShape'
  BY <1>1, <1>2, <1>4, <1>5 DEF TableShape
<1>8. StopShape'
  BY <1>1, <1>2, <1>3 DEF StopShape, LifecycleTypeOK
<1>9. EvictionShape'
  <2>1. \A t \in Mints : caller'[t] = IF t = s THEN "nobody" ELSE caller[t]
    BY <1>1, <1>2 DEF LifecycleTypeOK
  <2>2. \A t \in Mints : t # s /\ caller[t] \in Mints => caller[t] # caller[s]
    BY <1>1 DEF EvictionShape
  <2> QED
    BY <1>1, <1>3, <1>5, <2>1, <2>2 DEF EvictionShape
<1>10. RowShape'
  <2>1. ASSUME NEW t \in Mints
        PROVE  IF stage'[t] = "done" THEN \E i \in Nat : Summaries(t)' = {i}
                                     ELSE Summaries(t)' = {}
    <3>1. CASE t = s
      BY <1>1, <1>2, <1>3, <1>4, <3>1 DEF LifecycleTypeOK
    <3>2. CASE t # s
      <4>1. stage'[t] = stage[t]
        BY <1>1, <1>2, <3>2 DEF LifecycleTypeOK
      <4> QED
        BY <1>1, <1>4, <4>1 DEF RowShape
    <3> QED
      BY <3>1, <3>2
  <2>2. ASSUME NEW t \in Mints, mint'[t] = "made"
        PROVE  rows'[t] # <<>> /\ rows'[t][1] = "started"
    BY <1>1, <1>2, <1>5, <2>2 DEF RowShape
  <2> QED
    BY <2>1, <2>2 DEF RowShape
<1> QED
  BY <1>6, <1>7, <1>8, <1>9, <1>10 DEF Inv

\* A row that an interrupt writes, before or after the summary.
LEMMA InterruptInv ==
    ASSUME Inv, NEW s \in Mints, Interrupt(s)
    PROVE  Inv'
<1>1. /\ LifecycleTypeOK /\ TableShape /\ StopShape /\ EvictionShape /\ RowShape
  BY DEF Inv
<1>2. /\ s \in Known
      /\ rows' = [rows EXCEPT ![s] = Append(@, "event")]
      /\ UNCHANGED <<service, pending, mint, sessions, stopped, loop, stage>>
      /\ UNCHANGED <<caller, peer>>
  BY DEF Interrupt, serviceVars, managerVars, stopVars
<1>3. rows \in [Mints -> Seq(Kinds)] /\ rows[s] \in Seq(Kinds) /\ "event" \in Kinds
  BY <1>1 DEF LifecycleTypeOK, Kinds
<1>4. /\ Append(rows[s], "event") \in Seq(Kinds)
      /\ Append(rows[s], "event") # <<>>
      /\ rows[s] # <<>> => Append(rows[s], "event")[1] = rows[s][1]
      /\ At(Append(rows[s], "event")) = At(rows[s])
  BY <1>3, AtAppend
<1>5. /\ rows' \in [Mints -> Seq(Kinds)]
      /\ rows'[s] = Append(rows[s], "event")
      /\ \A t \in Mints : t # s => rows'[t] = rows[t]
  BY <1>2, <1>3, <1>4
<1>6. Known' = Known
  BY <1>2 DEF Known
<1>7. \A t \in Mints : Summaries(t)' = Summaries(t)
  BY <1>4, <1>5 DEF Summaries, At
<1>8. LifecycleTypeOK'
  BY <1>1, <1>2, <1>5 DEF LifecycleTypeOK, Kinds
<1>9. TableShape'
  BY <1>1, <1>2, <1>5, <1>6 DEF TableShape
<1>10. StopShape' /\ EvictionShape'
  BY <1>1, <1>2 DEF StopShape, EvictionShape
<1>11. RowShape'
  <2>1. ASSUME NEW t \in Mints, mint'[t] = "made"
        PROVE  rows'[t] # <<>> /\ rows'[t][1] = "started"
    BY <1>1, <1>2, <1>4, <1>5, <2>1 DEF RowShape
  <2> QED
    BY <1>1, <1>2, <1>7, <2>1 DEF RowShape
<1> QED
  BY <1>8, <1>9, <1>10, <1>11 DEF Inv

\* The steps that end a join: the loop goes, then the egress may be closed.
LEMMA JoinInv ==
    ASSUME Inv, NEW s \in Mints, LoopEnds(s) \/ Joined(s)
    PROVE  Inv'
<1>1. /\ LifecycleTypeOK /\ TableShape /\ StopShape /\ EvictionShape /\ RowShape
  BY DEF Inv
<1>2. /\ UNCHANGED <<service, pending, mint, sessions, stopped, caller>>
      /\ UNCHANGED <<peer, rows>>
  BY DEF LoopEnds, Joined, serviceVars, managerVars
<1>3. /\ loop' \in [Mints -> {"none", "running", "cancelled", "ended"}]
      /\ stage' \in [Mints -> {"none", "joining", "closing", "done", "failed"}]
      /\ \A t \in Mints : \/ stage'[t] = stage[t]
                          \/ stage[t] = "joining" /\ stage'[t] = "closing"
  BY <1>1 DEF LoopEnds, Joined, LifecycleTypeOK
<1>4. Known' = Known /\ \A t \in Mints : Summaries(t)' = Summaries(t)
  BY <1>2 DEF Known, Summaries
<1>5. LifecycleTypeOK'
  BY <1>1, <1>2, <1>3 DEF LifecycleTypeOK
<1>6. TableShape' /\ EvictionShape'
  BY <1>1, <1>2, <1>4 DEF TableShape, EvictionShape
<1>7. StopShape'
  BY <1>1, <1>2, <1>3 DEF StopShape
<1>8. RowShape'
  <2>1. ASSUME NEW t \in Mints
        PROVE  IF stage'[t] = "done" THEN \E i \in Nat : Summaries(t)' = {i}
                                     ELSE Summaries(t)' = {}
    BY <1>1, <1>3, <1>4 DEF RowShape
  <2> QED
    BY <1>1, <1>2, <2>1 DEF RowShape
<1> QED
  BY <1>5, <1>6, <1>7, <1>8 DEF Inv

LEMMA NextInv == Inv /\ [Next]_vars => Inv'
<1> SUFFICES ASSUME Inv, [Next]_vars PROVE Inv'
  OBVIOUS
<1>1. LifecycleTypeOK
  BY DEF Inv
<1>2. CASE UNCHANGED vars
  <2>1. LifecycleTypeOK'
    BY <1>1, <1>2
    DEF LifecycleTypeOK, vars, serviceVars, managerVars, stopVars
  <2> QED
    BY <1>2, <2>1, FrameInv DEF vars, serviceVars, managerVars, stopVars
<1>3. ASSUME NEW s \in Mints, MintEvicting(s) PROVE Inv'
  <2>1. PICK i \in Peerless : StopBegin(sessions[i], s)
    BY <1>3 DEF MintEvicting
  <2>2. mint[s] = "new" /\ Answer(s, "evicting")
        /\ UNCHANGED <<serviceVars, sessions, peer, rows>>
    BY <1>3 DEF MintEvicting, Arrives
  <2> QED
    BY <2>1, <2>2, StopBeginInv DEF Calls, Callers
<1>4. ASSUME NEW s \in Mints,
             ClientStop(s) \/ KeepaliveTimeout(s) \/ RenderError(s)
      PROVE  Inv'
  <2>1. PICK who \in TheLoop \cup {"client", "shutdown"} : StopBegin(s, who)
    BY <1>4 DEF ClientStop, KeepaliveTimeout, RenderError, TheLoop
  <2>2. UNCHANGED <<serviceVars, managerVars, peer, rows>>
    BY <1>4 DEF ClientStop, KeepaliveTimeout, RenderError
  <2> QED
    BY <2>1, <2>2, StopBeginInv DEF Calls, Callers, managerVars
<1>5. ASSUME ShutdownStops PROVE Inv'
  <2>1. /\ StopBegin(Head(pending), "shutdown")
        /\ UNCHANGED <<serviceVars, managerVars, peer, rows>>
    BY <1>5 DEF ShutdownStops
  <2> QED
    BY <2>1, StopBeginInv DEF Calls, Callers, managerVars
<1>6. ASSUME NEW s \in Mints, PeerConnects(s) \/ PeerLeaves(s) PROVE Inv'
  <2>1. /\ UNCHANGED <<serviceVars, managerVars, stopVars, rows>>
        /\ \E b \in BOOLEAN : peer' = [peer EXCEPT ![s] = b]
    BY <1>6 DEF PeerConnects, PeerLeaves
  <2>2. LifecycleTypeOK'
    BY <1>1, <2>1 DEF LifecycleTypeOK, serviceVars, managerVars, stopVars
  <2> QED
    BY <2>1, <2>2, FrameInv DEF managerVars, stopVars
<1>7. ASSUME ShutdownBegins \/ ShutdownPasses \/ ShutdownEnds PROVE Inv'
  <2>1. UNCHANGED <<managerVars, stopVars, peer, rows>>
    BY <1>7 DEF ShutdownBegins, ShutdownPasses, ShutdownEnds
  <2>2. service' \in {"up", "leaving", "down"} /\ pending' \in Seq(Mints)
    <3>1. pending \in Seq(Mints) /\ sessions \in Seq(Mints)
          /\ service \in {"up", "leaving", "down"}
      BY <1>1 DEF LifecycleTypeOK
    <3>2. CASE ShutdownBegins
      BY <3>1, <3>2 DEF ShutdownBegins
    <3>3. CASE ShutdownPasses
      BY <3>1, <3>3 DEF ShutdownPasses
    <3>4. CASE ShutdownEnds
      BY <3>1, <3>4 DEF ShutdownEnds
    <3> QED
      BY <1>7, <3>2, <3>3, <3>4
  <2>3. LifecycleTypeOK'
    BY <1>1, <2>1, <2>2 DEF LifecycleTypeOK, managerVars, stopVars
  <2> QED
    BY <2>1, <2>3, FrameInv DEF managerVars, stopVars
<1> QED
  BY <1>2, <1>3, <1>4, <1>5, <1>6, <1>7,
     MintAtOnceInv, CloseInv, CloseFailsInv, JoinInv, InterruptInv
  DEF Next, StopGoesOn

THEOREM LifecycleInvariant == Safety => []Inv
  BY InitInv, NextInv, PTL DEF Safety

\* The variables keep their types, whatever order mints, stops, messages,
\* viewers and the shutdown come in.
THEOREM LifecycleTyped == Safety => []LifecycleTypeOK
<1>1. Inv => LifecycleTypeOK
  BY DEF Inv
<1> QED
  BY <1>1, LifecycleInvariant, PTL

\* One start and at most one summary per receipt file: stop() gets past its
\* flag once, and create() never reuses a file.
THEOREM OneSummary == Safety => []ReceiptShape
<1>1. Inv => ReceiptShape
  <2> SUFFICES ASSUME Inv, NEW s \in Mints
               PROVE  /\ mint[s] = "made" => rows[s][1] = "started"
                      /\ Cardinality(Summaries(s)) =
                            IF stage[s] = "done" THEN 1 ELSE 0
    BY DEF ReceiptShape
  <2>1. RowShape
    BY DEF Inv
  <2>2. mint[s] = "made" => rows[s][1] = "started"
    BY <2>1 DEF RowShape
  <2>3. CASE stage[s] = "done"
    <3>1. PICK i \in Nat : Summaries(s) = {i}
      BY <2>1, <2>3 DEF RowShape
    <3>2. Cardinality(Summaries(s)) = 1
      BY <3>1, FS_Singleton
    <3> QED
      BY <2>2, <2>3, <3>2
  <2>4. CASE stage[s] # "done"
    <3>1. Summaries(s) = {}
      BY <2>1, <2>4 DEF RowShape
    <3>2. Cardinality(Summaries(s)) = 0
      BY <3>1, FS_EmptySet
    <3> QED
      BY <2>2, <2>4, <3>2
  <2> QED
    BY <2>3, <2>4
<1> QED
  BY <1>1, LifecycleInvariant, PTL

\* Nobody evicts or reaps a session that a viewer watches: a mint evicts only
\* the peerless, and the loop looks at the peer before the clock.
THEOREM WatchedAreKept == Safety => WatchedKept
<1> DEFINE Kept == \A s \in Mints :
                     ~stopped[s] /\ stopped'[s] /\ peer[s] =>
                       caller'[s] \in {"client", "render_error", "shutdown"}
<1>1. Inv /\ [Next]_vars => Kept
  <2> SUFFICES ASSUME Inv, [Next]_vars PROVE Kept
    OBVIOUS
  <2>1. LifecycleTypeOK
    BY DEF Inv
  <2>2. ASSUME NEW t, NEW who \in Callers, StopBegin(t, who),
               ~peer[t] \/ who \in {"client", "render_error", "shutdown"}
        PROVE  Kept
    <3>1. /\ t \in Mints
          /\ stopped' = [stopped EXCEPT ![t] = TRUE]
          /\ caller' = [caller EXCEPT ![t] = who]
      BY <2>1, <2>2, StopBeginFacts
    <3>2. /\ \A s \in Mints : s # t => (stopped'[s] <=> stopped[s])
          /\ caller'[t] = who
      BY <2>1, <3>1 DEF LifecycleTypeOK
    <3> QED
      BY <2>2, <3>2
  <2>3. ASSUME NEW t, NEW who \in {"client", "render_error", "shutdown"},
               StopBegin(t, who)
        PROVE  Kept
    <3>1. who \in Callers
      BY DEF Callers, TheLoop
    <3> HIDE DEF Kept
    <3> QED
      BY <2>2, <2>3, <3>1
  <2>4. ASSUME UNCHANGED stopped PROVE Kept
    BY <2>4
  <2> HIDE DEF Kept
  <2>5. ASSUME NEW s \in Mints, MintEvicting(s) PROVE Kept
    BY <2>2, <2>5 DEF MintEvicting, Peerless, Callers
  <2>6. ASSUME NEW s \in Mints, KeepaliveTimeout(s) PROVE Kept
    BY <2>2, <2>6 DEF KeepaliveTimeout, Callers, TheLoop
  <2>7. ASSUME NEW s \in Mints, ClientStop(s) \/ RenderError(s) PROVE Kept
    BY <2>3, <2>7 DEF ClientStop, RenderError
  <2>8. ASSUME ShutdownStops PROVE Kept
    BY <2>3, <2>8 DEF ShutdownStops
  <2>9. ASSUME NEW s \in Mints,
               \/ MintAtOnce(s) \/ StopGoesOn(s) \/ Interrupt(s)
               \/ PeerConnects(s) \/ PeerLeaves(s)
        PROVE  Kept
    <3>1. UNCHANGED stopped
      BY <2>9 DEF MintAtOnce, StopGoesOn, LoopEnds, Joined, Close, CloseFails,
                  Interrupt, PeerConnects, PeerLeaves, stopVars
    <3> QED
      BY <2>4, <3>1
  <2>10. ASSUME ShutdownBegins \/ ShutdownPasses \/ ShutdownEnds \/ UNCHANGED vars
         PROVE  Kept
    <3>1. UNCHANGED stopped
      BY <2>10 DEF ShutdownBegins, ShutdownPasses, ShutdownEnds, stopVars, vars
    <3> QED
      BY <2>4, <3>1
  <2> QED
    BY <2>5, <2>6, <2>7, <2>8, <2>9, <2>10 DEF Next
<1> QED
  BY <1>1, LifecycleInvariant, PTL DEF Safety, WatchedKept

-----------------------------------------------------------------------------
(* The slots implement the lane: a step enters, refuses, leaves or is none *)
(* of the lane's business.                                                 *)

Refused == {m \in Mints : mint[m] = "refused"}
Gone == {s \in Known : stopped[s]}

\* The instance's Cardinality is Cardinality.
LEMMA SameCardinality == \A S : Lane!Cardinality(S) = Cardinality(S)
  BY Zenon DEF Lane!Cardinality, Cardinality

LEMMA LaneFull == Full => Lane!Full
  BY SameCardinality, SessionsAssumption DEF Full, Lane!Full

LEMMA LaneRoom == ~Full => ~Lane!Full
  BY SameCardinality DEF Full, Lane!Full

LEMMA InitRefines == Init => Lane!LaneInit
<1> SUFFICES ASSUME Init PROVE Lane!LaneInit
  OBVIOUS
<1>1. Known = {}
  BY DEF Init, Known
<1>2. Active = {} /\ Gone = {} /\ Refused = {}
  BY <1>1 DEF Init, Active, Gone, Refused
<1> QED
  BY <1>2 DEF Lane!LaneInit, Gone, Refused

LEMMA LaneIdle ==
    ASSUME UNCHANGED <<sessions, stopped>>, Refused' = Refused
    PROVE  UNCHANGED Lane!laneVars
<1>1. Known' = Known
  BY DEF Known
<1> QED
  BY <1>1 DEF Lane!laneVars, Active, Refused

LEMMA StopLeaves ==
    ASSUME Inv, NEW s, NEW who \in Callers, StopBegin(s, who), Calls(who),
           UNCHANGED sessions
    PROVE  Lane!LaneNext
<1>1. LifecycleTypeOK
  BY DEF Inv
<1>2. /\ s \in Mints /\ s \in Known /\ ~stopped[s]
      /\ stopped' = [stopped EXCEPT ![s] = TRUE]
  BY <1>1, StopBeginFacts
<1>3. Known' = Known /\ Known \subseteq Mints
  BY <1>1, KnownMints DEF Known
<1>4. s \in Active /\ Active' = Active \ {s}
  BY <1>1, <1>2, <1>3 DEF Active, LifecycleTypeOK
<1>5. Gone' = Gone \cup {s}
  BY <1>1, <1>2, <1>3 DEF Gone, LifecycleTypeOK
<1>6. Refused' = Refused
  <2>1. mint \in [Mints -> {"new", "evicting", "made", "refused", "failed"}]
    BY <1>1 DEF LifecycleTypeOK
  <2>2. CASE UNCHANGED mint
    BY <2>2 DEF Refused
  <2>3. CASE who \in Mints /\ mint[who] = "new" /\ Answer(who, "evicting")
    BY <2>1, <2>3 DEF Refused, Answer
  <2> QED
    BY <2>2, <2>3 DEF Calls
<1>7. Lane!Leave(s)
  BY <1>4, <1>5, <1>6 DEF Lane!Leave, Gone, Refused
<1> QED
  BY <1>2, <1>7 DEF Lane!LaneNext

LEMMA CreateEnters ==
    ASSUME Inv, NEW m \in Mints, mint[m] \in {"new", "evicting"},
           NEW receipts \in [Mints -> Seq(Kinds)], receipts[m] = <<>>,
           Create(m, receipts), UNCHANGED stopped
    PROVE  Lane!LaneNext
<1>1. LifecycleTypeOK /\ TableShape
  BY DEF Inv
<1>2. m \notin Known /\ ~stopped[m] /\ (Known' = Known \/ Known' = Known \cup {m})
  BY <1>1, CreateFacts DEF TableShape
<1>3. PICK answer \in {"made", "refused", "failed"} :
        /\ mint' = [mint EXCEPT ![m] = answer]
        /\ answer \in {"made", "failed"} => ~Full /\ m \in Known'
        /\ answer = "refused" => Full /\ sessions' = sessions
  BY <1>1, CreateFacts
<1>4. m \notin Active /\ m \notin Gone /\ m \notin Refused
  BY <1>2 DEF Active, Gone, Refused
<1>5. Gone' = Gone
  BY <1>2 DEF Gone
<1>6. CASE answer \in {"made", "failed"}
  <2>1. Active' = Active \cup {m}
    BY <1>2, <1>3, <1>6 DEF Active
  <2>2. Refused' = Refused
    BY <1>1, <1>3, <1>6, <1>4 DEF Refused, LifecycleTypeOK
  <2>3. Lane!Enter(m)
    BY <1>3, <1>4, <1>5, <1>6, <2>1, <2>2, LaneRoom
    DEF Lane!Enter, Lane!Outside, Gone, Refused
  <2> QED
    BY <2>3 DEF Lane!LaneNext
<1>7. CASE answer = "refused"
  <2>1. Known' = Known
    BY <1>3, <1>7 DEF Known
  <2>2. Active' = Active
    BY <2>1 DEF Active
  <2>3. Refused' = Refused \cup {m}
    BY <1>1, <1>3, <1>7 DEF Refused, LifecycleTypeOK
  <2>4. Lane!Refuse(m)
    BY <1>3, <1>4, <1>5, <1>7, <2>2, <2>3, LaneFull, SessionsAssumption
    DEF Lane!Refuse, Lane!Outside, Gone, Refused
  <2> QED
    BY <2>4 DEF Lane!LaneNext
<1> QED
  BY <1>6, <1>7

LEMMA StepRefines == Inv /\ [Next]_vars => [Lane!LaneNext]_Lane!laneVars
<1> SUFFICES ASSUME Inv, [Next]_vars PROVE [Lane!LaneNext]_Lane!laneVars
  OBVIOUS
<1>1. LifecycleTypeOK /\ TableShape /\ StopShape /\ EvictionShape
  BY DEF Inv
<1>2. ASSUME NEW s \in Mints, MintAtOnce(s) PROVE Lane!LaneNext
  <2>1. /\ mint[s] = "new" /\ Create(s, rows) /\ UNCHANGED stopped
    BY <1>2 DEF MintAtOnce, Arrives
  <2>2. rows \in [Mints -> Seq(Kinds)] /\ rows[s] = <<>>
    BY <1>1, <2>1 DEF LifecycleTypeOK, Kinds, TableShape
  <2> QED
    BY <2>1, <2>2, CreateEnters
<1>3. ASSUME NEW s \in Mints, MintEvicting(s) PROVE Lane!LaneNext
  <2>1. PICK i \in Peerless : StopBegin(sessions[i], s)
    BY <1>3 DEF MintEvicting
  <2>2. mint[s] = "new" /\ Answer(s, "evicting") /\ UNCHANGED sessions
    BY <1>3 DEF MintEvicting, Arrives
  <2> QED
    BY <2>1, <2>2, StopLeaves DEF Calls, Callers
<1>4. ASSUME NEW s \in Mints,
             ClientStop(s) \/ KeepaliveTimeout(s) \/ RenderError(s)
      PROVE  Lane!LaneNext
  <2>1. PICK who \in TheLoop \cup {"client", "shutdown"} : StopBegin(s, who)
    BY <1>4 DEF ClientStop, KeepaliveTimeout, RenderError, TheLoop
  <2>2. UNCHANGED managerVars
    BY <1>4 DEF ClientStop, KeepaliveTimeout, RenderError
  <2> QED
    BY <2>1, <2>2, StopLeaves DEF Calls, Callers, managerVars
<1>5. ASSUME ShutdownStops PROVE Lane!LaneNext
  BY <1>5, StopLeaves DEF ShutdownStops, Calls, Callers, managerVars
<1>6. ASSUME NEW s \in Mints, Close(s)
      PROVE  [Lane!LaneNext]_Lane!laneVars
  <2>1. stage[s] = "closing" /\ UNCHANGED stopped
    BY <1>6 DEF Close
  <2>2. CASE caller[s] \notin Mints
    <3>1. UNCHANGED <<mint, sessions>>
      BY <1>6, <2>2 DEF Close, managerVars
    <3>2. Refused' = Refused
      BY <3>1 DEF Refused
    <3> QED
      BY <2>1, <3>1, <3>2, LaneIdle
  <2>3. CASE caller[s] \in Mints
    <3>1. PICK m \in Mints : caller[s] = m
      BY <2>3
    <3>2. Create(m, Closed(s)) /\ mint[m] = "evicting"
      BY <1>1, <1>6, <3>1 DEF Close, Closed, EvictionShape
    <3>3. s \in Known /\ m \notin Known /\ rows[m] = <<>>
      BY <1>1, <2>1, <3>2, CloseFactsOf DEF TableShape
    <3>4. Closed(s) \in [Mints -> Seq(Kinds)] /\ Closed(s)[m] = <<>>
      BY <2>1, <3>3, ClosedFacts
    <3> QED
      BY <2>1, <3>2, <3>4, CreateEnters
  <2> QED
    BY <2>2, <2>3
<1>7. ASSUME NEW s \in Mints, CloseFails(s)
      PROVE  UNCHANGED Lane!laneVars
  <2>1. UNCHANGED <<sessions, stopped>>
    BY <1>7 DEF CloseFails
  <2>2. mint \in [Mints -> {"new", "evicting", "made", "refused", "failed"}]
    BY <1>1 DEF LifecycleTypeOK
  <2>3. CASE caller[s] \in Mints /\ Answer(caller[s], "failed")
    <3>1. mint[caller[s]] = "evicting"
      BY <1>1, <2>3 DEF EvictionShape
    <3>2. Refused' = Refused
      BY <2>2, <2>3, <3>1 DEF Refused, Answer
    <3> QED
      BY <2>1, <3>2, LaneIdle
  <2>4. CASE UNCHANGED mint
    <3>1. Refused' = Refused
      BY <2>4 DEF Refused
    <3> QED
      BY <2>1, <3>1, LaneIdle
  <2> QED
    BY <1>7, <2>3, <2>4 DEF CloseFails
<1>8. ASSUME UNCHANGED <<mint, sessions, stopped>>
      PROVE  UNCHANGED Lane!laneVars
  <2>1. Refused' = Refused
    BY <1>8 DEF Refused
  <2> QED
    BY <1>8, <2>1, LaneIdle
<1>9. ASSUME NEW s \in Mints,
             \/ LoopEnds(s) \/ Joined(s) \/ Interrupt(s)
             \/ PeerConnects(s) \/ PeerLeaves(s)
      PROVE  UNCHANGED Lane!laneVars
  BY <1>8, <1>9
  DEF LoopEnds, Joined, Interrupt, PeerConnects, PeerLeaves, managerVars, stopVars
<1>10. ASSUME ShutdownBegins \/ ShutdownPasses \/ ShutdownEnds \/ UNCHANGED vars
       PROVE  UNCHANGED Lane!laneVars
  BY <1>8, <1>10
  DEF ShutdownBegins, ShutdownPasses, ShutdownEnds, managerVars, stopVars, vars
<1> QED
  BY <1>2, <1>3, <1>4, <1>5, <1>6, <1>7, <1>9, <1>10 DEF Next, StopGoesOn

\* The sessions take the GPU's slots like requests take a lane's: never more
\* active than slots, none active twice, and a refusal only of a full table.
THEOREM SessionsImplementLane == Safety => SlotsAreALane
  BY InitRefines, StepRefines, LifecycleInvariant, PTL
  DEF Safety, SlotsAreALane, Lane!LaneSpec
=============================================================================
