--------------------------- MODULE AvatarParts_proofs ---------------------------
(***************************************************************************)
(* Proofs about the four parts of the avatar service that MCAvatarParts    *)
(* puts side by side: the shared renderer, the control sockets, the tracks *)
(* of a viewer, and the watchdog.  Each part has an inductive invariant of *)
(* its own; the last section puts them together.                           *)
(***************************************************************************)
EXTENDS MCAvatarParts, FiniteSetTheorems, SequenceTheorems,
        WellFoundedInduction, TLAPS

-----------------------------------------------------------------------------
(* The renderer.  Two renderers may be made, so that the holder says       *)
(* little.  What holds a renderer warm is its flag: it is set under the    *)
(* lock only, a start is under way only while it is not set, and only the  *)
(* shutdown clears it, with no session left and nobody in the factory.     *)

\* A render is of a renderer and of a mint.
RenderTyped ==
    rendering = Idle
        \/ rendering \in [renderer : Askers, mint : 0..MaxMints]

\* Whoever is at the lock or behind it has a renderer.
RefsTyped ==
    \A a \in Askers :
        at[a] \in {"locking", "starting", "done"} => ref[a] \in Askers

\* The lock: one start of a renderer at a time, and none of a started one.
OneStart ==
    /\ \A a, b \in Askers :
         a # b /\ at[a] = "starting" /\ at[b] = "starting" => ref[a] # ref[b]
    /\ \A a \in Askers : at[a] = "starting" => ~started[ref[a]]

\* The flag says that the backend is warm, for a mint that is done, for the
\* session and for the renders under way.
FlagHolds ==
    /\ \A r \in Askers : started[r] => backend[r] = "warm"
    /\ at["loop"] = "done" => started[ref["loop"]]
    /\ session # None => started[session]
    /\ rendering # Idle /\ service # "down" => started[rendering.renderer]

\* With the service down there is no session, and the loop in no factory.
DownIsDown == service = "down" => session = None /\ ~LoopBlocked

WarmInv ==
    /\ WarmTypeOK /\ RenderTyped /\ RefsTyped
    /\ OneStart /\ FlagHolds /\ DownIsDown

USE DEF Askers, None

LEMMA WarmInvInit == WarmInit => WarmInv
  BY WarmupAssumption
     DEF WarmInit, WarmInv, WarmTypeOK, RenderTyped, RefsTyped, OneStart,
         FlagHolds, DownIsDown, LoopBlocked, Idle

\* Every step of the threads, the mints, the renders and the shutdown keeps
\* the invariant.
LEMMA WarmInvStep == WarmInv /\ [WarmNext]_warmVars => WarmInv'
  <1> SUFFICES ASSUME WarmInv, [WarmNext]_warmVars PROVE WarmInv'
    OBVIOUS
  <1> USE WarmupAssumption
      DEF WarmInv, WarmTypeOK, RenderTyped, RefsTyped, OneStart, FlagHolds,
          DownIsDown, LoopBlocked
  <1>1. CASE WarmUp
    BY <1>1 DEF WarmUp, Find, Enters
  <1>2. CASE Mint
    BY <1>2 DEF Mint, Find, Enters
  <1>3. CASE Minted
    BY <1>3 DEF Minted, Enters
  <1>4. ASSUME NEW a \in Askers, Make(a) PROVE WarmInv'
    <2>1. CASE at' = [at EXCEPT ![a] = "failed"] /\ UNCHANGED <<holder, ref>>
      BY <1>4, <2>1 DEF Make
    <2>2. CASE /\ holder' = a /\ ref' = [ref EXCEPT ![a] = a]
               /\ at' = [at EXCEPT ![a] = "locking"]
      <3>1. /\ at[a] = "looked"
            /\ UNCHANGED <<service, started, backend, session, mints, rendering>>
        BY <1>4 DEF Make
      <3>2. WarmTypeOK' /\ RenderTyped' /\ RefsTyped'
        BY <2>2, <3>1
      <3>3. OneStart'
        BY <2>2, <3>1
      <3>4. FlagHolds'
        BY <2>2, <3>1 DEF Idle
      <3>5. DownIsDown'
        BY <2>2, <3>1
      <3> QED BY <3>2, <3>3, <3>4, <3>5
    <2> QED BY <1>4, <2>1, <2>2 DEF Make, Enters
  <1>5. ASSUME NEW a \in Askers, Lock(a) PROVE WarmInv'
    BY <1>5 DEF Lock, Locked, Enters
  <1>6. ASSUME NEW a \in Askers, StartEnds(a) PROVE WarmInv'
    <2>1. /\ at[a] = "starting" /\ ref[a] \in Askers /\ ~started[ref[a]]
          /\ UNCHANGED <<service, holder, ref, session, mints, rendering>>
      BY <1>6 DEF StartEnds
    <2>2. CASE /\ started' = [started EXCEPT ![ref[a]] = TRUE]
               /\ backend' = [backend EXCEPT ![ref[a]] = "warm"]
               /\ at' = [at EXCEPT ![a] = "done"]
      <3>1. WarmTypeOK' /\ RenderTyped' /\ RefsTyped'
        BY <2>1, <2>2
      <3>2. OneStart'
        BY <2>1, <2>2
      <3>3. FlagHolds'
        BY <2>1, <2>2 DEF Idle
      <3>4. DownIsDown'
        BY <2>1, <2>2
      <3> QED BY <3>1, <3>2, <3>3, <3>4
    <2>3. CASE /\ backend' = [backend EXCEPT ![ref[a]] = "partial"]
               /\ at' = [at EXCEPT ![a] = "failed"]
               /\ UNCHANGED started
      <3>1. WarmTypeOK' /\ RenderTyped' /\ RefsTyped'
        BY <2>1, <2>3
      <3>2. OneStart'
        BY <2>1, <2>3
      <3>3. FlagHolds'
        BY <2>1, <2>3 DEF Idle
      <3>4. DownIsDown'
        BY <2>1, <2>3
      <3> QED BY <3>1, <3>2, <3>3, <3>4
    <2> QED BY <1>6, <2>2, <2>3 DEF StartEnds, Enters
  <1>7. CASE RenderBegins
    BY <1>7 DEF RenderBegins, Idle
  <1>8. CASE RenderEnds
    BY <1>8 DEF RenderEnds, Idle
  <1>9. CASE SessionEnds
    BY <1>9 DEF SessionEnds
  <1>10. CASE LifespanEnds
    BY <1>10 DEF LifespanEnds
  <1>11. CASE CloseRenderer
    BY <1>11 DEF CloseRenderer
  <1>12. CASE UNCHANGED warmVars
    BY <1>12 DEF warmVars
  <1> QED BY <1>1, <1>2, <1>3, <1>4, <1>5, <1>6, <1>7, <1>8, <1>9, <1>10,
             <1>11, <1>12 DEF WarmNext, Asking

LEMMA WarmInvReady == WarmInv => RendererReady
  <1> SUFFICES ASSUME WarmInv PROVE RendererReady
    OBVIOUS
  <1>1. \A a, b \in Askers :
          a # b /\ at[a] = "starting" /\ at[b] = "starting" => ref[a] # ref[b]
    BY DEF WarmInv, OneStart
  <1>2. session # None => backend[session] = "warm" /\ started[session]
    BY DEF WarmInv, WarmTypeOK, FlagHolds
  <1>3. rendering # Idle /\ backend[rendering.renderer] # "warm" =>
          service = "down" /\ session = None
    BY DEF WarmInv, RenderTyped, FlagHolds, DownIsDown
  <1> QED BY <1>1, <1>2, <1>3 DEF RendererReady

\* The renderer of a session and of its renders is warm, and never started by
\* two threads at once (renderer.py, SharedRenderer; service.py, the factory,
\* the warm-up and the lifespan).
THEOREM SessionsRenderWarm == WarmSpec => []RendererReady
  <1>1. WarmInit => WarmInv
    BY WarmInvInit
  <1>2. WarmInv /\ [WarmNext]_warmVars => WarmInv'
    BY WarmInvStep
  <1>3. WarmInv => RendererReady
    BY WarmInvReady
  <1> QED BY <1>1, <1>2, <1>3, PTL DEF WarmSpec

HIDE DEF Askers, None

-----------------------------------------------------------------------------
(* The watchdog.  A late row is written by a thread that tested stopped    *)
(* before the stop.  The invariant adds where such a thread is: asleep,    *)
(* and the next look ends it, or gone.                                     *)

WatchInv ==
    /\ WatchTypeOK
    /\ late \in 0..1
    /\ late = 1 => halt = "closed" /\ watch \in {"asleep", "gone"}
    /\ halt = "begun" => loop \in {"stopping", "dead", "over"}
    /\ halt \in {"closed", "failed"} => loop \in {"dead", "over"}
    /\ loop \in {"stopping", "over"} => halt # "no"
    /\ loop = "idle" \/ loop = "rendering" => raised < RaiseLimit

LEMMA WatchInvInit == WatchInit => WatchInv
  BY WatchAssumption DEF WatchInit, WatchInv, WatchTypeOK

\* Every step of the loop, of stop() and of the thread keeps the invariant.
LEMMA WatchInvStep == WatchInv /\ [WatchNext]_watchVars => WatchInv'
  <1> SUFFICES ASSUME WatchInv, [WatchNext]_watchVars PROVE WatchInv'
    OBVIOUS
  <1> USE WatchAssumption DEF WatchInv, WatchTypeOK
  <1>1. CASE TickBegins
    BY <1>1 DEF TickBegins
  <1>2. CASE RenderReturns
    BY <1>2 DEF RenderReturns
  <1>3. ASSUME NEW written \in BOOLEAN, RenderRaises(written)
        PROVE  WatchInv'
    <2>1. loop = "rendering" /\ halt = "no" /\ raised' = raised + 1
      BY <1>3 DEF RenderRaises
    <2>2. CASE raised = 0 /\ ~written /\ loop' = "dead" /\ UNCHANGED halt
      BY <1>3, <2>1, <2>2 DEF RenderRaises
    <2>3. CASE raised' >= RaiseLimit /\ loop' = "stopping" /\ halt' = "begun"
      BY <1>3, <2>1, <2>3 DEF RenderRaises
    <2>4. CASE raised' < RaiseLimit /\ loop' = "idle" /\ UNCHANGED halt
      BY <1>3, <2>1, <2>4 DEF RenderRaises
    <2> QED BY <1>3, <2>2, <2>3, <2>4 DEF RenderRaises
  <1>4. CASE LoopReaps
    BY <1>4 DEF LoopReaps
  <1>5. CASE StopFromOutside
    BY <1>5 DEF StopFromOutside
  <1>6. CASE StopIsThrough
    BY <1>6 DEF StopIsThrough
  <1>7. CASE WatchLooks
    BY <1>7 DEF WatchLooks
  <1>8. ASSUME NEW written \in BOOLEAN, WatchWrites(written)
        PROVE  WatchInv'
    BY <1>8 DEF WatchWrites
  <1>9. CASE UNCHANGED watchVars
    BY <1>9 DEF watchVars
  <1> QED BY <1>1, <1>2, <1>3, <1>4, <1>5, <1>6, <1>7, <1>8, <1>9
          DEF WatchNext, WatchThread

\* A session's file is complete with its summary, but for one row of the
\* watchdog at most, and nothing ticks behind it (session.py, stop and
\* _watchdog).
THEOREM WatchRowsBounded == WatchSpec => []StallRows
  <1>1. WatchInit => WatchInv
    BY WatchInvInit
  <1>2. WatchInv /\ [WatchNext]_watchVars => WatchInv'
    BY WatchInvStep
  <1>3. WatchInv => StallRows
    BY DEF WatchInv, StallRows
  <1> QED BY <1>1, <1>2, <1>3, PTL DEF WatchSpec

-----------------------------------------------------------------------------
(* The sockets.  What was emitted has its place; what was taken out of the *)
(* outbox is the beginning of it, and each of it was told on one socket or *)
(* lost.  A start is said by the reply that begins the utterance, written  *)
(* in the same step, so that whatever ended is older.                      *)

Hears(c, i) == \E k \in 1..Len(told[c]) : told[c][k].place = i

Taken == Len(emitted) - Len(outbox)

\* What e says has ended is over, with the last utterance l and the turn of v.
Past(e, l, v) == e.kind = "ended" => e.utterance \in 1..l /\ e.utterance # v

PlaceShape ==
    /\ \A i \in 1..Len(emitted) :
         emitted[i].place = i /\ emitted[i].kind # "started" /\ Past(emitted[i], last, event)
    /\ Len(outbox) <= Len(emitted)
    /\ \A j \in 1..Len(outbox) : outbox[j] = Taken + j

\* What was taken was told on one socket, or is lost.
TakenShape ==
    /\ \A i \in lost : i \in 1..Taken
    /\ \A c \in Sockets : \A k \in 1..Len(told[c]) : told[c][k].place \in 0..Taken
    /\ \A i \in 1..Taken : i \in lost <=> \A c \in Sockets : ~Hears(c, i)
    /\ \A i \in 1..Taken : \A c, d \in Sockets : Hears(c, i) /\ Hears(d, i) => c = d

\* A reply that is yet to be sent says a state.
ReplyShape ==
    \A c \in Sockets : \A k \in 1..Len(replies[c]) :
        replies[c][k].place = 0 /\ replies[c][k].kind \in States

TurnShape == event \in {Nobody, last}

\* What one socket was told, in its order.
ToldShape ==
    \A c \in Sockets :
        /\ \A k \in 1..Len(told[c]) :
             /\ Past(told[c][k], last, event)
             /\ told[c][k].kind = "started" => told[c][k].utterance <= last
        /\ \A i, j \in 1..Len(told[c]) :
             i < j /\ told[c][i].place # 0 /\ told[c][j].place # 0 =>
                 told[c][i].place < told[c][j].place
        /\ \A i, j \in 1..Len(told[c]) :
             i < j /\ told[c][i].kind = "ended" /\ told[c][j].kind = "started" =>
                 told[c][j].utterance > told[c][i].utterance

SocketInv ==
    /\ SocketTypeOK /\ PlaceShape /\ TakenShape /\ ReplyShape /\ TurnShape
    /\ ToldShape

\* An utterance that is over stays over.
TurnGoes ==
    /\ last' \in Utterances \cup {Nobody} /\ last <= last'
    /\ event' \in Utterances \cup {Nobody} /\ TurnShape'
    /\ \A u \in 1..last : u # event => u # event'

LEMMA PastLasts ==
    ASSUME SocketInv, TurnGoes, NEW e, Past(e, last, event)
    PROVE  Past(e, last', event')
  <1>1. last \in Nat /\ last' \in Nat /\ last <= last'
    BY SocketAssumption DEF SocketInv, SocketTypeOK, TurnGoes, Utterances, Nobody
  <1> QED BY <1>1 DEF Past, TurnGoes

LEMMA OneOfTwo ==
    ASSUME NEW l \in {0, 1}, NEW m \in {0, 1}, NEW k \in 1..(l + m)
    PROVE  \/ k <= l /\ k = 1 /\ l = 1
           \/ ~(k <= l) /\ k - l = 1 /\ m = 1
OBVIOUS

\* The replies to the first chunk of an utterance.
LEMMA RepliesSay ==
    ASSUME NEW u \in Utterances
    PROVE  /\ SpeakReplies(u) \in Seq(Events)
           /\ \A k \in 1..Len(SpeakReplies(u)) :
                LET r == SpeakReplies(u)[k]
                IN  /\ r.place = 0
                    /\ r.kind \in States
                       \/ (k = 1 /\ r.kind = "started" /\ r.utterance = u /\ u # event)
  <1> DEFINE a == IF u # event THEN <<Said("started", u)>> ELSE <<>>
             b == IF state # "speaking" THEN <<StateIs("speaking")>> ELSE <<>>
  <1>1. Said("started", u) \in Events /\ StateIs("speaking") \in Events
    BY DEF Said, StateIs, Events, Kinds, States, Nobody
  <1>2. a \in Seq(Events) /\ Len(a) \in {0, 1} /\ (Len(a) = 1 => a[1] = Said("started", u))
        /\ (Len(a) = 1 => u # event)
    BY <1>1
  <1>3. b \in Seq(Events) /\ Len(b) \in {0, 1} /\ (Len(b) = 1 => b[1] = StateIs("speaking"))
    BY <1>1
  <1>4. SpeakReplies(u) = a \o b
    BY DEF SpeakReplies
  <1> HIDE DEF a, b
  <1>5. /\ a \o b \in Seq(Events) /\ Len(a \o b) = Len(a) + Len(b)
        /\ \A k \in 1..(Len(a) + Len(b)) :
             (a \o b)[k] = IF k <= Len(a) THEN a[k] ELSE b[k - Len(a)]
    BY <1>2, <1>3, ConcatProperties
  <1>6. ASSUME NEW k \in 1..(Len(a) + Len(b))
        PROVE  \/ (a \o b)[k] = StateIs("speaking")
               \/ (a \o b)[k] = Said("started", u) /\ k = 1 /\ u # event
    <2>1. CASE k <= Len(a)
      <3>1. k = 1 /\ Len(a) = 1
        BY <1>2, <1>3, <2>1, OneOfTwo
      <3> QED BY <1>2, <1>5, <2>1, <3>1
    <2>2. CASE ~(k <= Len(a))
      <3>1. k - Len(a) = 1 /\ Len(b) = 1
        BY <1>2, <1>3, <2>2, OneOfTwo
      <3> QED BY <1>3, <1>5, <2>2, <3>1
    <2> QED BY <2>1, <2>2
  <1>7. /\ StateIs("speaking").place = 0 /\ StateIs("speaking").kind \in States
        /\ Said("started", u).place = 0 /\ Said("started", u).kind = "started"
        /\ Said("started", u).utterance = u
    BY DEF Said, StateIs, States
  <1> QED BY <1>4, <1>5, <1>6, <1>7

\* What a message does to the turn, and what the replies to it say.
LEMMA MessageHandled ==
    ASSUME SocketInv, NEW answer, Handles(answer)
    PROVE  /\ TurnGoes /\ state' \in States /\ closed' \in BOOLEAN
           /\ state' = "speaking" <=> event' # Nobody
           /\ closed' => state' = "speaking"
           /\ messages' \in 0..MaxMessages /\ stopped' = stopped
           /\ answer \in Seq(Events)
           /\ \A k \in 1..Len(answer) :
                /\ answer[k].place = 0
                /\ answer[k].kind \in States
                   \/ (k = 1 /\ answer[k].kind = "started"
                        /\ answer[k].utterance = last' /\ last' > last)
  <1>1. /\ SocketTypeOK /\ TurnShape
        /\ last \in Nat /\ event \in Nat
    BY SocketAssumption DEF SocketInv, SocketTypeOK, Utterances, Nobody
  <1>2. messages' \in 0..MaxMessages /\ stopped' = stopped
    BY <1>1, SocketAssumption DEF Handles, SocketTypeOK
  <1>3. <<>> \in Seq(Events) /\ \A k \in 1..Len(<<>>) : FALSE
    OBVIOUS
  <1>4. ASSUME NEW u \in Utterances, Speak(u), answer = SpeakReplies(u)
        PROVE  /\ TurnGoes /\ state' \in States /\ closed' \in BOOLEAN
               /\ state' = "speaking" <=> event' # Nobody
               /\ closed' => state' = "speaking"
               /\ u # event => u = last' /\ last' > last
    BY <1>1, <1>4, SocketAssumption
       DEF Speak, TurnGoes, TurnShape, SocketTypeOK, Utterances, Nobody, States
  <1>5. ASSUME NEW u \in Utterances, Speak(u), answer = SpeakReplies(u)
        PROVE  /\ answer \in Seq(Events)
               /\ \A k \in 1..Len(answer) :
                    /\ answer[k].place = 0
                    /\ answer[k].kind \in States
                       \/ (k = 1 /\ answer[k].kind = "started"
                            /\ answer[k].utterance = last' /\ last' > last)
    BY <1>4, <1>5, RepliesSay
  <1>6. ASSUME answer = <<>>,
               \/ \E u \in 1..last : SpeakEnd(u)
               \/ Moves({"speaking", "idle"}, "listening")
               \/ Moves({"listening"}, "idle")
        PROVE  /\ TurnGoes /\ state' \in States /\ closed' \in BOOLEAN
               /\ state' = "speaking" <=> event' # Nobody
               /\ closed' => state' = "speaking"
    <2>1. CASE \E u \in 1..last : SpeakEnd(u)
      BY <1>1, <2>1 DEF SpeakEnd, TurnGoes, TurnShape, SocketTypeOK
    <2>2. CASE Moves({"speaking", "idle"}, "listening") \/ Moves({"listening"}, "idle")
      <3>1. /\ state' \in {"listening", "idle"} /\ event' = Nobody /\ closed' = FALSE
            /\ last' = last
        BY <2>2 DEF Moves
      <3>2. TurnGoes
        <4>1. \A u \in 1..last : u # Nobody
          BY DEF Nobody
        <4> QED BY <1>1, <3>1, <4>1 DEF TurnGoes, TurnShape, SocketTypeOK
      <3> QED BY <3>1, <3>2 DEF States, Nobody
    <2> QED BY <1>6, <2>1, <2>2
  <1>7. \/ \E u \in Utterances : Speak(u) /\ answer = SpeakReplies(u)
        \/ /\ answer = <<>>
           /\ \/ \E u \in 1..last : SpeakEnd(u)
              \/ Moves({"speaking", "idle"}, "listening")
              \/ Moves({"listening"}, "idle")
    BY DEF Handles
  <1> QED BY <1>2, <1>3, <1>4, <1>5, <1>6, <1>7

\* The turn and the count of messages, after a step.
TurnFine ==
    /\ TurnGoes /\ state' \in States /\ closed' \in BOOLEAN
    /\ state' = "speaking" <=> event' # Nobody
    /\ closed' => state' = "speaking"
    /\ messages' \in 0..MaxMessages /\ stopped' \in BOOLEAN

LEMMA TurnStays ==
    ASSUME SocketInv, UNCHANGED <<turnVars, messages>>
    PROVE  TurnFine
  <1>1. last \in Nat
    BY SocketAssumption DEF SocketInv, SocketTypeOK, Utterances, Nobody
  <1> QED BY <1>1 DEF SocketInv, SocketTypeOK, TurnFine, TurnGoes, TurnShape, turnVars

\* What is told to one socket.
LEMMA Telling ==
    ASSUME SocketTypeOK, NEW c \in Sockets, NEW e \in Events, Write(c, e)
    PROVE  /\ told' \in [Sockets -> Seq(Events)]
           /\ \A d \in Sockets \ {c} : told'[d] = told[d]
           /\ Len(told[c]) \in Nat /\ Len(told'[c]) = Len(told[c]) + 1
           /\ \A k \in 1..Len(told[c]) : told'[c][k] = told[c][k]
           /\ told'[c][Len(told[c]) + 1] = e
  <1>1. told \in [Sockets -> Seq(Events)] /\ told[c] \in Seq(Events)
    BY DEF SocketTypeOK
  <1>2. told' = [told EXCEPT ![c] = Append(told[c], e)]
    BY DEF Write
  <1>3. /\ Append(told[c], e) \in Seq(Events)
        /\ Len(Append(told[c], e)) = Len(told[c]) + 1
        /\ \A k \in 1..Len(told[c]) : Append(told[c], e)[k] = told[c][k]
        /\ Append(told[c], e)[Len(told[c]) + 1] = e
    BY <1>1, AppendProperties
  <1>4. told'[c] = Append(told[c], e) /\ told' \in [Sockets -> Seq(Events)]
        /\ \A d \in Sockets \ {c} : told'[d] = told[d]
    BY <1>1, <1>2, <1>3
  <1> QED BY <1>1, <1>3, <1>4, LenProperties

\* What a socket is told is in order when its last word is.
LEMMA TellingShape ==
    ASSUME SocketInv, TurnGoes, NEW c \in Sockets, NEW e \in Events, Write(c, e),
           Past(e, last', event'), e.kind = "started" => e.utterance = last' /\ last' > last,
           e.place = 0 \/ e.place = Taken + 1
    PROVE  ToldShape'
  <1> DEFINE n == Len(told[c])
  <1>1. /\ SocketTypeOK /\ last \in Nat /\ last' \in Nat /\ last <= last'
        /\ Taken \in Int
    <2>1. SocketTypeOK /\ emitted \in Seq(Events) /\ Len(emitted) \in Nat
          /\ outbox \in Seq(1..Len(emitted)) /\ Len(outbox) \in Nat
      BY DEF SocketInv, SocketTypeOK
    <2>2. last \in Nat /\ last' \in Nat /\ last <= last'
      BY <2>1, SocketAssumption
         DEF SocketTypeOK, TurnGoes, Utterances, Nobody
    <2>3. Taken \in Int
      BY <2>1 DEF Taken
    <2> QED BY <2>1, <2>2, <2>3
  <1>2. /\ \A d \in Sockets \ {c} : told'[d] = told[d]
        /\ n \in Nat /\ Len(told'[c]) = n + 1
        /\ \A k \in 1..n : told'[c][k] = told[c][k]
        /\ told'[c][n + 1] = e
    BY <1>1, Telling
  <1>3. ASSUME NEW d \in Sockets, NEW k \in 1..Len(told[d])
        PROVE  /\ Past(told[d][k], last', event')
               /\ told[d][k].kind = "started" => told[d][k].utterance <= last'
               /\ told[d][k].place \in 0..Taken
    <2>1. Past(told[d][k], last, event)
          /\ (told[d][k].kind = "started" => told[d][k].utterance <= last)
          /\ told[d][k].place \in 0..Taken
      BY DEF SocketInv, ToldShape, TakenShape
    <2>2. told[d][k].utterance \in Nat
      <3>1. told[d] \in Seq(Events)
        BY <1>1 DEF SocketTypeOK
      <3>2. told[d][k] \in Events
        BY <3>1, ElementOfSeq
      <3> QED BY <3>2, SocketAssumption DEF Events, Utterances, Nobody
    <2> QED BY <1>1, <2>1, <2>2, PastLasts
  <1>4. ASSUME NEW d \in Sockets, d # c
        PROVE  /\ \A k \in 1..Len(told'[d]) :
                    /\ Past(told'[d][k], last', event')
                    /\ told'[d][k].kind = "started" => told'[d][k].utterance <= last'
               /\ \A i, j \in 1..Len(told'[d]) :
                    i < j /\ told'[d][i].place # 0 /\ told'[d][j].place # 0 =>
                        told'[d][i].place < told'[d][j].place
               /\ \A i, j \in 1..Len(told'[d]) :
                    i < j /\ told'[d][i].kind = "ended" /\ told'[d][j].kind = "started" =>
                        told'[d][j].utterance > told'[d][i].utterance
    <2>1. told'[d] = told[d]
      BY <1>2, <1>4
    <2> QED BY <1>3, <2>1 DEF SocketInv, ToldShape
  <1>5. ASSUME NEW k \in 1..Len(told'[c])
        PROVE  \/ k \in 1..n /\ told'[c][k] = told[c][k]
               \/ k = n + 1 /\ told'[c][k] = e
    <2>1. k \in 1..n \/ k = n + 1
      BY <1>2
    <2> QED BY <1>2, <2>1
  <1> HIDE DEF n
  <1>6. ASSUME NEW k \in 1..Len(told'[c])
        PROVE  /\ Past(told'[c][k], last', event')
               /\ told'[c][k].kind = "started" => told'[c][k].utterance <= last'
    <2>1. CASE k \in 1..n /\ told'[c][k] = told[c][k]
      BY <1>3, <2>1 DEF n
    <2>2. CASE told'[c][k] = e
      BY <1>1, <2>2
    <2> QED BY <1>5, <2>1, <2>2
  <1>7. ASSUME NEW i \in 1..Len(told'[c]), NEW j \in 1..Len(told'[c]), i < j
        PROVE  /\ told'[c][i].place # 0 /\ told'[c][j].place # 0 =>
                    told'[c][i].place < told'[c][j].place
               /\ told'[c][i].kind = "ended" /\ told'[c][j].kind = "started" =>
                    told'[c][j].utterance > told'[c][i].utterance
    <2>1. i \in 1..n /\ told'[c][i] = told[c][i]
      BY <1>2, <1>5, <1>7
    <2>2. CASE j \in 1..n /\ told'[c][j] = told[c][j]
      BY <1>7, <2>1, <2>2 DEF SocketInv, ToldShape, n
    <2>3. CASE told'[c][j] = e
      <3>1. told[c][i].place \in 0..Taken /\ Past(told[c][i], last, event)
        BY <2>1 DEF SocketInv, ToldShape, TakenShape, n
      <3>2. e.place # 0 => told[c][i].place < e.place
        BY <1>1, <3>1
      <3>3. told[c][i].kind = "ended" /\ e.kind = "started" =>
              e.utterance > told[c][i].utterance
        BY <1>1, <3>1 DEF Past
      <3> QED BY <2>1, <2>3, <3>2, <3>3
    <2> QED BY <1>5, <2>2, <2>3
  <1> QED
    BY <1>4, <1>6, <1>7 DEF ToldShape

LEMMA PlacesKept ==
    ASSUME SocketInv, TurnGoes, UNCHANGED outVars
    PROVE  PlaceShape' /\ Taken' = Taken
  <1>1. emitted' = emitted /\ outbox' = outbox /\ Taken' = Taken
    BY DEF outVars, Taken
  <1>2. \A i \in 1..Len(emitted) : Past(emitted[i], last', event')
    BY PastLasts DEF SocketInv, PlaceShape
  <1> QED BY <1>1, <1>2 DEF SocketInv, PlaceShape

\* What was told and taken stays so, whatever becomes of the turn.
LEMMA ToldStays ==
    ASSUME SocketInv, TurnGoes, UNCHANGED told, lost' = lost, Taken' = Taken
    PROVE  TakenShape' /\ ToldShape'
  <1>1. told' = told
    OBVIOUS
  <1>2. TakenShape'
    <2>1. \A d \in Sockets : \A i : Hears(d, i)' <=> Hears(d, i)
      BY <1>1 DEF Hears
    <2>2. \A d \in Sockets : \A k \in 1..Len(told'[d]) : told'[d][k].place \in 0..Taken'
      BY <1>1 DEF SocketInv, TakenShape
    <2> QED BY <2>1, <2>2 DEF SocketInv, TakenShape
  <1>3. ToldShape'
    <2>1. ASSUME NEW c \in Sockets, NEW k \in 1..Len(told[c])
          PROVE  /\ Past(told[c][k], last', event')
                 /\ told[c][k].kind = "started" => told[c][k].utterance <= last'
      <3>1. /\ Past(told[c][k], last, event)
            /\ told[c][k].kind = "started" => told[c][k].utterance <= last
        BY DEF SocketInv, ToldShape
      <3>2. told[c][k].utterance \in Nat
        <4>1. told[c] \in Seq(Events)
          BY DEF SocketInv, SocketTypeOK
        <4>2. told[c][k] \in Events
          BY <4>1, ElementOfSeq
        <4> QED BY <4>2, SocketAssumption DEF Events, Utterances, Nobody
      <3>3. last \in Nat /\ last' \in Nat /\ last <= last'
        BY SocketAssumption
           DEF SocketInv, SocketTypeOK, TurnGoes, Utterances, Nobody
      <3> QED BY <3>1, <3>2, <3>3, PastLasts
    <2> QED BY <1>1, <2>1 DEF SocketInv, ToldShape
  <1> QED BY <1>2, <1>3

\* A step that tells nobody anything.
LEMMA NothingTold ==
    ASSUME SocketInv, TurnFine, UNCHANGED outVars, UNCHANGED told,
           conn' \in [Sockets -> {"none", "open", "cut", "shut"}],
           pump' \in [Sockets -> {"none", "waiting", "dead"}],
           replies' \in [Sockets -> Seq(Events)], ReplyShape'
    PROVE  SocketInv'
  <1>1. PlaceShape' /\ Taken' = Taken /\ lost' = lost /\ emitted' = emitted /\ outbox' = outbox
    BY PlacesKept DEF TurnFine, outVars
  <1>2. SocketTypeOK'
    BY <1>1 DEF SocketInv, SocketTypeOK, TurnFine, TurnGoes
  <1>3. TakenShape' /\ ToldShape'
    BY <1>1, ToldStays DEF TurnFine
  <1> QED BY <1>1, <1>2, <1>3 DEF SocketInv, TurnFine, TurnGoes

\* A step that tells one client a reply.
LEMMA ReplyTold ==
    ASSUME SocketInv, TurnFine, UNCHANGED outVars,
           conn' \in [Sockets -> {"none", "open", "cut", "shut"}],
           pump' \in [Sockets -> {"none", "waiting", "dead"}],
           replies' \in [Sockets -> Seq(Events)], ReplyShape',
           NEW c \in Sockets, NEW e \in Events, Write(c, e), e.place = 0,
           e.kind \in States
             \/ (e.kind = "started" /\ e.utterance = last' /\ last' > last)
    PROVE  SocketInv'
  <1>1. PlaceShape' /\ Taken' = Taken /\ lost' = lost /\ emitted' = emitted /\ outbox' = outbox
    BY PlacesKept DEF TurnFine, outVars
  <1> DEFINE n == Len(told[c])
  <1>2. /\ told' \in [Sockets -> Seq(Events)]
        /\ \A d \in Sockets \ {c} : told'[d] = told[d]
        /\ n \in Nat /\ Len(told'[c]) = n + 1
        /\ \A k \in 1..n : told'[c][k] = told[c][k]
        /\ told'[c][n + 1] = e
    BY Telling DEF SocketInv
  <1> HIDE DEF n
  <1>3. SocketTypeOK'
    BY <1>1, <1>2 DEF SocketInv, SocketTypeOK, TurnFine, TurnGoes
  <1>4. ToldShape'
    <2>1. Past(e, last', event')
      BY DEF Past, States
    <2>2. e.kind = "started" => e.utterance = last' /\ last' > last
      BY DEF States
    <2> QED BY <2>1, <2>2, TellingShape DEF TurnFine
  <1>5. \A i \in 1..Taken : \A d \in Sockets : Hears(d, i)' <=> Hears(d, i)
    <2>1. ASSUME NEW i \in 1..Taken, NEW d \in Sockets
          PROVE  Hears(d, i)' <=> Hears(d, i)
      <3>1. CASE d # c
        BY <1>2, <3>1 DEF Hears
      <3>2. CASE d = c
        <4>1. i # 0
          OBVIOUS
        <4>2. \A k \in 1..(n + 1) : k \in 1..n \/ k = n + 1
          BY <1>2
        <4>3. \A k \in 1..n : k \in 1..(n + 1)
          BY <1>2
        <4> QED BY <1>2, <3>2, <4>1, <4>2, <4>3 DEF Hears, n
      <3> QED BY <3>1, <3>2
    <2> QED BY <2>1
  <1>6. TakenShape'
    <2>1. ASSUME NEW d \in Sockets, NEW k \in 1..Len(told'[d])
          PROVE  told'[d][k].place \in 0..Taken
      <3>1. CASE d # c
        BY <1>2, <3>1 DEF SocketInv, TakenShape
      <3>2. CASE d = c /\ k \in 1..n
        BY <1>2, <3>2 DEF SocketInv, TakenShape, n
      <3>3. CASE d = c /\ k = n + 1
        <4>1. Taken \in Nat
          <5>1. Len(emitted) \in Nat /\ Len(outbox) \in Nat /\ Len(outbox) <= Len(emitted)
            BY DEF SocketInv, SocketTypeOK, PlaceShape
          <5> QED BY <5>1 DEF Taken
        <4> QED BY <1>2, <3>3, <4>1
      <3>4. d = c => k \in 1..n \/ k = n + 1
        BY <1>2
      <3> QED BY <3>1, <3>2, <3>3, <3>4
    <2> QED BY <1>1, <1>5, <2>1 DEF SocketInv, TakenShape
  <1> QED BY <1>1, <1>3, <1>4, <1>6 DEF SocketInv, TurnFine, TurnGoes

\* A message, a reply, and what changes in the connections.
LEMMA ReceiveInv ==
    ASSUME SocketInv, NEW c \in Sockets, Receive(c)
    PROVE  SocketInv'
  <1>1. PICK answer \in Answers :
          /\ Handles(answer)
          /\ IF answer = <<>> THEN UNCHANGED <<told, replies>>
             ELSE /\ Write(c, Head(answer))
                  /\ replies' = [replies EXCEPT ![c] = Tail(answer)]
    BY DEF Receive
  <1>2. /\ UNCHANGED outVars /\ conn' = conn /\ pump' = pump
        /\ SocketTypeOK /\ ReplyShape
    BY DEF Receive, SocketInv
  <1>3. /\ TurnFine /\ answer \in Seq(Events)
        /\ \A k \in 1..Len(answer) :
             /\ answer[k].place = 0
             /\ answer[k].kind \in States
                \/ (k = 1 /\ answer[k].kind = "started"
                     /\ answer[k].utterance = last' /\ last' > last)
    BY <1>1, <1>2, MessageHandled DEF TurnFine, SocketTypeOK
  <1>4. CASE answer = <<>>
    <2>1. told' = told /\ replies' = replies
      BY <1>1, <1>4
    <2> QED BY <1>2, <1>3, <2>1, NothingTold DEF SocketTypeOK, ReplyShape
  <1>5. CASE answer # <<>>
    <2>1. /\ Write(c, Head(answer)) /\ replies' = [replies EXCEPT ![c] = Tail(answer)]
      BY <1>1, <1>5
    <2>2. /\ Head(answer) = answer[1] /\ Len(answer) \in Nat /\ 1 \in 1..Len(answer)
          /\ Head(answer) \in Events
      BY <1>3, <1>5, EmptySeq, HeadTailProperties
    <2>3. /\ Tail(answer) \in Seq(Events) /\ Len(Tail(answer)) = Len(answer) - 1
          /\ \A k \in 1..Len(Tail(answer)) : Tail(answer)[k] = answer[k + 1]
      BY <1>3, <1>5, HeadTailProperties
    <2>4. ASSUME NEW k \in 1..Len(Tail(answer))
          PROVE  Tail(answer)[k].place = 0 /\ Tail(answer)[k].kind \in States
      <3>1. k + 1 \in 1..Len(answer) /\ k + 1 # 1
        BY <2>2, <2>3
      <3> QED BY <1>3, <2>3, <3>1
    <2>5. replies' \in [Sockets -> Seq(Events)] /\ ReplyShape'
      <3>1. /\ replies' \in [Sockets -> Seq(Events)] /\ replies'[c] = Tail(answer)
            /\ \A d \in Sockets \ {c} : replies'[d] = replies[d]
        BY <1>2, <2>1, <2>3 DEF SocketTypeOK
      <3> QED BY <1>2, <2>4, <3>1 DEF ReplyShape
    <2>6. /\ Head(answer).place = 0
          /\ Head(answer).kind \in States
             \/ (Head(answer).kind = "started" /\ Head(answer).utterance = last'
                  /\ last' > last)
      BY <1>3, <2>2
    <2> QED BY <1>2, <1>3, <2>1, <2>2, <2>5, <2>6, ReplyTold DEF SocketTypeOK
  <1> QED BY <1>4, <1>5

LEMMA ReplyInv ==
    ASSUME SocketInv, NEW c \in Sockets, Reply(c)
    PROVE  SocketInv'
  <1>1. /\ replies[c] # <<>> /\ Write(c, Head(replies[c]))
        /\ replies' = [replies EXCEPT ![c] = Tail(replies[c])]
        /\ UNCHANGED outVars /\ conn' = conn /\ pump' = pump
        /\ UNCHANGED <<turnVars, messages>>
    BY DEF Reply
  <1>2. SocketTypeOK /\ ReplyShape /\ replies[c] \in Seq(Events)
    BY DEF SocketInv, SocketTypeOK
  <1>3. /\ Head(replies[c]) = replies[c][1] /\ 1 \in 1..Len(replies[c])
        /\ Head(replies[c]) \in Events
    BY <1>1, <1>2, EmptySeq, HeadTailProperties
  <1>4. /\ Tail(replies[c]) \in Seq(Events)
        /\ Len(Tail(replies[c])) = Len(replies[c]) - 1 /\ Len(replies[c]) \in Nat
        /\ \A k \in 1..Len(Tail(replies[c])) : Tail(replies[c])[k] = replies[c][k + 1]
    BY <1>1, <1>2, HeadTailProperties, LenProperties
  <1>5. replies' \in [Sockets -> Seq(Events)] /\ ReplyShape'
    <2>1. /\ replies' \in [Sockets -> Seq(Events)] /\ replies'[c] = Tail(replies[c])
          /\ \A d \in Sockets \ {c} : replies'[d] = replies[d]
      BY <1>1, <1>2, <1>4 DEF SocketTypeOK
    <2>2. ASSUME NEW k \in 1..Len(Tail(replies[c]))
          PROVE  Tail(replies[c])[k].place = 0 /\ Tail(replies[c])[k].kind \in States
      <3>1. k + 1 \in 1..Len(replies[c])
        BY <1>4
      <3> QED BY <1>2, <1>4, <3>1 DEF ReplyShape
    <2> QED BY <1>2, <2>1, <2>2 DEF ReplyShape
  <1>6. Head(replies[c]).place = 0 /\ Head(replies[c]).kind \in States
    BY <1>2, <1>3 DEF ReplyShape
  <1>7. TurnFine
    BY <1>1, TurnStays
  <1> QED BY <1>1, <1>2, <1>3, <1>5, <1>6, <1>7, ReplyTold DEF SocketTypeOK

LEMMA ConnectInv ==
    ASSUME SocketInv, NEW c \in Sockets, Connect(c)
    PROVE  SocketInv'
  <1>1. /\ Write(c, StateIs(state)) /\ UNCHANGED outVars /\ replies' = replies
        /\ UNCHANGED <<turnVars, messages>>
        /\ conn' = [conn EXCEPT ![c] = "open"] /\ pump' = [pump EXCEPT ![c] = "waiting"]
    BY DEF Connect
  <1>2. StateIs(state) \in Events /\ StateIs(state).place = 0 /\ StateIs(state).kind \in States
    BY DEF SocketInv, SocketTypeOK, StateIs, Events, Kinds, States, Nobody
  <1>3. /\ conn' \in [Sockets -> {"none", "open", "cut", "shut"}]
        /\ pump' \in [Sockets -> {"none", "waiting", "dead"}]
        /\ replies' \in [Sockets -> Seq(Events)] /\ ReplyShape'
    BY <1>1 DEF SocketInv, SocketTypeOK, ReplyShape
  <1> QED BY <1>1, <1>2, <1>3, TurnStays, ReplyTold

LEMMA ConnectionInv ==
    ASSUME SocketInv, NEW c \in Sockets, Cut(c) \/ Shut(c)
    PROVE  SocketInv'
  <1>1. /\ UNCHANGED outVars /\ told' = told /\ UNCHANGED <<turnVars, messages>>
    BY DEF Cut, Shut
  <1>2. /\ conn' \in [Sockets -> {"none", "open", "cut", "shut"}]
        /\ pump' \in [Sockets -> {"none", "waiting", "dead"}]
        /\ replies' \in [Sockets -> Seq(Events)]
    <2>1. CASE Cut(c)
      BY <2>1 DEF Cut, SocketInv, SocketTypeOK
    <2>2. CASE Shut(c)
      <3>1. <<>> \in Seq(Events)
        BY EmptySeq
      <3> QED BY <2>2, <3>1 DEF Shut, SocketInv, SocketTypeOK
    <2> QED BY <2>1, <2>2
  <1>3. ReplyShape'
    <2>1. CASE Cut(c)
      BY <2>1 DEF Cut, SocketInv, ReplyShape
    <2>2. CASE Shut(c)
      <3>1. \A d \in Sockets : replies'[d] = IF d = c THEN <<>> ELSE replies[d]
        BY <2>2 DEF Shut, SocketInv, SocketTypeOK
      <3>2. Len(<<>>) = 0
        OBVIOUS
      <3> QED BY <3>1, <3>2 DEF SocketInv, ReplyShape
    <2> QED BY <2>1, <2>2
  <1> QED BY <1>1, <1>2, <1>3, TurnStays, NothingTold

LEMMA PostInv == SocketInv /\ Post => SocketInv'
  <1> SUFFICES ASSUME SocketInv, Post PROVE SocketInv'
    OBVIOUS
  <1>1. PICK answer \in Answers : Handles(answer)
    BY DEF Post
  <1>2. UNCHANGED outVars /\ conn' = conn /\ pump' = pump /\ replies' = replies
        /\ told' = told
    BY DEF Post
  <1>3. TurnFine
    BY <1>1, MessageHandled DEF TurnFine, SocketInv, SocketTypeOK
  <1>4. ReplyShape' /\ SocketTypeOK
    BY <1>2 DEF SocketInv, ReplyShape
  <1> QED BY <1>2, <1>3, <1>4, NothingTold DEF SocketTypeOK

\* What is emitted goes to the end of all that was, and into the outbox.
LEMMA Emitting ==
    ASSUME SocketInv, TurnGoes, NEW es \in Seq(Events), Emit(es),
           \A k \in 1..Len(es) : es[k].kind # "started" /\ Past(es[k], last', event')
    PROVE  /\ emitted' \in Seq(Events) /\ outbox' \in Seq(1..Len(emitted'))
           /\ Len(emitted) \in Nat /\ Len(emitted') \in Nat /\ Len(emitted) <= Len(emitted')
           /\ Taken' = Taken /\ lost' = lost /\ PlaceShape'
  <1> DEFINE new == [i \in 1..Len(es) |-> [es[i] EXCEPT !.place = Len(emitted) + i]]
             put == [i \in 1..Len(es) |-> Len(emitted) + i]
             n == Len(emitted)
             m == Len(es)
  <1>1. /\ emitted \in Seq(Events) /\ n \in Nat
        /\ outbox \in Seq(1..n) /\ Len(outbox) \in Nat /\ m \in Nat /\ DOMAIN es = 1..m
        /\ n = Len(emitted) /\ m = Len(es)
    BY LenProperties DEF SocketInv, SocketTypeOK
  <1>2. emitted' = emitted \o new /\ outbox' = outbox \o put /\ lost' = lost
    BY <1>1 DEF Emit
  <1>3. /\ new \in Seq(Events) /\ Len(new) = m
        /\ \A k \in 1..m : /\ new[k].place = n + k /\ new[k].kind = es[k].kind
                           /\ new[k].utterance = es[k].utterance
    <2>1. ASSUME NEW k \in 1..m
          PROVE  /\ new[k] \in Events /\ new[k].place = n + k /\ new[k].kind = es[k].kind
                 /\ new[k].utterance = es[k].utterance
      <3>1. es[k] \in Events
        BY ElementOfSeq
      <3>2. n + k \in Nat
        BY <1>1
      <3> QED BY <3>1, <3>2 DEF Events
    <2>2. new \in [1..m -> Events]
      BY <2>1
    <2>3. new \in Seq(Events) /\ Len(new) = m
      BY <1>1, <2>2
    <2> QED BY <2>1, <2>3
  <1>4. put \in Seq(1..(n + m)) /\ Len(put) = m /\ \A k \in 1..m : put[k] = n + k
    <2>1. put \in [1..m -> 1..(n + m)]
      BY <1>1
    <2> QED BY <1>1, <2>1
  <1> HIDE DEF new, put, n, m
  <1>5. /\ emitted' \in Seq(Events) /\ Len(emitted') = n + m
        /\ \A k \in 1..(n + m) : emitted'[k] = IF k <= n THEN emitted[k] ELSE new[k - n]
    <2>1. /\ emitted \o new \in Seq(Events) /\ Len(emitted \o new) = Len(emitted) + Len(new)
          /\ \A k \in 1..(Len(emitted) + Len(new)) :
               (emitted \o new)[k] = IF k <= Len(emitted) THEN emitted[k] ELSE new[k - Len(emitted)]
      <3>1. emitted \in Seq(Events) /\ new \in Seq(Events)
        BY <1>1, <1>3
      <3> QED BY <3>1, ConcatProperties, Zenon
    <2>2. Len(emitted) = n /\ Len(new) = m /\ emitted' = emitted \o new
      BY <1>1, <1>2, <1>3
    <2> QED BY <2>1, <2>2
  <1>6. outbox \in Seq(1..(n + m))
    <2>1. 1..n \subseteq 1..(n + m)
      BY <1>1
    <2> QED BY <1>1, <2>1, SeqMonotonic
  <1>7. /\ outbox' \in Seq(1..(n + m)) /\ Len(outbox') = Len(outbox) + m
        /\ \A k \in 1..(Len(outbox) + m) :
             outbox'[k] = IF k <= Len(outbox) THEN outbox[k] ELSE put[k - Len(outbox)]
    <2>1. /\ outbox \o put \in Seq(1..(n + m)) /\ Len(outbox \o put) = Len(outbox) + Len(put)
          /\ \A k \in 1..(Len(outbox) + Len(put)) :
               (outbox \o put)[k] = IF k <= Len(outbox) THEN outbox[k] ELSE put[k - Len(outbox)]
      BY <1>4, <1>6, ConcatProperties
    <2> QED BY <1>2, <1>4, <2>1
  <1>8. PlaceShape
    BY DEF SocketInv
  <1>9. Taken = n - Len(outbox) /\ Taken' = (n + m) - (Len(outbox) + m) /\ Len(outbox) <= n
    BY <1>5, <1>7, <1>8 DEF Taken, PlaceShape, n
  <1>10. Taken' = Taken
    BY <1>1, <1>9
  <1>11. ASSUME NEW i \in 1..(n + m)
         PROVE  /\ emitted'[i].place = i /\ emitted'[i].kind # "started"
                /\ Past(emitted'[i], last', event')
    <2>1. CASE i <= n
      <3>1. i \in 1..n /\ emitted'[i] = emitted[i]
        <4>1. i \in 1..n
          BY <1>1, <2>1
        <4> QED BY <1>5, <2>1, <4>1
      <3>2. Past(emitted[i], last, event)
        BY <1>8, <3>1 DEF PlaceShape, n
      <3> QED BY <1>8, <3>1, <3>2, PastLasts DEF PlaceShape, n
    <2>2. CASE ~(i <= n)
      <3>1. i - n \in 1..m /\ n + (i - n) = i
        BY <1>1, <2>2
      <3>2. emitted'[i] = new[i - n]
        BY <1>5, <2>2
      <3> QED BY <1>3, <3>1, <3>2 DEF Past, m
    <2> QED BY <2>1, <2>2
  <1>12. ASSUME NEW j \in 1..(Len(outbox) + m)
         PROVE  outbox'[j] = Taken + j
    <2>1. CASE j <= Len(outbox)
      <3>1. j \in 1..Len(outbox) /\ outbox'[j] = outbox[j]
        BY <1>1, <1>7, <2>1
      <3> QED BY <1>8, <3>1 DEF PlaceShape
    <2>2. CASE ~(j <= Len(outbox))
      <3>1. j - Len(outbox) \in 1..m
        BY <1>1, <2>2
      <3>2. outbox'[j] = n + (j - Len(outbox))
        BY <1>4, <1>7, <2>2, <3>1
      <3> QED BY <1>1, <1>9, <3>2
    <2> QED BY <2>1, <2>2
  <1>13. PlaceShape'
    <2>1. Len(outbox') <= Len(emitted')
      BY <1>1, <1>5, <1>7, <1>9
    <2> QED BY <1>5, <1>7, <1>10, <1>11, <1>12, <2>1 DEF PlaceShape
  <1> QED BY <1>1, <1>2, <1>5, <1>7, <1>10, <1>13 DEF n

\* A step of the session that emits something.
LEMMA EmitInv ==
    ASSUME SocketInv, TurnFine, NEW es \in Seq(Events), Emit(es),
           \A k \in 1..Len(es) : es[k].kind # "started" /\ Past(es[k], last', event'),
           UNCHANGED <<conn, pump, replies, told>>
    PROVE  SocketInv'
  <1>1. /\ emitted' \in Seq(Events) /\ outbox' \in Seq(1..Len(emitted'))
        /\ Len(emitted) \in Nat /\ Len(emitted') \in Nat /\ Len(emitted) <= Len(emitted')
        /\ Taken' = Taken /\ lost' = lost /\ PlaceShape'
    BY Emitting DEF TurnFine
  <1>2. lost' \subseteq 1..Len(emitted')
    <2>1. 1..Len(emitted) \subseteq 1..Len(emitted')
      BY <1>1
    <2> QED BY <1>1, <2>1 DEF SocketInv, SocketTypeOK
  <1>3. SocketTypeOK'
    BY <1>1, <1>2 DEF SocketInv, SocketTypeOK, TurnFine, TurnGoes
  <1>4. told' = told /\ replies' = replies
    OBVIOUS
  <1>5. TakenShape' /\ ToldShape'
    BY <1>1, <1>4, ToldStays DEF TurnFine
  <1>6. ReplyShape'
    BY <1>4 DEF SocketInv, ReplyShape
  <1> QED BY <1>1, <1>3, <1>5, <1>6 DEF SocketInv, TurnFine, TurnGoes

LEMMA SpeechDrainsInv == SocketInv /\ SpeechDrains => SocketInv'
  <1> SUFFICES ASSUME SocketInv, SpeechDrains PROVE SocketInv'
    OBVIOUS
  <1> DEFINE es == <<Said("ended", event), StateIs("idle")>>
  <1>1. /\ SocketTypeOK /\ TurnShape /\ closed /\ last' = last /\ stopped' = stopped
        /\ state' = "idle" /\ event' = Nobody /\ closed' = FALSE /\ messages' = messages
        /\ UNCHANGED <<conn, pump, replies, told>> /\ Emit(es)
    BY DEF SpeechDrains, SocketInv
  <1>2. last \in Nat /\ event = last /\ event \in 1..last
    BY <1>1, SocketAssumption DEF SocketTypeOK, TurnShape, Utterances, Nobody
  <1>3. TurnFine
    <2>1. \A u \in 1..last : u # event'
      BY <1>1 DEF Nobody
    <2>2. TurnGoes
      BY <1>1, <1>2, <2>1 DEF TurnGoes, TurnShape, SocketTypeOK
    <2> QED BY <1>1, <2>2 DEF TurnFine, SocketTypeOK, States, Nobody
  <1>4. Said("ended", event) \in Events /\ StateIs("idle") \in Events
    BY <1>1 DEF SocketTypeOK, Said, StateIs, Events, Kinds, States, Nobody
  <1>5. es \in Seq(Events) /\ Len(es) = 2 /\ es[1] = Said("ended", event)
        /\ es[2] = StateIs("idle")
    BY <1>4
  <1> HIDE DEF es
  <1>6. ASSUME NEW k \in 1..Len(es)
        PROVE  es[k].kind # "started" /\ Past(es[k], last', event')
    <2>1. k = 1 \/ k = 2
      BY <1>5
    <2>2. Past(Said("ended", event), last', event') /\ Said("ended", event).kind = "ended"
      <3>1. event # Nobody
        BY <1>1 DEF SocketTypeOK
      <3> QED BY <1>1, <1>2, <3>1 DEF Past, Said
    <2>3. Past(StateIs("idle"), last', event') /\ StateIs("idle").kind = "idle"
      BY DEF Past, StateIs
    <2> QED BY <1>5, <2>1, <2>2, <2>3
  <1> QED BY <1>1, <1>3, <1>5, <1>6, EmitInv

LEMMA SessionStopsInv == SocketInv /\ SessionStops => SocketInv'
  <1> SUFFICES ASSUME SocketInv, SessionStops PROVE SocketInv'
    OBVIOUS
  <1> DEFINE es == <<Said("stopped", Nobody)>>
  <1>1. /\ SocketTypeOK /\ TurnShape /\ last' = last /\ stopped' = TRUE
        /\ state' = state /\ event' = event /\ closed' = closed /\ messages' = messages
        /\ UNCHANGED <<conn, pump, replies, told>> /\ Emit(es)
    BY DEF SessionStops, SocketInv
  <1>2. last \in Nat
    BY <1>1, SocketAssumption DEF SocketTypeOK, Utterances, Nobody
  <1>3. TurnFine
    BY <1>1, <1>2 DEF TurnFine, TurnGoes, TurnShape, SocketTypeOK
  <1>4. Said("stopped", Nobody) \in Events
    BY DEF Said, Events, Kinds, States, Nobody
  <1>5. es \in Seq(Events) /\ Len(es) = 1 /\ es[1] = Said("stopped", Nobody)
    BY <1>4
  <1> HIDE DEF es
  <1>6. ASSUME NEW k \in 1..Len(es)
        PROVE  es[k].kind # "started" /\ Past(es[k], last', event')
    <2>1. es[k] = Said("stopped", Nobody)
      BY <1>5
    <2> QED BY <2>1 DEF Past, Said
  <1> QED BY <1>1, <1>3, <1>5, <1>6, EmitInv

\* The first event of the outbox is taken.
LEMMA Taking ==
    ASSUME SocketInv, UNCHANGED turnVars, outbox # <<>>, outbox' = Tail(outbox),
           emitted' = emitted
    PROVE  /\ Taken \in Nat /\ Taken + 1 \in 1..Len(emitted) /\ Head(outbox) = Taken + 1
           /\ Taken' = Taken + 1 /\ outbox' \in Seq(1..Len(emitted')) /\ PlaceShape'
  <1>1. /\ emitted \in Seq(Events) /\ Len(emitted) \in Nat
        /\ outbox \in Seq(1..Len(emitted)) /\ PlaceShape
    BY LenProperties DEF SocketInv, SocketTypeOK
  <1>2. /\ Len(outbox) \in Nat \ {0} /\ Head(outbox) = outbox[1]
        /\ Tail(outbox) \in Seq(1..Len(emitted)) /\ Len(Tail(outbox)) = Len(outbox) - 1
        /\ \A k \in 1..Len(Tail(outbox)) : Tail(outbox)[k] = outbox[k + 1]
    BY <1>1, EmptySeq, HeadTailProperties
  <1>3. Len(outbox) <= Len(emitted) /\ Taken = Len(emitted) - Len(outbox)
    BY <1>1 DEF PlaceShape, Taken
  <1>4. Taken \in Nat /\ Taken + 1 \in 1..Len(emitted)
    BY <1>1, <1>2, <1>3
  <1>5. Head(outbox) = Taken + 1
    BY <1>1, <1>2 DEF PlaceShape
  <1>6. Taken' = Taken + 1
    <2>1. Taken' = Len(emitted) - Len(Tail(outbox))
      BY DEF Taken
    <2> QED BY <1>1, <1>2, <1>3, <2>1
  <1>7. ASSUME NEW j \in 1..Len(Tail(outbox))
        PROVE  Tail(outbox)[j] = Taken' + j
    <2>1. j + 1 \in 1..Len(outbox) /\ Tail(outbox)[j] = outbox[j + 1]
      BY <1>2
    <2>2. outbox[j + 1] = Taken + (j + 1)
      BY <1>1, <2>1 DEF PlaceShape
    <2> QED BY <1>4, <1>6, <2>1, <2>2
  <1>8. Len(Tail(outbox)) <= Len(emitted)
    BY <1>1, <1>2, <1>3
  <1>9. last' = last /\ event' = event
    BY DEF turnVars
  <1>10. PlaceShape'
    BY <1>1, <1>7, <1>8, <1>9 DEF PlaceShape
  <1> QED BY <1>2, <1>4, <1>5, <1>6, <1>10

LEMMA PumpInv ==
    ASSUME SocketInv, NEW c \in Sockets, Pump(c)
    PROVE  SocketInv'
  <1> DEFINE t == Taken
             e == emitted[Head(outbox)]
             n == Len(told[c])
  <1>1. /\ outbox # <<>> /\ Write(c, e) /\ outbox' = Tail(outbox)
        /\ UNCHANGED turnVars /\ messages' = messages /\ emitted' = emitted /\ lost' = lost
        /\ conn' = conn /\ pump' = pump /\ replies' = replies
    BY DEF Pump
  <1>2. /\ t \in Nat /\ t + 1 \in 1..Len(emitted) /\ Head(outbox) = t + 1
        /\ Taken' = t + 1 /\ outbox' \in Seq(1..Len(emitted')) /\ PlaceShape'
    BY <1>1, Taking
  <1>3. TurnFine
    BY <1>1, TurnStays
  <1>4. e \in Events /\ e.place = t + 1 /\ e.kind # "started" /\ Past(e, last', event')
    <2>1. emitted \in Seq(Events) /\ last' = last /\ event' = event
      BY <1>1 DEF SocketInv, SocketTypeOK, turnVars
    <2>2. e \in Events
      BY <1>2, <2>1, ElementOfSeq
    <2>3. emitted[t + 1].place = t + 1 /\ emitted[t + 1].kind # "started"
          /\ Past(emitted[t + 1], last, event)
      BY <1>2 DEF SocketInv, PlaceShape
    <2> QED BY <1>2, <2>1, <2>2, <2>3 DEF Past
  <1> HIDE DEF e
  <1>5. ToldShape'
    BY <1>1, <1>3, <1>4, TellingShape DEF TurnFine
  <1>6. /\ told' \in [Sockets -> Seq(Events)]
        /\ \A d \in Sockets \ {c} : told'[d] = told[d]
        /\ n \in Nat /\ Len(told'[c]) = n + 1
        /\ \A k \in 1..n : told'[c][k] = told[c][k]
        /\ told'[c][n + 1] = e
    BY <1>1, <1>4, Telling DEF SocketInv
  <1>7. SocketTypeOK'
    BY <1>1, <1>2, <1>3, <1>6 DEF SocketInv, SocketTypeOK, TurnFine, TurnGoes
  <1>8. TakenShape /\ Taken = t
    BY DEF SocketInv
  <1> HIDE DEF n, t
  <1>9. \A k \in 1..(n + 1) : k \in 1..n \/ k = n + 1
    BY <1>6
  <1>10. \A k \in 1..n : k \in 1..(n + 1)
    BY <1>6
  <1>11. n + 1 \in 1..(n + 1)
    BY <1>6
  <1>12. \A d \in Sockets : \A i : Hears(d, i)' <=> Hears(d, i) \/ (d = c /\ i = t + 1)
    <2>1. ASSUME NEW d \in Sockets, NEW i
          PROVE  Hears(d, i)' <=> Hears(d, i) \/ (d = c /\ i = t + 1)
      <3>1. CASE d # c
        BY <1>6, <3>1 DEF Hears
      <3>2. CASE d = c
        BY <1>4, <1>6, <1>9, <1>10, <1>11, <3>2 DEF Hears, n
      <3> QED BY <3>1, <3>2
    <2> QED BY <2>1
  <1>13. \A d \in Sockets : ~Hears(d, t + 1)
    <2>1. ~(t + 1 \in 0..t)
      BY <1>2
    <2> QED BY <1>8, <2>1 DEF TakenShape, Hears
  <1>14. t + 1 \notin lost
    <2>1. ~(t + 1 \in 1..t)
      BY <1>2
    <2> QED BY <1>8, <2>1 DEF TakenShape
  <1>15. \A i \in 1..(t + 1) : i \in 1..t \/ i = t + 1
    BY <1>2
  <1>16. \A i \in 1..t : i \in 1..(t + 1) /\ i # t + 1
    BY <1>2
  <1>17. \A i \in 0..t : i \in 0..(t + 1)
    BY <1>2
  <1>18. TakenShape'
    <2>1. \A i \in lost' : i \in 1..Taken'
      BY <1>1, <1>2, <1>8, <1>16 DEF TakenShape
    <2>2. ASSUME NEW d \in Sockets, NEW k \in 1..Len(told'[d])
          PROVE  told'[d][k].place \in 0..Taken'
      <3>1. CASE d # c
        BY <1>2, <1>6, <1>8, <1>17, <3>1 DEF TakenShape
      <3>2. CASE d = c /\ k \in 1..n
        BY <1>2, <1>6, <1>8, <1>17, <3>2 DEF TakenShape, n
      <3>3. CASE d = c /\ k = n + 1
        BY <1>2, <1>4, <1>6, <3>3
      <3> QED BY <1>6, <1>9, <3>1, <3>2, <3>3
    <2>3. ASSUME NEW i \in 1..Taken'
          PROVE  i \in lost' <=> \A d \in Sockets : ~Hears(d, i)'
      <3>1. CASE i \in 1..t
        BY <1>1, <1>8, <1>12, <1>16, <3>1 DEF TakenShape
      <3>2. CASE i = t + 1
        BY <1>1, <1>12, <1>14, <3>2
      <3> QED BY <1>2, <1>15, <3>1, <3>2
    <2>4. ASSUME NEW i \in 1..Taken', NEW d \in Sockets, NEW f \in Sockets,
                 Hears(d, i)', Hears(f, i)'
          PROVE  d = f
      <3>1. CASE i \in 1..t
        BY <1>8, <1>12, <1>16, <2>4, <3>1 DEF TakenShape
      <3>2. CASE i = t + 1
        BY <1>12, <1>13, <2>4, <3>2
      <3> QED BY <1>2, <1>15, <3>1, <3>2
    <2> QED BY <2>1, <2>2, <2>3, <2>4 DEF TakenShape
  <1>19. ReplyShape'
    BY <1>1 DEF SocketInv, ReplyShape
  <1> QED BY <1>2, <1>3, <1>5, <1>7, <1>18, <1>19 DEF SocketInv, TurnFine, TurnGoes

LEMMA PumpRaisesInv ==
    ASSUME SocketInv, NEW c \in Sockets, PumpRaises(c)
    PROVE  SocketInv'
  <1> DEFINE t == Taken
  <1>1. /\ outbox # <<>> /\ outbox' = Tail(outbox) /\ lost' = lost \cup {Head(outbox)}
        /\ UNCHANGED turnVars /\ messages' = messages /\ emitted' = emitted
        /\ conn' = conn /\ pump' = [pump EXCEPT ![c] = "dead"] /\ replies' = replies
        /\ told' = told
    BY DEF PumpRaises
  <1>2. /\ t \in Nat /\ t + 1 \in 1..Len(emitted) /\ Head(outbox) = t + 1
        /\ Taken' = t + 1 /\ outbox' \in Seq(1..Len(emitted')) /\ PlaceShape'
    BY <1>1, Taking
  <1>3. TurnFine /\ last' = last /\ event' = event
    BY <1>1, TurnStays DEF turnVars
  <1>4. SocketTypeOK'
    <2>1. lost' \subseteq 1..Len(emitted') /\ pump' \in [Sockets -> {"none", "waiting", "dead"}]
      BY <1>1, <1>2 DEF SocketInv, SocketTypeOK
    <2> QED BY <1>1, <1>2, <1>3, <2>1 DEF SocketInv, SocketTypeOK, TurnFine, TurnGoes
  <1>5. ToldShape' /\ ReplyShape'
    BY <1>1, <1>3 DEF SocketInv, ToldShape, ReplyShape
  <1>6. TakenShape /\ Taken = t
    BY DEF SocketInv
  <1> HIDE DEF t
  <1>7. \A d \in Sockets : \A i : Hears(d, i)' <=> Hears(d, i)
    BY <1>1 DEF Hears
  <1>8. \A d \in Sockets : ~Hears(d, t + 1)
    <2>1. ~(t + 1 \in 0..t)
      BY <1>2
    <2> QED BY <1>6, <2>1 DEF TakenShape, Hears
  <1>9. \A i \in 1..(t + 1) : i \in 1..t \/ i = t + 1
    BY <1>2
  <1>10. \A i \in 1..t : i \in 1..(t + 1) /\ i # t + 1
    BY <1>2
  <1>11. \A i \in 0..t : i \in 0..(t + 1)
    BY <1>2
  <1>12. TakenShape'
    <2>1. \A i \in lost' : i \in 1..Taken'
      <3>1. t + 1 \in 1..(t + 1)
        BY <1>2
      <3> QED BY <1>1, <1>2, <1>6, <1>10, <3>1 DEF TakenShape
    <2>2. \A d \in Sockets : \A k \in 1..Len(told'[d]) : told'[d][k].place \in 0..Taken'
      BY <1>1, <1>2, <1>6, <1>11 DEF TakenShape
    <2>3. ASSUME NEW i \in 1..Taken'
          PROVE  i \in lost' <=> \A d \in Sockets : ~Hears(d, i)'
      <3>1. CASE i \in 1..t
        BY <1>1, <1>2, <1>6, <1>7, <1>10, <3>1 DEF TakenShape
      <3>2. CASE i = t + 1
        BY <1>1, <1>2, <1>7, <1>8, <3>2
      <3> QED BY <1>2, <1>9, <3>1, <3>2
    <2>4. ASSUME NEW i \in 1..Taken', NEW d \in Sockets, NEW f \in Sockets,
                 Hears(d, i)', Hears(f, i)'
          PROVE  d = f
      <3>1. CASE i \in 1..t
        BY <1>6, <1>7, <2>4, <3>1 DEF TakenShape
      <3>2. CASE i = t + 1
        BY <1>7, <1>8, <2>4, <3>2
      <3> QED BY <1>2, <1>9, <3>1, <3>2
    <2> QED BY <2>1, <2>2, <2>3, <2>4 DEF TakenShape
  <1> QED BY <1>2, <1>3, <1>4, <1>5, <1>12 DEF SocketInv, TurnFine, TurnGoes

LEMMA SocketInvInit == SocketInit => SocketInv
  <1> SUFFICES ASSUME SocketInit PROVE SocketInv
    OBVIOUS
  <1>1. /\ emitted = <<>> /\ outbox = <<>> /\ lost = {} /\ last = Nobody /\ event = Nobody
        /\ state = "idle" /\ closed = FALSE /\ stopped = FALSE /\ messages = 0
        /\ conn = [c \in Sockets |-> "none"] /\ pump = [c \in Sockets |-> "none"]
        /\ replies = [c \in Sockets |-> <<>>] /\ told = [c \in Sockets |-> <<>>]
    BY DEF SocketInit
  <1>2. Len(<<>>) = 0 /\ \A S : <<>> \in Seq(S)
    BY EmptySeq
  <1>3. SocketTypeOK
    <2>1. /\ <<>> \in Seq(Events) /\ <<>> \in Seq(1..Len(<<>>))
      BY <1>2
    <2>2. 0 \in 0..MaxMessages
      BY SocketAssumption
    <2>3. /\ conn \in [Sockets -> {"none", "open", "cut", "shut"}]
          /\ pump \in [Sockets -> {"none", "waiting", "dead"}]
          /\ replies \in [Sockets -> Seq(Events)] /\ told \in [Sockets -> Seq(Events)]
      BY <1>1, <2>1
    <2>4. /\ emitted \in Seq(Events) /\ outbox \in Seq(1..Len(emitted))
          /\ lost \subseteq 1..Len(emitted)
      BY <1>1, <2>1
    <2>5. /\ state \in States /\ event \in Utterances \cup {Nobody} /\ closed \in BOOLEAN
          /\ last \in Utterances \cup {Nobody} /\ stopped \in BOOLEAN
          /\ messages \in 0..MaxMessages /\ (state = "speaking" <=> event # Nobody)
          /\ closed => state = "speaking"
      BY <1>1, <2>2 DEF States
    <2> QED BY <2>3, <2>4, <2>5 DEF SocketTypeOK
  <1>4. Taken = 0
    BY <1>1, <1>2 DEF Taken
  <1>5. \A k : k \notin 1..0
    OBVIOUS
  <1>6. PlaceShape
    BY <1>1, <1>2, <1>5 DEF PlaceShape
  <1>7. \A c \in Sockets : Len(told[c]) = 0 /\ Len(replies[c]) = 0
    BY <1>1, <1>2
  <1>8. TakenShape /\ ToldShape /\ ReplyShape
    BY <1>1, <1>4, <1>5, <1>7 DEF TakenShape, ToldShape, ReplyShape
  <1> QED BY <1>1, <1>3, <1>6, <1>8 DEF SocketInv, TurnShape

LEMMA SocketInvStep == SocketInv /\ [SocketNext]_socketVars => SocketInv'
  <1> SUFFICES ASSUME SocketInv, [SocketNext]_socketVars PROVE SocketInv'
    OBVIOUS
  <1>1. CASE SpeechDrains
    BY <1>1, SpeechDrainsInv
  <1>2. CASE SessionStops
    BY <1>2, SessionStopsInv
  <1>3. CASE Post
    BY <1>3, PostInv
  <1>4. ASSUME NEW c \in Sockets, Connect(c) PROVE SocketInv'
    BY <1>4, ConnectInv
  <1>5. ASSUME NEW c \in Sockets, Receive(c) PROVE SocketInv'
    BY <1>5, ReceiveInv
  <1>6. ASSUME NEW c \in Sockets, Reply(c) PROVE SocketInv'
    BY <1>6, ReplyInv
  <1>7. ASSUME NEW c \in Sockets, Cut(c) \/ Shut(c) PROVE SocketInv'
    BY <1>7, ConnectionInv
  <1>8. ASSUME NEW c \in Sockets, Pump(c) PROVE SocketInv'
    BY <1>8, PumpInv
  <1>9. ASSUME NEW c \in Sockets, PumpRaises(c) PROVE SocketInv'
    BY <1>9, PumpRaisesInv
  <1>10. CASE UNCHANGED socketVars
    <2>1. /\ UNCHANGED outVars /\ told' = told /\ UNCHANGED <<turnVars, messages>>
          /\ conn' = conn /\ pump' = pump /\ replies' = replies
      BY <1>10 DEF socketVars
    <2>2. ReplyShape' /\ SocketTypeOK
      BY <2>1 DEF SocketInv, ReplyShape
    <2> QED BY <2>1, <2>2, TurnStays, NothingTold DEF SocketTypeOK
  <1> QED
    BY <1>1, <1>2, <1>3, <1>4, <1>5, <1>6, <1>7, <1>8, <1>9, <1>10 DEF SocketNext

\* The invariant says where every event is, in which order a client heard it,
\* and that the end of an utterance is heard after its start.
LEMMA OutboxIsKept == SocketInv => OutboxKept
  <1> SUFFICES ASSUME SocketInv PROVE OutboxKept
    OBVIOUS
  <1>1. /\ emitted \in Seq(Events) /\ Len(emitted) \in Nat /\ DOMAIN emitted = 1..Len(emitted)
        /\ outbox \in Seq(1..Len(emitted)) /\ Len(outbox) \in Nat
        /\ DOMAIN outbox = 1..Len(outbox)
        /\ PlaceShape /\ TakenShape /\ ToldShape
        /\ told \in [Sockets -> Seq(Events)]
    BY LenProperties DEF SocketInv, SocketTypeOK
  <1>2. \A c \in Sockets : DOMAIN told[c] = 1..Len(told[c])
    BY <1>1, LenProperties
  <1>3. Taken \in Nat /\ Taken = Len(emitted) - Len(outbox)
    BY <1>1 DEF Taken, PlaceShape
  <1>4. ASSUME NEW i \in 1..Len(emitted)
        PROVE  \A c \in Sockets : i \in ToldTo(c) <=> Hears(c, i)
    BY <1>2, <1>4 DEF ToldTo, Hears
  <1>5. ASSUME NEW i \in 1..Len(emitted)
        PROVE  Cardinality({c \in Sockets : i \in ToldTo(c)})
                 + (IF i \in lost THEN 1 ELSE 0)
                 + Cardinality({j \in DOMAIN outbox : outbox[j] = i}) = 1
    <2> DEFINE heard == {c \in Sockets : i \in ToldTo(c)}
               waits == {j \in DOMAIN outbox : outbox[j] = i}
    <2>1. heard = {c \in Sockets : Hears(c, i)}
      BY <1>4
    <2>2. waits = {j \in 1..Len(outbox) : Taken + j = i}
      BY <1>1 DEF PlaceShape
    <2> HIDE DEF heard, waits
    <2>3. CASE i \in 1..Taken
      <3>1. \A j \in 1..Len(outbox) : Taken + j # i
        BY <1>1, <1>3, <2>3
      <3>2. waits = {}
        BY <2>2, <3>1
      <3>3. CASE i \in lost
        <4>1. heard = {}
          BY <1>1, <2>1, <2>3, <3>3 DEF TakenShape
        <4>2. Cardinality(heard) = 0 /\ Cardinality(waits) = 0
          BY <3>2, <4>1, FS_EmptySet
        <4> QED BY <3>3, <4>2 DEF heard, waits
      <3>4. CASE i \notin lost
        <4>1. PICK c \in Sockets : Hears(c, i)
          BY <1>1, <2>3, <3>4 DEF TakenShape
        <4>2. heard = {c}
          BY <1>1, <2>1, <2>3, <4>1 DEF TakenShape
        <4>3. Cardinality(heard) = 1 /\ Cardinality(waits) = 0
          BY <3>2, <4>2, FS_EmptySet, FS_Singleton
        <4> QED BY <3>4, <4>3 DEF heard, waits
      <3> QED BY <3>3, <3>4
    <2>4. CASE i \notin 1..Taken
      <3>1. i \notin 0..Taken /\ i - Taken \in 1..Len(outbox)
        BY <1>1, <1>3, <2>4
      <3>2. heard = {}
        BY <1>1, <2>1, <3>1 DEF TakenShape, Hears
      <3>3. i \notin lost
        BY <1>1, <2>4 DEF TakenShape
      <3>4. \A j \in 1..Len(outbox) : Taken + j = i <=> j = i - Taken
        BY <1>1, <1>3
      <3>5. waits = {i - Taken}
        BY <2>2, <3>1, <3>4
      <3>6. Cardinality(heard) = 0 /\ Cardinality(waits) = 1
        BY <3>2, <3>5, FS_EmptySet, FS_Singleton
      <3> QED BY <3>3, <3>6 DEF heard, waits
    <2> QED BY <2>3, <2>4
  <1>6. \A c \in Sockets : \A i, j \in DOMAIN told[c] :
          i < j /\ told[c][i].place # 0 /\ told[c][j].place # 0 =>
              told[c][i].place < told[c][j].place
    BY <1>1, <1>2 DEF ToldShape
  <1> QED BY <1>1, <1>5, <1>6 DEF OutboxKept

LEMMA EndsComeAfter == SocketInv => EndAfterStart
  <1> SUFFICES ASSUME SocketInv, NEW c \in Sockets, NEW i \in DOMAIN told[c],
                      told[c][i].kind = "ended"
               PROVE  /\ told[c][i].utterance # event
                      /\ \A j \in i..Len(told[c]) :
                           told[c][j].kind = "started" =>
                               told[c][j].utterance > told[c][i].utterance
    BY DEF EndAfterStart
  <1>1. /\ DOMAIN told[c] = 1..Len(told[c]) /\ Len(told[c]) \in Nat /\ ToldShape
    <2>1. told[c] \in Seq(Events)
      BY DEF SocketInv, SocketTypeOK
    <2> QED BY <2>1, LenProperties DEF SocketInv
  <1>2. told[c][i].utterance # event
    BY <1>1 DEF ToldShape, Past
  <1>3. ASSUME NEW j \in i..Len(told[c]), told[c][j].kind = "started"
        PROVE  told[c][j].utterance > told[c][i].utterance
    <2>1. j # i
      BY <1>3
    <2>2. i \in 1..Len(told[c]) /\ j \in 1..Len(told[c]) /\ i < j
      BY <1>1, <2>1
    <2> QED BY <1>1, <1>3, <2>2 DEF ToldShape
  <1> QED BY <1>2, <1>3

-----------------------------------------------------------------------------
(* The tracks.  A viewer who takes from a track has room for what a tick   *)
(* pushes: what it has taken and what is queued together are no more than  *)
(* a full queue and what its clock has allowed.  The frames of the queue   *)
(* are those of the last ticks.  Pushed is a recursive function, and what  *)
(* it does to a queue needs induction, here from the least number that     *)
(* breaks a claim.                                                         *)

LEMMA LeastNumber ==
    ASSUME NEW T, T \subseteq Nat, T # {}
    PROVE  \E n \in T : \A m \in T : n <= m
  <1> DEFINE R == OpToRel(<, Nat)
  <1>1. PICK n \in T : \A m \in T : <<m, n>> \notin R
    <2>1. IsWellFoundedOn(R, Nat)
      BY NatLessThanWellFounded
    <2> HIDE DEF R
    <2> QED BY <2>1, WFMin
  <1>2. ASSUME NEW m \in T
        PROVE  n <= m
    <2>1. n \in Nat /\ m \in Nat
      OBVIOUS
    <2>2. ~(m < n)
      <3>1. m < n => <<m, n>> \in R
        BY <2>1 DEF OpToRel
      <3> QED BY <1>1, <3>1
    <2> QED BY <2>1, <2>2
  <1> QED BY <1>2

\* A set of numbers with 0, and with the next of each, has all of them.
LEMMA AllNumbers ==
    ASSUME NEW T, 0 \in T, \A n \in Nat : n \in T => n + 1 \in T
    PROVE  Nat \subseteq T
  <1> SUFFICES ASSUME Nat \ T # {} PROVE FALSE
    OBVIOUS
  <1>1. PICK n \in Nat \ T : \A m \in Nat \ T : n <= m
    BY LeastNumber
  <1>2. n # 0 /\ n - 1 \in Nat /\ (n - 1) + 1 = n /\ ~(n <= n - 1)
    BY <1>1
  <1> QED BY <1>1, <1>2

\* The pushes of one item, by their number.
Pushes(q, item, n, f) ==
    f = [i \in 0..n |-> IF i = 0 THEN q ELSE Push(f[i - 1], item)]

LEMMA PushesExist ==
    ASSUME NEW q, NEW item
    PROVE  \A n \in Nat : \E f : Pushes(q, item, n, f)
  <1> DEFINE T == {n \in Nat : \E f : Pushes(q, item, n, f)}
  <1>1. 0 \in T
    <2>1. Pushes(q, item, 0, [i \in 0..0 |-> q])
      BY DEF Pushes
    <2> QED BY <2>1
  <1>2. ASSUME NEW n \in Nat, n \in T
        PROVE  n + 1 \in T
    <2>1. PICK f : Pushes(q, item, n, f)
      BY <1>2
    <2> DEFINE g == [i \in 0..(n + 1) |-> IF i = n + 1 THEN Push(f[n], item) ELSE f[i]]
    <2>2. \A i \in 0..(n + 1) : g[i] = IF i = 0 THEN q ELSE Push(g[i - 1], item)
      <3>1. \A i \in 0..n : f[i] = IF i = 0 THEN q ELSE Push(f[i - 1], item)
        BY <2>1 DEF Pushes
      <3> QED BY <3>1
    <2>3. Pushes(q, item, n + 1, g)
      BY <2>2 DEF Pushes
    <2> QED BY <2>3
  <1> HIDE DEF T
  <1>3. Nat \subseteq T
    BY <1>1, <1>2, AllNumbers
  <1> QED BY <1>3 DEF T

\* One push: the queue stays within its size, and what fits changes nothing
\* that is queued.
LEMMA OnePush ==
    ASSUME NEW S, NEW q \in Seq(S), NEW item \in S, Len(q) <= Size
    PROVE  /\ Push(q, item) \in Seq(S) /\ Len(Push(q, item)) <= Size
           /\ Len(q) < Size => /\ Len(Push(q, item)) = Len(q) + 1
                               /\ \A i \in 1..Len(q) : Push(q, item)[i] = q[i]
                               /\ Push(q, item)[Len(q) + 1] = item
           /\ ~(Len(q) < Size) => /\ Len(Push(q, item)) = Len(q)
                                  /\ \A i \in 1..(Len(q) - 1) : Push(q, item)[i] = q[i + 1]
                                  /\ Push(q, item)[Len(q)] = item
  <1>1. Len(q) \in Nat /\ Size \in Nat \ {0}
    BY TrackAssumption, LenProperties
  <1>2. CASE Len(q) < Size
    <2>1. Push(q, item) = Append(q, item)
      BY <1>2 DEF Push
    <2>2. /\ Append(q, item) \in Seq(S) /\ Len(Append(q, item)) = Len(q) + 1
          /\ \A i \in 1..Len(q) : Append(q, item)[i] = q[i]
          /\ Append(q, item)[Len(q) + 1] = item
      BY AppendProperties
    <2> QED BY <1>1, <1>2, <2>1, <2>2
  <1>3. CASE ~(Len(q) < Size)
    <2>1. Push(q, item) = Append(Tail(q), item) /\ q # <<>> /\ Len(q) # 0
      BY <1>1, <1>3, EmptySeq DEF Push
    <2>2. /\ Tail(q) \in Seq(S) /\ Len(Tail(q)) = Len(q) - 1
          /\ \A i \in 1..Len(Tail(q)) : Tail(q)[i] = q[i + 1]
      BY <2>1, HeadTailProperties
    <2>3. /\ Append(Tail(q), item) \in Seq(S)
          /\ Len(Append(Tail(q), item)) = Len(Tail(q)) + 1
          /\ \A i \in 1..Len(Tail(q)) : Append(Tail(q), item)[i] = Tail(q)[i]
          /\ Append(Tail(q), item)[Len(Tail(q)) + 1] = item
      BY <2>2, AppendProperties
    <2>4. Len(Tail(q)) + 1 = Len(q)
      BY <1>1, <2>2
    <2> QED BY <1>1, <1>3, <2>1, <2>2, <2>3, <2>4
  <1> QED BY <1>2, <1>3

\* All the pushes of a tick.
LEMMA ManyPushes ==
    ASSUME NEW S, NEW q \in Seq(S), NEW item \in S, NEW n \in Nat, Len(q) <= Size
    PROVE  /\ Pushed(q, item, n) \in Seq(S) /\ Len(Pushed(q, item, n)) <= Size
           /\ Len(q) + n <= Size =>
                /\ Len(Pushed(q, item, n)) = Len(q) + n
                /\ \A i \in 1..Len(q) : Pushed(q, item, n)[i] = q[i]
           /\ n = 0 => Pushed(q, item, n) = q
           /\ n = 1 => Pushed(q, item, n) = Push(q, item)
  <1> DEFINE f == CHOOSE f : Pushes(q, item, n, f)
             Good(k) == /\ f[k] \in Seq(S) /\ Len(f[k]) <= Size
                        /\ Len(q) + k <= Size =>
                             /\ Len(f[k]) = Len(q) + k
                             /\ \A i \in 1..Len(q) : f[k][i] = q[i]
             T == {k \in Nat : k <= n => Good(k)}
  <1>1. Pushes(q, item, n, f) /\ Pushed(q, item, n) = f[n]
    <2>1. Pushes(q, item, n, f)
      BY PushesExist
    <2>2. Pushed(q, item, n) = f[n]
      BY DEF Pushed, Pushes
    <2> QED BY <2>1, <2>2
  <1> HIDE DEF f
  <1>2. /\ \A k \in 0..n : f[k] = IF k = 0 THEN q ELSE Push(f[k - 1], item)
        /\ Len(q) \in Nat /\ Size \in Nat
    BY <1>1, TrackAssumption, LenProperties DEF Pushes
  <1>3. f[0] = q
    BY <1>2
  <1>4. \A k \in Nat : k + 1 <= n => f[k + 1] = Push(f[k], item) /\ k <= n
    BY <1>2
  <1>5. 0 \in T
    BY <1>2, <1>3
  <1>6. ASSUME NEW k \in Nat, k \in T
        PROVE  k + 1 \in T
    <2> SUFFICES ASSUME k + 1 <= n PROVE Good(k + 1)
      OBVIOUS
    <2>1. Good(k) /\ f[k + 1] = Push(f[k], item)
      BY <1>4, <1>6
    <2>2. f[k + 1] \in Seq(S) /\ Len(f[k + 1]) <= Size
      BY <2>1, OnePush
    <2>3. ASSUME Len(q) + (k + 1) <= Size
          PROVE  /\ Len(f[k + 1]) = Len(q) + (k + 1)
                 /\ \A i \in 1..Len(q) : f[k + 1][i] = q[i]
      <3>1. Len(f[k]) = Len(q) + k /\ Len(f[k]) < Size
            /\ \A i \in 1..Len(q) : f[k][i] = q[i]
        BY <1>2, <2>1, <2>3
      <3>2. /\ Len(f[k + 1]) = Len(f[k]) + 1
            /\ \A i \in 1..Len(f[k]) : f[k + 1][i] = f[k][i]
        <4> DEFINE r == f[k]
        <4>1. r \in Seq(S) /\ Len(r) < Size /\ Len(r) <= Size /\ f[k + 1] = Push(r, item)
          BY <2>1, <3>1
        <4> HIDE DEF r
        <4>2. /\ Len(Push(r, item)) = Len(r) + 1
              /\ \A i \in 1..Len(r) : Push(r, item)[i] = r[i]
          BY <4>1, OnePush
        <4> QED BY <4>1, <4>2 DEF r
      <3>3. \A i \in 1..Len(q) : i \in 1..Len(f[k])
        BY <1>2, <3>1
      <3> QED BY <1>2, <3>1, <3>2, <3>3
    <2> QED BY <2>2, <2>3
  <1> HIDE DEF Good, T
  <1>7. Nat \subseteq T
    BY <1>5, <1>6, AllNumbers
  <1>8. Good(n)
    BY <1>7 DEF T
  <1>9. n = 1 => f[n] = Push(q, item)
    BY <1>2, <1>3
  <1> QED BY <1>1, <1>3, <1>8, <1>9 DEF Good

LEMMA Fits ==
    ASSUME NEW l \in Nat, NEW t \in Nat, NEW z \in Nat, NEW a \in Nat, NEW p \in Nat,
           NEW n \in Nat, n <= p, l + t <= z + a
    PROVE  (l + n) + t <= z + (a + p)
OBVIOUS

LEMMA OneOn ==
    ASSUME NEW t \in Nat, NEW n \in Nat, NEW i \in Nat
    PROVE  t - n + (i + 1) = t - (n - 1) + i
OBVIOUS

LEMMA OneMore ==
    ASSUME NEW a \in Nat, NEW d \in Nat
    PROVE  a * d \in Nat /\ a * (d + 1) = a * d + a
OBVIOUS

\* The ticks that frames and chunks carry.
Stamps == 1..MaxTicks

\* What the clock of a track has allowed since its first recv, but for the
\* tick that is.
Allowed(k) == PerTick(k) * (tick - start[k])

\* What is queued and what was taken fit together.
ClockShape ==
    \A k \in Tracks :
        /\ tick = 0 => Len(queue[k]) = 0
        /\ start[k] = 0 => taken[k] = 0
        /\ start[k] # 0 =>
             /\ viewer /\ start[k] <= tick
             /\ taken[k] <= Allowed(k) + PerTick(k)
             /\ Len(queue[k]) + taken[k] <= Size + Allowed(k)

\* The frames that are queued are those of the last ticks, in order.
FrameShape ==
    /\ Len(queue["video"]) <= tick
    /\ \A i \in 1..Len(queue["video"]) :
         queue["video"][i] = tick - Len(queue["video"]) + i
    /\ start["video"] # 0 => shown["video"] = tick - Len(queue["video"])

TrackInv == TrackTypeOK /\ ClockShape /\ FrameShape

LEMMA TrackNumbers ==
    ASSUME TrackTypeOK, NEW k \in Tracks
    PROVE  /\ tick \in Nat /\ start[k] \in Nat /\ taken[k] \in Nat /\ shown[k] \in Nat
           /\ queue[k] \in Seq(Stamps) /\ Len(queue[k]) \in Nat /\ Len(queue[k]) <= Size
           /\ PerTick(k) \in Nat \ {0} /\ Size \in Nat \ {0} /\ MaxTicks \in Nat
           /\ start[k] <= tick => Allowed(k) \in Nat
  <1>1. PerTick(k) \in Nat \ {0} /\ Size \in Nat \ {0} /\ MaxTicks \in Nat
    BY TrackAssumption DEF PerTick
  <1>2. /\ tick \in Nat /\ start[k] \in Nat /\ taken[k] \in Nat /\ shown[k] \in Nat
        /\ queue[k] \in Seq(Stamps) /\ Len(queue[k]) <= Size
    BY <1>1 DEF TrackTypeOK, Stamps
  <1>3. ASSUME start[k] <= tick
        PROVE  Allowed(k) \in Nat
    <2>1. tick - start[k] \in Nat
      BY <1>2, <1>3
    <2> QED BY <1>1, <2>1, OneMore DEF Allowed
  <1> QED BY <1>1, <1>2, <1>3, LenProperties

\* A track whose clock is not due has room for what a tick pushes, or is
\* empty.
LEMMA Room ==
    ASSUME TrackInv, NEW k \in Tracks, ~Due(k), start[k] # 0
    PROVE  Len(queue[k]) = 0 \/ Len(queue[k]) + PerTick(k) <= Size
  <1>1. /\ tick \in Nat /\ start[k] \in Nat /\ taken[k] \in Nat /\ start[k] <= tick
        /\ queue[k] \in Seq(Stamps) /\ Len(queue[k]) \in Nat
        /\ PerTick(k) \in Nat \ {0} /\ Size \in Nat \ {0} /\ Allowed(k) \in Nat
        /\ viewer /\ taken[k] <= Allowed(k) + PerTick(k)
        /\ Len(queue[k]) + taken[k] <= Size + Allowed(k)
    BY TrackNumbers DEF TrackInv, ClockShape
  <1>2. CASE queue[k] = <<>>
    BY <1>2, EmptySeq
  <1>3. CASE queue[k] # <<>>
    <2>1. ~(taken[k] < PerTick(k) * (tick - start[k] + 1))
      BY <1>1, <1>3 DEF Due
    <2>2. PerTick(k) * (tick - start[k] + 1) = Allowed(k) + PerTick(k)
      <3>1. tick - start[k] \in Nat
        BY <1>1
      <3> QED BY <1>1, <3>1, OneMore DEF Allowed
    <2>3. taken[k] = Allowed(k) + PerTick(k)
      <3> DEFINE a == Allowed(k) + PerTick(k)
                 t == taken[k]
      <3>1. a \in Nat /\ t \in Nat /\ t <= a
        BY <1>1
      <3>2. ~(t < a)
        BY <2>1, <2>2
      <3> HIDE DEF a, t
      <3>3. t = a
        BY <3>1, <3>2
      <3> QED BY <3>3 DEF a, t
    <2> QED BY <1>1, <2>3
  <1> QED BY <1>2, <1>3

LEMMA TrackInvInit == TrackInit => TrackInv
  <1> SUFFICES ASSUME TrackInit PROVE TrackInv
    OBVIOUS
  <1>1. /\ tick = 0 /\ viewer = FALSE
        /\ queue = [k \in Tracks |-> <<>>] /\ start = [k \in Tracks |-> 0]
        /\ taken = [k \in Tracks |-> 0] /\ shown = [k \in Tracks |-> 0]
    BY DEF TrackInit
  <1>2. <<>> \in Seq(Stamps) /\ Len(<<>>) = 0 /\ "video" \in Tracks
    BY EmptySeq DEF Tracks
  <1>3. \A k \in Tracks : Len(queue[k]) = 0 /\ start[k] = 0 /\ taken[k] = 0
    BY <1>1, <1>2
  <1>4. 0 \in 0..MaxTicks /\ 0 <= Size
    BY TrackAssumption
  <1>5. TrackTypeOK
    <2>1. queue \in [Tracks -> Seq(Stamps)]
      BY <1>1, <1>2
    <2> QED BY <1>1, <1>3, <1>4, <2>1 DEF TrackTypeOK, Stamps
  <1>6. ClockShape
    BY <1>3 DEF ClockShape
  <1>7. FrameShape
    <2>1. Len(queue["video"]) = 0 /\ start["video"] = 0
      BY <1>2, <1>3
    <2> QED BY <1>1, <2>1 DEF FrameShape
  <1> QED BY <1>5, <1>6, <1>7 DEF TrackInv

\* A tick: n items are pushed to a track, no more than its clock allows.
LEMMA TickPushes ==
    ASSUME TrackInv, NEW k \in Tracks, NEW n \in 0..PerTick(k), ~Due(k),
           tick' = tick + 1, tick < MaxTicks, queue'[k] = Pushed(queue[k], tick + 1, n),
           UNCHANGED <<viewer, start, taken>>
    PROVE  /\ queue'[k] \in Seq(Stamps) /\ Len(queue'[k]) <= Size
           /\ start'[k] = 0 => taken'[k] = 0
           /\ start'[k] # 0 =>
                /\ viewer' /\ start'[k] <= tick'
                /\ taken'[k] <= Allowed(k)' + PerTick(k)
                /\ Len(queue'[k]) + taken'[k] <= Size + Allowed(k)'
           /\ start[k] # 0 => \/ Len(queue[k]) = 0
                              \/ /\ Len(queue'[k]) = Len(queue[k]) + n
                                 /\ \A i \in 1..Len(queue[k]) : queue'[k][i] = queue[k][i]
  <1>1. /\ tick \in Nat /\ start[k] \in Nat /\ taken[k] \in Nat
        /\ queue[k] \in Seq(Stamps) /\ Len(queue[k]) \in Nat /\ Len(queue[k]) <= Size
        /\ PerTick(k) \in Nat \ {0} /\ Size \in Nat \ {0} /\ MaxTicks \in Nat
        /\ start[k] <= tick => Allowed(k) \in Nat
    BY TrackNumbers DEF TrackInv
  <1>2. tick + 1 \in Stamps /\ n \in Nat
    BY <1>1 DEF Stamps
  <1> DEFINE q == Pushed(queue[k], tick + 1, n)
  <1>3. /\ q \in Seq(Stamps) /\ Len(q) <= Size
        /\ Len(queue[k]) + n <= Size =>
             /\ Len(q) = Len(queue[k]) + n
             /\ \A i \in 1..Len(queue[k]) : q[i] = queue[k][i]
    <2> DEFINE old == queue[k]
               item == tick + 1
    <2>1. old \in Seq(Stamps) /\ Len(old) <= Size /\ item \in Stamps
      BY <1>1, <1>2
    <2> HIDE DEF old, item
    <2>2. /\ Pushed(old, item, n) \in Seq(Stamps) /\ Len(Pushed(old, item, n)) <= Size
          /\ Len(old) + n <= Size =>
               /\ Len(Pushed(old, item, n)) = Len(old) + n
               /\ \A i \in 1..Len(old) : Pushed(old, item, n)[i] = old[i]
      BY <1>2, <2>1, ManyPushes
    <2> QED BY <2>2 DEF old, item
  <1> HIDE DEF q
  <1>4. queue'[k] = q /\ start'[k] = start[k] /\ taken'[k] = taken[k] /\ viewer' = viewer
    BY DEF q
  <1>5. Len(q) \in Nat
    BY <1>3, LenProperties
  <1>6. start[k] = 0 => taken[k] = 0
    BY DEF TrackInv, ClockShape
  <1>7. ASSUME start[k] # 0
        PROVE  /\ viewer /\ start[k] <= tick'
               /\ taken[k] <= Allowed(k)' + PerTick(k)
               /\ Len(q) + taken[k] <= Size + Allowed(k)'
               /\ \/ Len(queue[k]) = 0
                  \/ /\ Len(q) = Len(queue[k]) + n
                     /\ \A i \in 1..Len(queue[k]) : q[i] = queue[k][i]
    <2>1. /\ viewer /\ start[k] <= tick /\ Allowed(k) \in Nat
          /\ taken[k] <= Allowed(k) + PerTick(k)
          /\ Len(queue[k]) + taken[k] <= Size + Allowed(k)
      BY <1>1, <1>7 DEF TrackInv, ClockShape
    <2>2. Allowed(k)' = Allowed(k) + PerTick(k)
      <3>1. Allowed(k)' = PerTick(k) * ((tick - start[k]) + 1)
        <4>1. Allowed(k)' = PerTick(k) * (tick' - start'[k])
          BY DEF Allowed, PerTick
        <4>2. tick' - start'[k] = (tick - start[k]) + 1
          BY <1>1, <1>4
        <4> QED BY <4>1, <4>2
      <3>2. tick - start[k] \in Nat
        BY <1>1, <2>1
      <3> QED BY <1>1, <3>1, <3>2, OneMore DEF Allowed
    <2>3. /\ taken[k] <= Allowed(k)' /\ taken[k] <= Allowed(k)' + PerTick(k)
          /\ Allowed(k)' \in Nat /\ start[k] <= tick'
      <3>1. /\ PerTick(k) \in Nat /\ Allowed(k) \in Nat /\ start[k] \in Nat
            /\ tick \in Nat /\ tick' = tick + 1 /\ start[k] <= tick
            /\ taken[k] \in Nat /\ taken[k] <= Allowed(k) + PerTick(k)
        BY <1>1, <2>1
      <3> QED BY <2>2, <3>1
    <2>4. Len(queue[k]) = 0 \/ Len(queue[k]) + PerTick(k) <= Size
      BY <1>7, Room
    <2>5. CASE Len(queue[k]) + PerTick(k) <= Size
      <3>1. Len(queue[k]) + n <= Size /\ Len(q) = Len(queue[k]) + n
        BY <1>1, <1>2, <1>3, <2>5
      <3>2. Len(q) + taken[k] <= Size + Allowed(k)'
        <4>1. n <= PerTick(k)
          BY <1>1
        <4>2. (Len(queue[k]) + n) + taken[k] <= Size + (Allowed(k) + PerTick(k))
          BY <1>1, <1>2, <2>1, <4>1, Fits
        <4> QED BY <2>2, <3>1, <4>2
      <3> QED BY <1>3, <2>1, <2>3, <3>1, <3>2
    <2>6. CASE Len(queue[k]) = 0
      <3>1. /\ Len(q) + taken[k] <= Size + Allowed(k)' /\ start[k] <= tick'
            /\ taken[k] <= Allowed(k)' + PerTick(k)
        <4>1. Len(q) <= Size /\ Len(q) \in Nat /\ taken[k] \in Nat /\ Size \in Nat
          BY <1>1, <1>3, <1>5
        <4> HIDE DEF q
        <4> QED BY <2>3, <4>1
      <3> QED BY <2>1, <2>6, <3>1
    <2> QED BY <2>4, <2>5, <2>6
  <1> QED BY <1>3, <1>4, <1>6, <1>7

LEMMA TickInv ==
    ASSUME TrackInv, NEW speaking \in BOOLEAN, Tick(speaking)
    PROVE  TrackInv'
  <1> DEFINE chunks == IF speaking THEN ChunksPerFrame ELSE 0
             Items(k) == IF k = "video" THEN 1 ELSE chunks
  <1>1. /\ tick < MaxTicks /\ tick' = tick + 1 /\ \A k \in Tracks : ~Due(k)
        /\ queue' = [video |-> Pushed(queue["video"], tick + 1, 1),
                     audio |-> Pushed(queue["audio"], tick + 1, chunks)]
        /\ UNCHANGED <<viewer, start, taken>> /\ shown' = shown
    BY DEF Tick
  <1>2. /\ queue'["video"] = Pushed(queue["video"], tick + 1, 1)
        /\ queue'["audio"] = Pushed(queue["audio"], tick + 1, chunks)
    BY <1>1
  <1>3. \A k \in Tracks : Items(k) \in 0..PerTick(k)
    BY TrackAssumption DEF PerTick
  <1>4. \A k \in Tracks : queue'[k] = Pushed(queue[k], tick + 1, Items(k))
    BY <1>2 DEF Tracks
  <1> HIDE DEF Items, chunks
  <1>5. ASSUME NEW k \in Tracks
        PROVE  /\ queue'[k] \in Seq(Stamps) /\ Len(queue'[k]) <= Size
               /\ start'[k] = 0 => taken'[k] = 0
               /\ start'[k] # 0 =>
                    /\ viewer' /\ start'[k] <= tick'
                    /\ taken'[k] <= Allowed(k)' + PerTick(k)
                    /\ Len(queue'[k]) + taken'[k] <= Size + Allowed(k)'
    BY <1>1, <1>3, <1>4, TickPushes
  <1>6. TrackTypeOK /\ tick \in Nat /\ MaxTicks \in Nat /\ tick' \in 0..MaxTicks /\ tick' # 0
    <2>1. TrackTypeOK /\ tick \in Nat /\ MaxTicks \in Nat
      BY TrackAssumption DEF TrackInv, TrackTypeOK
    <2>2. tick < MaxTicks /\ tick' = tick + 1
      BY <1>1
    <2> QED BY <2>1, <2>2
  <1>7. TrackTypeOK'
    <2>1. DOMAIN queue' = Tracks /\ queue' = [k \in DOMAIN queue' |-> queue'[k]]
      BY <1>1 DEF Tracks
    <2>2. queue' \in [Tracks -> Seq(Stamps)]
      BY <1>5, <2>1
    <2> QED BY <1>1, <1>5, <1>6, <2>2 DEF TrackTypeOK, Stamps
  <1>8. ClockShape'
    BY <1>5, <1>6 DEF ClockShape, PerTick
  <1>9. FrameShape'
    <2> DEFINE q == queue["video"]
               r == Push(q, tick + 1)
               n == Len(q)
    <2>1. "video" \in Tracks
      BY DEF Tracks
    <2>2. /\ q \in Seq(Stamps) /\ n \in Nat /\ n <= Size /\ n <= tick
          /\ Size \in Nat \ {0} /\ PerTick("video") = 1 /\ tick + 1 \in Stamps
          /\ \A i \in 1..n : q[i] = tick - n + i
      <3>1. q \in Seq(Stamps) /\ n \in Nat /\ n <= Size /\ Size \in Nat \ {0}
        BY <2>1, TrackNumbers DEF TrackInv
      <3>2. tick + 1 \in Stamps /\ PerTick("video") = 1
        BY <1>1, <1>6 DEF Stamps, PerTick
      <3> QED BY <3>1, <3>2 DEF TrackInv, FrameShape
    <2>3. queue'["video"] = r
      <3>1. Pushed(q, tick + 1, 1) = Push(q, tick + 1)
        BY <2>2, ManyPushes
      <3> QED BY <1>2, <3>1
    <2> HIDE DEF q
    <2>4. /\ n < Size => /\ Len(r) = n + 1
                         /\ \A i \in 1..n : r[i] = q[i]
                         /\ r[n + 1] = tick + 1
          /\ ~(n < Size) => /\ Len(r) = n
                            /\ \A i \in 1..(n - 1) : r[i] = q[i + 1]
                            /\ r[n] = tick + 1
      <3> DEFINE item == tick + 1
      <3>1. item \in Stamps
        BY <2>2
      <3> HIDE DEF item
      <3>2. /\ Len(q) < Size => /\ Len(Push(q, item)) = Len(q) + 1
                                /\ \A i \in 1..Len(q) : Push(q, item)[i] = q[i]
                                /\ Push(q, item)[Len(q) + 1] = item
            /\ ~(Len(q) < Size) => /\ Len(Push(q, item)) = Len(q)
                                   /\ \A i \in 1..(Len(q) - 1) : Push(q, item)[i] = q[i + 1]
                                   /\ Push(q, item)[Len(q)] = item
        <4>1. q \in Seq(Stamps) /\ Len(q) <= Size
          BY <2>1, TrackNumbers, Zenon DEF q, TrackInv
        <4>2. /\ Push(q, item) \in Seq(Stamps) /\ Len(Push(q, item)) <= Size
              /\ Len(q) < Size => /\ Len(Push(q, item)) = Len(q) + 1
                                  /\ \A i \in 1..Len(q) : Push(q, item)[i] = q[i]
                                  /\ Push(q, item)[Len(q) + 1] = item
              /\ ~(Len(q) < Size) => /\ Len(Push(q, item)) = Len(q)
                                     /\ \A i \in 1..(Len(q) - 1) : Push(q, item)[i] = q[i + 1]
                                     /\ Push(q, item)[Len(q)] = item
          BY <3>1, <4>1, OnePush
        <4> QED BY <4>2, Zenon
      <3>3. r = Push(q, item) /\ n = Len(q) /\ tick + 1 = item
        BY DEF item
      <3> HIDE DEF r, n
      <3> QED BY <3>2, <3>3, Zenon
    <2> HIDE DEF r, n
    <2>5. CASE n < Size
      <3>1. Len(r) = n + 1 /\ n + 1 <= tick'
        BY <1>1, <1>6, <2>2, <2>4, <2>5
      <3>2. ASSUME NEW i \in 1..(n + 1)
            PROVE  r[i] = tick' - (n + 1) + i
        <4>1. CASE i = n + 1
          BY <1>1, <1>6, <2>2, <2>4, <2>5, <4>1
        <4>2. CASE i # n + 1
          <5>1. i \in 1..n /\ r[i] = q[i]
            BY <2>2, <2>4, <2>5, <4>2
          <5>2. q[i] = tick - n + i
            BY <2>2, <5>1
          <5> QED BY <1>1, <1>6, <2>2, <5>1, <5>2
        <4> QED BY <4>1, <4>2
      <3>3. start'["video"] # 0 => shown'["video"] = tick' - (n + 1)
        <4>1. start["video"] # 0 => shown["video"] = tick - n
          BY DEF TrackInv, FrameShape, n, q
        <4>2. tick - n = tick' - (n + 1)
          BY <1>1, <1>6, <2>2
        <4> QED BY <1>1, <4>1, <4>2
      <3> QED BY <2>3, <3>1, <3>2, <3>3 DEF FrameShape
    <2>6. CASE ~(n < Size)
      <3>1. Len(r) = n /\ n <= tick' /\ n # 0
        BY <1>1, <1>6, <2>2, <2>4, <2>6
      <3>2. ASSUME NEW i \in 1..n
            PROVE  r[i] = tick' - n + i
        <4>1. CASE i = n
          BY <1>1, <1>6, <2>2, <2>4, <2>6, <4>1
        <4>2. CASE i # n
          <5>1. i \in 1..(n - 1) /\ i + 1 \in 1..n /\ r[i] = q[i + 1]
            BY <2>2, <2>4, <2>6, <4>2
          <5>2. q[i + 1] = tick - n + (i + 1)
            BY <2>2, <5>1
          <5> QED BY <1>1, <1>6, <2>2, <5>1, <5>2
        <4> QED BY <4>1, <4>2
      <3>3. start'["video"] = 0
        <4>1. start["video"] # 0 => n = 0 \/ n + 1 <= Size
          BY <1>1, <2>1, <2>2, Room DEF n, q
        <4>2. start["video"] = 0
          BY <2>2, <2>6, <3>1, <4>1
        <4> QED BY <1>1, <4>2
      <3> QED BY <2>3, <3>1, <3>2, <3>3 DEF FrameShape
    <2> QED BY <2>5, <2>6
  <1> QED BY <1>7, <1>8, <1>9 DEF TrackInv

LEMMA RecvInv ==
    ASSUME TrackInv, NEW k \in Tracks, Recv(k)
    PROVE  /\ TrackInv'
           /\ k = "video" /\ start["video"] # 0 => shown'["video"] = shown["video"] + 1
  <1> DEFINE q == queue[k]
             n == Len(q)
  <1>1. /\ viewer /\ q # <<>> /\ shown' = [shown EXCEPT ![k] = Head(q)]
        /\ queue' = [queue EXCEPT ![k] = Tail(q)]
        /\ start' = [start EXCEPT ![k] = IF start[k] = 0 THEN tick ELSE start[k]]
        /\ taken' = [taken EXCEPT ![k] = taken[k] + 1]
        /\ tick' = tick /\ viewer' = viewer
        /\ start[k] = 0 \/ taken[k] < PerTick(k) * (tick - start[k] + 1)
    BY DEF Recv, Due
  <1>2. /\ TrackTypeOK /\ tick \in Nat /\ start[k] \in Nat /\ taken[k] \in Nat
        /\ q \in Seq(Stamps) /\ n \in Nat /\ n <= Size /\ shown[k] \in Nat
        /\ PerTick(k) \in Nat \ {0} /\ Size \in Nat \ {0} /\ MaxTicks \in Nat
        /\ start[k] <= tick => Allowed(k) \in Nat
    BY TrackNumbers DEF TrackInv
  <1> HIDE DEF q
  <1>3. /\ n # 0 /\ Head(q) = q[1] /\ 1 \in 1..n /\ Head(q) \in Stamps
        /\ Tail(q) \in Seq(Stamps) /\ Len(Tail(q)) = n - 1
        /\ \A i \in 1..(n - 1) : Tail(q)[i] = q[i + 1]
    BY <1>1, <1>2, EmptySeq, HeadTailProperties
  <1> HIDE DEF n
  <1>4. /\ queue'[k] = Tail(q) /\ shown'[k] = Head(q) /\ taken'[k] = taken[k] + 1
        /\ start'[k] = (IF start[k] = 0 THEN tick ELSE start[k])
        /\ \A j \in Tracks \ {k} : /\ queue'[j] = queue[j] /\ shown'[j] = shown[j]
                                   /\ taken'[j] = taken[j] /\ start'[j] = start[j]
    BY <1>1, <1>2 DEF TrackTypeOK
  <1>5. tick # 0 /\ tick \in 0..MaxTicks
    BY <1>2, <1>3 DEF TrackInv, ClockShape, TrackTypeOK, n, q
  <1>6. TrackTypeOK'
    <2>1. queue' \in [Tracks -> Seq(1..MaxTicks)]
      BY <1>1, <1>2, <1>3 DEF TrackTypeOK, Stamps
    <2>2. \A j \in Tracks : Len(queue'[j]) <= Size
      <3>1. n - 1 <= Size
        BY <1>2
      <3> QED BY <1>2, <1>3, <1>4, <3>1 DEF TrackTypeOK
    <2>3. Head(q) \in 0..MaxTicks /\ taken[k] + 1 \in Nat
      <3>1. Head(q) \in 1..MaxTicks /\ MaxTicks \in Nat /\ taken[k] \in Nat
        BY <1>2, <1>3 DEF Stamps
      <3> HIDE DEF q
      <3> QED BY <3>1
    <2>4. /\ start' \in [Tracks -> 0..MaxTicks] /\ taken' \in [Tracks -> Nat]
          /\ shown' \in [Tracks -> 0..MaxTicks]
      BY <1>1, <1>2, <1>5, <2>3 DEF TrackTypeOK
    <2>5. tick' \in 0..MaxTicks /\ viewer' \in BOOLEAN
      BY <1>1, <1>2 DEF TrackTypeOK
    <2> QED BY <2>1, <2>2, <2>4, <2>5 DEF TrackTypeOK
  <1>7. ClockShape'
    <2>1. \A j \in Tracks : PerTick(j)' = PerTick(j)
      BY DEF PerTick
    <2>2. CASE start[k] = 0
      <3>1. start'[k] = tick /\ taken[k] = 0 /\ taken'[k] = 1 /\ tick - tick = 0
        BY <1>2, <1>4, <2>2 DEF TrackInv, ClockShape
      <3>2. Allowed(k)' = 0
        <4>1. Allowed(k)' = PerTick(k) * (tick' - start'[k])
          BY DEF Allowed, PerTick
        <4>2. PerTick(k) * 0 = 0
          BY <1>2
        <4> QED BY <1>1, <3>1, <4>1, <4>2
      <3>3. /\ viewer' /\ start'[k] <= tick' /\ start'[k] # 0 /\ tick' # 0
            /\ taken'[k] <= Allowed(k)' + PerTick(k)
            /\ Len(queue'[k]) + taken'[k] <= Size + Allowed(k)'
        BY <1>1, <1>2, <1>3, <1>4, <1>5, <3>1, <3>2
      <3> QED BY <1>1, <1>4, <1>5, <2>1, <3>3 DEF TrackInv, ClockShape, Allowed
    <2>3. CASE start[k] # 0
      <3>1. /\ start'[k] = start[k] /\ start[k] <= tick /\ Allowed(k) \in Nat
            /\ taken[k] <= Allowed(k) + PerTick(k)
            /\ n + taken[k] <= Size + Allowed(k)
        BY <1>2, <1>4, <2>3 DEF TrackInv, ClockShape, n, q
      <3>2. Allowed(k)' = Allowed(k)
        BY <1>1, <3>1 DEF Allowed, PerTick
      <3>3. taken[k] < Allowed(k) + PerTick(k)
        <4>1. tick - start[k] \in Nat
          BY <1>2, <3>1
        <4>2. PerTick(k) * (tick - start[k] + 1) = Allowed(k) + PerTick(k)
          BY <1>2, <4>1, OneMore DEF Allowed
        <4> QED BY <1>1, <2>3, <4>2
      <3>4. /\ viewer' /\ start'[k] <= tick' /\ start'[k] # 0 /\ tick' # 0
            /\ taken'[k] <= Allowed(k)' + PerTick(k)
            /\ Len(queue'[k]) + taken'[k] <= Size + Allowed(k)'
        <4>1. taken[k] + 1 <= Allowed(k) + PerTick(k)
          BY <1>2, <3>1, <3>3
        <4>2. (n - 1) + (taken[k] + 1) <= Size + Allowed(k)
          BY <1>2, <3>1
        <4> QED BY <1>1, <1>3, <1>4, <1>5, <2>3, <3>1, <3>2, <4>1, <4>2
      <3> QED BY <1>1, <1>4, <1>5, <2>1, <3>4 DEF TrackInv, ClockShape, Allowed
    <2> QED BY <2>2, <2>3
  <1>8. /\ FrameShape'
        /\ k = "video" /\ start["video"] # 0 => shown'["video"] = shown["video"] + 1
    <2>1. CASE k # "video"
      <3>1. "video" \in Tracks \ {k}
        BY <2>1 DEF Tracks
      <3> QED BY <1>1, <1>4, <2>1, <3>1 DEF TrackInv, FrameShape
    <2>2. CASE k = "video"
      <3>1. /\ n <= tick /\ \A i \in 1..n : q[i] = tick - n + i
            /\ start["video"] # 0 => shown["video"] = tick - n
        BY <2>2 DEF TrackInv, FrameShape, n, q
      <3>2. n - 1 <= tick /\ tick - (n - 1) = tick - n + 1
        BY <1>2, <3>1
      <3>3. ASSUME NEW i \in 1..(n - 1)
            PROVE  Tail(q)[i] = tick - (n - 1) + i
        <4>1. i + 1 \in 1..n /\ Tail(q)[i] = q[i + 1]
          BY <1>2, <1>3
        <4>2. q[i + 1] = tick - n + (i + 1)
          BY <3>1, <4>1
        <4>3. i \in Nat
          BY <1>2
        <4>4. tick - n + (i + 1) = tick - (n - 1) + i
          BY <1>2, <4>3, OneOn
        <4> QED BY <4>1, <4>2, <4>4
      <3>4. shown'["video"] = tick - (n - 1)
        <4>1. q[1] = tick - n + 1
          BY <1>3, <3>1
        <4> QED BY <1>3, <1>4, <2>2, <3>2, <4>1
      <3>5. start["video"] # 0 => shown'["video"] = shown["video"] + 1
        BY <3>1, <3>2, <3>4
      <3> QED BY <1>1, <1>3, <1>4, <2>2, <3>2, <3>3, <3>4, <3>5 DEF FrameShape
    <2> QED BY <2>1, <2>2
  <1> QED BY <1>6, <1>7, <1>8 DEF TrackInv

LEMMA ConnectsInv == TrackInv /\ Connects => TrackInv'
  BY DEF Connects, TrackInv, TrackTypeOK, ClockShape, FrameShape, Allowed, PerTick

LEMMA TrackInvStep == TrackInv /\ [TrackNext]_trackVars => TrackInv'
  <1> SUFFICES ASSUME TrackInv, [TrackNext]_trackVars PROVE TrackInv'
    OBVIOUS
  <1>1. CASE UNCHANGED trackVars
    BY <1>1
       DEF trackVars, TrackInv, TrackTypeOK, ClockShape, FrameShape, Allowed, PerTick
  <1> QED BY <1>1, TickInv, ConnectsInv, RecvInv DEF TrackNext

\* What a step shows the viewer, and what it keeps for it.
LEMMA StepShowsAll ==
    TrackInv /\ [TrackNext]_trackVars =>
        [/\ start["video"] # 0 /\ shown'["video"] # shown["video"] =>
              shown'["video"] = shown["video"] + 1
         /\ start["audio"] # 0 /\ tick' # tick =>
              SubSeq(queue'["audio"], 1, Len(queue["audio"])) = queue["audio"]
         /\ start["video"] # 0 /\ ~Due("video") =>
              tick - shown["video"] \in 0..Size]_trackVars
  <1> SUFFICES ASSUME TrackInv, TrackNext
               PROVE  /\ start["video"] # 0 /\ shown'["video"] # shown["video"] =>
                            shown'["video"] = shown["video"] + 1
                      /\ start["audio"] # 0 /\ tick' # tick =>
                            SubSeq(queue'["audio"], 1, Len(queue["audio"])) = queue["audio"]
                      /\ start["video"] # 0 =>
                            tick - shown["video"] \in 0..Size
    OBVIOUS
  <1>1. "video" \in Tracks /\ "audio" \in Tracks /\ TrackTypeOK
    BY DEF Tracks, TrackInv
  <1>2. ASSUME start["video"] # 0
        PROVE  tick - shown["video"] \in 0..Size
    <2> DEFINE n == Len(queue["video"])
    <2>1. tick \in Nat /\ n \in Nat /\ n <= Size /\ Size \in Nat
      BY <1>1, TrackNumbers
    <2>2. shown["video"] = tick - n
      BY <1>2 DEF TrackInv, FrameShape
    <2> HIDE DEF n
    <2> QED BY <2>1, <2>2
  <1>3. ASSUME start["video"] # 0, shown'["video"] # shown["video"]
        PROVE  shown'["video"] = shown["video"] + 1
    <2>1. PICK k \in Tracks : Recv(k)
      BY <1>3 DEF TrackNext, Tick, Connects
    <2>2. k = "video"
      <3>1. shown' = [shown EXCEPT ![k] = Head(queue[k])]
        BY <2>1 DEF Recv
      <3> QED BY <1>1, <1>3, <3>1 DEF TrackTypeOK
    <2> QED BY <1>3, <2>1, <2>2, RecvInv
  <1>4. ASSUME start["audio"] # 0, tick' # tick
        PROVE  SubSeq(queue'["audio"], 1, Len(queue["audio"])) = queue["audio"]
    <2> DEFINE q == queue["audio"]
               r == queue'["audio"]
               n == Len(q)
    <2>1. PICK speaking \in BOOLEAN : Tick(speaking)
      BY <1>4 DEF TrackNext, Recv, Connects
    <2> DEFINE chunks == IF speaking THEN ChunksPerFrame ELSE 0
    <2>2. /\ tick < MaxTicks /\ tick' = tick + 1 /\ ~Due("audio")
          /\ r = Pushed(q, tick + 1, chunks)
          /\ UNCHANGED <<viewer, start, taken>>
      BY <1>1, <2>1 DEF Tick
    <2>3. chunks \in 0..PerTick("audio")
      BY TrackAssumption DEF PerTick
    <2> HIDE DEF chunks
    <2>4. q \in Seq(Stamps) /\ n \in Nat
      BY <1>1, TrackNumbers
    <2>5. /\ r \in Seq(Stamps)
          /\ \/ n = 0
             \/ Len(r) = n + chunks /\ \A i \in 1..n : r[i] = q[i]
      BY <1>1, <1>4, <2>2, <2>3, TickPushes
    <2> HIDE DEF q, r
    <2>6. CASE n = 0
      <3>1. q = <<>>
        BY <2>4, <2>6, EmptySeq DEF n
      <3>2. SubSeq(r, 1, n) = <<>>
        BY <2>6, SubSeqEmpty
      <3> QED BY <3>1, <3>2 DEF n, q, r
    <2>7. CASE Len(r) = n + chunks /\ \A i \in 1..n : r[i] = q[i]
      <3>1. \A i \in 1..n : q[i] \in Stamps
        BY <2>4, ElementOfSeq DEF n
      <3>2. /\ SubSeq(r, 1, n) \in Seq(Stamps)
            /\ Len(SubSeq(r, 1, n)) = IF 1 <= n THEN n - 1 + 1 ELSE 0
            /\ \A i \in 1..(n - 1 + 1) : SubSeq(r, 1, n)[i] = r[1 + i - 1]
        <4>1. \A i \in 1..n : r[i] \in Stamps
          BY <2>7, <3>1
        <4> HIDE DEF n
        <4> QED BY <2>4, <4>1, SubSeqProperties
      <3> HIDE DEF n
      <3>3. Len(SubSeq(r, 1, n)) = n /\ \A i \in 1..n : SubSeq(r, 1, n)[i] = q[i]
        <4>1. Len(SubSeq(r, 1, n)) = n /\ n - 1 + 1 = n
          BY <2>4, <3>2
        <4>2. \A i \in 1..n : 1 + i - 1 = i
          BY <2>4
        <4> QED BY <2>7, <3>2, <4>1, <4>2
      <3>4. SubSeq(r, 1, n) = q
        BY <2>4, <3>2, <3>3, SeqEqual DEF n
      <3> QED BY <3>4 DEF n, q, r
    <2> QED BY <2>5, <2>6, <2>7
  <1> QED BY <1>2, <1>3, <1>4

-----------------------------------------------------------------------------
(* The parts side by side.                                                 *)

PartsInv == WarmInv /\ SocketInv /\ TrackInv /\ WatchInv

LEMMA PartsInvInit == Init => PartsInv
  <1> SUFFICES ASSUME Init PROVE PartsInv
    OBVIOUS
  <1>1. WarmInv /\ SocketInv /\ TrackInv
    BY WarmInvInit, SocketInvInit, TrackInvInit DEF Init
  <1>2. WatchInv
    <2>1. ASSUME WatchRests
          PROVE  WatchInv
      <3>1. /\ loop = "over" /\ raised = 0 /\ halt = "closed"
            /\ watch = "gone" /\ fresh = FALSE /\ late = 0
        BY <2>1 DEF WatchRests
      <3>2. 0 \in 0..RaiseLimit /\ 0 \in 0..1 /\ 0 \in Nat
        BY WatchAssumption
      <3>3. WatchTypeOK
        BY <3>1, <3>2 DEF WatchTypeOK
      <3> QED BY <3>1, <3>2, <3>3 DEF WatchInv
    <2> QED BY <2>1, WatchInvInit DEF Init
  <1> QED BY <1>1, <1>2 DEF PartsInv

\* A step of one part is none of the others.
LEMMA PartsStep ==
    [Next]_partVars => /\ [WarmNext]_warmVars /\ [SocketNext]_socketVars
                       /\ [TrackNext]_trackVars /\ [WatchNext]_watchVars
  BY DEF Next, partVars

LEMMA PartsInvStep == PartsInv /\ [Next]_partVars => PartsInv'
  BY PartsStep, WarmInvStep, SocketInvStep, TrackInvStep, WatchInvStep DEF PartsInv

LEMMA SpecPartsInv == Spec => []PartsInv
  BY PartsInvInit, PartsInvStep, PTL DEF Spec

\* The variables of the renderer, of the sockets, of the tracks and of the
\* watchdog keep their types (avatar/musetalk_backend.py, service.py,
\* egress.py, session.py).
THEOREM PartsTyped == Spec => []PartsTypeOK
  <1>1. PartsInv => PartsTypeOK
    BY DEF PartsInv, WarmInv, SocketInv, TrackInv, WatchInv, PartsTypeOK
  <1> QED BY <1>1, SpecPartsInv, PTL

\* Every event that was emitted is in the outbox, lost with a client that was
\* gone, or told on one socket, once and in order (service.py, pump_outbox).
THEOREM EventsAreKept == Spec => []OutboxKept
  <1>1. PartsInv => OutboxKept
    BY OutboxIsKept DEF PartsInv
  <1> QED BY <1>1, SpecPartsInv, PTL

\* No client hears the end of an utterance before its start, nor that what
\* the session is speaking has ended, although replies overtake the outbox
\* (service.py, control_socket).
THEOREM EndsComeAfterStarts == Spec => []EndAfterStart
  <1>1. PartsInv => EndAfterStart
    BY EndsComeAfter DEF PartsInv
  <1> QED BY <1>1, SpecPartsInv, PTL

\* A viewer who takes from a track misses nothing more of it, and the lips are
\* behind by a full queue at most (egress.py, push and recv).
THEOREM ViewersSeeAll == Spec => WatchedSeesAll
  <1>1. PartsInv /\ [Next]_partVars =>
          [/\ start["video"] # 0 /\ shown'["video"] # shown["video"] =>
                shown'["video"] = shown["video"] + 1
           /\ start["audio"] # 0 /\ tick' # tick =>
                SubSeq(queue'["audio"], 1, Len(queue["audio"])) = queue["audio"]
           /\ start["video"] # 0 /\ ~Due("video") =>
                tick - shown["video"] \in 0..Size]_trackVars
    BY PartsStep, StepShowsAll DEF PartsInv
  <1> QED BY <1>1, SpecPartsInv, PTL DEF Spec, WatchedSeesAll

=============================================================================
