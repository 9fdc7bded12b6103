---------------------------- MODULE ControlSocket ----------------------------
(***************************************************************************)
(* How the clients of one avatar session learn what it does: the control   *)
(* socket and POST /control in hydralisk/avatar/service.py, the replies of *)
(* AvatarSession.handle_control, and the outbox that the render loop fills.*)
(*                                                                         *)
(* A socket has two tasks.  One receives messages and sends the replies    *)
(* itself; the other takes events from the session's one outbox and sends  *)
(* them.  A send writes at once and may then wait, so that the first reply *)
(* is written in the step that handles the message, and the next later.    *)
(*                                                                         *)
(* The turns of the session are those of AvatarSession, without frames and *)
(* buffers: an utterance that was closed ends when its audio has drained.  *)
(* Of the replies only those to the first chunk of an utterance are kept;  *)
(* the others (a state by itself, an ack, a parse error) change nothing.   *)
(***************************************************************************)
EXTENDS Naturals, Sequences, FiniteSets

CONSTANTS
    Sockets,       \* the control sockets that are opened
    MaxUtterances, \* bound: utterances spoken
    MaxMessages    \* bound: control messages

ASSUME SocketAssumption ==
    /\ IsFiniteSet(Sockets)
    /\ {MaxUtterances, MaxMessages} \subseteq Nat

Utterances == 1..MaxUtterances
Nobody == 0

VARIABLES
    state,    \* idle, listening, speaking
    event,    \* active_event_id, by number
    closed,   \* end_pending
    last,     \* the last utterance that was begun
    stopped,  \* the session was stopped
    messages, \* control messages handled
    emitted,  \* all that was put into the outbox so far
    outbox,   \* what is in it, by place in emitted
    conn,     \* each socket: none, open, cut (its client is gone), shut
    pump,     \* its outbox task: none, waiting, dead
    replies,  \* replies its receiving task has yet to send
    told,     \* what was written to it
    lost      \* places in emitted that were taken for a client that was gone

turnVars == <<state, event, closed, last, stopped>>
outVars == <<emitted, outbox, lost>>
socketVars == <<turnVars, messages, outVars, conn, pump, replies, told>>

\* place is 0 for a reply; about is an utterance or a state.
Said(kind, about) == [place |-> 0, kind |-> kind, utterance |-> about]
StateIs(s) == [place |-> 0, kind |-> s, utterance |-> 0]

States == {"idle", "listening", "speaking"}
Kinds == States \cup {"started", "ended", "stopped"}

Events == [place : Nat, kind : Kinds, utterance : Utterances \cup {Nobody}]

SocketTypeOK ==
    /\ state \in States
    /\ event \in Utterances \cup {Nobody}
    /\ closed \in BOOLEAN
    /\ last \in Utterances \cup {Nobody}
    /\ stopped \in BOOLEAN
    /\ messages \in 0..MaxMessages
    /\ emitted \in Seq(Events)
    /\ outbox \in Seq(1..Len(emitted))
    /\ conn \in [Sockets -> {"none", "open", "cut", "shut"}]
    /\ pump \in [Sockets -> {"none", "waiting", "dead"}]
    /\ replies \in [Sockets -> Seq(Events)]
    /\ told \in [Sockets -> Seq(Events)]
    /\ lost \subseteq 1..Len(emitted)
    /\ state = "speaking" <=> event # Nobody
    /\ closed => state = "speaking"

SocketInit ==
    /\ state = "idle"
    /\ event = Nobody
    /\ closed = FALSE
    /\ last = Nobody
    /\ stopped = FALSE
    /\ messages = 0
    /\ emitted = <<>>
    /\ outbox = <<>>
    /\ conn = [c \in Sockets |-> "none"]
    /\ pump = [c \in Sockets |-> "none"]
    /\ replies = [c \in Sockets |-> <<>>]
    /\ told = [c \in Sockets |-> <<>>]
    /\ lost = {}

Write(c, e) == told' = [told EXCEPT ![c] = Append(@, e)]

-----------------------------------------------------------------------------
(* AvatarSession._emit: what the render loop and stop() say; a render error *)
(* goes the same way and is left out.                                      *)

Emit(es) ==
    /\ emitted' = emitted \o
         [i \in DOMAIN es |-> [es[i] EXCEPT !.place = Len(emitted) + i]]
    /\ outbox' = outbox \o [i \in DOMAIN es |-> Len(emitted) + i]
    /\ UNCHANGED lost

\* _finish_tick, when the audio of a closed utterance has drained.
SpeechDrains ==
    /\ ~stopped /\ closed
    /\ Emit(<<Said("ended", event), StateIs("idle")>>)
    /\ state' = "idle" /\ event' = Nobody /\ closed' = FALSE
    /\ UNCHANGED <<last, stopped, messages, conn, pump, replies, told>>

\* The turn stays where it is: nobody tells the state machine.
SessionStops ==
    /\ ~stopped
    /\ stopped' = TRUE
    /\ Emit(<<Said("stopped", Nobody)>>)
    /\ UNCHANGED <<state, event, closed, last, messages, conn, pump, replies,
                   told>>

-----------------------------------------------------------------------------
(* handle_control: what a message does, and the replies to it.             *)

\* Chunks of one utterance share its id; a new one has a new id.
Speak(u) ==
    /\ u \in {event, last + 1} \ {Nobody}
    /\ state' = "speaking" /\ event' = u
    /\ closed' = (closed /\ u = event)
    /\ last' = IF u > last THEN u ELSE last

SpeakReplies(u) ==
    (IF u # event THEN <<Said("started", u)>> ELSE <<>>)
        \o (IF state # "speaking" THEN <<StateIs("speaking")>> ELSE <<>>)

\* Mutant of SpeakEnd: any utterance may be closed, also one that is over.
SpeakEndOfAny(u) == closed' = TRUE /\ UNCHANGED <<state, event, last>>

SpeakEnd(u) ==
    /\ closed' = (closed \/ (event = u /\ state = "speaking"))
    /\ UNCHANGED <<state, event, last>>

\* interrupt, listen_start and listen_end, from one state to another.
Moves(from, to) ==
    /\ state \in from
    /\ state' = to /\ event' = Nobody /\ closed' = FALSE
    /\ UNCHANGED last

Answers == {<<>>} \cup {SpeakReplies(u) : u \in Utterances}

\* One control message, and the replies that handle_control returns.
Handles(answer) ==
    /\ messages < MaxMessages
    /\ messages' = messages + 1
    /\ UNCHANGED stopped
    /\ \/ \E u \in Utterances : Speak(u) /\ answer = SpeakReplies(u)
       \/ \E u \in 1..last : SpeakEnd(u) /\ answer = <<>>
       \/ Moves({"speaking", "idle"}, "listening") /\ answer = <<>>
       \/ Moves({"listening"}, "idle") /\ answer = <<>>

-----------------------------------------------------------------------------
(* The receiving task of a socket, and POST /control.                      *)

\* accept(), and the state as it is.
Connect(c) ==
    /\ conn[c] = "none" /\ ~stopped
    /\ conn' = [conn EXCEPT ![c] = "open"]
    /\ pump' = [pump EXCEPT ![c] = "waiting"]
    /\ Write(c, StateIs(state))
    /\ UNCHANGED <<turnVars, messages, outVars, replies>>

\* Mutant of Receive: the replies go through a buffer of their own.
ReceiveBuffered(c) ==
    /\ conn[c] = "open" /\ replies[c] = <<>>
    /\ \E answer \in Answers :
         /\ Handles(answer)
         /\ replies' = [replies EXCEPT ![c] = answer]
    /\ UNCHANGED <<outVars, conn, pump, told>>

\* The message is handled and the first reply written, also when the
\* session was stopped long ago.
Receive(c) ==
    /\ conn[c] = "open" /\ replies[c] = <<>>
    /\ \E answer \in Answers :
         /\ Handles(answer)
         /\ IF answer = <<>> THEN UNCHANGED <<told, replies>>
            ELSE /\ Write(c, Head(answer))
                 /\ replies' = [replies EXCEPT ![c] = Tail(answer)]
    /\ UNCHANGED <<outVars, conn, pump>>

Reply(c) ==
    /\ conn[c] = "open" /\ replies[c] # <<>>
    /\ Write(c, Head(replies[c]))
    /\ replies' = [replies EXCEPT ![c] = Tail(@)]
    /\ UNCHANGED <<turnVars, messages, outVars, conn, pump>>

\* The replies go into the response; no socket hears of them.
Post ==
    /\ \E answer \in Answers :
         Handles(answer)
    /\ UNCHANGED <<outVars, conn, pump, replies, told>>

\* The client is gone; the tasks of the socket have yet to find out.
Cut(c) ==
    /\ conn[c] = "open"
    /\ conn' = [conn EXCEPT ![c] = "cut"]
    /\ UNCHANGED <<turnVars, messages, outVars, pump, replies, told>>

\* The receiving task does, and cancels the other, which awaits.
Shut(c) ==
    /\ conn[c] = "cut"
    /\ conn' = [conn EXCEPT ![c] = "shut"]
    /\ pump' = [pump EXCEPT ![c] = "none"]
    /\ replies' = [replies EXCEPT ![c] = <<>>]
    /\ UNCHANGED <<turnVars, messages, outVars, told>>

-----------------------------------------------------------------------------
(* The outbox task of a socket, pump_outbox.                               *)

\* Mutant of Pump: the event is taken out after it was sent.
PumpPeeking(c) ==
    /\ pump[c] = "waiting" /\ outbox # <<>>
    /\ conn[c] = "open"
    /\ Write(c, emitted[Head(outbox)])
    /\ \/ outbox' = Tail(outbox)
       \/ UNCHANGED outbox
    /\ UNCHANGED <<turnVars, messages, emitted, lost, conn, pump, replies>>

\* Mutant of Pump: the task ends when the session has stopped.
PumpUntilStopped(c) ==
    /\ pump[c] = "waiting" /\ outbox # <<>>
    /\ conn[c] = "open" /\ ~stopped
    /\ Write(c, emitted[Head(outbox)])
    /\ outbox' = Tail(outbox)
    /\ UNCHANGED <<turnVars, messages, emitted, lost, conn, pump, replies>>

Pump(c) ==
    /\ pump[c] = "waiting" /\ outbox # <<>>
    /\ conn[c] = "open"
    /\ Write(c, emitted[Head(outbox)])
    /\ outbox' = Tail(outbox)
    /\ UNCHANGED <<turnVars, messages, emitted, lost, conn, pump, replies>>

\* The send raises, the task dies with the event in its hand, and nobody
\* looks after it before the receiving task is through.
PumpRaises(c) ==
    /\ pump[c] = "waiting" /\ outbox # <<>>
    /\ conn[c] = "cut"
    /\ pump' = [pump EXCEPT ![c] = "dead"]
    /\ lost' = lost \cup {Head(outbox)}
    /\ outbox' = Tail(outbox)
    /\ UNCHANGED <<turnVars, messages, emitted, conn, replies, told>>

-----------------------------------------------------------------------------
SocketNext ==
    \/ SpeechDrains \/ SessionStops \/ Post
    \/ \E c \in Sockets :
         \/ Connect(c) \/ Receive(c) \/ Reply(c) \/ Cut(c) \/ Shut(c)
         \/ Pump(c) \/ PumpRaises(c)

\* The tasks of a socket run when they can.
SocketFairness ==
    \A c \in Sockets :
        /\ WF_socketVars(Pump(c) \/ PumpRaises(c))
        /\ WF_socketVars(Reply(c))
        /\ WF_socketVars(Shut(c))

-----------------------------------------------------------------------------
(* Properties                                                              *)

ToldTo(c) == {told[c][i].place : i \in DOMAIN told[c]} \ {0}

\* Every event of the session is in one place: still in the outbox, taken
\* for a client that was gone, or told on one socket, once (service.py,
\* pump_outbox: all sockets share one outbox, and what nobody heard waits
\* for the next).  A socket gets them in the order they were emitted.
OutboxKept ==
    /\ \A i \in DOMAIN emitted :
         Cardinality({c \in Sockets : i \in ToldTo(c)})
           + (IF i \in lost THEN 1 ELSE 0)
           + Cardinality({j \in DOMAIN outbox : outbox[j] = i}) = 1
    /\ \A c \in Sockets : \A i, j \in DOMAIN told[c] :
         i < j /\ told[c][i].place # 0 /\ told[c][j].place # 0 =>
             told[c][i].place < told[c][j].place

\* Replies overtake the outbox (service.py, control_socket), so that the last
\* state a client heard may be an old one; but it never hears the end of an
\* utterance before its start, nor anything that says that the utterance
\* which the session is speaking has ended.
EndAfterStart ==
    \A c \in Sockets : \A i \in DOMAIN told[c] :
        told[c][i].kind = "ended" =>
            /\ told[c][i].utterance # event
            /\ \A j \in i..Len(told[c]) :
                 told[c][j].kind = "started" =>
                     told[c][j].utterance > told[c][i].utterance

\* What the render loop and stop() emit does not stay in the outbox while a
\* client keeps a socket open (service.py, pump_outbox).
OutboxDrains ==
    \A c \in Sockets : conn[c] = "open" /\ outbox # <<>> ~>
        conn[c] # "open" \/ outbox = <<>>
=============================================================================
