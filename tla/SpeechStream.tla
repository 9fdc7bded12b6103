---------------------------- MODULE SpeechStream ----------------------------
(***************************************************************************)
(* What the text-to-speech lane promises of one synthesis, without threads,*)
(* queues or an event loop (hydralisk/tts/seam.py, TtsAdapter): the caller *)
(* hears the chunks the model makes, each once and in the order they were  *)
(* made, and a stream is complete only when the model had finished and the *)
(* last chunk was heard.  It may fail or be left at any time; what a model *)
(* makes after that nobody hears.                                          *)
(***************************************************************************)
EXTENDS Naturals, Sequences

CONSTANT Streams

VARIABLES
    phase,     \* idle, speaking, complete, failed, left
    made,      \* the chunks the model has made
    finished,  \* the model said that there are no more
    heard      \* the chunks the caller has, by number

streamVars == <<phase, made, finished, heard>>

StreamInit ==
    /\ phase = [s \in Streams |-> "idle"]
    /\ made = [s \in Streams |-> 0]
    /\ finished = [s \in Streams |-> FALSE]
    /\ heard = [s \in Streams |-> <<>>]

Begin(s) ==
    /\ phase[s] = "idle"
    /\ phase' = [phase EXCEPT ![s] = "speaking"]
    /\ UNCHANGED <<made, finished, heard>>

Make(s) ==
    /\ phase[s] # "idle" /\ ~finished[s]
    /\ made' = [made EXCEPT ![s] = @ + 1]
    /\ UNCHANGED <<phase, finished, heard>>

Finish(s) ==
    /\ phase[s] # "idle"
    /\ finished' = [finished EXCEPT ![s] = TRUE]
    /\ UNCHANGED <<phase, made, heard>>

Hear(s) ==
    /\ phase[s] = "speaking"
    /\ Len(heard[s]) < made[s]
    /\ heard' = [heard EXCEPT ![s] = Append(@, Len(@) + 1)]
    /\ UNCHANGED <<phase, made, finished>>

Complete(s) ==
    /\ phase[s] = "speaking"
    /\ finished[s] /\ Len(heard[s]) = made[s]
    /\ phase' = [phase EXCEPT ![s] = "complete"]
    /\ UNCHANGED <<made, finished, heard>>

GiveUp(s) ==
    /\ phase[s] \in {"idle", "speaking"}
    /\ phase' \in {[phase EXCEPT ![s] = over] : over \in {"failed", "left"}}
    /\ UNCHANGED <<made, finished, heard>>

StreamNext ==
    \E s \in Streams :
        \/ Begin(s) \/ Make(s) \/ Finish(s)
        \/ Hear(s) \/ Complete(s) \/ GiveUp(s)

StreamSpec == StreamInit /\ [][StreamNext]_streamVars
=============================================================================
