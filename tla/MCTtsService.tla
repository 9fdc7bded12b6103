---------------------------- MODULE MCTtsService ----------------------------
(* Model values for TtsService: see MCTtsService.cfg.                      *)
EXTENDS TtsService, TLC

CONSTANTS s1, s2

\* A text that is longer than queue and thread can hold, and a short one.
LongAndShort == s1 :> MaxChunks @@ s2 :> 2
=============================================================================
