------------------------- MODULE MCSessionLifecycle -------------------------
(* Model values for SessionLifecycle: see MCSessionLifecycle*.cfg.         *)
EXTENDS SessionLifecycle

CONSTANTS m1, m2, m3

MCMintOrder == <<m1, m2, m3>>
=============================================================================
