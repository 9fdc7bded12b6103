-------------------------- MODULE MCAvatarSession --------------------------
(* Model values for AvatarSession: see MCAvatarSession*.cfg.               *)
EXTENDS AvatarSession
=============================================================================
