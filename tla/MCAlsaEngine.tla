---------------------------- MODULE MCAlsaEngine ----------------------------
(* Model values for checking AlsaEngine and Watchdog with TLC. *)
EXTENDS AlsaEngine
=============================================================================
