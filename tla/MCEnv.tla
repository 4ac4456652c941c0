------------------------------- MODULE MCEnv -------------------------------
(* Small instances of Env for TLC. *)
EXTENDS Env
=============================================================================
