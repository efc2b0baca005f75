----------------------------- MODULE MCBootLog -----------------------------
(* Instance of BootLog for TLC. *)
EXTENDS BootLog
CONSTANTS mini, internal, external
=============================================================================
