--------------------------- MODULE MCBootHistory ---------------------------
(* Instance of BootHistory for TLC. *)
EXTENDS BootHistory
CONSTANTS mini, internal
=============================================================================
