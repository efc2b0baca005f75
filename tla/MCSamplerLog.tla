---------------------------- MODULE MCSamplerLog ----------------------------
(* Instance of SamplerLog for TLC. *)
EXTENDS SamplerLog
CONSTANTS timer, manual, i1, i2, i3, i4
=============================================================================
