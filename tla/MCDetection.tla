---------------------------- MODULE MCDetection ----------------------------
(* Instance of Detection for TLC: three hwmon numbers, so that two other    *)
(* chips may register beside the fan's, which has the legacy name and is    *)
(* found by the second query.                                               *)
EXTENDS Detection
=============================================================================
