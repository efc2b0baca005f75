---------------------------- MODULE VerifiedWrite ----------------------------
(***************************************************************************)
(* What set_capability promises, without saying how: a request is served   *)
(* only if its capability is production-validated, and it succeeds only if *)
(* its destination was seen to hold the requested state at or after the    *)
(* write. It may fail at any time, with or without an effect.              *)
(***************************************************************************)
CONSTANTS
  Validated,     \* the production-validated capabilities
  None           \* no request

VARIABLES
  phase,         \* "idle", "busy", "ok" or "failed"
  cap,           \* the capability asked for
  want,          \* the state asked of its destination
  seen           \* what its destination has held since it was written

vars == <<phase, cap, want, seen>>

Init ==
  /\ phase = "idle"
  /\ cap = None /\ want = None
  /\ seen = {}

Request ==
  /\ phase = "idle"
  /\ phase' \in {"busy", "failed"}
  /\ seen' = {}

(* The destination is written, or changes after it was. *)
Serve ==
  /\ cap \in Validated
  /\ seen \subseteq seen'
  /\ UNCHANGED <<phase, cap, want>>

Succeed ==
  /\ phase = "busy"
  /\ want \in seen
  /\ phase' = "ok"
  /\ UNCHANGED <<cap, want, seen>>

Fail ==
  /\ phase = "busy"
  /\ phase' = "failed"
  /\ UNCHANGED <<cap, want, seen>>

Answer ==
  /\ phase \in {"ok", "failed"}
  /\ phase' = "idle"
  /\ cap' = None /\ want' = None
  /\ seen' = {}

Next == Request \/ Serve \/ Succeed \/ Fail \/ Answer

Spec == Init /\ [][Next]_vars
=============================================================================
