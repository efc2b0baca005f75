------------------------------- MODULE Service -------------------------------
(***************************************************************************)
(* SuperXService.set_capability (service.py) over the two D-Bus owners and *)
(* the sysfs backend: which layer a request reaches, what its answer means,*)
(* and what the rest of the machine may do in between.                     *)
(***************************************************************************)
EXTENDS Integers

CONSTANTS
  Validated,                                        \* validated_writes
  Profiles, Levels, Drift, MaxReads,                \* the owners
  BacklightMax, Preferences, Clean, Foreign, InitialFiles,  \* the backend
  Gone, None,
  Requests          \* the calls made, as pairs <<capability id, argument>>

(* policy.py: writes whose transport is an existing owner, never sysfs. *)
OWNER_ROUTED_WRITES == {"performance.epp", "display.brightness"}

(* Capability ids set_capability dispatches on, of contracts.py's fifteen. *)
Dispatched == {"performance.cpu_boost", "performance.epp",
               "cooling.internal_fan", "display.brightness"}

CapabilityIds == Dispatched \cup
  {"performance.power_target", "cooling.frost_bay.telemetry",
   "cooling.frost_bay.control", "display.mode", "power.battery",
   "power.charge_control", "storage.mini_ssd.presence",
   "storage.mini_ssd.reliability", "device.rgb",
   "device.controller_integration", "diagnostics.export"}

VARIABLES
  svc,                                           \* the request being served
  bus, late, call, since,                        \* Owners
  dry_run, file, found, authorized, job, held    \* Platform

O == INSTANCE Owners WITH Arguments <- {}

(* The backend the service builds: owner-routed writes are never granted.  *)
BackendGrant == Validated \ OWNER_ROUTED_WRITES

P == INSTANCE Platform WITH Granted <- BackendGrant, Requests <- {}

ownerVars    == <<bus, late, call, since>>
platformVars == <<dry_run, file, found, authorized, job, held>>
vars == <<svc, bus, late, call, since,
          dry_run, file, found, authorized, job, held>>

ASSUME ServiceAssumption ==
  /\ Validated \subseteq CapabilityIds
  /\ None \notin {"owner", "backend"}
  /\ MaxReads \in Nat \ {0}
  /\ \A contents \in InitialFiles : DOMAIN contents = P!Files
  /\ \A r \in Requests : r[2].kind = "number" => r[2].of \in Int

Idle == [at |-> "idle", via |-> None, cap |-> None, value |-> None,
         success |-> FALSE]

Init ==
  /\ svc = Idle
  /\ O!Init
  /\ dry_run = FALSE   \* the constructor's default
  /\ P!Init

-----------------------------------------------------------------------------

(* Slip: any known capability is authorized. *)
_write_authorized_Known(cap) == cap \in CapabilityIds

(* coerce_capability_id gives None for anything that is no capability id. *)
_write_authorized(cap) == cap \in CapabilityIds /\ cap \in Validated

(* Slip: int(round(value)). *)
Truncated_Rounds(value) ==
  IF value.kind # "number" THEN value.of ELSE (value.of + 5) \div 10

(* int(value): a fraction is cut off towards zero, a bool is a number, and  *)
(* a numeral, the text of an integer, is read as that integer.              *)
Truncated(value) ==
  IF value.kind # "number" THEN value.of
  ELSE IF value.of >= 0 THEN value.of \div 10 ELSE -((-value.of) \div 10)

Answerable(cap, value) ==
  \/ cap \in OWNER_ROUTED_WRITES
  \/ cap = "performance.cpu_boost" /\ value.kind = "bool"
  \/ cap = "cooling.internal_fan" /\ value.kind \in {"number", "bool", "numeral"}

(* Unknown, unauthorized, of the wrong type, or not a writable capability. *)
Refuse(cap, value) ==
  /\ ~ (_write_authorized(cap) /\ Answerable(cap, value))
  /\ svc' = [Idle EXCEPT !.at = "done", !.cap = cap, !.value = value]
  /\ UNCHANGED <<ownerVars, platformVars>>

ToOwner(cap, value) ==
  /\ _write_authorized(cap)
  /\ cap \in OWNER_ROUTED_WRITES
  /\ svc' = [Idle EXCEPT !.at = "probe", !.cap = cap, !.value = value]
  /\ UNCHANGED <<ownerVars, platformVars>>

ToBackend(cap, value) ==
  /\ _write_authorized(cap) /\ Answerable(cap, value)
  /\ \/ cap = "performance.cpu_boost" /\ P!Call("set_cpu_boost", value.of)
     \/ cap = "cooling.internal_fan" /\ P!Call("set_fan_duty", Truncated(value))
  /\ svc' = [Idle EXCEPT !.at = "serving", !.via = "backend", !.cap = cap,
                        !.value = value]
  /\ UNCHANGED ownerVars

set_capability(cap, value) ==
  /\ svc.at = "idle"
  /\ Refuse(cap, value) \/ ToOwner(cap, value) \/ ToBackend(cap, value)

OwnerOf(cap) == IF cap = "performance.epp" THEN "ppd" ELSE "gsd"

Done(ok) == svc' = [svc EXCEPT !.at = "done", !.success = ok]

(* The owner answers the availability read: its set() begins, unless the   *)
(* session has no backlight.                                               *)
ProbeAnswered ==
  /\ svc.at = "probe"
  /\ bus[OwnerOf(svc.cap)] \notin {Gone, O!NoBacklight}
  /\ O!Begin(OwnerOf(svc.cap), svc.value)
  /\ svc' = [svc EXCEPT !.at = "serving", !.via = "owner"]
  /\ UNCHANGED platformVars

(* Slips: sysfs is written when the owner does not answer; an owner that is *)
(* gone is not taken for an answer.                                         *)
ProbeFails_FallsBack ==
  /\ svc.at = "probe"
  /\ IF svc.cap = "performance.epp" THEN P!Call("set_epp", svc.value.of)
     ELSE P!Call("set_display_brightness_percent", svc.value.of \div 10)
  /\ svc' = [svc EXCEPT !.at = "serving", !.via = "backend"]
  /\ UNCHANGED ownerVars

ProbeFails_OnlyNoBacklight ==
  /\ svc.at = "probe" /\ bus[OwnerOf(svc.cap)] = O!NoBacklight
  /\ Done(FALSE)
  /\ UNCHANGED <<ownerVars, platformVars>>

(* read() gave None or -1: sysfs is not an authorized path. *)
ProbeFails ==
  /\ svc.at = "probe"
  /\ Done(FALSE)
  /\ UNCHANGED <<ownerVars, platformVars>>

OwnerStep ==
  /\ svc.at = "serving" /\ svc.via = "owner"
  /\ O!Step
  /\ UNCHANGED <<svc, platformVars>>

(* Slip: a set() that came back is a success. *)
OwnerReturns_Trusting ==
  /\ svc.at = "serving" /\ svc.via = "owner"
  /\ O!Take
  /\ Done(TRUE)
  /\ UNCHANGED platformVars

OwnerReturns ==
  /\ svc.at = "serving" /\ svc.via = "owner"
  /\ O!Take
  /\ Done(call.success)
  /\ UNCHANGED platformVars

BackendStep ==
  /\ svc.at = "serving" /\ svc.via = "backend"
  /\ P!Step
  /\ UNCHANGED <<svc, ownerVars>>

BackendReturns ==
  /\ svc.at = "serving" /\ svc.via = "backend"
  /\ P!Take
  /\ Done(job.success)
  /\ UNCHANGED ownerVars

(* The caller has its answer. *)
Answered ==
  /\ svc.at = "done"
  /\ svc' = Idle
  /\ UNCHANGED <<ownerVars, platformVars>>

(* get_capability_snapshot between two requests re-detects the paths. *)
Refresh ==
  /\ svc.at = "idle"
  /\ P!Refresh
  /\ UNCHANGED <<svc, ownerVars>>

World ==
  \/ O!World /\ UNCHANGED <<svc, platformVars>>
  \/ P!Interfere /\ UNCHANGED <<svc, ownerVars>>

Serving == ProbeAnswered \/ ProbeFails \/ OwnerStep \/ OwnerReturns
             \/ BackendStep \/ BackendReturns \/ Answered

Next ==
  \/ \E r \in Requests : set_capability(r[1], r[2])
  \/ Serving
  \/ Refresh
  \/ World

(* set_capability runs to completion in the thread of the user interface. *)
Spec == Init /\ [][Next]_vars /\ WF_vars(Serving)
-----------------------------------------------------------------------------
(* Type invariant: the service's own state and that of both layers. *)
TypeOK ==
  /\ svc.at \in {"idle", "probe", "serving", "done"}
  /\ svc.via \in {None, "owner", "backend"} /\ svc.success \in BOOLEAN
  /\ O!TypeOK
  /\ P!TypeOK

(* A request whose capability is not production-validated reaches neither  *)
(* the bus nor the backend.                                                *)
UnvalidatedReachesNobody ==
  (svc.at # "idle" /\ svc.cap \notin Validated) =>
    /\ svc.via = None /\ svc.at = "done" /\ ~ svc.success
    /\ call.at = "idle" /\ job.at = "idle"

(* "If an owner disappears the service refuses the write and never falls   *)
(* back to sysfs": serving an owner-routed capability leaves the backend   *)
(* idle, and the backend could not write its attributes if it were asked.  *)
NoSysfsFallback ==
  /\ svc.cap \in OWNER_ROUTED_WRITES => job.at = "idle"
  /\ \A f \in {"epp", "backlight"} : held[f] = {}
  /\ authorized \cap OWNER_ROUTED_WRITES = {}

(* The duty n is what is left of the argument without its fraction. *)
WholeDuty(n, value) ==
  IF value.kind # "number" THEN n = value.of
  ELSE value.of \in (IF n = 0 THEN -9 ELSE 10 * n) .. 10 * n + 9

(* The state a request asks its destination for. *)
Wanted ==
  IF svc.at = "idle" \/ svc.cap \notin Dispatched \/ ~ Answerable(svc.cap, svc.value)
  THEN None
  ELSE CASE svc.cap = "cooling.internal_fan" ->
              IF \E n \in P!Duties : WholeDuty(n, svc.value)
              THEN P!RawPwm(CHOOSE n \in P!Duties : WholeDuty(n, svc.value)) ELSE None
         [] svc.cap = "display.brightness" /\ svc.value.kind = "number"
                                             -> svc.value.of \div 10
         [] OTHER                            -> svc.value.of

Destination ==
  IF svc.via = "owner" THEN since
  ELSE IF svc.via = "backend"
  THEN held[IF svc.cap = "performance.cpu_boost" THEN "boost" ELSE "fan_pwm"]
  ELSE {}

Phase ==
  CASE svc.at = "idle" -> "idle"
    [] svc.at = "done" -> IF svc.success THEN "ok" ELSE "failed"
    [] OTHER           -> "busy"

(* The service implements VerifiedWrite: a success it reports was verified *)
(* at the destination that owns the capability, through whichever layer.   *)
V == INSTANCE VerifiedWrite WITH
       phase <- Phase, cap <- svc.cap, want <- Wanted, seen <- Destination

ImplementsVerifiedWrite == V!Spec

(* Every request is answered. *)
EveryRequestAnswered == svc.at # "idle" ~> svc.at = "idle"
======================================================================================================================================================
