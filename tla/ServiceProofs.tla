---------------------------- MODULE ServiceProofs ----------------------------
(* The routing of set_capability, for every validated set, every request   *)
(* and everything the owners, the kernel and other clients may do.         *)
EXTENDS Service, TLAPS

BackendFiles == {"boost", "fan_pwm", "fan_pwm_enable"}

Shapes ==
  /\ DOMAIN svc = {"at", "via", "cap", "value", "success"}
  /\ DOMAIN job = {"at", "op", "target", "path", "value", "cap", "previous",
                   "observed", "success"}
  /\ DOMAIN call = {"at", "owner", "value", "observed", "reads", "success"}
  /\ DOMAIN held = P!Files

(* Which layer is at work at each place of set_capability. *)
Routing ==
  /\ svc.at \in {"idle", "probe", "serving", "done"}
  /\ svc.at # "serving" => call.at = "idle" /\ job.at = "idle"
  /\ svc.at = "idle" => svc.cap = None
  /\ svc.at = "probe" => svc.cap \in Validated \cap OWNER_ROUTED_WRITES
  /\ svc.at = "serving" =>
       \/ /\ svc.via = "owner" /\ job.at = "idle"
          /\ svc.cap \in Validated \cap OWNER_ROUTED_WRITES
       \/ /\ svc.via = "backend" /\ call.at = "idle"
          /\ svc.cap \in Validated \ OWNER_ROUTED_WRITES
  /\ svc.at = "done" /\ svc.cap \notin Validated => svc.via = None /\ ~ svc.success

(* What the backend may touch and is allowed to. *)
Confined ==
  /\ job.at \in {"enter", "write", "read", "check"} => job.path \in BackendFiles
  /\ \A f \in P!Files \ BackendFiles : held[f] = {}
  /\ authorized \subseteq BackendGrant \cup {"fan_manual_enable"}
  /\ job.at \in {"enter", "write", "read", "check"} =>
       job.previous \subseteq BackendGrant \cup {"fan_manual_enable"}

IInv == Shapes /\ Routing /\ Confined

LEMMA InitIInv == Init => IInv
BY DEF Init, IInv, Idle, O!Init, O!Idle, P!Init, P!Idle, Shapes, Routing,
       Confined, P!Files

(* A request that is dispatched to the backend enters one of its files.    *)
LEMMA BackendCall ==
  ASSUME IInv, job.at = "idle", NEW op \in {"set_cpu_boost", "set_fan_duty"},
         NEW target, P!Call(op, target)
  PROVE  /\ Confined' /\ DOMAIN job' = DOMAIN job /\ DOMAIN held' = P!Files
         /\ job'.at \in {"enter", "done"}
<1>1. P!PathOf(op) \in BackendFiles
  BY DEF P!PathOf, BackendFiles
<1>2. held' = [f \in P!Files |-> {}]
  BY DEF P!Call
<1>3. CASE P!Refuse(op, target)
  BY <1>2, <1>3 DEF P!Refuse, P!Idle, IInv, Shapes, Confined
<1>4. CASE P!EnterManualMode(op, target)
  BY <1>2, <1>4 DEF P!EnterManualMode, P!Idle, IInv, Shapes, Confined,
                    BackendFiles
<1>5. CASE P!EnterWrite(op, target)
  BY <1>1, <1>2, <1>5 DEF P!EnterWrite, P!Idle, IInv, Shapes, Confined
<1> QED BY <1>3, <1>4, <1>5 DEF P!Call

LEMMA BackendReturn ==
  ASSUME IInv, job.at \in {"enter", "write", "read", "check"}, NEW ok, NEW seen,
         P!Return(ok, seen), UNCHANGED held
  PROVE  /\ Confined' /\ DOMAIN job' = DOMAIN job
<1>1. authorized' \subseteq BackendGrant \cup {"fan_manual_enable"}
  BY DEF P!Return, P!Restored, IInv, Confined
<1>2. CASE P!InManualMode /\ ok
  BY <1>1, <1>2 DEF P!Return, IInv, Shapes, Confined, BackendFiles
<1>3. CASE ~ (P!InManualMode /\ ok)
  BY <1>1, <1>3 DEF P!Return, IInv, Shapes, Confined
<1> QED BY <1>2, <1>3

LEMMA BackendMoves ==
  ASSUME IInv, P!Step
  PROVE  /\ Confined' /\ DOMAIN job' = DOMAIN job /\ DOMAIN held' = P!Files
         /\ job.at # "idle"
<1>1. CASE P!Enter
  <2>1. job.at = "enter" /\ UNCHANGED held
    BY <1>1 DEF P!Enter
  <2>2. CASE \E ok \in BOOLEAN, seen \in {None, job.value} : P!Return(ok, seen)
    BY <2>1, <2>2, BackendReturn DEF IInv, Shapes
  <2>3. CASE job' = [job EXCEPT !.at = "write"] /\ UNCHANGED authorized
    BY <2>1, <2>3 DEF IInv, Shapes, Confined
  <2> QED BY <1>1, <2>2, <2>3 DEF P!Enter
<1>2. CASE P!WriteText
  <2>1. job.path \in BackendFiles
    BY <1>2 DEF P!WriteText, IInv, Confined
  <2>2. PICK content : held' = [held EXCEPT ![job.path] = {content}]
    BY <1>2 DEF P!WriteText
  <2> QED
    BY <1>2, <2>1, <2>2 DEF P!WriteText, IInv, Shapes, Confined
<1>3. CASE P!ReadText
  BY <1>3 DEF P!ReadText, IInv, Shapes, Confined
<1>4. CASE P!Raise
  BY <1>4, BackendReturn DEF P!Raise, IInv, Shapes
<1>5. CASE P!Check
  BY <1>5, BackendReturn DEF P!Check, IInv, Shapes
<1> QED BY <1>1, <1>2, <1>3, <1>4, <1>5 DEF P!Step

LEMMA NextIInv == IInv /\ [Next]_vars => IInv'
<1> SUFFICES ASSUME IInv, [Next]_vars PROVE IInv'
  OBVIOUS
<1> USE DEF IInv, ownerVars, platformVars
<1>1. ASSUME NEW cap, NEW value, set_capability(cap, value) PROVE IInv'
  <2>1. svc.at = "idle" /\ call.at = "idle" /\ job.at = "idle"
    BY <1>1 DEF set_capability, Routing
  <2>2. CASE Refuse(cap, value)
    BY <2>1, <2>2 DEF Refuse, Idle, Shapes, Routing, Confined
  <2>3. CASE ToOwner(cap, value)
    BY <2>1, <2>3 DEF ToOwner, _write_authorized, Idle, Shapes, Routing, Confined
  <2>4. CASE ToBackend(cap, value)
    <3>1. /\ Confined' /\ DOMAIN job' = DOMAIN job /\ DOMAIN held' = P!Files
      BY <2>1, <2>4, BackendCall DEF ToBackend
    <3>2. cap \in Validated \ OWNER_ROUTED_WRITES
      BY <2>4 DEF ToBackend, _write_authorized, OWNER_ROUTED_WRITES
    <3> QED
      BY <2>1, <2>4, <3>1, <3>2 DEF ToBackend, Idle, Shapes, Routing
  <2> QED BY <1>1, <2>2, <2>3, <2>4 DEF set_capability
<1>2. ASSUME ProbeAnswered PROVE IInv'
  BY <1>2 DEF ProbeAnswered, O!Begin, O!Idle, Shapes, Routing, Confined
<1>3. ASSUME ProbeFails PROVE IInv'
  BY <1>3 DEF ProbeFails, Done, Shapes, Routing, Confined
<1>4. ASSUME OwnerStep PROVE IInv'
  <2>1. DOMAIN call' = DOMAIN call /\ call.at # "idle"
    BY <1>4 DEF OwnerStep, O!Step, O!ListProfiles, O!GetCurrent, O!SetAnswered,
                O!SetTimesOut, O!Get, O!Compare, O!Fails, O!End
  <2> QED
    BY <1>4, <2>1 DEF OwnerStep, Shapes, Routing, Confined
<1>5. ASSUME OwnerReturns PROVE IInv'
  BY <1>5 DEF OwnerReturns, O!Take, O!Idle, Done, Shapes, Routing, Confined
<1>6. ASSUME BackendStep PROVE IInv'
  BY <1>6, BackendMoves DEF BackendStep, Shapes, Routing
<1>7. ASSUME BackendReturns PROVE IInv'
  BY <1>7 DEF BackendReturns, P!Take, P!Idle, Done, Shapes, Routing, Confined
<1>8. ASSUME Answered PROVE IInv'
  BY <1>8 DEF Answered, Idle, Shapes, Routing, Confined
<1>9. ASSUME Refresh PROVE IInv'
  BY <1>9 DEF Refresh, P!Refresh, Shapes, Routing, Confined
<1>10. ASSUME O!World, UNCHANGED <<svc, platformVars>> PROVE IInv'
  <2>1. UNCHANGED call
    BY <1>10 DEF O!World, O!ApplyLate, O!Interfere
  <2> QED BY <1>10, <2>1 DEF Shapes, Routing, Confined
<1>11. ASSUME P!Interfere, UNCHANGED <<svc, ownerVars>> PROVE IInv'
  <2>1. PICK f \in P!Files : \E content :
          /\ held' = [held EXCEPT ![f] = IF @ = {} THEN {} ELSE @ \cup {content}]
          /\ UNCHANGED <<found, authorized, job>>
    BY <1>11 DEF P!Interfere
  <2> QED BY <1>11, <2>1 DEF Shapes, Routing, Confined
<1>12. CASE UNCHANGED vars
  BY <1>12 DEF vars, Shapes, Routing, Confined
<1> QED
  BY <1>1, <1>2, <1>3, <1>4, <1>5, <1>6, <1>7, <1>8, <1>9, <1>10, <1>11, <1>12
     DEF Next, Serving, World

LEMMA IInvHolds == Spec => []IInv
<1> QED BY InitIInv, NextIInv, PTL DEF Spec

-----------------------------------------------------------------------------
(* What the two layers have established at each place of their operations. *)

Legal(owner, value) ==
  IF owner = "gsd" THEN O!LegalBrightness(value) ELSE O!LegalProfile(value)

Numeric(value) == value.kind = "number" => value.of \in Int

(* The owner's set() is the one of this request. Until its Set is sent the *)
(* history is empty; then it holds the present value and what was read.    *)
OwnerPart ==
  /\ O!TypeOK /\ call.success \in BOOLEAN
  /\ (svc.at = "serving" /\ svc.via = "owner") =>
       call.at # "idle" /\ call.owner = OwnerOf(svc.cap) /\ call.value = svc.value
  /\ call.at # "idle" => Numeric(call.value)
  /\ call.at = "profiles" => call.owner = "ppd"
  /\ call.at = "current" => call.owner = "gsd" /\ O!LegalBrightness(call.value)
  /\ call.at \in {"set", "get", "compare"} =>
       call.owner \in O!OwnerNames /\ Legal(call.owner, call.value)
  /\ call.at \in {"profiles", "current", "set"} => call.reads = 0 /\ since = {}
  /\ call.at = "get" =>
       call.reads < MaxReads /\ (call.owner = "ppd" => call.reads = 0)
  /\ call.at \in {"get", "compare"} => bus[call.owner] \in since
  /\ call.at = "compare" => call.observed \in since
  /\ (call.at = "done" /\ call.success) =>
       /\ Legal(call.owner, call.value)
       /\ O!Sent(call.owner, call.value) \in since

Busy == job.at \in {"enter", "write", "read", "check"}

OperationOf(cap) ==
  IF cap = "performance.cpu_boost" THEN "set_cpu_boost" ELSE "set_fan_duty"

TargetOf(cap, value) ==
  IF cap = "performance.cpu_boost" THEN value.of ELSE Truncated(value)

(* The backend's operation is the one of this request, outside a dry run.  *)
(* Its own attribute is untouched until its own write, and its history     *)
(* then holds the present content and what was read.                       *)
BackendPart ==
  /\ P!TypeOK /\ ~dry_run
  /\ (svc.at = "serving" /\ svc.via = "backend") =>
       /\ job.at # "idle" /\ svc.cap \in {"performance.cpu_boost", "cooling.internal_fan"}
       /\ job.op = OperationOf(svc.cap) /\ job.target = TargetOf(svc.cap, svc.value)
       /\ Answerable(svc.cap, svc.value)
  /\ Busy => job.op \in {"set_cpu_boost", "set_fan_duty"}
  /\ (Busy \/ (job.at = "done" /\ job.success)) =>
       (job.op = "set_fan_duty" => job.target \in P!Duties)
  /\ Busy => IF P!InManualMode
             THEN job.op = "set_fan_duty" /\ job.path = "fan_pwm_enable"
             ELSE job.path = P!PathOf(job.op) /\ job.value = P!RawOf(job.op, job.target)
  /\ (Busy /\ (P!InManualMode \/ job.at \in {"enter", "write"})) =>
       \A f \in P!Files \ {"fan_pwm_enable"} : held[f] = {}
  /\ job.at = "read" => file[job.path] \in held[job.path]
  /\ job.at = "check" => job.observed \in held[job.path]
  /\ (job.at = "done" /\ job.success) =>
       P!RawOf(job.op, job.target) \in held[P!PathOf(job.op)]

(* The request itself.                                                     *)
RequestPart ==
  /\ svc.success \in BOOLEAN
  /\ svc.at \in {"idle", "probe"} => svc.via = None
  /\ svc.at # "idle" => Numeric(svc.value)
  /\ svc.via \in {None, "owner", "backend"}
  /\ svc.via # None => svc.cap \in Validated
  /\ svc.at \in {"idle", "probe", "serving"} => ~svc.success

Layers == OwnerPart /\ BackendPart /\ RequestPart

LEMMA LegalIsSent ==
  ASSUME NEW owner \in O!OwnerNames, NEW value, Legal(owner, value), Numeric(value)
  PROVE  IF owner = "gsd" THEN O!Sent(owner, value) \in 0 .. 100
         ELSE O!Sent(owner, value) \in Profiles
BY SMT DEF Legal, Numeric, O!LegalBrightness, O!LegalProfile, O!Sent

LEMMA OwnerInit == Init => OwnerPart
<1> SUFFICES ASSUME Init PROVE OwnerPart
  OBVIOUS
<1>1. PICK profile \in Profiles, level \in Levels \cup {O!NoBacklight} :
        bus = [owner \in O!OwnerNames |-> IF owner = "ppd" THEN profile ELSE level]
  BY DEF Init, O!Init
<1>2. bus["ppd"] = profile /\ DOMAIN bus = O!OwnerNames
  BY <1>1 DEF O!OwnerNames
<1>3. O!TypeOK
  BY <1>2, ServiceAssumption DEF Init, O!Init, O!TypeOK, O!Idle, O!Places
<1> QED
  BY <1>3 DEF Init, Idle, O!Init, O!Idle, OwnerPart

LEMMA OwnerBegins ==
  ASSUME IInv, OwnerPart, RequestPart, ProbeAnswered
  PROVE  OwnerPart'
<1> DEFINE owner == OwnerOf(svc.cap)
<1> USE ServiceAssumption
<1>1. /\ svc.at = "probe" /\ UNCHANGED <<bus, late>> /\ since' = {}
      /\ call' = [O!Idle EXCEPT !.owner = owner, !.value = svc.value,
                                !.at = O!FirstPlace(owner, svc.value)]
      /\ svc' = [svc EXCEPT !.at = "serving", !.via = "owner"]
  BY DEF ProbeAnswered, O!Begin
<1>2. /\ svc'.cap = svc.cap /\ svc'.value = svc.value
      /\ call'.owner = owner /\ call'.value = svc.value /\ call'.reads = 0
      /\ call'.success = FALSE /\ call'.at = O!FirstPlace(owner, svc.value)
  BY <1>1 DEF IInv, Shapes, O!Idle
<1>3. /\ owner \in O!OwnerNames
      /\ call'.at \in {"profiles", "current", "done"}
      /\ call'.at = "profiles" => owner = "ppd"
      /\ call'.at = "current" => owner = "gsd" /\ O!LegalBrightness(svc.value)
  BY <1>2 DEF O!FirstPlace, OwnerOf, O!OwnerNames
<1>4. Numeric(svc.value)
  BY <1>1 DEF RequestPart
<1> HIDE DEF owner
<1>5. O!TypeOK'
  BY <1>1, <1>2, <1>3 DEF OwnerPart, O!TypeOK, O!Places
<1> QED
  BY <1>1, <1>2, <1>3, <1>4, <1>5 DEF OwnerPart, owner

LEMMA OwnerMoves ==
  ASSUME IInv, OwnerPart, O!Step, UNCHANGED svc
  PROVE  OwnerPart'
<1> USE ServiceAssumption
<1> USE DEF IInv, Shapes, OwnerPart, O!TypeOK, O!OwnerNames, O!Places
<1>1. CASE O!ListProfiles
  <2>1. /\ call.at = "profiles" /\ call.owner = "ppd" /\ call.reads = 0
        /\ UNCHANGED <<bus, late, since>>
    BY <1>1 DEF O!ListProfiles
  <2>2. CASE O!LegalProfile(call.value)
    <3>1. call' = [call EXCEPT !.at = "set"]
      BY <1>1, <2>2 DEF O!ListProfiles
    <3> QED BY <2>1, <2>2, <3>1 DEF Legal
  <2>3. CASE ~ O!LegalProfile(call.value)
    <3>1. O!End(FALSE, None)
      BY <1>1, <2>3 DEF O!ListProfiles
    <3> QED BY <2>1, <3>1 DEF O!End
  <2> QED BY <2>2, <2>3
<1>2. CASE O!GetCurrent
  <2>1. /\ call.at = "current" /\ call.owner = "gsd" /\ call.reads = 0
        /\ O!LegalBrightness(call.value)
        /\ UNCHANGED <<bus, late, since>>
    BY <1>2 DEF O!GetCurrent
  <2>2. CASE bus["gsd"] = O!NoBacklight
    <3>1. O!End(FALSE, O!NoBacklight)
      BY <1>2, <2>2 DEF O!GetCurrent
    <3> QED BY <2>1, <3>1 DEF O!End
  <2>3. CASE bus["gsd"] # O!NoBacklight
    <3>1. call' = [call EXCEPT !.at = "set"]
      BY <1>2, <2>3 DEF O!GetCurrent
    <3> QED BY <2>1, <3>1 DEF Legal
  <2> QED BY <2>2, <2>3
<1>3. CASE O!SetAnswered
  <2> DEFINE v == O!Sent(call.owner, call.value)
  <2>1. /\ call.owner \in O!OwnerNames /\ call.reads = 0 /\ call.at = "set"
        /\ IF call.owner = "gsd" THEN v \in 0 .. 100 ELSE v \in Profiles
    BY <1>3, LegalIsSent DEF O!SetAnswered
  <2>2. /\ call' = [call EXCEPT !.at = "get"]
        /\ since' = {bus'[call.owner]}
        /\ \/ bus' = [bus EXCEPT ![call.owner] = v] /\ UNCHANGED late
           \/ late' = late \cup {<<call.owner, v>>} /\ UNCHANGED bus
    BY <1>3 DEF O!SetAnswered
  <2> HIDE DEF v
  <2>3. O!TypeOK'
    BY <2>1, <2>2
  <2> QED BY <2>1, <2>2, <2>3
<1>4. CASE O!SetTimesOut
  <2> DEFINE v == O!Sent(call.owner, call.value)
  <2>1. /\ call.owner \in O!OwnerNames
        /\ IF call.owner = "gsd" THEN v \in 0 .. 100 ELSE v \in Profiles
    BY <1>4, LegalIsSent DEF O!SetTimesOut
  <2>2. /\ late' = late \cup {<<call.owner, v>>} /\ UNCHANGED bus
        /\ call' = [call EXCEPT !.at = "done", !.success = FALSE, !.observed = None]
    BY <1>4 DEF O!SetTimesOut, O!End
  <2> HIDE DEF v
  <2>3. O!TypeOK'
    BY <2>1, <2>2
  <2>4. /\ call.at = "set" /\ call'.at = "done" /\ call'.success = FALSE
        /\ call'.owner = call.owner /\ call'.value = call.value
    BY <1>4, <2>2 DEF O!SetTimesOut
  <2> HIDE DEF O!TypeOK
  <2> QED BY <2>3, <2>4 DEF Numeric
<1>5. CASE O!Get
  BY <1>5 DEF O!Get
<1>6. CASE O!Compare
  <2>1. /\ call.at = "compare" /\ call.owner \in O!OwnerNames
        /\ Legal(call.owner, call.value) /\ call.observed \in since
        /\ UNCHANGED <<bus, late, since>>
    BY <1>6 DEF O!Compare
  <2>2. CASE call.observed = O!Sent(call.owner, call.value)
    <3>1. O!End(TRUE, call.observed)
      BY <1>6, <2>2 DEF O!Compare
    <3> QED BY <2>1, <2>2, <3>1 DEF O!End
  <2>3. CASE /\ call.observed # O!Sent(call.owner, call.value)
             /\ call.owner = "gsd" /\ call.reads < MaxReads
    <3>1. call' = [call EXCEPT !.at = "get"]
      BY <1>6, <2>3 DEF O!Compare
    <3> QED BY <2>1, <2>3, <3>1
  <2>4. CASE /\ call.observed # O!Sent(call.owner, call.value)
             /\ ~ (call.owner = "gsd" /\ call.reads < MaxReads)
    <3>1. O!End(FALSE, call.observed)
      BY <1>6, <2>4 DEF O!Compare
    <3> QED BY <2>1, <3>1 DEF O!End
  <2> QED BY <2>2, <2>3, <2>4
<1>7. CASE O!Fails
  <2>1. /\ call.at \in {"profiles", "current", "set", "get"}
        /\ call' = [call EXCEPT !.at = "done", !.success = FALSE,
                               !.observed = call.observed]
        /\ UNCHANGED <<bus, late, since>>
    BY <1>7 DEF O!Fails, O!End
  <2>2. /\ call'.at = "done" /\ call'.success = FALSE
        /\ call'.owner = call.owner /\ call'.value = call.value
        /\ call'.reads = call.reads
    BY <2>1
  <2>3. O!TypeOK'
    BY <2>1, <2>2
  <2>4. call.at # "idle" /\ Numeric(call.value)
    BY <2>1
  <2> HIDE DEF O!TypeOK
  <2> QED BY <2>1, <2>2, <2>3, <2>4 DEF Numeric
<1> QED BY <1>1, <1>2, <1>3, <1>4, <1>5, <1>6, <1>7 DEF O!Step

(* The daemons and their clients.                                           *)
LEMMA BecomesOwner ==
  ASSUME IInv, OwnerPart, UNCHANGED <<svc, call>>, late' \subseteq late,
         NEW owner \in O!OwnerNames, NEW value, O!Becomes(owner, value),
         owner = "ppd" => value \in Profiles \cup Drift["ppd"]
  PROVE  OwnerPart'
<1>1. /\ bus' = [bus EXCEPT ![owner] = value]
      /\ since' = IF owner = call.owner /\ since # {} THEN since \cup {value} ELSE since
  BY DEF O!Becomes
<1>2. O!TypeOK'
  BY <1>1 DEF OwnerPart, O!TypeOK, O!OwnerNames
<1>3. since \subseteq since' /\ (since = {} => since' = {})
  BY <1>1
<1>4. call.at \in {"get", "compare"} => bus'[call.owner] \in since'
  BY <1>1 DEF OwnerPart, O!TypeOK
<1> QED BY <1>2, <1>3, <1>4 DEF OwnerPart

LEMMA OwnerWorld ==
  ASSUME IInv, OwnerPart, O!World, UNCHANGED svc
  PROVE  OwnerPart'
<1>1. CASE O!ApplyLate
  <2>1. PICK s \in late : /\ late' = late \ {s}
                          /\ O!Becomes(s[1], s[2])
                          /\ UNCHANGED call
    BY <1>1 DEF O!ApplyLate
  <2>2. \/ s[1] = "ppd" /\ s[2] \in Profiles
        \/ s[1] = "gsd"
    BY DEF OwnerPart, O!TypeOK
  <2> QED BY <2>1, <2>2, BecomesOwner DEF O!OwnerNames
<1>2. CASE O!Interfere
  <2>1. PICK owner \in O!OwnerNames : \E value \in Drift[owner] \ {bus[owner]} :
          /\ O!Becomes(owner, value)
          /\ late' = IF value = Gone THEN {s \in late : s[1] # owner} ELSE late
          /\ UNCHANGED call
    BY <1>2 DEF O!Interfere
  <2> QED BY <2>1, BecomesOwner
<1> QED BY <1>1, <1>2 DEF O!World

LEMMA OwnerRests ==
  ASSUME OwnerPart, UNCHANGED ownerVars, ~(svc'.at = "serving" /\ svc'.via = "owner")
  PROVE  OwnerPart'
BY DEF OwnerPart, ownerVars, O!TypeOK

LEMMA BackendInit == Init => BackendPart
<1> SUFFICES ASSUME Init PROVE BackendPart
  OBVIOUS
<1>1. P!TypeOK
  BY ServiceAssumption
     DEF Init, P!Init, P!Idle, P!TypeOK, P!Places, P!Existing, P!Files
<1> QED BY <1>1 DEF Init, Idle, P!Init, P!Idle, BackendPart, Busy

LEMMA BackendBegins ==
  ASSUME IInv, IInv', BackendPart, NEW cap, NEW value, ToBackend(cap, value)
  PROVE  BackendPart'
<1> DEFINE op == OperationOf(cap)
           target == TargetOf(cap, value)
<1>1. /\ cap \in {"performance.cpu_boost", "cooling.internal_fan"}
      /\ P!Call(op, target) /\ Answerable(cap, value)
      /\ svc' = [Idle EXCEPT !.at = "serving", !.via = "backend", !.cap = cap,
                             !.value = value]
  BY DEF ToBackend, OperationOf, TargetOf
<1>2. svc'.cap = cap /\ svc'.value = value
  BY <1>1 DEF Idle
<1>3. op \in {"set_cpu_boost", "set_fan_duty"}
  BY DEF OperationOf
<1> HIDE DEF op, target
<1>4. held' = [f \in P!Files |-> {}] /\ UNCHANGED <<dry_run, file, found>>
  BY <1>1 DEF P!Call
<1>5. /\ job'.at \in {"enter", "done"} /\ job'.op = op /\ job'.target = target
      /\ job'.success = FALSE
      /\ job'.at = "enter" =>
           IF P!InManualMode'
           THEN op = "set_fan_duty" /\ job'.path = "fan_pwm_enable"
           ELSE job'.path = P!PathOf(op) /\ job'.value = P!RawOf(op, target)
      /\ (job'.at = "enter" /\ op = "set_fan_duty") => target \in P!Duties
  <2>1. CASE P!Refuse(op, target)
    BY <2>1 DEF P!Refuse, P!Idle
  <2>2. CASE P!EnterManualMode(op, target)
    BY <2>2 DEF P!EnterManualMode, P!Idle, P!InManualMode, P!Refused
  <2>3. CASE P!EnterWrite(op, target)
    <3>1. P!CapabilityOf(op) # "fan_manual_enable"
      BY DEF P!CapabilityOf
    <3> QED BY <2>3, <3>1 DEF P!EnterWrite, P!Idle, P!InManualMode, P!Refused
  <2> QED BY <1>1, <2>1, <2>2, <2>3 DEF P!Call
<1>6. P!PathOf(op) \in P!Files
  BY DEF P!PathOf, P!Files
<1>7. P!TypeOK'
  BY <1>3, <1>4, <1>5, <1>6
     DEF BackendPart, P!TypeOK, P!Places, P!Operations, P!Files, IInv, Confined
<1> QED
  BY <1>1, <1>2, <1>3, <1>4, <1>5, <1>7 DEF BackendPart, Busy, op, target

(* _safe_write comes back; a success was seen, but for the duty still to be *)
(* written after the manual mode.                                           *)
LEMMA BackendReturns1 ==
  ASSUME IInv, IInv', BackendPart, Busy, NEW ok \in BOOLEAN, NEW seen,
         P!Return(ok, seen), UNCHANGED <<svc, dry_run, file, found, held>>,
         (ok /\ ~P!InManualMode) => job.value \in held[job.path]
  PROVE  BackendPart'
<1>1. DOMAIN job = {"at", "op", "target", "path", "value", "cap", "previous",
                    "observed", "success"}
  BY DEF IInv, Shapes
<1>2. CASE P!InManualMode /\ ok
  <2>1. job' = [job EXCEPT !.at = "enter", !.path = "fan_pwm",
                           !.value = P!RawOf(job.op, job.target),
                           !.cap = "cooling.internal_fan", !.observed = None]
    BY <1>2 DEF P!Return
  <2>2. job.op = "set_fan_duty"
    BY <1>2 DEF BackendPart
  <2>3. /\ job'.at = "enter" /\ job'.op = job.op /\ job'.target = job.target
        /\ job'.path = P!PathOf(job.op) /\ job'.value = P!RawOf(job.op, job.target)
        /\ job'.cap = "cooling.internal_fan" /\ job'.success = job.success
    BY <1>1, <2>1, <2>2 DEF P!PathOf
  <2>4. ~P!InManualMode' /\ Busy' /\ job'.path \in P!Files
    BY <2>2, <2>3 DEF P!InManualMode, Busy, P!PathOf, P!Files
  <2>5. P!TypeOK'
    BY <2>2, <2>3, <2>4 DEF BackendPart, P!TypeOK, P!Places, P!Operations, IInv, Confined
  <2> QED
    BY <1>2, <2>2, <2>3, <2>4, <2>5 DEF BackendPart
<1>3. CASE ~(P!InManualMode /\ ok)
  <2>1. job' = [job EXCEPT !.at = "done", !.success = ok, !.observed = seen]
    BY <1>3 DEF P!Return
  <2>2. /\ job'.at = "done" /\ job'.op = job.op /\ job'.target = job.target
        /\ job'.path = job.path /\ job'.success = ok
    BY <1>1, <2>1
  <2>3. P!TypeOK'
    BY <2>2 DEF BackendPart, P!TypeOK, P!Places, IInv, Confined
  <2>4. ok => P!RawOf(job.op, job.target) \in held[P!PathOf(job.op)]
    BY <1>3 DEF BackendPart
  <2> QED BY <2>2, <2>3, <2>4 DEF BackendPart, Busy
<1> QED BY <1>2, <1>3

LEMMA BackendStepPart ==
  ASSUME IInv, IInv', BackendPart, P!Step, UNCHANGED svc
  PROVE  BackendPart'
<1>1. /\ DOMAIN job = {"at", "op", "target", "path", "value", "cap", "previous",
                       "observed", "success"}
      /\ ~dry_run
  BY DEF IInv, Shapes, BackendPart
<1>2. CASE P!Enter
  <2>1. Busy /\ job.at = "enter" /\ UNCHANGED <<dry_run, file, found, held>>
    BY <1>2 DEF P!Enter, Busy
  <2>2. CASE P!Return(FALSE, None)
    BY <2>1, <2>2, BackendReturns1
  <2>3. CASE job' = [job EXCEPT !.at = "write"] /\ UNCHANGED authorized
    <3>1. /\ job'.at = "write" /\ job'.op = job.op /\ job'.target = job.target
          /\ job'.path = job.path /\ job'.value = job.value /\ job'.cap = job.cap
          /\ job'.success = job.success
      BY <1>1, <2>3
    <3>2. P!TypeOK'
      BY <2>1, <2>3, <3>1 DEF BackendPart, P!TypeOK, P!Places
    <3> QED
      BY <2>1, <3>1, <3>2 DEF BackendPart, Busy, P!InManualMode
  <2> QED BY <1>1, <1>2, <2>2, <2>3 DEF P!Enter
<1>3. CASE P!WriteText
  <2>1. PICK content :
          /\ file' = [file EXCEPT ![job.path] = content]
          /\ held' = [held EXCEPT ![job.path] = {content}]
    BY <1>3 DEF P!WriteText
  <2>2. /\ job.at = "write" /\ job' = [job EXCEPT !.at = "read"]
        /\ UNCHANGED <<dry_run, found, authorized>>
    BY <1>3 DEF P!WriteText
  <2>3. /\ job'.at = "read" /\ job'.op = job.op /\ job'.target = job.target
        /\ job'.path = job.path /\ job'.value = job.value /\ job'.cap = job.cap
        /\ job'.success = job.success
    BY <1>1, <2>2
  <2>4. job.path \in P!Files /\ file'[job.path] \in held'[job.path]
    BY <2>1, <2>2 DEF BackendPart, P!TypeOK
  <2>5. P!TypeOK'
    BY <2>1, <2>2, <2>3 DEF BackendPart, P!TypeOK, P!Places
  <2>6. P!InManualMode => \A f \in P!Files \ {"fan_pwm_enable"} : held'[f] = {}
    BY <2>1, <2>2 DEF BackendPart, Busy, P!TypeOK
  <2> QED
    BY <2>2, <2>3, <2>4, <2>5, <2>6 DEF BackendPart, Busy, P!InManualMode
<1>4. CASE P!ReadText
  <2>1. /\ job.at = "read" /\ job' = [job EXCEPT !.at = "check", !.observed = file[job.path]]
        /\ UNCHANGED <<dry_run, file, found, authorized, held>>
    BY <1>4 DEF P!ReadText
  <2>2. /\ job'.at = "check" /\ job'.op = job.op /\ job'.target = job.target
        /\ job'.path = job.path /\ job'.value = job.value /\ job'.cap = job.cap
        /\ job'.success = job.success /\ job'.observed = file[job.path]
    BY <1>1, <2>1
  <2>3. P!TypeOK'
    BY <2>1, <2>2 DEF BackendPart, P!TypeOK, P!Places
  <2> QED
    BY <2>1, <2>2, <2>3 DEF BackendPart, Busy, P!InManualMode
<1>5. CASE P!Raise
  BY <1>5, BackendReturns1 DEF P!Raise, Busy
<1>6. CASE P!Check
  <2>1. /\ job.at = "check" /\ Busy /\ UNCHANGED <<dry_run, file, found, held>>
        /\ P!Return(job.observed = job.value, job.observed)
        /\ job.observed \in held[job.path]
    BY <1>6 DEF P!Check, Busy, BackendPart
  <2> QED BY <2>1, BackendReturns1
<1> QED BY <1>2, <1>3, <1>4, <1>5, <1>6 DEF P!Step

LEMMA BackendWorld ==
  ASSUME IInv, IInv', BackendPart, P!Interfere, UNCHANGED svc
  PROVE  BackendPart'
<1>1. PICK f \in P!Files : \E content :
        /\ file' = [file EXCEPT ![f] = content]
        /\ held' = [held EXCEPT ![f] = IF @ = {} THEN {} ELSE @ \cup {content}]
        /\ UNCHANGED <<dry_run, found, authorized, job>>
  BY DEF P!Interfere
<1>2. PICK content :
        /\ file' = [file EXCEPT ![f] = content]
        /\ held' = [held EXCEPT ![f] = IF @ = {} THEN {} ELSE @ \cup {content}]
        /\ UNCHANGED <<dry_run, found, authorized, job>>
  BY <1>1
<1>3. /\ \A g \in P!Files : held[g] = {} => held'[g] = {}
      /\ \A g \in P!Files : held[g] \subseteq held'[g]
      /\ \A g \in P!Files : file[g] \in held[g] => file'[g] \in held'[g]
  BY <1>2 DEF BackendPart, P!TypeOK
<1>4. P!TypeOK'
  BY <1>2 DEF BackendPart, P!TypeOK
<1>5. P!PathOf(job.op) \in P!Files
  BY DEF P!PathOf, P!Files
<1>6. job.at \in {"read", "check"} => job.path \in P!Files
  BY DEF BackendPart, P!TypeOK
<1> QED
  BY <1>2, <1>3, <1>4, <1>5, <1>6 DEF BackendPart, Busy, P!InManualMode

LEMMA BackendRests ==
  ASSUME BackendPart, ~(svc'.at = "serving" /\ svc'.via = "backend"),
         \/ UNCHANGED platformVars
         \/ P!Take
         \/ P!Refresh
  PROVE  BackendPart'
<1>1. CASE UNCHANGED platformVars
  BY <1>1 DEF BackendPart, platformVars, P!TypeOK, Busy, P!InManualMode
<1>2. CASE P!Take
  BY <1>2 DEF P!Take, P!Idle, BackendPart, P!TypeOK, P!Places, Busy
<1>3. CASE P!Refresh
  BY <1>3 DEF P!Refresh, P!Existing, BackendPart, P!TypeOK, Busy
<1> QED BY <1>1, <1>2, <1>3

LEMMA LayersInit == Init => Layers
<1> SUFFICES ASSUME Init PROVE Layers
  OBVIOUS
<1>1. RequestPart
  BY DEF Init, Idle, RequestPart
<1> QED BY <1>1, OwnerInit, BackendInit DEF Layers

LEMMA LayersNext == IInv /\ IInv' /\ Layers /\ [Next]_vars => Layers'
<1> SUFFICES ASSUME IInv, IInv', Layers, [Next]_vars PROVE Layers'
  OBVIOUS
<1> USE ServiceAssumption DEF Layers
<1>0. DOMAIN svc = {"at", "via", "cap", "value", "success"}
  BY DEF IInv, Shapes
<1>1. ASSUME NEW r \in Requests, set_capability(r[1], r[2]) PROVE Layers'
  <2>1. /\ svc.at = "idle" /\ job.at = "idle" /\ Numeric(r[2])
    BY <1>1 DEF set_capability, IInv, Routing, Numeric
  <2>2. CASE Refuse(r[1], r[2]) \/ ToOwner(r[1], r[2])
    <3>1. /\ svc'.at \in {"done", "probe"} /\ svc'.via = None /\ svc'.value = r[2]
          /\ svc'.success = FALSE /\ UNCHANGED <<ownerVars, platformVars>>
      BY <2>2 DEF Refuse, ToOwner, Idle
    <3>2. OwnerPart' /\ BackendPart'
      BY <3>1, OwnerRests, BackendRests
    <3> QED BY <2>1, <3>1, <3>2 DEF RequestPart
  <2>3. CASE ToBackend(r[1], r[2])
    <3>1. /\ svc'.at = "serving" /\ svc'.via = "backend" /\ svc'.value = r[2]
          /\ svc'.cap = r[1] /\ svc'.success = FALSE /\ UNCHANGED ownerVars
          /\ r[1] \in Validated
      BY <2>3 DEF ToBackend, Idle, _write_authorized
    <3>2. OwnerPart' /\ BackendPart'
      BY <2>3, <3>1, OwnerRests, BackendBegins
    <3> QED BY <2>1, <3>1, <3>2 DEF RequestPart
  <2> QED BY <1>1, <2>2, <2>3 DEF set_capability
<1>2. ASSUME ProbeAnswered PROVE Layers'
  <2>1. /\ svc'.at = "serving" /\ svc'.via = "owner" /\ svc'.value = svc.value
        /\ svc'.cap = svc.cap /\ svc'.success = svc.success
        /\ svc.at = "probe" /\ UNCHANGED platformVars
    BY <1>0, <1>2 DEF ProbeAnswered
  <2>2. OwnerPart' /\ BackendPart'
    BY <1>2, <2>1, OwnerBegins, BackendRests
  <2>3. svc.cap \in Validated
    BY <2>1 DEF IInv, Routing
  <2> QED BY <2>1, <2>2, <2>3 DEF RequestPart, Numeric
<1>3. ASSUME ProbeFails PROVE Layers'
  <2>1. /\ svc'.at = "done" /\ svc'.via = svc.via /\ svc'.value = svc.value
        /\ svc'.cap = svc.cap /\ svc'.success = FALSE
        /\ svc.at = "probe" /\ UNCHANGED <<ownerVars, platformVars>>
    BY <1>0, <1>3 DEF ProbeFails, Done
  <2>2. OwnerPart' /\ BackendPart'
    BY <2>1, OwnerRests, BackendRests
  <2> QED BY <2>1, <2>2 DEF RequestPart, Numeric
<1>4. ASSUME OwnerStep PROVE Layers'
  <2>1. O!Step /\ UNCHANGED <<svc, platformVars>> /\ svc.via = "owner"
    BY <1>4 DEF OwnerStep
  <2>2. OwnerPart' /\ BackendPart'
    BY <2>1, OwnerMoves, BackendRests
  <2> QED BY <2>1, <2>2 DEF RequestPart, Numeric
<1>5. ASSUME OwnerReturns PROVE Layers'
  <2>1. /\ svc'.at = "done" /\ svc'.via = svc.via /\ svc'.value = svc.value
        /\ svc'.cap = svc.cap /\ svc'.success = call.success
        /\ svc.at = "serving" /\ O!Take /\ UNCHANGED platformVars
    BY <1>0, <1>5 DEF OwnerReturns, Done
  <2>2. OwnerPart'
    BY <2>1 DEF O!Take, O!Idle, OwnerPart, O!TypeOK, O!Places
  <2>3. BackendPart'
    BY <2>1, BackendRests
  <2>4. call.success \in BOOLEAN
    BY <2>1 DEF O!Take, OwnerPart
  <2> QED BY <2>1, <2>2, <2>3, <2>4 DEF RequestPart, Numeric
<1>6. ASSUME BackendStep PROVE Layers'
  <2>1. P!Step /\ UNCHANGED <<svc, ownerVars>> /\ svc.via = "backend"
    BY <1>6 DEF BackendStep
  <2>2. OwnerPart' /\ BackendPart'
    BY <2>1, OwnerRests, BackendStepPart
  <2> QED BY <2>1, <2>2 DEF RequestPart, Numeric
<1>7. ASSUME BackendReturns PROVE Layers'
  <2>1. /\ svc'.at = "done" /\ svc'.via = svc.via /\ svc'.value = svc.value
        /\ svc'.cap = svc.cap /\ svc'.success = job.success
        /\ svc.at = "serving" /\ P!Take /\ UNCHANGED ownerVars
    BY <1>0, <1>7 DEF BackendReturns, Done
  <2>2. OwnerPart' /\ BackendPart'
    BY <2>1, OwnerRests, BackendRests
  <2>3. job.success \in BOOLEAN
    BY DEF BackendPart, P!TypeOK
  <2> QED BY <2>1, <2>2, <2>3 DEF RequestPart, Numeric
<1>8. ASSUME Answered PROVE Layers'
  <2>1. /\ svc'.at = "idle" /\ svc'.via = None /\ svc'.success = FALSE
        /\ UNCHANGED <<ownerVars, platformVars>>
    BY <1>8 DEF Answered, Idle
  <2>2. OwnerPart' /\ BackendPart'
    BY <2>1, OwnerRests, BackendRests
  <2> QED BY <2>1, <2>2 DEF RequestPart
<1>9. ASSUME Refresh PROVE Layers'
  <2>1. svc.at = "idle" /\ P!Refresh /\ UNCHANGED <<svc, ownerVars>>
    BY <1>9 DEF Refresh
  <2>2. OwnerPart' /\ BackendPart'
    BY <2>1, OwnerRests, BackendRests
  <2> QED BY <2>1, <2>2 DEF RequestPart
<1>10. ASSUME O!World, UNCHANGED <<svc, platformVars>> PROVE Layers'
  <2>1. OwnerPart'
    BY <1>10, OwnerWorld
  <2>2. BackendPart'
    BY <1>10 DEF BackendPart, platformVars, P!TypeOK, Busy, P!InManualMode
  <2> QED BY <1>10, <2>1, <2>2 DEF RequestPart, Numeric
<1>11. ASSUME P!Interfere, UNCHANGED <<svc, ownerVars>> PROVE Layers'
  <2>1. BackendPart'
    BY <1>11, BackendWorld
  <2>2. OwnerPart'
    BY <1>11 DEF OwnerPart, ownerVars, O!TypeOK
  <2> QED BY <1>11, <2>1, <2>2 DEF RequestPart, Numeric
<1>12. CASE UNCHANGED vars
  BY <1>12 DEF vars, OwnerPart, O!TypeOK, BackendPart, P!TypeOK, Busy, P!InManualMode,
     RequestPart, Numeric
<1> QED
  BY <1>1, <1>2, <1>3, <1>4, <1>5, <1>6, <1>7, <1>8, <1>9, <1>10, <1>11, <1>12
     DEF Next, Serving, World

LEMMA LayersHold == Spec => [](IInv /\ Layers)
<1> QED BY InitIInv, NextIInv, LayersInit, LayersNext, PTL DEF Spec

-----------------------------------------------------------------------------
(* The refinement. *)

(* What is wanted of a request served is what its layer writes.             *)
LEMMA WantedOfOwner ==
  ASSUME IInv, Layers, svc.at = "serving", svc.via = "owner",
         call.at = "done", call.success
  PROVE  Wanted \in since
<1>1. /\ svc.cap \in OWNER_ROUTED_WRITES
      /\ call.owner = OwnerOf(svc.cap) /\ call.value = svc.value
      /\ Legal(call.owner, call.value) /\ O!Sent(call.owner, call.value) \in since
  BY ServiceAssumption DEF IInv, Routing, Layers, OwnerPart
<1>2. CASE svc.cap = "performance.epp"
  <2>1. Wanted = svc.value.of
    BY <1>2 DEF Wanted, Dispatched, Answerable, OWNER_ROUTED_WRITES
  <2> QED BY <1>1, <1>2, <2>1 DEF OwnerOf, O!Sent
<1>3. CASE svc.cap = "display.brightness"
  <2>1. svc.value.kind = "number"
    BY <1>1, <1>3 DEF OwnerOf, Legal, O!LegalBrightness
  <2>2. Wanted = svc.value.of \div 10
    BY <1>3, <2>1 DEF Wanted, Dispatched, Answerable, OWNER_ROUTED_WRITES
  <2> QED BY <1>1, <1>3, <2>2 DEF OwnerOf, O!Sent
<1> QED BY <1>1, <1>2, <1>3 DEF OWNER_ROUTED_WRITES

(* Cutting a fraction off is what int() does.                               *)
LEMMA TruncatedIsWhole ==
  ASSUME NEW value, Numeric(value), NEW n \in P!Duties
  PROVE  WholeDuty(n, value) <=> n = Truncated(value)
<1>1. CASE value.kind # "number"
  BY <1>1 DEF WholeDuty, Truncated
<1>2. CASE value.kind = "number"
  <2>1. value.of \in Int /\ n \in 0 .. 100
    BY <1>2 DEF Numeric, P!Duties
  <2>2. ASSUME NEW v \in Int
        PROVE  v \in (IF n = 0 THEN -9 ELSE 10 * n) .. 10 * n + 9
                 <=> n = IF v >= 0 THEN v \div 10 ELSE -((-v) \div 10)
    BY <2>1, <2>2
  <2> QED BY <1>2, <2>1, <2>2 DEF WholeDuty, Truncated
<1> QED BY <1>1, <1>2

LEMMA WantedOfBackend ==
  ASSUME IInv, Layers, svc.at = "serving", svc.via = "backend",
         job.at = "done", job.success
  PROVE  Wanted \in Destination
<1>1. /\ svc.cap \in {"performance.cpu_boost", "cooling.internal_fan"}
      /\ job.op = OperationOf(svc.cap) /\ job.target = TargetOf(svc.cap, svc.value)
      /\ Answerable(svc.cap, svc.value)
      /\ P!RawOf(job.op, job.target) \in held[P!PathOf(job.op)]
  BY ServiceAssumption DEF Layers, BackendPart
<1>2. CASE svc.cap = "performance.cpu_boost"
  <2>1. Wanted = svc.value.of /\ Destination = held["boost"]
    BY <1>1, <1>2 DEF Wanted, Dispatched, Destination
  <2> QED BY <1>1, <1>2, <2>1 DEF OperationOf, TargetOf, P!RawOf, P!PathOf
<1>3. CASE svc.cap = "cooling.internal_fan"
  <2>2. Truncated(svc.value) \in P!Duties /\ Numeric(svc.value)
    BY <1>1, <1>3 DEF Layers, BackendPart, RequestPart, OperationOf, TargetOf
  <2>3. \A n \in P!Duties : WholeDuty(n, svc.value) <=> n = Truncated(svc.value)
    BY <2>2, TruncatedIsWhole
  <2>4. /\ \E n \in P!Duties : WholeDuty(n, svc.value)
        /\ (CHOOSE n \in P!Duties : WholeDuty(n, svc.value)) = Truncated(svc.value)
    BY <2>2, <2>3
  <2>1. /\ Wanted = P!RawPwm(Truncated(svc.value)) /\ Destination = held["fan_pwm"]
    BY <1>1, <1>3, <2>4 DEF Wanted, Dispatched, Destination
  <2> QED BY <1>1, <1>3, <2>1 DEF OperationOf, TargetOf, P!RawOf, P!PathOf
<1> QED BY <1>1, <1>2, <1>3

(* A step below the facade, or of the world: what the destination has held  *)
(* only grows.                                                              *)
LEMMA ServesOrStutters ==
  ASSUME IInv, Layers, UNCHANGED svc, Destination \subseteq Destination'
  PROVE  [V!Next]_(V!vars)
<1>1. UNCHANGED <<Phase, svc.cap, Wanted>>
  BY DEF Phase, Wanted
<1>2. CASE svc.via = None
  <2>1. UNCHANGED Destination
    BY <1>2, ServiceAssumption DEF Destination
  <2> QED BY <1>1, <2>1 DEF V!vars
<1>3. CASE svc.via # None
  <2>1. svc.cap \in Validated
    BY <1>3 DEF Layers, RequestPart
  <2> QED BY <1>1, <2>1 DEF V!Next, V!Serve
<1> QED BY <1>2, <1>3

LEMMA RefinesInit == Init => V!Init
BY ServiceAssumption DEF Init, Idle, V!Init, Phase, Wanted, Destination

LEMMA RefinesNext == IInv /\ IInv' /\ Layers /\ Layers' /\ [Next]_vars => [V!Next]_(V!vars)
<1> SUFFICES ASSUME IInv, IInv', Layers, Layers', [Next]_vars PROVE [V!Next]_(V!vars)
  OBVIOUS
<1> USE ServiceAssumption
<1>0. /\ DOMAIN svc = {"at", "via", "cap", "value", "success"}
      /\ DOMAIN held = P!Files
  BY DEF IInv, Shapes
<1>1. ASSUME NEW r \in Requests, set_capability(r[1], r[2]) PROVE V!Next
  <2>1. svc.at = "idle"
    BY <1>1 DEF set_capability
  <2>2. CASE Refuse(r[1], r[2]) \/ ToOwner(r[1], r[2])
    <3>1. /\ svc'.at \in {"done", "probe"} /\ svc'.via = None /\ svc'.success = FALSE
      BY <2>2 DEF Refuse, ToOwner, Idle
    <3> QED
      BY <2>1, <3>1 DEF V!Next, V!Request, Phase, Destination
  <2>3. CASE ToBackend(r[1], r[2])
    <3>1. svc'.at = "serving" /\ svc'.via = "backend"
      BY <2>3 DEF ToBackend, Idle
    <3>2. held' = [f \in P!Files |-> {}]
      BY <2>3 DEF ToBackend, P!Call
    <3>3. Destination' = {}
      BY <3>1, <3>2 DEF Destination, P!Files
    <3> QED
      BY <2>1, <3>1, <3>3 DEF V!Next, V!Request, Phase
  <2> QED BY <1>1, <2>2, <2>3 DEF set_capability
<1>2. ASSUME ProbeAnswered PROVE [V!Next]_(V!vars)
  <2>1. /\ svc'.at = "serving" /\ svc'.via = "owner" /\ svc'.value = svc.value
        /\ svc'.cap = svc.cap /\ svc.at = "probe" /\ svc.via = None /\ since' = {}
    BY <1>0, <1>2 DEF ProbeAnswered, O!Begin, Layers, RequestPart
  <2> QED BY <2>1 DEF V!vars, Phase, Wanted, Destination
<1>3. ASSUME ProbeFails PROVE V!Next
  <2>1. /\ svc'.at = "done" /\ svc'.via = svc.via /\ svc'.value = svc.value
        /\ svc'.cap = svc.cap /\ svc'.success = FALSE
        /\ svc.at = "probe" /\ UNCHANGED <<since, held>>
    BY <1>0, <1>3 DEF ProbeFails, Done, ownerVars, platformVars
  <2> QED BY <2>1 DEF V!Next, V!Fail, Phase, Wanted, Destination
<1>4. ASSUME OwnerStep PROVE [V!Next]_(V!vars)
  <2>1. O!Step /\ UNCHANGED svc /\ svc.via = "owner"
    BY <1>4 DEF OwnerStep
  <2>2. since \subseteq since'
    BY <2>1 DEF O!Step, O!ListProfiles, O!GetCurrent, O!SetAnswered, O!SetTimesOut,
       O!Get, O!Compare, O!Fails, Layers, OwnerPart
  <2> QED BY <2>1, <2>2, ServesOrStutters DEF Destination
<1>5. ASSUME OwnerReturns PROVE V!Next
  <2>1. /\ svc'.at = "done" /\ svc'.via = svc.via /\ svc'.value = svc.value
        /\ svc'.cap = svc.cap /\ svc'.success = call.success
        /\ svc.at = "serving" /\ svc.via = "owner" /\ call.at = "done"
        /\ UNCHANGED since
    BY <1>0, <1>5 DEF OwnerReturns, O!Take, Done
  <2>2. UNCHANGED <<svc.cap, Wanted, Destination>> /\ Phase = "busy"
        /\ Phase' = IF call.success THEN "ok" ELSE "failed"
    BY <2>1 DEF Wanted, Destination, Phase
  <2>3. call.success => Wanted \in Destination
    BY <2>1, WantedOfOwner DEF Destination
  <2> QED BY <2>2, <2>3 DEF V!Next, V!Succeed, V!Fail
<1>6. ASSUME BackendStep PROVE [V!Next]_(V!vars)
  <2>1. P!Step /\ UNCHANGED svc /\ svc.via = "backend" /\ svc.at = "serving"
    BY <1>6 DEF BackendStep
  <2>2. \A f \in {"boost", "fan_pwm"} : held[f] \subseteq held'[f]
    <3>1. CASE UNCHANGED held
      BY <3>1
    <3>2. CASE P!WriteText
      <4>1. job.at = "write" /\ \A f \in P!Files \ {"fan_pwm_enable"} : held[f] = {}
        BY <3>2 DEF P!WriteText, Layers, BackendPart, Busy
      <4> QED BY <4>1 DEF P!Files
    <3> QED
      BY <2>1, <3>1, <3>2 DEF P!Step, P!Enter, P!ReadText, P!Raise, P!Check
  <2> QED BY <2>1, <2>2, ServesOrStutters DEF Destination
<1>7. ASSUME BackendReturns PROVE V!Next
  <2>1. /\ svc'.at = "done" /\ svc'.via = svc.via /\ svc'.value = svc.value
        /\ svc'.cap = svc.cap /\ svc'.success = job.success
        /\ svc.at = "serving" /\ svc.via = "backend" /\ job.at = "done"
        /\ UNCHANGED held
    BY <1>0, <1>7 DEF BackendReturns, P!Take, Done
  <2>2. UNCHANGED <<svc.cap, Wanted, Destination>> /\ Phase = "busy"
        /\ Phase' = IF job.success THEN "ok" ELSE "failed"
    BY <2>1 DEF Wanted, Destination, Phase
  <2>3. job.success => Wanted \in Destination
    BY <2>1, WantedOfBackend
  <2>4. job.success \in BOOLEAN
    BY DEF Layers, BackendPart, P!TypeOK
  <2> QED BY <2>2, <2>3, <2>4 DEF V!Next, V!Succeed, V!Fail
<1>8. ASSUME Answered PROVE V!Next
  <2>1. svc.at = "done" /\ svc' = Idle
    BY <1>8 DEF Answered
  <2>2. svc'.at = "idle" /\ svc'.via = None /\ svc'.cap = None
    BY <2>1 DEF Idle
  <2> QED
    BY <2>1, <2>2 DEF V!Next, V!Answer, Phase, Wanted, Destination
<1>9. ASSUME Refresh PROVE [V!Next]_(V!vars)
  <2>1. UNCHANGED <<svc, since, held>>
    BY <1>9 DEF Refresh, P!Refresh, ownerVars
  <2> QED BY <2>1, ServesOrStutters DEF Destination
<1>10. ASSUME O!World, UNCHANGED <<svc, platformVars>> PROVE [V!Next]_(V!vars)
  <2>1. since \subseteq since'
    BY <1>10 DEF O!World, O!ApplyLate, O!Interfere, O!Becomes
  <2> QED BY <1>10, <2>1, ServesOrStutters DEF Destination, platformVars
<1>11. ASSUME P!Interfere, UNCHANGED <<svc, ownerVars>> PROVE [V!Next]_(V!vars)
  <2>1. PICK f \in P!Files : \E content :
          held' = [held EXCEPT ![f] = IF @ = {} THEN {} ELSE @ \cup {content}]
    BY <1>11 DEF P!Interfere
  <2>2. \A g \in {"boost", "fan_pwm"} : held[g] \subseteq held'[g]
    BY <1>0, <2>1 DEF P!Files
  <2> QED BY <1>11, <2>2, ServesOrStutters DEF Destination, ownerVars
<1>12. CASE UNCHANGED vars
  BY <1>12 DEF vars, V!vars, Phase, Wanted, Destination
<1> QED
  BY <1>1, <1>2, <1>3, <1>4, <1>5, <1>6, <1>7, <1>8, <1>9, <1>10, <1>11, <1>12
     DEF Next, Serving, World

-----------------------------------------------------------------------------
(* A request for a capability that is not production-validated reaches     *)
(* neither an owner nor the backend, and fails.                            *)
THEOREM FailsClosed == Spec => []UnvalidatedReachesNobody
<1>1. IInv => UnvalidatedReachesNobody
  BY DEF IInv, Routing, UnvalidatedReachesNobody
<1> QED BY <1>1, IInvHolds, PTL

(* The owner-routed writes stay off sysfs: the backend is idle while one   *)
(* is served, never touches their attributes, and is never granted them.   *)
THEOREM OwnersAreNotBypassed == Spec => []NoSysfsFallback
<1>1. IInv => NoSysfsFallback
  BY DEF IInv, Routing, Confined, NoSysfsFallback, BackendGrant,
         OWNER_ROUTED_WRITES, BackendFiles, P!Files
<1> QED BY <1>1, IInvHolds, PTL

(* The service and both its layers keep their types, whatever is asked.     *)
THEOREM TypeCorrect == Spec => []TypeOK
<1>1. IInv /\ Layers => TypeOK
  BY DEF IInv, Routing, Layers, RequestPart, OwnerPart, BackendPart, TypeOK
<1> QED BY LayersHold, <1>1, PTL

(* set_capability is a verified write: every step of it, of the layers      *)
(* below and of the world is one of VerifiedWrite or none, so that an       *)
(* answer of success was seen at the destination that owns the capability.  *)
THEOREM ServiceImplements == Spec => ImplementsVerifiedWrite
<1> QED
  BY RefinesInit, RefinesNext, LayersHold, PTL DEF Spec, ImplementsVerifiedWrite, V!Spec
=============================================================================
