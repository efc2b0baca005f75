--------------------------- MODULE PlatformProofs ---------------------------
(* The fan conversions, for every duty and every raw value; the safety     *)
(* invariants of the sysfs backend, for every grant, every set of requests *)
(* and everything others may do to the attributes.                         *)
EXTENDS Platform, TLAPS

(* A rounded quotient is within one half of the exact one: the error,      *)
(* doubled, never exceeds the divisor. The conversions divide by 100 and   *)
(* by 255 only.                                                            *)
LEMMA RoundingBound ==
  ASSUME NEW n \in Nat, NEW m \in {100, 255}
  PROVE  /\ RoundHalfEven(n, m) \in Nat
         /\ 2 * (m * RoundHalfEven(n, m) - n) <= m
         /\ 2 * (n - m * RoundHalfEven(n, m)) <= m
<1>1. CASE m = 100
  BY <1>1, SMT DEF RoundHalfEven
<1>2. CASE m = 255
  BY <1>2, SMT DEF RoundHalfEven
<1> QED BY <1>1, <1>2

(* A legal duty is written as a value the pwm1 attribute can hold.         *)
THEOREM RawPwmInRange == \A d \in Duties : RawPwm(d) \in RawValues
<1> SUFFICES ASSUME NEW d \in Duties PROVE RawPwm(d) \in RawValues
  OBVIOUS
<1>1. d * 255 \in Nat  BY DEF Duties
<1>2. /\ RawPwm(d) \in Nat
      /\ 2 * (100 * RawPwm(d) - d * 255) <= 100
  BY <1>1, RoundingBound DEF RawPwm
<1> QED BY <1>2 DEF Duties, RawValues

(* The duty set_fan_duty reports for a verified write is the duty that was *)
(* asked for: converting to raw and back loses nothing on 0..100.          *)
THEOREM DutyRoundTrip == \A d \in Duties : DutyOf(RawPwm(d)) = d
<1> SUFFICES ASSUME NEW d \in Duties PROVE DutyOf(RawPwm(d)) = d
  OBVIOUS
<1>1. d * 255 \in Nat  BY DEF Duties
<1>2. /\ RawPwm(d) \in Nat
      /\ 2 * (100 * RawPwm(d) - d * 255) <= 100
      /\ 2 * (d * 255 - 100 * RawPwm(d)) <= 100
  BY <1>1, RoundingBound DEF RawPwm
<1>3. RawPwm(d) * 100 \in Nat  BY <1>2
<1>4. /\ DutyOf(RawPwm(d)) \in Nat
      /\ 2 * (255 * DutyOf(RawPwm(d)) - RawPwm(d) * 100) <= 255
      /\ 2 * (RawPwm(d) * 100 - 255 * DutyOf(RawPwm(d))) <= 255
  BY <1>3, RoundingBound DEF DutyOf
<1>5. ASSUME NEW x \in Nat, NEW r \in Nat,
             2 * (100 * r - d * 255) <= 100, 2 * (d * 255 - 100 * r) <= 100,
             2 * (255 * x - r * 100) <= 255, 2 * (r * 100 - 255 * x) <= 255
      PROVE  x = d
  BY <1>5, SMT DEF Duties
<1> QED BY <1>2, <1>4, <1>5, SMT

-----------------------------------------------------------------------------

Busy == job.at \in {"enter", "write", "read", "check"}

JobShape ==
  DOMAIN job = {"at", "op", "target", "path", "value", "cap", "previous",
                "observed", "success"}

(* The authorizations are exactly the granted ones, but for the loan of    *)
(* the manual-mode write.                                                  *)
Loan ==
  IF Busy /\ InManualMode
  THEN authorized = Granted \cup {"fan_manual_enable"} /\ job.previous = Granted
  ELSE authorized = Granted

(* Which of the two writes of an operation is in progress, and with what.  *)
ManualWrite ==
  /\ job.op = "set_fan_duty" /\ job.path = "fan_pwm_enable"
  /\ job.value = ManualMode /\ "fan_pwm_enable" \in found
  /\ "cooling.internal_fan" \in Granted /\ job.target \in Duties

FinalWrite ==
  /\ job.path = PathOf(job.op) /\ job.value = RawOf(job.op, job.target)
  /\ job.cap = CapabilityOf(job.op)
  /\ job.op = "set_fan_duty" => job.target \in Duties

Writing ==
  /\ Busy => IF InManualMode THEN ManualWrite ELSE FinalWrite
  /\ job.at \in {"write", "read", "check"} => job.cap \in authorized /\ ~ dry_run

(* The history of the attributes written: it holds the present content,    *)
(* stays empty until the write, and grows in the order of the writes.      *)
History ==
  /\ \A f \in Files : held[f] # {} => file[f] \in held[f]
  /\ Busy /\ InManualMode => \A f \in Files \ {"fan_pwm_enable"} : held[f] = {}
  /\ (Busy /\ ~ InManualMode /\ job.at \in {"enter", "write"}) =>
       \A f \in Files \ {"fan_pwm_enable"} : held[f] = {}
  /\ (Busy /\ job.op = "set_fan_duty" /\ ~ InManualMode
        /\ "fan_pwm_enable" \in found /\ ~ dry_run) =>
       ManualMode \in held["fan_pwm_enable"]
  /\ job.at = "read" => held[job.path] # {}
  /\ job.at = "check" => job.observed \in held[job.path]

IInv == TypeOK /\ JobShape /\ Loan /\ Writing /\ History
          /\ NothingWithoutGrant /\ DutyUnderManualMode /\ SuccessVerified
          /\ WritesStayInside

LEMMA PathAndCapability ==
  ASSUME NEW op \in Operations
  PROVE  /\ PathOf(op) \in Files
         /\ CapabilityOf(op) # "fan_manual_enable"
         /\ op = "set_fan_duty" => /\ PathOf(op) = "fan_pwm"
                                  /\ CapabilityOf(op) = "cooling.internal_fan"
BY DEF Operations, Files, PathOf, CapabilityOf

LEMMA DutyIsShown ==
  ASSUME NEW target \in Duties
  PROVE  ShownOf("set_fan_duty", RawOf("set_fan_duty", target)) = target
<1>1. RawOf("set_fan_duty", target) = RawPwm(target)
  BY DEF RawOf
<1> QED BY <1>1, DutyRoundTrip, RawPwmInRange, PlatformAssumption
           DEF ShownOf, RawValues

LEMMA InitIInv == Init => IInv
<1> SUFFICES ASSUME Init PROVE IInv
  OBVIOUS
<1>1. DOMAIN file = Files
  BY PlatformAssumption DEF Init
<1>2. TypeOK
  BY <1>1 DEF Init, TypeOK, Idle, Places, Existing
<1> QED
  BY <1>2 DEF Init, Idle, IInv, JobShape, Loan, Busy, Writing, History,
              NothingWithoutGrant, DutyUnderManualMode, SuccessVerified,
              WritesStayInside, Files

LEMMA CallIInv ==
  ASSUME IInv, NEW op \in Operations, NEW target, Call(op, target)
  PROVE  IInv'
<1> USE DEF IInv
<1>1. /\ job.at = "idle" /\ authorized = Granted
      /\ UNCHANGED <<dry_run, file, found>>
      /\ held' = [f \in Files |-> {}]
  BY DEF Call, Loan, Busy
<1>2. CASE Refuse(op, target)
  <2>1. /\ job' = [Idle EXCEPT !.at = "done", !.op = op, !.target = target]
        /\ UNCHANGED authorized
    BY <1>2 DEF Refuse
  <2> QED
    BY <1>1, <2>1 DEF Idle, TypeOK, Places, JobShape, Loan, Busy, Writing,
                      History, NothingWithoutGrant, DutyUnderManualMode,
                      SuccessVerified, WritesStayInside, Files
<1>3. CASE EnterManualMode(op, target)
  <2>1. /\ op = "set_fan_duty" /\ "fan_pwm_enable" \in found
        /\ target \in Duties /\ "cooling.internal_fan" \in Granted
    BY <1>1, <1>3 DEF EnterManualMode, Refused
  <2>2. /\ authorized' = Granted \cup {"fan_manual_enable"}
        /\ job' = [Idle EXCEPT !.at = "enter", !.op = op, !.target = target,
                     !.path = "fan_pwm_enable", !.value = ManualMode,
                     !.cap = "fan_manual_enable", !.previous = Granted]
    BY <1>1, <1>3 DEF EnterManualMode
  <2>3. /\ DOMAIN job' = DOMAIN Idle /\ job'.at = "enter" /\ job'.op = op
        /\ job'.target = target /\ job'.path = "fan_pwm_enable"
        /\ job'.value = ManualMode /\ job'.cap = "fan_manual_enable"
        /\ job'.previous = Granted /\ job'.success = FALSE
    BY <2>2 DEF Idle
  <2>4. TypeOK' /\ JobShape' /\ Loan' /\ Writing'
    BY <1>1, <2>1, <2>2, <2>3
       DEF Idle, TypeOK, Places, JobShape, Loan, Busy, InManualMode, Writing,
           ManualWrite, Files
  <2> QED
    BY <1>1, <2>1, <2>2, <2>3, <2>4
       DEF InManualMode, Busy, History, NothingWithoutGrant,
           DutyUnderManualMode, SuccessVerified, WritesStayInside, Files
<1>4. CASE EnterWrite(op, target)
  <2>1. /\ ~ (op = "set_fan_duty" /\ "fan_pwm_enable" \in found)
        /\ op = "set_fan_duty" => target \in Duties
        /\ authorized' = Granted
    BY <1>1, <1>4 DEF EnterWrite, Refused
  <2>2. job' = [Idle EXCEPT !.at = "enter", !.op = op, !.target = target,
                  !.path = PathOf(op), !.value = RawOf(op, target),
                  !.cap = CapabilityOf(op)]
    BY <1>4 DEF EnterWrite
  <2>3. /\ DOMAIN job' = DOMAIN Idle /\ job'.at = "enter" /\ job'.op = op
        /\ job'.target = target /\ job'.path = PathOf(op)
        /\ job'.value = RawOf(op, target) /\ job'.cap = CapabilityOf(op)
        /\ job'.success = FALSE
    BY <2>2 DEF Idle
  <2>4. TypeOK' /\ JobShape' /\ Loan' /\ Writing'
    BY <1>1, <2>1, <2>2, <2>3, PathAndCapability
       DEF Idle, TypeOK, Places, JobShape, Loan, Busy, InManualMode, Writing,
           FinalWrite
  <2> QED
    BY <1>1, <2>1, <2>2, <2>3, <2>4, PathAndCapability
       DEF InManualMode, Busy, History, NothingWithoutGrant,
           DutyUnderManualMode, SuccessVerified, WritesStayInside, Files
<1> QED BY <1>2, <1>3, <1>4 DEF Call

(* _safe_write comes back: with a failure, or with a success whose value   *)
(* was observed. A success of the manual-mode write leads to the duty.     *)
LEMMA ReturnIInv ==
  ASSUME IInv, Busy, NEW ok \in BOOLEAN, NEW seen, Return(ok, seen),
         UNCHANGED <<dry_run, file, found, held>>,
         ok => /\ seen = job.value
               /\ job.cap \in authorized
               /\ ~ dry_run => job.value \in held[job.path]
  PROVE  IInv'
<1> USE DEF IInv
<1>1. authorized' = Granted
  BY DEF Return, Restored, Loan
<1>2. CASE InManualMode /\ ok
  <2>1. /\ ManualWrite /\ job.cap = "fan_manual_enable"
        /\ job' = [job EXCEPT !.at = "enter", !.path = "fan_pwm",
                     !.value = RawOf(job.op, job.target),
                     !.cap = "cooling.internal_fan", !.observed = None]
    BY <1>2 DEF Return, Writing, InManualMode
  <2>2. /\ DOMAIN job' = DOMAIN job /\ job'.at = "enter"
        /\ job'.op = "set_fan_duty" /\ job'.path = "fan_pwm"
        /\ job'.target = job.target /\ job'.target \in Duties
        /\ job'.value = RawOf("set_fan_duty", job'.target)
        /\ job'.cap = "cooling.internal_fan" /\ job'.success = job.success
        /\ job.op = "set_fan_duty"
    BY <2>1 DEF JobShape, ManualWrite
  <2>3. "cooling.internal_fan" \in Granted /\ ~ InManualMode' /\ Busy'
    BY <2>1, <2>2 DEF ManualWrite, InManualMode, Busy
  <2>4. ~ dry_run => ManualMode \in held["fan_pwm_enable"]
    BY <1>2, <2>1 DEF ManualWrite
  <2>5. \A f \in Files \ {"fan_pwm_enable"} : held[f] = {}
    BY <1>2 DEF History
  <2>6. TypeOK' /\ JobShape' /\ Loan' /\ Writing'
    BY <1>1, <2>2, <2>3, PathAndCapability
       DEF TypeOK, Places, Operations, Files, JobShape, Loan, Writing, FinalWrite
  <2>7. History'
    BY <2>2, <2>3, <2>4, <2>5 DEF History
  <2> QED
    BY <2>2, <2>3, <2>4, <2>5, <2>6, <2>7, PathAndCapability
       DEF NothingWithoutGrant, DutyUnderManualMode, SuccessVerified,
           WritesStayInside, Operations, Files, Busy
<1>3. CASE ~ (InManualMode /\ ok)
  <2>1. job' = [job EXCEPT !.at = "done", !.success = ok, !.observed = seen]
    BY <1>3 DEF Return
  <2>2. /\ DOMAIN job' = DOMAIN job /\ job'.at = "done" /\ job'.success = ok
        /\ job'.op = job.op /\ job'.target = job.target
        /\ job'.path = job.path /\ job'.value = job.value
        /\ job'.cap = job.cap /\ job'.observed = seen
    BY <2>1 DEF JobShape
  <2>3. TypeOK' /\ JobShape' /\ Loan' /\ Writing' /\ History'
    BY <1>1, <2>2
       DEF TypeOK, Places, JobShape, Loan, Busy, Writing, History
  <2>4. /\ NothingWithoutGrant' /\ DutyUnderManualMode' /\ WritesStayInside'
    BY <2>2 DEF Busy, NothingWithoutGrant, DutyUnderManualMode, WritesStayInside
  <2>5. SuccessVerified'
    <3> SUFFICES ASSUME ok PROVE SuccessVerified'
      BY <2>2 DEF SuccessVerified
    <3>1. FinalWrite
      BY <1>3 DEF Writing
    <3> QED
      BY <2>2, <3>1, DutyIsShown DEF FinalWrite, SuccessVerified
  <2> QED BY <2>3, <2>4, <2>5
<1> QED BY <1>2, <1>3

LEMMA StepIInv == IInv /\ Step => IInv'
<1> SUFFICES ASSUME IInv, Step PROVE IInv'
  OBVIOUS
<1>1. ASSUME Enter PROVE IInv'
  <2>1. Busy /\ UNCHANGED <<dry_run, file, found, held>> /\ job.at = "enter"
    BY <1>1 DEF Enter, Busy
  <2>2. CASE job.cap \notin authorized \/ job.path \notin found
    <3>1. Return(FALSE, None)
      BY <1>1, <2>2 DEF Enter
    <3> QED BY <2>1, <3>1, ReturnIInv
  <2>3. CASE job.cap \in authorized /\ job.path \in found /\ dry_run
    <3>1. Return(TRUE, job.value)
      BY <1>1, <2>3 DEF Enter
    <3> QED BY <2>1, <2>3, <3>1, ReturnIInv
  <2>4. CASE job.cap \in authorized /\ job.path \in found /\ ~ dry_run
    <3>1. job' = [job EXCEPT !.at = "write"] /\ UNCHANGED authorized
      BY <1>1, <2>4 DEF Enter
    <3> QED
      BY <2>1, <2>4, <3>1
         DEF IInv, TypeOK, Places, JobShape, Loan, Busy, InManualMode, Writing,
             ManualWrite, FinalWrite, History, NothingWithoutGrant,
             DutyUnderManualMode, SuccessVerified, WritesStayInside
  <2> QED BY <2>2, <2>3, <2>4
<1>2. ASSUME WriteText PROVE IInv'
  <2>1. PICK content \in {job.value, file[job.path]} :
          /\ file' = [file EXCEPT ![job.path] = content]
          /\ held' = [held EXCEPT ![job.path] = {content}]
    BY <1>2 DEF WriteText
  <2>2. /\ job.at = "write" /\ Busy
        /\ job' = [job EXCEPT !.at = "read"]
        /\ UNCHANGED <<dry_run, found, authorized>>
    BY <1>2 DEF WriteText, Busy
  <2>3. /\ DOMAIN job' = DOMAIN job /\ job'.at = "read"
        /\ job'.op = job.op /\ job'.target = job.target
        /\ job'.path = job.path /\ job'.value = job.value
        /\ job'.cap = job.cap /\ job'.previous = job.previous
        /\ job'.success = job.success /\ Busy'
    BY <2>2 DEF IInv, JobShape, Busy
  <2>4. TypeOK' /\ JobShape' /\ Loan' /\ Writing'
    BY <2>1, <2>2, <2>3
       DEF IInv, TypeOK, Places, JobShape, Loan, Busy, InManualMode, Writing,
           ManualWrite, FinalWrite
  <2>5. /\ job.op \in Operations /\ job.path \in Files
        /\ job.cap \in authorized /\ ~ dry_run
        /\ IF InManualMode THEN ManualWrite ELSE FinalWrite
    BY <2>2 DEF IInv, TypeOK, Writing, Busy
  <2>6. History'
    BY <2>1, <2>2, <2>3, <2>5, PathAndCapability
       DEF IInv, TypeOK, InManualMode, ManualWrite, FinalWrite, History, Busy,
           Files
  <2>7. NothingWithoutGrant'
    BY <2>3, <2>5, PathAndCapability
       DEF IInv, Loan, InManualMode, ManualWrite, FinalWrite,
           NothingWithoutGrant, Busy
  <2>8. DutyUnderManualMode' /\ SuccessVerified' /\ WritesStayInside'
    BY <2>1, <2>2, <2>3, <2>5, PathAndCapability
       DEF IInv, TypeOK, InManualMode, ManualWrite, FinalWrite, History, Busy,
           Files, DutyUnderManualMode, SuccessVerified, WritesStayInside
  <2> QED BY <2>4, <2>6, <2>7, <2>8 DEF IInv
<1>3. ASSUME ReadText PROVE IInv'
  <2>1. /\ job.at = "read"
        /\ job' = [job EXCEPT !.at = "check", !.observed = file[job.path]]
        /\ UNCHANGED <<dry_run, file, found, authorized, held>>
    BY <1>3 DEF ReadText
  <2> QED
    BY <2>1
       DEF IInv, TypeOK, Places, JobShape, Loan, Busy, InManualMode, Writing,
           ManualWrite, FinalWrite, History, NothingWithoutGrant,
           DutyUnderManualMode, SuccessVerified, WritesStayInside
<1>4. ASSUME Raise PROVE IInv'
  BY <1>4, ReturnIInv DEF Raise, Busy
<1>5. ASSUME Check PROVE IInv'
  <2>1. /\ job.at = "check" /\ Busy
        /\ UNCHANGED <<dry_run, file, found, held>>
        /\ Return(job.observed = job.value, job.observed)
    BY <1>5 DEF Check, Busy
  <2>2. job.cap \in authorized /\ job.observed \in held[job.path]
    BY <2>1 DEF IInv, Writing, History
  <2> QED BY <2>1, <2>2, ReturnIInv
<1> QED BY <1>1, <1>2, <1>3, <1>4, <1>5 DEF Step

LEMMA OtherIInv == IInv /\ (Take \/ Refresh \/ Interfere) => IInv'
<1> SUFFICES ASSUME IInv, Take \/ Refresh \/ Interfere PROVE IInv'
  OBVIOUS
<1> USE DEF IInv
<1>1. ASSUME Take PROVE IInv'
  BY <1>1 DEF Take, Idle, TypeOK, Places, JobShape, Loan, Busy, Writing,
              History, NothingWithoutGrant, DutyUnderManualMode,
              SuccessVerified, WritesStayInside
<1>2. ASSUME Refresh PROVE IInv'
  <2>1. /\ job.at = "idle" /\ found' \subseteq Files
        /\ UNCHANGED <<dry_run, file, authorized, job, held>>
    BY <1>2 DEF Refresh, Existing
  <2> QED
    BY <2>1 DEF TypeOK, JobShape, Loan, Busy, Writing, History,
                NothingWithoutGrant, DutyUnderManualMode, SuccessVerified,
                WritesStayInside
<1>3. ASSUME Interfere PROVE IInv'
  <2>1. PICK f \in Files : \E content \in Foreign[f] \ {file[f]} :
          /\ file' = [file EXCEPT ![f] = content]
          /\ held' = [held EXCEPT ![f] = IF @ = {} THEN {} ELSE @ \cup {content}]
          /\ UNCHANGED <<dry_run, found, authorized, job>>
    BY <1>3 DEF Interfere
  <2>2. PICK content :
          /\ file' = [file EXCEPT ![f] = content]
          /\ held' = [held EXCEPT ![f] = IF @ = {} THEN {} ELSE @ \cup {content}]
          /\ UNCHANGED <<dry_run, found, authorized, job>>
    BY <2>1
  <2>3. /\ \A g \in Files : (held'[g] = {}) <=> (held[g] = {})
        /\ \A g \in Files : held[g] \subseteq held'[g]
        /\ \A g \in Files : held'[g] # {} => file'[g] \in held'[g]
    BY <2>2 DEF TypeOK, History
  <2>4. TypeOK' /\ JobShape' /\ Loan' /\ Writing'
    BY <2>2 DEF TypeOK, JobShape, Loan, Busy, InManualMode, Writing,
                ManualWrite, FinalWrite
  <2> QED
    BY <2>2, <2>3, <2>4, PathAndCapability
       DEF TypeOK, InManualMode, Busy, History, NothingWithoutGrant,
           DutyUnderManualMode, SuccessVerified, WritesStayInside, Files
<1> QED BY <1>1, <1>2, <1>3

LEMMA NextIInv == IInv /\ [Next]_vars => IInv'
<1> SUFFICES ASSUME IInv, [Next]_vars PROVE IInv'
  OBVIOUS
<1>1. ASSUME NEW r \in Requests, Call(r[1], r[2]) PROVE IInv'
  BY <1>1, CallIInv, PlatformAssumption
<1>2. CASE UNCHANGED vars
  BY <1>2 DEF vars, IInv, TypeOK, JobShape, Loan, Busy, InManualMode, Writing,
              ManualWrite, FinalWrite, History, NothingWithoutGrant,
              DutyUnderManualMode, SuccessVerified, WritesStayInside
<1> QED BY <1>1, <1>2, StepIInv, OtherIInv DEF Next

LEMMA IInvHolds == Spec => []IInv
<1> QED BY InitIInv, NextIInv, PTL DEF Spec

(* The backend's state keeps its type. *)
THEOREM TypeCorrect == Spec => []TypeOK
<1>1. IInv => TypeOK  BY DEF IInv
<1> QED BY <1>1, IInvHolds, PTL

(* set_fan_duty gives back the authorization it lends itself on every      *)
(* path out of the manual-mode write.                                      *)
THEOREM LoanIsReturned == Spec => []AuthorizationRestored
<1>1. IInv => AuthorizationRestored
  BY DEF IInv, Loan, Busy, AuthorizationRestored
<1> QED BY <1>1, IInvHolds, PTL

(* Nothing is written on behalf of a capability that is not authorized.    *)
THEOREM GrantIsRequired == Spec => []NothingWithoutGrant
<1>1. IInv => NothingWithoutGrant  BY DEF IInv
<1> QED BY <1>1, IInvHolds, PTL

(* A fan duty is never written unless manual mode was really in force at   *)
(* some moment after it was selected.                                      *)
THEOREM PrerequisiteHolds == Spec => []DutyUnderManualMode
<1>1. IInv => DutyUnderManualMode  BY DEF IInv
<1> QED BY <1>1, IInvHolds, PTL

(* A reported success was in force at the attribute; a fan duty is shown   *)
(* as it was asked for, by the round trip of the fan scale.                *)
THEOREM SuccessIsReal == Spec => []SuccessVerified
<1>1. IInv => SuccessVerified  BY DEF IInv
<1> QED BY <1>1, IInvHolds, PTL

(* An operation writes only its own attributes, a dry run none. *)
THEOREM WritesAreConfined == Spec => []WritesStayInside
<1>1. IInv => WritesStayInside  BY DEF IInv
<1> QED BY <1>1, IInvHolds, PTL
=============================================================================
