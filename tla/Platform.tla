------------------------------ MODULE Platform ------------------------------
(***************************************************************************)
(* PlatformBackend (platform.py): the validated operations on sysfs        *)
(* attributes. One operation runs at a time; its write, its read-back and  *)
(* the comparison are separate steps, and between any two of them another  *)
(* process, the firmware or a driver unbind may change an attribute.       *)
(***************************************************************************)
EXTENDS FanScale, FiniteSets

CONSTANTS
  Granted,       \* authorized_writes the backend is constructed with
  Preferences,   \* contents of energy_performance_available_preferences
  Clean,         \* maps a spelling of a preference to its strip().lower()
  BacklightMax,  \* contents of max_brightness
  Foreign,       \* what others may make of each attribute (may contain Gone)
  InitialFiles,  \* the attribute contents an execution may start from
  Gone,          \* the attribute's path does not exist
  None,          \* Python's None
  Requests       \* the operations called, as pairs <<operation, argument>>

ManualMode == 1   \* pwm1_enable: software controls the fan
AutoMode   == 2   \* pwm1_enable: the firmware controls the fan

Files == {"boost", "epp", "fan_pwm", "fan_pwm_enable", "backlight"}

Operations == {"set_cpu_boost", "set_fan_duty", "set_fan_auto", "set_epp",
               "set_display_brightness_percent"}

ASSUME PlatformAssumption ==
  /\ BacklightMax \in Nat
  /\ "fan_manual_enable" \notin Granted
  /\ None \notin 0 .. 255
  /\ \A r \in Requests : r[1] \in Operations
  /\ \A contents \in InitialFiles : DOMAIN contents = Files

VARIABLES
  dry_run,     \* the constructor's flag
  file,        \* content of every attribute, or Gone
  found,       \* the attributes whose path the cached capabilities resolved
  authorized,  \* authorized_writes
  job,         \* the operation in progress and the _safe_write it is in
  held         \* history: what each attribute this operation wrote has held
               \* since the write

vars == <<dry_run, file, found, authorized, job, held>>

CapabilityOf(op) ==
  CASE op = "set_cpu_boost" -> "performance.cpu_boost"
    [] op = "set_epp"       -> "performance.epp"
    [] op = "set_display_brightness_percent" -> "display.brightness"
    [] OTHER                -> "cooling.internal_fan"

PathOf(op) ==
  CASE op = "set_cpu_boost" -> "boost"
    [] op = "set_epp"       -> "epp"
    [] op = "set_fan_duty"  -> "fan_pwm"
    [] op = "set_fan_auto"  -> "fan_pwm_enable"
    [] OTHER                -> "backlight"

(* The text an operation writes for its argument. *)
RawOf(op, target) ==
  IF op = "set_fan_duty" THEN RawPwm(target)
  ELSE IF op = "set_fan_auto" THEN AutoMode
  ELSE IF op = "set_epp" THEN Clean[target]
  ELSE IF op = "set_display_brightness_percent"
  THEN RawLevel(target, BacklightMax)
  ELSE target

(* What a caller is shown for an observed raw value. *)
ShownOf(op, raw) ==
  IF op = "set_fan_duty" /\ raw # None THEN DutyOf(raw) ELSE raw

Existing(contents) == {f \in Files : contents[f] # Gone}

Idle == [at |-> "idle", op |-> None, target |-> None, path |-> None,
         value |-> None, cap |-> None, previous |-> {}, observed |-> None,
         success |-> FALSE]

Init ==
  /\ dry_run \in BOOLEAN
  /\ file \in InitialFiles
  /\ found = Existing(file)
  /\ authorized = Granted
  /\ job = Idle
  /\ held = [f \in Files |-> {}]

-----------------------------------------------------------------------------
(* The checks an operation makes before its first _safe_write. *)
Refused(op, target) ==
  \/ /\ op = "set_fan_duty"
     /\ \/ target \notin Duties
        \/ "cooling.internal_fan" \notin authorized
        \/ "fan_pwm" \notin found
  \/ op = "set_fan_auto" /\ ~ {"fan_pwm", "fan_pwm_enable"} \subseteq found
  \/ op = "set_epp" /\ Preferences # {} /\ Clean[target] \notin Preferences
  \/ op = "set_cpu_boost" /\ "boost" \notin found
  \/ /\ op = "set_display_brightness_percent"
     /\ target \notin 0 .. 100 \/ "backlight" \notin found

(* An operation is called: it is refused, or enters its first _safe_write, *)
(* which for a fan duty is the one that selects manual mode under a        *)
(* temporary authorization.                                                *)
Refuse(op, target) ==
  /\ Refused(op, target)
  /\ job' = [Idle EXCEPT !.at = "done", !.op = op, !.target = target]
  /\ UNCHANGED authorized

(* Slip: the authorization lent is not the one _safe_write asks for. *)
EnterManualMode_Misnamed(op, target) ==
  /\ ~ Refused(op, target)
  /\ op = "set_fan_duty" /\ "fan_pwm_enable" \in found
  /\ authorized' = authorized \cup {"fan_pwm_enable"}
  /\ job' = [Idle EXCEPT !.at = "enter", !.op = op, !.target = target,
               !.path = "fan_pwm_enable", !.value = ManualMode,
               !.cap = "fan_manual_enable", !.previous = authorized]

EnterManualMode(op, target) ==
  /\ ~ Refused(op, target)
  /\ op = "set_fan_duty" /\ "fan_pwm_enable" \in found
  /\ authorized' = authorized \cup {"fan_manual_enable"}
  /\ job' = [Idle EXCEPT !.at = "enter", !.op = op, !.target = target,
               !.path = "fan_pwm_enable", !.value = ManualMode,
               !.cap = "fan_manual_enable", !.previous = authorized]

EnterWrite(op, target) ==
  /\ ~ Refused(op, target)
  /\ ~ (op = "set_fan_duty" /\ "fan_pwm_enable" \in found)
  /\ job' = [Idle EXCEPT !.at = "enter", !.op = op, !.target = target,
               !.path = PathOf(op), !.value = RawOf(op, target),
               !.cap = CapabilityOf(op)]
  /\ UNCHANGED authorized

Call(op, target) ==
  /\ job.at = "idle"
  /\ \/ Refuse(op, target)
     \/ EnterManualMode(op, target)
     \/ EnterWrite(op, target)
  /\ held' = [f \in Files |-> {}]
  /\ UNCHANGED <<dry_run, file, found>>

-----------------------------------------------------------------------------
(* _safe_write returns to the operation. The manual-mode write always      *)
(* restores the authorizations; the duty is written only if it succeeded.  *)
InManualMode == job.cap = "fan_manual_enable"

(* Slip: no finally clause. *)
Restored_Never == authorized

Restored == IF InManualMode THEN job.previous ELSE authorized

(* Slip: the duty is written although manual mode was not entered. *)
Return_Regardless(ok, seen) ==
  /\ authorized' = Restored
  /\ job' = IF InManualMode
            THEN [job EXCEPT !.at = "enter", !.path = "fan_pwm",
                    !.value = RawOf(job.op, job.target),
                    !.cap = "cooling.internal_fan", !.observed = None]
            ELSE [job EXCEPT !.at = "done", !.success = ok, !.observed = seen]

Return(ok, seen) ==
  /\ authorized' = Restored
  /\ job' = IF InManualMode /\ ok
            THEN [job EXCEPT !.at = "enter", !.path = "fan_pwm",
                    !.value = RawOf(job.op, job.target),
                    !.cap = "cooling.internal_fan", !.observed = None]
            ELSE [job EXCEPT !.at = "done", !.success = ok, !.observed = seen]

(* Slips: the authorization is not asked for; a dry run is not one. *)
Enter_Unchecked ==
  /\ job.at = "enter"
  /\ IF job.path \notin found THEN Return(FALSE, None)
     ELSE job' = [job EXCEPT !.at = "write"] /\ UNCHANGED authorized
  /\ UNCHANGED <<dry_run, file, found, held>>

Enter_NeverDry ==
  /\ job.at = "enter"
  /\ IF job.cap \notin authorized \/ job.path \notin found
     THEN Return(FALSE, None)
     ELSE job' = [job EXCEPT !.at = "write"] /\ UNCHANGED authorized
  /\ UNCHANGED <<dry_run, file, found, held>>

(* The tests at the head of _safe_write. *)
Enter ==
  /\ job.at = "enter"
  /\ IF job.cap \notin authorized \/ job.path \notin found
     THEN Return(FALSE, None)
     ELSE IF dry_run
     THEN Return(TRUE, job.value)
     ELSE job' = [job EXCEPT !.at = "write"] /\ UNCHANGED authorized
  /\ UNCHANGED <<dry_run, file, found, held>>

(* write_text: the driver takes the value, or takes the write and keeps    *)
(* what it had, or the call raises OSError.                                *)
WriteText ==
  /\ job.at = "write"
  /\ file[job.path] # Gone
  /\ \E content \in {job.value, file[job.path]} :
       /\ file' = [file EXCEPT ![job.path] = content]
       /\ held' = [held EXCEPT ![job.path] = {content}]
  /\ job' = [job EXCEPT !.at = "read"]
  /\ UNCHANGED <<dry_run, found, authorized>>

ReadText ==
  /\ job.at = "read"
  /\ file[job.path] # Gone
  /\ job' = [job EXCEPT !.at = "check", !.observed = file[job.path]]
  /\ UNCHANGED <<dry_run, file, found, authorized, held>>

(* PermissionError or OSError from either call. *)
Raise ==
  /\ job.at \in {"write", "read"}
  /\ Return(FALSE, None)
  /\ UNCHANGED <<dry_run, file, found, held>>

(* Slips: the read-back is not compared; a mismatch is read again for ever. *)
Check_Trusting ==
  /\ job.at = "check"
  /\ Return(TRUE, job.observed)
  /\ UNCHANGED <<dry_run, file, found, held>>

Check_Retries ==
  /\ job.at = "check"
  /\ IF job.observed = job.value
     THEN Return(TRUE, job.observed)
     ELSE job' = [job EXCEPT !.at = "read"] /\ UNCHANGED authorized
  /\ UNCHANGED <<dry_run, file, found, held>>

Check ==
  /\ job.at = "check"
  /\ Return(job.observed = job.value, job.observed)
  /\ UNCHANGED <<dry_run, file, found, held>>

(* The caller takes the OperationResult. *)
Take ==
  /\ job.at = "done"
  /\ job' = Idle
  /\ UNCHANGED <<dry_run, file, found, authorized, held>>

Step == Enter \/ WriteText \/ ReadText \/ Raise \/ Check

-----------------------------------------------------------------------------
(* refresh_capabilities, called by every snapshot between two operations.  *)
Refresh ==
  /\ job.at = "idle"
  /\ found' = Existing(file)
  /\ UNCHANGED <<dry_run, file, authorized, job, held>>

(* Another process, the firmware or the driver changes one attribute. *)
Interfere ==
  \E f \in Files : \E content \in Foreign[f] \ {file[f]} :
    /\ file' = [file EXCEPT ![f] = content]
    /\ held' = [held EXCEPT ![f] = IF @ = {} THEN {} ELSE @ \cup {content}]
    /\ UNCHANGED <<dry_run, found, authorized, job>>
-----------------------------------------------------------------------------
Next ==
  \/ \E r \in Requests : Call(r[1], r[2])
  \/ Step
  \/ Take
  \/ Refresh
  \/ Interfere

(* The backend runs to completion in its caller's thread; nobody else owes *)
(* anything.                                                               *)
Spec == Init /\ [][Next]_vars /\ WF_vars(Step) /\ WF_vars(Take)

-----------------------------------------------------------------------------
Places == {"idle", "enter", "write", "read", "check", "done"}

(* Type invariant of the backend's state; the arguments and the attribute  *)
(* contents are whatever the callers and the kernel supply.                *)
TypeOK ==
  /\ DOMAIN file = Files /\ DOMAIN held = Files
  /\ found \subseteq Files
  /\ authorized \subseteq Granted \cup {"fan_manual_enable"}
  /\ job.at \in Places
  /\ job.at \notin {"idle", "done"} => job.op \in Operations /\ job.path \in Files
  /\ job.success \in BOOLEAN

(* The authorization set_fan_duty lends itself for the manual-mode write   *)
(* is gone whenever anything else can run, however that write ended.       *)
AuthorizationRestored ==
  authorized # Granted =>
    InManualMode /\ job.at \in {"enter", "write", "read", "check"}

(* No attribute is written, pwm1_enable under the lent authorization       *)
(* included, unless the capability of the operation called is authorized.  *)
NothingWithoutGrant ==
  (job.at # "idle" /\ \E f \in Files : held[f] # {}) =>
    CapabilityOf(job.op) \in Granted

(* "A failed prerequisite aborts dependent writes": the duty is written    *)
(* only after pwm1_enable, when it exists, really held manual mode.        *)
DutyUnderManualMode ==
  (/\ job.at # "idle" /\ job.op = "set_fan_duty"
   /\ held["fan_pwm"] # {}
   /\ "fan_pwm_enable" \in found) => ManualMode \in held["fan_pwm_enable"]

(* Outside a dry run an operation that reports success wrote its own       *)
(* attribute, which held the value asked for at some moment since; the     *)
(* percentage shown for a fan is the percentage asked for.                 *)
SuccessVerified ==
  (job.at = "done" /\ job.success) =>
    /\ job.path = PathOf(job.op) /\ job.value = RawOf(job.op, job.target)
    /\ ~ dry_run => job.value \in held[job.path]
    /\ job.op = "set_fan_duty" => ShownOf(job.op, job.observed) = job.target

(* A dry run writes nothing; any other operation writes its own attribute  *)
(* and, for a duty, the fan mode.                                          *)
WritesStayInside ==
  job.at # "idle" =>
    {f \in Files : held[f] # {}} \subseteq
       IF dry_run THEN {}
       ELSE {PathOf(job.op)} \cup
            (IF job.op = "set_fan_duty" THEN {"fan_pwm_enable"} ELSE {})

(* Whatever the kernel answers, an operation returns. *)
EveryCallReturns == job.at # "idle" ~> job.at = "idle"
=====================================================================================================================================================
