----------------------------- MODULE Detection -----------------------------
(***************************************************************************)
(* How the fan is found and what becomes of its path: detect_capabilities  *)
(* looks for the hwmon chip by name and caches paths below hwmon<n>, which *)
(* set_fan_duty writes to later. The kernel gives the lowest free number   *)
(* to each chip, so the number of an unloaded fan driver goes to the next  *)
(* chip that registers. Drivers come and go between any two reads. What    *)
(* _safe_write makes of a value is in Platform; here a write has a target. *)
(***************************************************************************)
EXTENDS Integers

CONSTANTS
  Numbers,     \* n stands for hwmon<n>
  FanName,     \* what this kernel calls the fan's chip
  Installed,   \* the driver's module is installed
  Absent       \* no path, no name or nothing written (None in the code)

ASSUME DetectionAssumption ==
  /\ Numbers \subseteq Nat /\ Absent \notin Numbers
  /\ FanName \in {"oxp_ec", "oxpec"} /\ Absent \notin {"oxp_ec", "oxpec", "pwm"}
  /\ Installed \in BOOLEAN

(* The fan's chip, another one with PWM attributes, and one without.        *)
Kinds == {"fan", "pwm", "plain"}

VARIABLES
  chip,      \* the kind and the attributes of every hwmon<n>
  cached,    \* self.capabilities, the fan's part
  call,      \* the call in progress and its local variables
  written,   \* the kind of chip the last write through these paths reached
  lost,      \* history: the fan left since the detection that filled the
             \* cache began; and since the one in progress began
  through    \* history: the fan's number all through a detection, and all
             \* those it had

vars == <<chip, cached, call, written, lost, through>>

Empty == [kind |-> "none", attributes |-> FALSE]

NotFound == [fan |-> Absent, name |-> Absent, pwm |-> FALSE, enable |-> FALSE,
             driver_available |-> Installed]

Nowhere == [all |-> {}, some |-> {}]

Idle == [at |-> "idle", query |-> Absent, left |-> {}, found |-> NotFound]

FanAt(chips, n) == chips[n].kind = "fan"

Detecting == call.query # Absent

Whole(chips) == {n \in Numbers : FanAt(chips, n) /\ chips[n].attributes}

-----------------------------------------------------------------------------
(* The kernel. A chip's directory appears before its attributes, and        *)
(* outlives them.                                                           *)
Register(kind) ==
  \E n \in Numbers :
    /\ \A m \in Numbers : m < n => chip[m] # Empty
    /\ chip[n] = Empty
    /\ kind = "fan" => \A m \in Numbers : ~FanAt(chip, m)
    /\ chip' = [chip EXCEPT ![n].kind = kind]
    /\ UNCHANGED lost

AddAttributes ==
  \E n \in Numbers :
    /\ chip[n] # Empty /\ ~chip[n].attributes
    /\ chip' = [chip EXCEPT ![n].attributes = TRUE]
    /\ UNCHANGED lost

Unregister ==
  \E n \in Numbers :
    /\ chip[n] # Empty
    /\ \/ chip[n].attributes /\ chip' = [chip EXCEPT ![n].attributes = FALSE]
       \/ ~chip[n].attributes /\ chip' = [chip EXCEPT ![n] = Empty]
    /\ lost' = IF FanAt(chip, n) THEN [cached |-> TRUE, now |-> Detecting] ELSE lost

World ==
  /\ (\E kind \in Kinds : Register(kind)) \/ AddAttributes \/ Unregister
  /\ through' = IF ~Detecting THEN through
                ELSE [all |-> through.all \cap Whole(chip'),
                      some |-> through.some \cup Whole(chip')]
  /\ UNCHANGED <<cached, call, written>>

-----------------------------------------------------------------------------
(* detect_capabilities, from __init__ and refresh_capabilities.             *)

Line(place) == call.at = place /\ UNCHANGED <<chip, cached, written, lost, through>>

Detect ==
  /\ call.at = "idle"
  /\ call' = [Idle EXCEPT !.at = "glob", !.query = "oxp_ec"]
  /\ through' = [all |-> Whole(chip), some |-> Whole(chip)]
  /\ UNCHANGED <<chip, cached, written, lost>>

Glob ==
  /\ Line("glob")
  /\ call' = [call EXCEPT !.left = {n \in Numbers : chip[n] # Empty}, !.at = "scan"]

(* Without its attributes a chip has no name to read.                       *)
Name(n) == IF ~chip[n].attributes THEN Absent
           ELSE IF FanAt(chip, n) THEN FanName ELSE "another"

Found(n) == [call EXCEPT !.found = [fan |-> n, name |-> Absent, pwm |-> FALSE,
                                    enable |-> FALSE, driver_available |-> TRUE],
                         !.left = {}, !.at = "name"]

(* Slip: a name that cannot be read ends the search.                        *)
ReadName_GivesUp ==
  /\ Line("scan")
  /\ \E n \in call.left :
       call' = IF Name(n) = call.query THEN Found(n)
               ELSE [call EXCEPT !.left = IF Name(n) = Absent THEN {} ELSE @ \ {n}]

(* Slip: any chip with PWM attributes is taken for the fan.                 *)
ReadName_AnyPwm ==
  /\ Line("scan")
  /\ \E n \in call.left :
       call' = IF chip[n].attributes /\ chip[n].kind # "plain" THEN Found(n)
               ELSE [call EXCEPT !.left = @ \ {n}]

(* The chips in the order of the directory; OSError skips one.              *)
ReadName ==
  /\ Line("scan")
  /\ \E n \in call.left :
       call' = IF Name(n) = call.query THEN Found(n)
               ELSE [call EXCEPT !.left = @ \ {n}]

(* "Match the current name first and keep the legacy name as a fallback".   *)
NextQuery ==
  /\ Line("scan") /\ call.left = {}
  /\ call' = IF call.query = "oxp_ec"
             THEN [call EXCEPT !.query = "oxpec", !.at = "glob"]
             ELSE [call EXCEPT !.at = "rest"]

ReadNameAgain ==
  /\ Line("name")
  /\ LET name == Name(call.found.fan)
     IN  call' = [call EXCEPT !.found.name = IF name = Absent THEN "oxp_ec" ELSE name,
                              !.at = "pwm"]

HasPwm(n) == chip[n].attributes /\ chip[n].kind \in {"fan", "pwm"}

FindPwm ==
  /\ Line("pwm")
  /\ call' = [call EXCEPT !.found.pwm = HasPwm(call.found.fan), !.at = "enable"]

FindEnable ==
  /\ Line("enable")
  /\ call' = [call EXCEPT !.found.enable = HasPwm(call.found.fan), !.at = "rest"]

(* The other interfaces are one exists() each; the Mini SSD's discovery may *)
(* raise, and self.capabilities stays what it was. In __init__ that is the  *)
(* end of the program, which may be started again with nothing found.       *)
Raise ==
  /\ call.at = "rest"
  /\ call' = Idle
  /\ lost' = [lost EXCEPT !.now = FALSE]
  /\ through' = Nowhere
  /\ UNCHANGED <<chip, cached, written>>

(* Slip: a fan once found is kept.                                          *)
Assign_Keeps ==
  /\ call.at = "rest"
  /\ cached' = IF call.found.fan # Absent THEN call.found ELSE cached
  /\ lost' = [cached |-> lost.now, now |-> FALSE]
  /\ written' = Absent
  /\ call' = [Idle EXCEPT !.at = "assigned"]
  /\ UNCHANGED <<chip, through>>

Assign ==
  /\ call.at = "rest"
  /\ cached' = call.found
  /\ lost' = [cached |-> lost.now, now |-> FALSE]
  /\ written' = Absent
  /\ call' = [Idle EXCEPT !.at = "assigned"]
  /\ UNCHANGED <<chip, through>>

Return ==
  /\ call.at = "assigned"
  /\ call' = Idle /\ through' = Nowhere
  /\ UNCHANGED <<chip, cached, written, lost>>

-----------------------------------------------------------------------------
(* set_fan_duty and set_fan_auto on the cached paths.                       *)

SetFanDuty ==
  /\ Line("idle") /\ cached.pwm
  /\ call' = [Idle EXCEPT !.at = IF cached.enable THEN "mode" ELSE "duty"]

SetFanAuto ==
  /\ Line("idle") /\ cached.pwm /\ cached.enable
  /\ call' = [Idle EXCEPT !.at = "auto"]

(* A path below a number without PWM attributes cannot be opened.           *)
Write(place, then) ==
  /\ call.at = place
  /\ IF HasPwm(cached.fan)
     THEN written' = chip[cached.fan].kind /\ call' \in {[call EXCEPT !.at = then], Idle}
     ELSE call' = Idle /\ UNCHANGED written
  /\ UNCHANGED <<chip, cached, lost, through>>

WriteMode == Write("mode", "duty")

WriteDuty == Write("duty", "idle")

WriteAuto == Write("auto", "idle")

-----------------------------------------------------------------------------
Init ==
  /\ chip = [n \in Numbers |-> Empty]
  /\ cached = NotFound
  /\ call = [Idle EXCEPT !.at = "glob", !.query = "oxp_ec"]
  /\ written = Absent
  /\ lost = [cached |-> FALSE, now |-> FALSE]
  /\ through = Nowhere

Next ==
  \/ World
  \/ Detect \/ Glob \/ ReadName \/ NextQuery \/ ReadNameAgain
  \/ FindPwm \/ FindEnable \/ Raise \/ Assign \/ Return
  \/ SetFanDuty \/ SetFanAuto \/ WriteMode \/ WriteDuty \/ WriteAuto

Spec == Init /\ [][Next]_vars

-----------------------------------------------------------------------------
(* "The fan's chip by its name": a fan that was there all through a         *)
(* detection is found with its paths, under either name and whatever other  *)
(* chips did meanwhile; and what is cached for the fan was the fan.         *)
DetectionFindsTheFan ==
  call.at = "assigned" =>
    /\ \A n \in through.all :
         cached = [fan |-> n, name |-> FanName, pwm |-> TRUE, enable |-> TRUE,
                   driver_available |-> TRUE]
    /\ cached.fan # Absent => cached.fan \in through.some

(* "Never hard-code hwmonN": a number is used for as long as its detection  *)
(* is the last one, and another chip's PWM is written only if the fan has   *)
(* left since that detection began.                                         *)
FanWritesReachTheFan == written # "pwm" \/ lost.cached
=============================================================================
