------------------------------- MODULE Owners -------------------------------
(***************************************************************************)
(* PowerProfilesOwner and GsdBrightnessOwner (session_owners.py): property *)
(* access over D-Bus to the daemons that own the power profile ("ppd") and *)
(* the session brightness ("gsd"). Every Get and Set is one call_sync; the *)
(* daemons are external, answer or not, apply a Set at once, later or      *)
(* never, come and go, and serve other clients in between.                 *)
(***************************************************************************)
EXTENDS Integers

CONSTANTS
  Profiles,    \* the profiles power-profiles-daemon advertises
  Levels,      \* the percentages gnome-settings-daemon may show
  Drift,       \* values other clients set, a function of the owner
  MaxReads,    \* read-backs of a brightness write: range(11)
  Gone,        \* the daemon is not on the bus
  None,        \* Python's None
  Arguments    \* the set() calls made, as pairs <<owner, argument>>

OwnerNames == {"ppd", "gsd"}
NoBacklight == -1

ASSUME OwnersAssumption ==
  /\ MaxReads \in Nat \ {0}
  /\ Gone \notin Profiles \cup Levels \cup {NoBacklight}
  /\ Levels \subseteq 0 .. 100
  /\ \A a \in Arguments : /\ a[1] \in OwnerNames
                          /\ a[2].kind = "number" => a[2].of \in Int

VARIABLES
  bus,      \* the property each daemon holds, or Gone
  late,     \* Set calls the daemons have queued but not applied
  call,     \* the set() in progress
  since     \* history: what the owner has held since the Set was sent

vars == <<bus, late, call, since>>

Idle == [at |-> "idle", owner |-> None, value |-> None, observed |-> None,
         reads |-> 0, success |-> FALSE]

Init ==
  /\ \E profile \in Profiles, level \in Levels \cup {NoBacklight} :
       bus = [owner \in OwnerNames |-> IF owner = "ppd" THEN profile ELSE level]
  /\ late = {}
  /\ call = Idle
  /\ since = {}

-----------------------------------------------------------------------------

(* Slip: no floor. *)
LegalBrightness_NoFloor(value) ==
  value.kind = "number" /\ value.of >= 0 /\ value.of <= 1000 /\ value.of % 10 = 0

(* A Python argument is a record: its kind ("text", "numeral" for the text  *)
(* of an integer, "number", "bool" or "other") and what it is; a number is  *)
(* counted in tenths, because set() also sees fractions.                    *)
LegalBrightness(value) ==
  /\ value.kind = "number"
  /\ value.of >= 50 /\ value.of <= 1000 /\ value.of % 10 = 0

LegalProfile(value) == value.kind = "text" /\ value.of \in Profiles

(* The value put in the Set message. *)
Sent(owner, value) == IF owner = "gsd" THEN value.of \div 10 ELSE value.of

(* A profile is checked against the owner's list, a brightness before      *)
(* anything is sent.                                                       *)
FirstPlace(owner, value) ==
  IF owner = "ppd" THEN "profiles"
  ELSE IF LegalBrightness(value) THEN "current" ELSE "done"

Begin(owner, value) ==
  /\ call.at = "idle"
  /\ call' = [Idle EXCEPT !.owner = owner, !.value = value,
                !.at = FirstPlace(owner, value)]
  /\ since' = {}
  /\ UNCHANGED <<bus, late>>

End(ok, seen) == call' = [call EXCEPT !.at = "done", !.success = ok, !.observed = seen]

(* The requested profile must be a string among profiles(), which is [] on  *)
(* an error.                                                                *)
ListProfiles ==
  /\ call.at = "profiles"
  /\ bus["ppd"] # Gone
  /\ IF LegalProfile(call.value)
     THEN call' = [call EXCEPT !.at = "set"]
     ELSE End(FALSE, None)
  /\ UNCHANGED <<bus, late, since>>

(* The brightness is read once before the write: -1 means no backlight. *)
GetCurrent ==
  /\ call.at = "current"
  /\ bus["gsd"] # Gone
  /\ IF bus["gsd"] = NoBacklight
     THEN End(FALSE, NoBacklight)
     ELSE call' = [call EXCEPT !.at = "set"]
  /\ UNCHANGED <<bus, late, since>>

(* The daemon answers the Set, having applied it or queued it. *)
SetAnswered ==
  /\ call.at = "set"
  /\ bus[call.owner] # Gone
  /\ \/ /\ bus' = [bus EXCEPT ![call.owner] = Sent(call.owner, call.value)]
        /\ UNCHANGED late
     \/ /\ late' = late \cup {<<call.owner, Sent(call.owner, call.value)>>}
        /\ UNCHANGED bus
  /\ since' = {bus'[call.owner]}
  /\ call' = [call EXCEPT !.at = "get"]

(* The Set times out after 2 s, but the daemon applies it all the same. *)
SetTimesOut ==
  /\ call.at = "set"
  /\ bus[call.owner] # Gone
  /\ late' = late \cup {<<call.owner, Sent(call.owner, call.value)>>}
  /\ since' = {bus[call.owner]}
  /\ End(FALSE, None)
  /\ UNCHANGED bus

(* One read-back. *)
Get ==
  /\ call.at = "get"
  /\ bus[call.owner] # Gone
  /\ call' = [call EXCEPT !.at = "compare", !.observed = bus[call.owner],
                          !.reads = @ + 1]
  /\ UNCHANGED <<bus, late, since>>

(* Slips: one read-back too many; any answer is a success. *)
Compare_OneMore ==
  /\ call.at = "compare"
  /\ IF call.observed = Sent(call.owner, call.value)
     THEN End(TRUE, call.observed)
     ELSE IF call.owner = "gsd" /\ call.reads <= MaxReads
     THEN call' = [call EXCEPT !.at = "get"]
     ELSE End(FALSE, call.observed)
  /\ UNCHANGED <<bus, late, since>>

Compare_Trusting ==
  /\ call.at = "compare"
  /\ End(TRUE, call.observed)
  /\ UNCHANGED <<bus, late, since>>

(* A profile is read back once; a brightness until it matches, at most     *)
(* MaxReads times, sleeping between the reads.                             *)
Compare ==
  /\ call.at = "compare"
  /\ IF call.observed = Sent(call.owner, call.value)
     THEN End(TRUE, call.observed)
     ELSE IF call.owner = "gsd" /\ call.reads < MaxReads
     THEN call' = [call EXCEPT !.at = "get"]
     ELSE End(FALSE, call.observed)
  /\ UNCHANGED <<bus, late, since>>

(* Slip: the read-back is outside the try. *)
Fails_NotOnReadBack ==
  /\ call.at \in {"profiles", "current", "set"}
  /\ End(FALSE, call.observed)
  /\ UNCHANGED <<bus, late, since>>

(* GLib.Error from any call: no owner, access denied, no answer in 2 s. *)
Fails ==
  /\ call.at \in {"profiles", "current", "set", "get"}
  /\ End(FALSE, call.observed)
  /\ UNCHANGED <<bus, late, since>>

Take ==
  /\ call.at = "done"
  /\ call' = Idle
  /\ UNCHANGED <<bus, late, since>>

Step == ListProfiles \/ GetCurrent \/ SetAnswered \/ SetTimesOut \/ Get
          \/ Compare \/ Fails

-----------------------------------------------------------------------------
(* The daemons and their other clients. *)
Becomes(owner, value) ==
  /\ bus' = [bus EXCEPT ![owner] = value]
  /\ since' = IF owner = call.owner /\ since # {} THEN since \cup {value} ELSE since

ApplyLate ==
  \E s \in late :
    /\ bus[s[1]] # Gone
    /\ late' = late \ {s}
    /\ Becomes(s[1], s[2])
    /\ UNCHANGED call

(* Another client's Set, the brightness keys, a hotplugged panel, or the   *)
(* daemon leaving (its queue with it) or coming back.                      *)
Interfere ==
  \E owner \in OwnerNames : \E value \in Drift[owner] \ {bus[owner]} :
    /\ Becomes(owner, value)
    /\ late' = IF value = Gone THEN {s \in late : s[1] # owner} ELSE late
    /\ UNCHANGED call

World == ApplyLate \/ Interfere
-----------------------------------------------------------------------------
Next ==
  \/ \E a \in Arguments : Begin(a[1], a[2])
  \/ Step
  \/ Take
  \/ World

(* set() runs to completion in its caller's thread. The daemons owe        *)
(* nothing: call_sync gives up on them after 2 s.                          *)
Spec == Init /\ [][Next]_vars /\ WF_vars(Step) /\ WF_vars(Take)

-----------------------------------------------------------------------------
Places == {"idle", "profiles", "current", "set", "get", "compare", "done"}

(* Type invariant of the owners' state. *)
TypeOK ==
  /\ DOMAIN bus = OwnerNames
  /\ bus["ppd"] \in Profiles \cup Drift["ppd"]
  /\ late \subseteq ({"ppd"} \X Profiles) \cup ({"gsd"} \X (0 .. 100))
  /\ call.at \in Places /\ call.reads \in 0 .. MaxReads
  /\ call.owner \in OwnerNames \cup {None}

(* "Success requires exact read-back": a set() that reports success sent a *)
(* legal value, and its owner held that value at some moment since.        *)
SuccessWasHeld ==
  (call.at = "done" /\ call.success) =>
    /\ IF call.owner = "gsd" THEN LegalBrightness(call.value)
       ELSE LegalProfile(call.value)
    /\ Sent(call.owner, call.value) \in since
    /\ call.observed = Sent(call.owner, call.value)

(* The floor that keeps the panel visible: a brightness below 5 % on the   *)
(* bus, now or still queued, is never one this client asked for.           *)
PanelStaysVisible ==
  /\ bus["gsd"] \in 0 .. 4 => bus["gsd"] \in Levels \cup Drift["gsd"]
  /\ \A s \in late : s[1] = "gsd" => s[2] \in 5 .. 100

(* set() returns, whatever the daemons do: it never waits for a value.     *)
EverySetReturns == call.at # "idle" ~> call.at = "idle"
======================================================================================================================================================
