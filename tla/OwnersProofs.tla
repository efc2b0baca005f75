---------------------------- MODULE OwnersProofs ----------------------------
(* The safety invariants of Owners, for every set of profiles and levels,  *)
(* every bound on the read-backs and every behaviour of the daemons.       *)
EXTENDS Owners, TLAPS

Legal(owner, value) ==
  IF owner = "gsd" THEN LegalBrightness(value) ELSE LegalProfile(value)

(* The record of a call always has its six fields, and a number is one. *)
CallShape ==
  /\ DOMAIN call = {"at", "owner", "value", "observed", "reads", "success"}
  /\ call.at # "idle" => (call.value.kind = "number" => call.value.of \in Int)

(* What each place in set() has established. *)
Progress ==
  /\ call.at = "profiles" => call.owner = "ppd" /\ call.reads = 0
  /\ call.at = "current" =>
       call.owner = "gsd" /\ LegalBrightness(call.value) /\ call.reads = 0
  /\ call.at \in {"set", "get", "compare"} =>
       call.owner \in OwnerNames /\ Legal(call.owner, call.value)
  /\ call.at = "set" => call.reads = 0
  /\ call.at = "get" =>
       call.reads < MaxReads /\ (call.owner = "ppd" => call.reads = 0)

(* Once the Set is sent, the history holds the owner's present value and   *)
(* the value the last read-back saw.                                       *)
History ==
  /\ call.at \in {"get", "compare"} => bus[call.owner] \in since
  /\ call.at = "compare" => call.observed \in since

IInv == TypeOK /\ CallShape /\ Progress /\ History /\ SuccessWasHeld
          /\ PanelStaysVisible

LEMMA LegalIsSent ==
  ASSUME NEW owner \in OwnerNames, NEW value, Legal(owner, value),
         value.kind = "number" => value.of \in Int
  PROVE  IF owner = "gsd" THEN Sent(owner, value) \in 5 .. 100
         ELSE Sent(owner, value) \in Profiles
BY SMT DEF Legal, LegalBrightness, LegalProfile, Sent

LEMMA InitIInv == Init => IInv
<1> SUFFICES ASSUME Init PROVE IInv
  OBVIOUS
<1>1. PICK profile \in Profiles, level \in Levels \cup {NoBacklight} :
        bus = [owner \in OwnerNames |-> IF owner = "ppd" THEN profile ELSE level]
  BY DEF Init
<1>2. /\ bus["ppd"] = profile /\ bus["gsd"] = level
      /\ DOMAIN bus = OwnerNames
  BY <1>1 DEF OwnerNames
<1>3. TypeOK
  BY <1>2, OwnersAssumption DEF Init, TypeOK, Idle, Places
<1>4. CallShape /\ Progress /\ History /\ SuccessWasHeld
  BY DEF Init, Idle, CallShape, Progress, History, SuccessWasHeld
<1>5. PanelStaysVisible
  BY <1>2 DEF Init, PanelStaysVisible, NoBacklight
<1> QED BY <1>3, <1>4, <1>5 DEF IInv

LEMMA NextIInv == IInv /\ [Next]_vars => IInv'
<1> SUFFICES ASSUME IInv, [Next]_vars PROVE IInv'
  OBVIOUS
<1> USE OwnersAssumption
<1> USE DEF IInv, TypeOK, OwnerNames, Places
<1>1. ASSUME NEW a \in Arguments, Begin(a[1], a[2]) PROVE IInv'
  <2>1. /\ UNCHANGED <<bus, late>>
        /\ call' = [Idle EXCEPT !.owner = a[1], !.value = a[2],
                               !.at = FirstPlace(a[1], a[2])]
    BY <1>1 DEF Begin
  <2>2. /\ DOMAIN call' = DOMAIN Idle
        /\ call'.owner = a[1] /\ call'.value = a[2] /\ call'.observed = None
        /\ call'.reads = 0 /\ call'.success = FALSE
        /\ call'.at = FirstPlace(a[1], a[2])
    BY <2>1 DEF Idle
  <2>3. /\ a[1] \in OwnerNames
        /\ call'.at \in {"profiles", "current", "done"}
        /\ call'.at = "profiles" => a[1] = "ppd"
        /\ call'.at = "current" => a[1] = "gsd" /\ LegalBrightness(a[2])
    BY <2>2 DEF FirstPlace
  <2> QED
    BY <2>1, <2>2, <2>3 DEF CallShape, Progress, History, SuccessWasHeld,
                            PanelStaysVisible, Idle
<1>2. ASSUME ListProfiles PROVE IInv'
  <2>1. /\ call.at = "profiles" /\ call.owner = "ppd" /\ call.reads = 0
        /\ UNCHANGED <<bus, late, since>>
    BY <1>2 DEF ListProfiles, Progress
  <2>2. CASE LegalProfile(call.value)
    <3>1. call' = [call EXCEPT !.at = "set"]
      BY <1>2, <2>2 DEF ListProfiles
    <3> QED
      BY <2>1, <2>2, <3>1 DEF CallShape, Progress, History, SuccessWasHeld,
                              PanelStaysVisible, Legal
  <2>3. CASE ~ LegalProfile(call.value)
    <3>1. End(FALSE, None)
      BY <1>2, <2>3 DEF ListProfiles
    <3> QED
      BY <2>1, <3>1 DEF End, CallShape, Progress, History, SuccessWasHeld,
                        PanelStaysVisible
  <2> QED BY <2>2, <2>3
<1>3. ASSUME GetCurrent PROVE IInv'
  <2>1. /\ call.at = "current" /\ call.owner = "gsd" /\ call.reads = 0
        /\ LegalBrightness(call.value)
        /\ UNCHANGED <<bus, late, since>>
    BY <1>3 DEF GetCurrent, Progress
  <2>2. CASE bus["gsd"] = NoBacklight
    <3>1. End(FALSE, NoBacklight)
      BY <1>3, <2>2 DEF GetCurrent
    <3> QED
      BY <2>1, <3>1 DEF End, CallShape, Progress, History, SuccessWasHeld,
                        PanelStaysVisible
  <2>3. CASE bus["gsd"] # NoBacklight
    <3>1. call' = [call EXCEPT !.at = "set"]
      BY <1>3, <2>3 DEF GetCurrent
    <3> QED
      BY <2>1, <3>1 DEF CallShape, Progress, History, SuccessWasHeld,
                        PanelStaysVisible, Legal
  <2> QED BY <2>2, <2>3
<1>4. ASSUME SetAnswered PROVE IInv'
  <2> DEFINE v == Sent(call.owner, call.value)
  <2>1. /\ call.owner \in OwnerNames
        /\ IF call.owner = "gsd" THEN v \in 5 .. 100 ELSE v \in Profiles
    BY <1>4, LegalIsSent DEF SetAnswered, Progress, CallShape
  <2>2. /\ call' = [call EXCEPT !.at = "get"]
        /\ since' = {bus'[call.owner]}
    BY <1>4 DEF SetAnswered
  <2>3. TypeOK' /\ PanelStaysVisible'
    BY <1>4, <2>1, <2>2 DEF SetAnswered, CallShape, PanelStaysVisible
  <2> QED
    BY <1>4, <2>1, <2>2, <2>3
       DEF SetAnswered, CallShape, Progress, History, SuccessWasHeld
<1>5. ASSUME SetTimesOut PROVE IInv'
  <2> DEFINE v == Sent(call.owner, call.value)
  <2>1. /\ call.owner \in OwnerNames
        /\ IF call.owner = "gsd" THEN v \in 5 .. 100 ELSE v \in Profiles
    BY <1>5, LegalIsSent DEF SetTimesOut, Progress, CallShape
  <2>2. TypeOK' /\ PanelStaysVisible'
    BY <1>5, <2>1 DEF SetTimesOut, End, CallShape, PanelStaysVisible
  <2> QED
    BY <1>5, <2>2
       DEF SetTimesOut, End, CallShape, Progress, History, SuccessWasHeld
<1>6. ASSUME Get PROVE IInv'
  BY <1>6 DEF Get, CallShape, Progress, History, SuccessWasHeld,
              PanelStaysVisible
<1>7. ASSUME Compare PROVE IInv'
  <2>1. /\ call.at = "compare" /\ call.owner \in OwnerNames
        /\ Legal(call.owner, call.value) /\ call.observed \in since
        /\ UNCHANGED <<bus, late, since>>
    BY <1>7 DEF Compare, Progress, History
  <2>2. CASE call.observed = Sent(call.owner, call.value)
    <3>1. End(TRUE, call.observed)
      BY <1>7, <2>2 DEF Compare
    <3> QED
      BY <2>1, <2>2, <3>1 DEF End, CallShape, Progress, History,
                              SuccessWasHeld, PanelStaysVisible, Legal
  <2>3. CASE /\ call.observed # Sent(call.owner, call.value)
             /\ call.owner = "gsd" /\ call.reads < MaxReads
    <3>1. call' = [call EXCEPT !.at = "get"]
      BY <1>7, <2>3 DEF Compare
    <3> QED
      BY <2>1, <2>3, <3>1 DEF CallShape, Progress, History, SuccessWasHeld,
                              PanelStaysVisible
  <2>4. CASE /\ call.observed # Sent(call.owner, call.value)
             /\ ~ (call.owner = "gsd" /\ call.reads < MaxReads)
    <3>1. End(FALSE, call.observed)
      BY <1>7, <2>4 DEF Compare
    <3> QED
      BY <2>1, <3>1 DEF End, CallShape, Progress, History, SuccessWasHeld,
                        PanelStaysVisible
  <2> QED BY <2>2, <2>3, <2>4
<1>8. ASSUME Fails PROVE IInv'
  <2>1. /\ call.at \in {"profiles", "current", "set", "get"}
        /\ call.owner \in OwnerNames
        /\ call' = [call EXCEPT !.at = "done", !.success = FALSE,
                               !.observed = call.observed]
        /\ UNCHANGED <<bus, late, since>>
    BY <1>8 DEF Fails, End, Progress
  <2>2. /\ DOMAIN call' = DOMAIN call
        /\ call'.at = "done" /\ call'.success = FALSE
        /\ call'.owner = call.owner /\ call'.value = call.value
        /\ call'.reads = call.reads
    BY <2>1 DEF CallShape
  <2> QED
    BY <2>1, <2>2 DEF CallShape, Progress, History, SuccessWasHeld,
                      PanelStaysVisible
<1>9. ASSUME Take PROVE IInv'
  BY <1>9 DEF Take, Idle, CallShape, Progress, History, SuccessWasHeld,
              PanelStaysVisible
<1>10. ASSUME ApplyLate PROVE IInv'
  <2>1. PICK s \in late : /\ late' = late \ {s}
                          /\ Becomes(s[1], s[2])
                          /\ UNCHANGED call
    BY <1>10 DEF ApplyLate
  <2>2. \/ s[1] = "ppd" /\ s[2] \in Profiles
        \/ s[1] = "gsd" /\ s[2] \in 0 .. 100
    OBVIOUS
  <2>3. s[1] = "gsd" => s[2] \in 5 .. 100
    BY DEF PanelStaysVisible
  <2> QED
    BY <2>1, <2>2, <2>3 DEF Becomes, CallShape, Progress, History,
                            SuccessWasHeld, PanelStaysVisible
<1>11. ASSUME Interfere PROVE IInv'
  <2>1. PICK owner \in OwnerNames : \E value \in Drift[owner] \ {bus[owner]} :
          /\ Becomes(owner, value)
          /\ late' = IF value = Gone THEN {s \in late : s[1] # owner} ELSE late
          /\ UNCHANGED call
    BY <1>11 DEF Interfere
  <2>2. PICK value \in Drift[owner] :
          /\ Becomes(owner, value)
          /\ late' \subseteq late
          /\ UNCHANGED call
    BY <2>1
  <2> QED
    BY <2>2 DEF Becomes, CallShape, Progress, History, SuccessWasHeld,
                PanelStaysVisible
<1>12. CASE UNCHANGED vars
  BY <1>12 DEF vars, CallShape, Progress, History, SuccessWasHeld,
               PanelStaysVisible
<1> QED
  BY <1>1, <1>2, <1>3, <1>4, <1>5, <1>6, <1>7, <1>8, <1>9, <1>10, <1>11, <1>12
     DEF Next, Step, World

LEMMA IInvHolds == Spec => []IInv
<1> QED BY InitIInv, NextIInv, PTL DEF Spec

(* The owners' state keeps its type. *)
THEOREM TypeCorrect == Spec => []TypeOK
<1>1. IInv => TypeOK  BY DEF IInv
<1> QED BY <1>1, IInvHolds, PTL

(* session_owners.py: success means the owner held the value sent, which   *)
(* was a legal one, at some moment after the Set.                          *)
THEOREM SuccessIsReal == Spec => []SuccessWasHeld
<1>1. IInv => SuccessWasHeld  BY DEF IInv
<1> QED BY <1>1, IInvHolds, PTL

(* No brightness below the floor is ever this client's, not even one that  *)
(* a timed-out Set leaves to be applied later.                             *)
THEOREM FloorHolds == Spec => []PanelStaysVisible
<1>1. IInv => PanelStaysVisible  BY DEF IInv
<1> QED BY <1>1, IInvHolds, PTL
=============================================================================
