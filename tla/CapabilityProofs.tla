-------------------------- MODULE CapabilityProofs --------------------------
(* What the service finds, reads and offers: the fan's path (Detection), for *)
(* any number of chips and either name of the fan's; and the snapshot made  *)
(* after that (Snapshot), for any validated writes, profiles and contents   *)
(* of the sources, however they change between its reads.                   *)
EXTENDS Detection, Snapshot, TLAPS

Chips == [Numbers -> [kind : Kinds \cup {"none"}, attributes : BOOLEAN]]

Parts == [fan : Numbers \cup {Absent}, name : {"oxp_ec", "oxpec", "another", Absent},
          pwm : BOOLEAN, enable : BOOLEAN, driver_available : BOOLEAN]

AfterScan == {"name", "pwm", "enable", "rest"}

Places == {"idle", "glob", "scan", "assigned", "mode", "duty", "auto"} \cup AfterScan

Typed ==
  /\ chip \in Chips
  /\ cached \in Parts
  /\ call \in [at : Places, query : {"oxp_ec", "oxpec", Absent},
               left : SUBSET Numbers, found : Parts]
  /\ lost \in [cached : BOOLEAN, now : BOOLEAN]
  /\ through \in [all : SUBSET Numbers, some : SUBSET Numbers]
  /\ Detecting <=> call.at \in {"glob", "scan"} \cup AfterScan
  /\ cached.pwm => cached.fan # Absent
  /\ call.found.pwm => call.found.fan # Absent
  /\ call.at \in {"name", "pwm", "enable"} => call.found.fan # Absent
  /\ call.at \in {"mode", "duty", "auto"} => cached.pwm

(* A number found is the fan's for as long as the fan has not left.         *)
Known ==
  /\ (call.at \in AfterScan /\ call.found.fan # Absent) =>
       lost.now \/ FanAt(chip, call.found.fan)
  /\ cached.fan # Absent => lost.cached \/ FanAt(chip, cached.fan)

Single == \A m, n \in Numbers : FanAt(chip, m) /\ FanAt(chip, n) => m = n

(* A fan that has been there is still to be found, or has been.             *)
Pending ==
  /\ Detecting => through.all \subseteq Whole(chip)
  /\ call.at = "scan" /\ call.query = FanName => through.all \subseteq call.left
  /\ (call.at \in {"glob", "scan"} /\ call.query = "oxpec" /\ FanName = "oxp_ec") =>
       through.all = {}
  /\ call.at \in AfterScan =>
       IF call.found.fan = Absent THEN through.all = {}
       ELSE /\ through.all \subseteq {call.found.fan}
            /\ call.found.fan \in through.some
            /\ call.found.driver_available
            /\ through.all # {} =>
                 /\ call.at # "name" => call.found.name = FanName
                 /\ call.at \in {"enable", "rest"} => call.found.pwm
                 /\ call.at = "rest" => call.found.enable

(* What is there now has been there; nothing is found before it is.         *)
Seen ==
  /\ Detecting => Whole(chip) \subseteq through.some
  /\ call.at \in {"glob", "scan"} => call.found = NotFound

IInv == Typed /\ Known /\ Single /\ Pending /\ Seen /\ DetectionFindsTheFan /\ FanWritesReachTheFan

-----------------------------------------------------------------------------
LEMMA InitIInv == Init => IInv
<1> SUFFICES ASSUME Init PROVE IInv
  OBVIOUS
<1> USE DetectionAssumption DEF Init
<1>1. Typed
  <2>1. NotFound \in Parts /\ Idle.left \in SUBSET Numbers
    BY DEF NotFound, Parts, Idle
  <2>2. call \in [at : Places, query : {"oxp_ec", "oxpec", Absent},
                  left : SUBSET Numbers, found : Parts]
    BY <2>1 DEF Idle, Places
  <2>3. chip \in Chips
    BY DEF Chips, Empty
  <2> QED
    BY <2>1, <2>2, <2>3 DEF Typed, Idle, NotFound, Nowhere, Detecting, AfterScan
<1>2. Known /\ Single /\ Pending /\ Seen
  BY DEF Known, Single, Pending, Seen, Whole, Idle, NotFound, Empty, AfterScan, FanAt, Nowhere
<1>3. DetectionFindsTheFan /\ FanWritesReachTheFan
  BY DEF DetectionFindsTheFan, FanWritesReachTheFan, Idle
<1> QED BY <1>1, <1>2, <1>3 DEF IInv

(* A chip comes, gets its attributes, loses them or goes: the fan's leaves  *)
(* its number only with lost set, and another never takes it over.          *)
LEMMA WorldIInv == IInv /\ World => IInv'
<1> SUFFICES ASSUME IInv, World PROVE IInv'
  OBVIOUS
<1> USE DetectionAssumption
<1>1. /\ UNCHANGED <<cached, call, written>>
      /\ through' = IF ~Detecting THEN through
                    ELSE [all |-> through.all \cap Whole(chip'),
                          some |-> through.some \cup Whole(chip')]
  BY DEF World
<1>2. /\ chip' \in Chips /\ lost' \in [cached : BOOLEAN, now : BOOLEAN]
      /\ lost.cached => lost'.cached
      /\ lost.now /\ Detecting => lost'.now
      /\ \A n \in Numbers : FanAt(chip, n) =>
            FanAt(chip', n) \/ (lost'.cached /\ (Detecting => lost'.now))
      /\ Single'
  <2>1. CASE \E kind \in Kinds : Register(kind)
    <3>1. PICK kind \in Kinds, n \in Numbers :
            /\ chip[n] = Empty
            /\ kind = "fan" => \A m \in Numbers : ~FanAt(chip, m)
            /\ chip' = [chip EXCEPT ![n].kind = kind] /\ UNCHANGED lost
      BY <2>1 DEF Register
    <3>2. chip' \in Chips
      BY <3>1 DEF IInv, Typed, Chips
    <3>3. \A m \in Numbers : FanAt(chip', m) <=> IF m = n THEN kind = "fan" ELSE FanAt(chip, m)
      BY <3>1 DEF IInv, Typed, Chips, FanAt
    <3>4. ~FanAt(chip, n)
      BY <3>1 DEF FanAt, Empty
    <3> QED BY <3>1, <3>2, <3>3, <3>4 DEF IInv, Typed, Single
  <2>2. CASE AddAttributes
    <3>1. PICK n \in Numbers :
            chip' = [chip EXCEPT ![n].attributes = TRUE] /\ UNCHANGED lost
      BY <2>2 DEF AddAttributes
    <3>2. chip' \in Chips /\ \A m \in Numbers : FanAt(chip', m) <=> FanAt(chip, m)
      BY <3>1 DEF IInv, Typed, Chips, FanAt
    <3> QED BY <3>1, <3>2 DEF IInv, Typed, Single
  <2>3. CASE Unregister
    <3>1. PICK n \in Numbers :
            /\ \/ chip' = [chip EXCEPT ![n].attributes = FALSE]
               \/ chip' = [chip EXCEPT ![n] = Empty]
            /\ lost' = IF FanAt(chip, n) THEN [cached |-> TRUE, now |-> Detecting] ELSE lost
      BY <2>3 DEF Unregister
    <3>2. chip' \in Chips /\ \A m \in Numbers : FanAt(chip', m) => FanAt(chip, m)
      <4>1. CASE chip' = [chip EXCEPT ![n].attributes = FALSE]
        BY <4>1 DEF IInv, Typed, Chips, FanAt
      <4>2. CASE chip' = [chip EXCEPT ![n] = Empty]
        <5>1. Empty \in [kind : Kinds \cup {"none"}, attributes : BOOLEAN]
          BY DEF Empty
        <5>2. Empty.kind # "fan"
          BY DEF Empty
        <5> QED BY <4>2, <5>1, <5>2 DEF IInv, Typed, Chips, FanAt
      <4> QED BY <3>1, <4>1, <4>2
    <3>3. \A m \in Numbers : m # n => (FanAt(chip', m) <=> FanAt(chip, m))
      BY <3>1 DEF IInv, Typed, Chips, FanAt, Empty
    <3>4. lost' \in [cached : BOOLEAN, now : BOOLEAN]
      BY <3>1 DEF IInv, Typed, Detecting
    <3> QED BY <3>1, <3>2, <3>3, <3>4 DEF IInv, Typed, Single
  <2> QED BY <2>1, <2>2, <2>3 DEF World
<1>3. through' \in [all : SUBSET Numbers, some : SUBSET Numbers]
  BY <1>1 DEF IInv, Typed, Whole
<1>4. Typed'
  BY <1>1, <1>2, <1>3 DEF IInv, Typed, Detecting
<1>5. Known'
  BY <1>1, <1>2 DEF IInv, Typed, Known, Parts
<1>6. /\ through'.all \subseteq through.all /\ through.some \subseteq through'.some
      /\ Detecting => through'.all \subseteq Whole(chip')
  BY <1>1 DEF IInv, Typed
<1>7. Pending'
  BY <1>1, <1>6 DEF IInv, Pending, Detecting
<1>8. DetectionFindsTheFan' /\ FanWritesReachTheFan'
  BY <1>1, <1>2, <1>6 DEF IInv, DetectionFindsTheFan, FanWritesReachTheFan
<1>9. Seen'
  BY <1>1 DEF IInv, Typed, Seen, Detecting
<1> QED BY <1>2, <1>4, <1>5, <1>7, <1>8, <1>9 DEF IInv

-----------------------------------------------------------------------------
(* detect_capabilities.                                                     *)

LEMMA DetectIInv == IInv /\ Detect => IInv'
<1> SUFFICES ASSUME IInv, Detect PROVE IInv'
  OBVIOUS
<1> USE DetectionAssumption
<1>1. /\ call.at = "idle" /\ call' = [Idle EXCEPT !.at = "glob", !.query = "oxp_ec"]
      /\ through' = [all |-> Whole(chip), some |-> Whole(chip)]
      /\ UNCHANGED <<chip, cached, written, lost>>
  BY DEF Detect
<1>2. NotFound \in Parts /\ ~NotFound.pwm /\ Whole(chip) \in SUBSET Numbers
  BY DEF NotFound, Parts, Whole
<1>3. /\ call'.at = "glob" /\ call'.query = "oxp_ec" /\ call'.found = NotFound
      /\ call' \in [at : Places, query : {"oxp_ec", "oxpec", Absent},
                    left : SUBSET Numbers, found : Parts]
  BY <1>1, <1>2 DEF Idle, Places
<1>4. Typed'
  BY <1>1, <1>2, <1>3 DEF IInv, Typed, Detecting, AfterScan
<1>5. Known' /\ Single' /\ Pending' /\ Seen'
  BY <1>1, <1>3 DEF IInv, Known, Single, Pending, Seen, Detecting, AfterScan, Whole
<1>6. DetectionFindsTheFan' /\ FanWritesReachTheFan'
  BY <1>1, <1>3 DEF IInv, DetectionFindsTheFan, FanWritesReachTheFan
<1> QED BY <1>4, <1>5, <1>6 DEF IInv

LEMMA GlobIInv == IInv /\ Glob => IInv'
<1> SUFFICES ASSUME IInv, Glob PROVE IInv'
  OBVIOUS
<1> USE DetectionAssumption
<1>1. /\ call.at = "glob"
      /\ call' = [call EXCEPT !.left = {n \in Numbers : chip[n] # Empty}, !.at = "scan"]
      /\ UNCHANGED <<chip, cached, written, lost, through>>
  BY DEF Glob, Line
<1>2. /\ call'.at = "scan" /\ call'.query = call.query /\ call'.found = call.found
      /\ call'.left = {n \in Numbers : chip[n] # Empty}
      /\ call' \in [at : Places, query : {"oxp_ec", "oxpec", Absent},
                    left : SUBSET Numbers, found : Parts]
  BY <1>1 DEF IInv, Typed, Places
<1>3. Typed'
  BY <1>1, <1>2 DEF IInv, Typed, Detecting, AfterScan
<1>4. Known' /\ Single' /\ Seen'
  BY <1>1, <1>2 DEF IInv, Known, Single, Seen, Whole, Detecting, AfterScan
<1>5. Pending'
  <2>1. through.all \subseteq call'.left
    <3>1. through.all \subseteq Whole(chip)
      BY <1>1 DEF IInv, Typed, Pending
    <3>2. \A n \in Whole(chip) : n \in Numbers /\ chip[n] # Empty
      BY DEF Whole, FanAt, Empty
    <3> QED BY <1>2, <3>1, <3>2
  <2> QED BY <1>1, <1>2, <2>1 DEF IInv, Pending, Detecting, AfterScan
<1>6. DetectionFindsTheFan' /\ FanWritesReachTheFan'
  BY <1>1, <1>2 DEF IInv, DetectionFindsTheFan, FanWritesReachTheFan
<1> QED BY <1>3, <1>4, <1>5, <1>6 DEF IInv

(* The name is the fan's, or the number is not one the fan has had all the  *)
(* time.                                                                    *)
LEMMA ReadNameIInv == IInv /\ ReadName => IInv'
<1> SUFFICES ASSUME IInv, ReadName PROVE IInv'
  OBVIOUS
<1> USE DetectionAssumption
<1>1. call.at = "scan" /\ UNCHANGED <<chip, cached, written, lost, through>>
  BY DEF ReadName, Line
<1>2. PICK n \in call.left :
        call' = IF Name(n) = call.query THEN Found(n)
                ELSE [call EXCEPT !.left = @ \ {n}]
  BY DEF ReadName
<1>3. n \in Numbers /\ call.query \in {"oxp_ec", "oxpec"} /\ through.all \subseteq Whole(chip)
  BY <1>1, <1>2 DEF IInv, Typed, Pending, Detecting
<1>4. CASE Name(n) = call.query
  <2>1. n \in Whole(chip) /\ FanAt(chip, n) /\ FanName = call.query
    <3>1. chip[n].attributes
      <4>1. SUFFICES ASSUME ~chip[n].attributes PROVE FALSE
        OBVIOUS
      <4>2. Name(n) = Absent
        BY <4>1 DEF Name
      <4> QED BY <4>2, <1>3, <1>4
    <3>2. FanAt(chip, n)
      <4>1. SUFFICES ASSUME ~FanAt(chip, n) PROVE FALSE
        OBVIOUS
      <4>2. Name(n) = "another"
        BY <3>1, <4>1 DEF Name
      <4> QED BY <4>2, <1>3, <1>4
    <3>3. Name(n) = FanName
      BY <3>1, <3>2 DEF Name
    <3> QED BY <1>3, <1>4, <3>1, <3>2, <3>3 DEF Whole
  <2>2. /\ call'.at = "name" /\ call'.query = call.query
        /\ call'.found.fan = n /\ ~call'.found.pwm /\ call'.found.driver_available
        /\ call' \in [at : Places, query : {"oxp_ec", "oxpec", Absent},
                      left : SUBSET Numbers, found : Parts]
    BY <1>2, <1>3, <1>4 DEF Found, IInv, Typed, Places, AfterScan, Parts
  <2>3. Typed'
    BY <1>1, <1>3, <2>2 DEF IInv, Typed, Detecting, AfterScan
  <2>4. Known' /\ Single' /\ Seen'
    BY <1>1, <1>3, <2>1, <2>2 DEF IInv, Known, Single, Seen, Whole, Detecting
  <2>5. Pending'
    <3>1. through.all \subseteq {n}
      BY <1>3, <2>1 DEF IInv, Single, Whole
    <3>2. n \in through.some
      BY <1>1, <1>3, <2>1 DEF IInv, Seen, Detecting
    <3> QED BY <1>1, <1>3, <2>2, <3>1, <3>2 DEF Pending, AfterScan
  <2>6. DetectionFindsTheFan' /\ FanWritesReachTheFan'
    BY <1>1, <2>2 DEF IInv, DetectionFindsTheFan, FanWritesReachTheFan
  <2> QED BY <2>3, <2>4, <2>5, <2>6 DEF IInv
<1>5. CASE Name(n) # call.query
  <2>1. /\ call'.at = "scan" /\ call'.query = call.query /\ call'.found = call.found
        /\ call'.left = call.left \ {n}
        /\ call' \in [at : Places, query : {"oxp_ec", "oxpec", Absent},
                      left : SUBSET Numbers, found : Parts]
    BY <1>1, <1>2, <1>5 DEF IInv, Typed
  <2>2. Typed'
    BY <1>1, <2>1 DEF IInv, Typed, Detecting
  <2>3. Known' /\ Single' /\ Seen'
    BY <1>1, <2>1 DEF IInv, Known, Single, Seen, Whole, Detecting, AfterScan
  <2>4. call.query = FanName => n \notin through.all
    BY <1>3, <1>5 DEF Name, Whole
  <2>5. Pending'
    BY <1>1, <2>1, <2>4 DEF IInv, Pending, Detecting, AfterScan
  <2>6. DetectionFindsTheFan' /\ FanWritesReachTheFan'
    BY <1>1, <2>1 DEF IInv, DetectionFindsTheFan, FanWritesReachTheFan
  <2> QED BY <2>2, <2>3, <2>5, <2>6 DEF IInv
<1> QED BY <1>4, <1>5

LEMMA NextQueryIInv == IInv /\ NextQuery => IInv'
<1> SUFFICES ASSUME IInv, NextQuery PROVE IInv'
  OBVIOUS
<1> USE DetectionAssumption
<1>1. /\ call.at = "scan" /\ call.left = {}
      /\ UNCHANGED <<chip, cached, written, lost, through>>
      /\ call' = IF call.query = "oxp_ec"
                 THEN [call EXCEPT !.query = "oxpec", !.at = "glob"]
                 ELSE [call EXCEPT !.at = "rest"]
  BY DEF NextQuery, Line
<1>2. /\ call'.found = call.found /\ call'.left = call.left
      /\ call' \in [at : Places, query : {"oxp_ec", "oxpec", Absent},
                    left : SUBSET Numbers, found : Parts]
      /\ IF call.query = "oxp_ec"
         THEN call'.at = "glob" /\ call'.query = "oxpec"
         ELSE call'.at = "rest" /\ call'.query = call.query
  BY <1>1 DEF IInv, Typed, Places, AfterScan
<1>3. call.query \in {"oxp_ec", "oxpec"} /\ call.found.fan = Absent
  BY <1>1 DEF IInv, Typed, Detecting, Seen, NotFound
<1>4. Typed'
  BY <1>1, <1>2, <1>3 DEF IInv, Typed, Detecting, AfterScan
<1>5. Known' /\ Single' /\ Seen'
  BY <1>1, <1>2, <1>3 DEF IInv, Known, Single, Seen, Whole, Detecting, AfterScan
<1>6. Pending'
  <2>1. call.query = FanName => through.all = {}
    BY <1>1 DEF IInv, Pending
  <2>2. call.query = "oxpec" => through.all = {}
    BY <1>1, <2>1 DEF IInv, Pending
  <2> QED BY <1>1, <1>2, <1>3, <2>1, <2>2 DEF IInv, Pending, Detecting, AfterScan
<1>7. DetectionFindsTheFan' /\ FanWritesReachTheFan'
  BY <1>1, <1>2 DEF IInv, DetectionFindsTheFan, FanWritesReachTheFan
<1> QED BY <1>4, <1>5, <1>6, <1>7 DEF IInv

LEMMA ReadNameAgainIInv == IInv /\ ReadNameAgain => IInv'
<1> SUFFICES ASSUME IInv, ReadNameAgain PROVE IInv'
  OBVIOUS
<1> USE DetectionAssumption
<1>1. call.at = "name" /\ UNCHANGED <<chip, cached, written, lost, through>>
  BY DEF ReadNameAgain, Line
<1>2. PICK name \in {"oxp_ec", "oxpec", "another"} :
        /\ call' = [call EXCEPT !.found.name = name, !.at = "pwm"]
        /\ call.found.fan \in Whole(chip) => name = FanName
  <2>1. call' = [call EXCEPT !.found.name =
                   IF Name(call.found.fan) = Absent THEN "oxp_ec" ELSE Name(call.found.fan),
                             !.at = "pwm"]
    BY DEF ReadNameAgain
  <2>2. Name(call.found.fan) \in {Absent, FanName, "another"}
    BY DEF Name
  <2>3. call.found.fan \in Whole(chip) => Name(call.found.fan) = FanName
    BY DEF Name, Whole
  <2> QED BY <2>1, <2>2, <2>3
<1>3. /\ call'.at = "pwm" /\ call'.query = call.query /\ call'.left = call.left
      /\ call'.found.fan = call.found.fan /\ call'.found.name = name
      /\ call'.found.pwm = call.found.pwm /\ call'.found.enable = call.found.enable
      /\ call'.found.driver_available = call.found.driver_available
      /\ call' \in [at : Places, query : {"oxp_ec", "oxpec", Absent},
                    left : SUBSET Numbers, found : Parts]
  BY <1>1, <1>2 DEF IInv, Typed, Parts, Places, AfterScan
<1>4. Known' /\ Single' /\ Seen'
  BY <1>1, <1>3 DEF IInv, Known, Single, Seen, Whole, Detecting, AfterScan
<1>5. Pending'
  BY <1>1, <1>3, <1>2 DEF IInv, Typed, Pending, Detecting, AfterScan
<1>6. DetectionFindsTheFan' /\ FanWritesReachTheFan'
  BY <1>1, <1>3 DEF IInv, DetectionFindsTheFan, FanWritesReachTheFan
<1>7. Typed'
  BY <1>1, <1>3 DEF IInv, Typed, Detecting, AfterScan
<1> QED BY <1>4, <1>5, <1>6, <1>7 DEF IInv

LEMMA FindPwmIInv == IInv /\ FindPwm => IInv'
<1> SUFFICES ASSUME IInv, FindPwm PROVE IInv'
  OBVIOUS
<1> USE DetectionAssumption
<1>1. call.at = "pwm" /\ UNCHANGED <<chip, cached, written, lost, through>>
  BY DEF FindPwm, Line
<1>2. PICK there \in BOOLEAN :
        /\ call' = [call EXCEPT !.found.pwm = there, !.at = "enable"]
        /\ call.found.fan \in Whole(chip) => there
  <2>1. HasPwm(call.found.fan) \in BOOLEAN
    BY <1>1 DEF IInv, Typed, Chips, Parts, HasPwm
  <2>2. call.found.fan \in Whole(chip) => HasPwm(call.found.fan)
    BY DEF HasPwm, Whole, FanAt
  <2>3. call' = [call EXCEPT !.found.pwm = HasPwm(call.found.fan), !.at = "enable"]
    BY DEF FindPwm
  <2> QED BY <2>1, <2>2, <2>3
<1>3. /\ call'.at = "enable" /\ call'.query = call.query /\ call'.left = call.left
      /\ call'.found.fan = call.found.fan /\ call'.found.name = call.found.name
      /\ call'.found.pwm = there /\ call'.found.enable = call.found.enable
      /\ call'.found.driver_available = call.found.driver_available
      /\ call' \in [at : Places, query : {"oxp_ec", "oxpec", Absent},
                    left : SUBSET Numbers, found : Parts]
  BY <1>1, <1>2 DEF IInv, Typed, Parts, Places, AfterScan
<1>4. Known' /\ Single' /\ Seen'
  BY <1>1, <1>3 DEF IInv, Known, Single, Seen, Whole, Detecting, AfterScan
<1>5. Pending'
  BY <1>1, <1>3, <1>2 DEF IInv, Typed, Pending, Detecting, AfterScan
<1>6. DetectionFindsTheFan' /\ FanWritesReachTheFan'
  BY <1>1, <1>3 DEF IInv, DetectionFindsTheFan, FanWritesReachTheFan
<1>7. Typed'
  BY <1>1, <1>3 DEF IInv, Typed, Detecting, AfterScan
<1> QED BY <1>4, <1>5, <1>6, <1>7 DEF IInv

LEMMA FindEnableIInv == IInv /\ FindEnable => IInv'
<1> SUFFICES ASSUME IInv, FindEnable PROVE IInv'
  OBVIOUS
<1> USE DetectionAssumption
<1>1. call.at = "enable" /\ UNCHANGED <<chip, cached, written, lost, through>>
  BY DEF FindEnable, Line
<1>2. PICK there \in BOOLEAN :
        /\ call' = [call EXCEPT !.found.enable = there, !.at = "rest"]
        /\ call.found.fan \in Whole(chip) => there
  <2>1. HasPwm(call.found.fan) \in BOOLEAN
    BY <1>1 DEF IInv, Typed, Chips, Parts, HasPwm
  <2>2. call.found.fan \in Whole(chip) => HasPwm(call.found.fan)
    BY DEF HasPwm, Whole, FanAt
  <2>3. call' = [call EXCEPT !.found.enable = HasPwm(call.found.fan), !.at = "rest"]
    BY DEF FindEnable
  <2> QED BY <2>1, <2>2, <2>3
<1>3. /\ call'.at = "rest" /\ call'.query = call.query /\ call'.left = call.left
      /\ call'.found.fan = call.found.fan /\ call'.found.name = call.found.name
      /\ call'.found.enable = there /\ call'.found.pwm = call.found.pwm
      /\ call'.found.driver_available = call.found.driver_available
      /\ call' \in [at : Places, query : {"oxp_ec", "oxpec", Absent},
                    left : SUBSET Numbers, found : Parts]
  BY <1>1, <1>2 DEF IInv, Typed, Parts, Places, AfterScan
<1>4. Known' /\ Single' /\ Seen'
  BY <1>1, <1>3 DEF IInv, Known, Single, Seen, Whole, Detecting, AfterScan
<1>5. Pending'
  BY <1>1, <1>3, <1>2 DEF IInv, Typed, Pending, Detecting, AfterScan
<1>6. DetectionFindsTheFan' /\ FanWritesReachTheFan'
  BY <1>1, <1>3 DEF IInv, DetectionFindsTheFan, FanWritesReachTheFan
<1>7. Typed'
  BY <1>1, <1>3 DEF IInv, Typed, Detecting, AfterScan
<1> QED BY <1>4, <1>5, <1>6, <1>7 DEF IInv


LEMMA EndIInv == IInv /\ (Raise \/ Return) => IInv'
<1> SUFFICES ASSUME IInv, Raise \/ Return PROVE IInv'
  OBVIOUS
<1> USE DetectionAssumption
<1>1. /\ call' = Idle /\ through' = Nowhere /\ UNCHANGED <<chip, cached, written>>
      /\ lost' \in [cached : BOOLEAN, now : BOOLEAN] /\ lost'.cached = lost.cached
  BY DEF Raise, Return, IInv, Typed
<1>2. NotFound \in Parts /\ ~NotFound.pwm
  BY DEF NotFound, Parts
<1>3. /\ call'.at = "idle" /\ call'.query = Absent /\ call'.found = NotFound
      /\ call' \in [at : Places, query : {"oxp_ec", "oxpec", Absent},
                    left : SUBSET Numbers, found : Parts]
  BY <1>1, <1>2 DEF Idle, Places
<1>4. Typed'
  BY <1>1, <1>2, <1>3 DEF IInv, Typed, Nowhere, Detecting, AfterScan
<1>5. Known' /\ Single' /\ Pending' /\ Seen'
  BY <1>1, <1>3 DEF IInv, Known, Single, Pending, Seen, Detecting, AfterScan
<1>6. DetectionFindsTheFan' /\ FanWritesReachTheFan'
  BY <1>1, <1>3 DEF IInv, DetectionFindsTheFan, FanWritesReachTheFan
<1> QED BY <1>4, <1>5, <1>6 DEF IInv

(* The cache takes over what was found and whether the fan left meanwhile.  *)
LEMMA AssignIInv == IInv /\ Assign => IInv'
<1> SUFFICES ASSUME IInv, Assign PROVE IInv'
  OBVIOUS
<1> USE DetectionAssumption
<1>1. /\ call.at = "rest" /\ cached' = call.found /\ written' = Absent
      /\ lost' = [cached |-> lost.now, now |-> FALSE]
      /\ call' = [Idle EXCEPT !.at = "assigned"]
      /\ UNCHANGED <<chip, through>>
  BY DEF Assign
<1>2. NotFound \in Parts /\ ~NotFound.pwm
  BY DEF NotFound, Parts
<1>3. /\ call'.at = "assigned" /\ call'.query = Absent /\ call'.found = NotFound
      /\ call' \in [at : Places, query : {"oxp_ec", "oxpec", Absent},
                    left : SUBSET Numbers, found : Parts]
  BY <1>1, <1>2 DEF Idle, Places
<1>4. Typed'
  BY <1>1, <1>2, <1>3 DEF IInv, Typed, Detecting, AfterScan
<1>5. Known' /\ Single' /\ Pending' /\ Seen'
  BY <1>1, <1>3 DEF IInv, Known, Single, Pending, Seen, Detecting, AfterScan
<1>6. DetectionFindsTheFan'
  <2>1. /\ \A n \in through.all :
             /\ call.found.fan = n /\ call.found.name = FanName
             /\ call.found.pwm /\ call.found.enable /\ call.found.driver_available
        /\ call.found.fan # Absent => call.found.fan \in through.some
    BY <1>1 DEF IInv, Pending, AfterScan
  <2>2. \A n \in through.all :
          call.found = [fan |-> n, name |-> FanName, pwm |-> TRUE, enable |-> TRUE,
                        driver_available |-> TRUE]
    BY <2>1 DEF IInv, Typed, Parts
  <2> QED BY <1>1, <2>1, <2>2 DEF DetectionFindsTheFan
<1>7. FanWritesReachTheFan'
  BY <1>1 DEF FanWritesReachTheFan
<1> QED BY <1>4, <1>5, <1>6, <1>7 DEF IInv

-----------------------------------------------------------------------------
(* set_fan_duty and set_fan_auto.                                           *)

LEMMA SetIInv == IInv /\ (SetFanDuty \/ SetFanAuto) => IInv'
<1> SUFFICES ASSUME IInv, SetFanDuty \/ SetFanAuto PROVE IInv'
  OBVIOUS
<1> USE DetectionAssumption
<1>1. /\ call.at = "idle" /\ cached.pwm
      /\ UNCHANGED <<chip, cached, written, lost, through>>
  BY DEF SetFanDuty, SetFanAuto, Line
<1>2. PICK place \in {"mode", "duty", "auto"} : call' = [Idle EXCEPT !.at = place]
  BY DEF SetFanDuty, SetFanAuto
<1>3. NotFound \in Parts /\ ~NotFound.pwm
  BY DEF NotFound, Parts
<1>4. /\ call'.at = place /\ call'.query = Absent /\ call'.found = NotFound
      /\ call' \in [at : Places, query : {"oxp_ec", "oxpec", Absent},
                    left : SUBSET Numbers, found : Parts]
  BY <1>2, <1>3 DEF Idle, Places
<1>5. Typed'
  BY <1>1, <1>3, <1>4 DEF IInv, Typed, Detecting, AfterScan
<1>6. Known' /\ Single' /\ Pending' /\ Seen'
  BY <1>1, <1>4 DEF IInv, Known, Single, Pending, Seen, Detecting, AfterScan
<1>7. DetectionFindsTheFan' /\ FanWritesReachTheFan'
  BY <1>1, <1>4 DEF IInv, DetectionFindsTheFan, FanWritesReachTheFan
<1> QED BY <1>5, <1>6, <1>7 DEF IInv

(* A write reaches the chip that has the cached number: the fan's, if the   *)
(* fan has not left.                                                        *)
LEMMA WriteIInv ==
  ASSUME IInv, NEW place \in {"mode", "duty", "auto"}, NEW then \in {"duty", "idle"},
         Write(place, then)
  PROVE  IInv'
<1> USE DetectionAssumption
<1>1. /\ call.at = place /\ UNCHANGED <<chip, cached, lost, through>>
      /\ call' = [call EXCEPT !.at = then] \/ call' = Idle
      /\ \/ UNCHANGED written
         \/ HasPwm(cached.fan) /\ written' = chip[cached.fan].kind
  BY DEF Write
<1>2. NotFound \in Parts /\ ~NotFound.pwm
  BY DEF NotFound, Parts
<1>3. /\ call'.at \in {"duty", "idle"} /\ call'.query = Absent
      /\ call'.found.pwm => call'.found.fan # Absent
      /\ call' \in [at : Places, query : {"oxp_ec", "oxpec", Absent},
                    left : SUBSET Numbers, found : Parts]
  <2>1. CASE call' = [call EXCEPT !.at = then]
    BY <1>1, <2>1 DEF IInv, Typed, Places, Detecting, AfterScan
  <2>2. CASE call' = Idle
    BY <1>2, <2>2 DEF Idle, Places
  <2> QED BY <1>1, <2>1, <2>2
<1>4. call'.at \in {"duty", "idle"}
  BY <1>1 DEF IInv, Typed, Idle
<1>5. Typed'
  BY <1>1, <1>3, <1>4 DEF IInv, Typed, Detecting, AfterScan
<1>6. Known' /\ Single' /\ Pending' /\ Seen'
  BY <1>1, <1>3, <1>4 DEF IInv, Known, Single, Pending, Seen, Detecting, AfterScan
<1>7. DetectionFindsTheFan'
  BY <1>4 DEF DetectionFindsTheFan
<1>8. FanWritesReachTheFan'
  <2>1. cached.fan # Absent
    BY <1>1 DEF IInv, Typed
  <2>2. lost.cached \/ chip[cached.fan].kind = "fan"
    BY <2>1 DEF IInv, Known, FanAt
  <2> QED BY <1>1, <2>2 DEF IInv, FanWritesReachTheFan
<1> QED BY <1>5, <1>6, <1>7, <1>8 DEF IInv

-----------------------------------------------------------------------------
LEMMA NextIInv == IInv /\ [Next]_vars => IInv'
<1> SUFFICES ASSUME IInv, [Next]_vars PROVE IInv'
  OBVIOUS
<1>1. CASE UNCHANGED vars
  BY <1>1 DEF vars, IInv, Typed, Known, Single, Pending, Seen, Detecting,
     DetectionFindsTheFan, FanWritesReachTheFan
<1>2. CASE World \/ Detect \/ Glob \/ ReadName \/ NextQuery
  BY <1>2, WorldIInv, DetectIInv, GlobIInv, ReadNameIInv, NextQueryIInv
<1>3. CASE ReadNameAgain \/ FindPwm \/ FindEnable \/ Raise \/ Assign \/ Return
  BY <1>3, ReadNameAgainIInv, FindPwmIInv, FindEnableIInv, AssignIInv, EndIInv
<1>4. CASE SetFanDuty \/ SetFanAuto
  BY <1>4, SetIInv
<1>5. CASE WriteMode \/ WriteDuty \/ WriteAuto
  BY <1>5, WriteIInv DEF WriteMode, WriteDuty, WriteAuto
<1> QED BY <1>1, <1>2, <1>3, <1>4, <1>5 DEF Next

(* A fan that is there all through a detection is found, with its name and  *)
(* both paths, whichever chips come and go meanwhile.                       *)
THEOREM PresentFanIsFound == Spec => []DetectionFindsTheFan
<1>1. IInv => DetectionFindsTheFan
  BY DEF IInv
<1> QED BY InitIInv, NextIInv, <1>1, PTL DEF Spec

(* A fan write reaches another chip only after the fan has left.            *)
THEOREM OnlyALostFanIsMistaken == Spec => []FanWritesReachTheFan
<1>1. IInv => FanWritesReachTheFan
  BY DEF IInv
<1> QED BY InitIInv, NextIInv, <1>1, PTL DEF Spec

-----------------------------------------------------------------------------
(* What a snapshot offers and shows.                                        *)

Keys == {"boost", "ppd", "epp", "profiles", "fan", "gsd", "backlight"}

(* What has been read from an owner it held during this refresh.            *)
Real(d) == got[d] # None => got[d] \in seen[d] \ {Gone}

SnapshotInv ==
  /\ DOMAIN source = Sources
  /\ got = [r \in Keys |-> got[r]] /\ seen = [d \in Daemons |-> seen[d]]
  /\ got["profiles"] \subseteq Profiles
  /\ \A d \in Daemons : Real(d)
  /\ next # 0 => \A d \in Daemons : source[d] \in seen[d]
  /\ next = 0 => got = Nothing
  /\ next \in 0 .. Len(Reads) + 1
  /\ OffersAreServable /\ ObservedWasReal

-----------------------------------------------------------------------------
LEMMA ReadsAreKeys ==
  /\ Len(Reads) = 7 /\ DOMAIN Reads = 1 .. 7
  /\ \A i \in 1 .. 7 : Reads[i] \in Keys
  /\ {Reads[i] : i \in DOMAIN Reads} = Keys
<1>1. Len(Reads) = 7 /\ DOMAIN Reads = 1 .. 7
  BY DEF Reads
<1>2. /\ Reads[1] = "boost" /\ Reads[2] = "ppd" /\ Reads[3] = "epp"
      /\ Reads[4] = "profiles" /\ Reads[5] = "fan" /\ Reads[6] = "gsd"
      /\ Reads[7] = "backlight"
  BY DEF Reads
<1>3. \A i \in 1 .. 7 : Reads[i] \in Keys
  <2> TAKE i \in 1 .. 7
  <2>1. i \in {1, 2, 3, 4, 5, 6, 7}
    OBVIOUS
  <2> QED BY <1>2, <2>1 DEF Keys
<1>4. \A k \in Keys : \E i \in 1 .. 7 : Reads[i] = k
  BY <1>2 DEF Keys
<1> QED BY <1>1, <1>3, <1>4

LEMMA NothingRead ==
  /\ Nothing = [r \in Keys |-> Nothing[r]]
  /\ Nothing["profiles"] = {} /\ \A d \in Daemons : Nothing[d] = None
BY ReadsAreKeys DEF Nothing, Keys, Daemons

(* A record built from what was read offers a write only if its capability  *)
(* is validated, and then only what is served; and it shows what was read.  *)
LEMMA RecordIsServable ==
  ASSUME SnapshotInv, NEW id \in CapabilityIds, can_write(build_capability_records[id])
  PROVE  /\ \A value \in build_capability_records[id].choices : Servable(id, value)
         /\ id \in OWNER_ROUTED_WRITES => build_capability_records[id].backend # "platform"
         /\ id = "performance.epp" =>
              /\ got["ppd"] # None
              /\ build_capability_records[id].observed_value = got["ppd"]
         /\ id = "display.brightness" =>
              /\ got["gsd"] \notin {None, NoBacklight}
              /\ build_capability_records[id].observed_value = got["gsd"]
<1>1. CASE id = "performance.cpu_boost"
  <2>1. build_capability_records[id] = BoostRecord
    BY <1>1 DEF build_capability_records
  <2> QED BY <1>1, <2>1 DEF BoostRecord, Offer, _unavailable, ReadOnly, can_write,
             Servable, OWNER_ROUTED_WRITES
<1>2. CASE id = "performance.epp"
  <2>1. build_capability_records[id] = EppRecord
    BY <1>2 DEF build_capability_records
  <2> QED BY <1>2, <2>1 DEF EppRecord, Offer, Fallback, _unavailable, ReadOnly, can_write,
             Servable, SnapshotInv
<1>3. CASE id = "cooling.internal_fan"
  <2>1. build_capability_records[id] = FanRecord
    BY <1>3 DEF build_capability_records
  <2> QED BY <1>3, <2>1 DEF FanRecord, Offer, _unavailable, ReadOnly, can_write,
             Servable, OWNER_ROUTED_WRITES
<1>4. CASE id = "display.brightness"
  <2>1. build_capability_records[id] = BrightnessRecord
    BY <1>4 DEF build_capability_records
  <2> QED BY <1>4, <2>1 DEF BrightnessRecord, Offer, Fallback, _unavailable, ReadOnly,
             can_write, Servable
<1>5. CASE id \notin Writable
  <2>1. build_capability_records[id] = StaticRecord(id)
    BY <1>5 DEF build_capability_records, Writable, OWNER_ROUTED_WRITES
  <2> QED BY <2>1 DEF StaticRecord, ReadOnly, can_write
<1> QED BY <1>1, <1>2, <1>3, <1>4, <1>5 DEF Writable, OWNER_ROUTED_WRITES

-----------------------------------------------------------------------------
LEMMA InitSnapshot == SnapshotInit => SnapshotInv
<1> SUFFICES ASSUME SnapshotInit PROVE SnapshotInv
  OBVIOUS
<1>1. OffersAreServable /\ ObservedWasReal
  <2>1. \A id \in CapabilityIds : ~can_write(client[id])
    BY DEF SnapshotInit, _unavailable, ReadOnly, can_write
  <2> QED BY <2>1, SnapshotAssumption DEF OffersAreServable, ObservedWasReal, Writable,
             OWNER_ROUTED_WRITES
<1>2. /\ DOMAIN source = Sources /\ seen = [d \in Daemons |-> seen[d]]
      /\ got = Nothing /\ next = 0
  BY DEF SnapshotInit
<1>3. next \in 0 .. Len(Reads) + 1
  BY <1>2, ReadsAreKeys
<1>4. \A d \in Daemons : Real(d)
  BY <1>2, NothingRead DEF Real
<1>5. got = [r \in Keys |-> got[r]] /\ got["profiles"] \subseteq Profiles
  BY <1>2, NothingRead
<1> QED BY <1>1, <1>2, <1>3, <1>4, <1>5 DEF SnapshotInv

LEMMA DetectSnapshot == SnapshotInv /\ RefreshCapabilities => SnapshotInv'
<1> SUFFICES ASSUME SnapshotInv, RefreshCapabilities PROVE SnapshotInv'
  OBVIOUS
<1>1. got = Nothing /\ got' = got /\ source' = source /\ client' = client /\ next' = 1
  BY DEF SnapshotInv, RefreshCapabilities
<1>2. OffersAreServable' /\ ObservedWasReal'
  BY <1>1 DEF SnapshotInv, OffersAreServable, ObservedWasReal
<1> QED
  BY <1>1, <1>2, NothingRead, ReadsAreKeys DEF SnapshotInv, RefreshCapabilities, Real, Daemons

LEMMA ReadSnapshot == SnapshotInv /\ Read => SnapshotInv'
<1> SUFFICES ASSUME SnapshotInv, Read PROVE SnapshotInv'
  OBVIOUS
<1>1. /\ next \in 1 .. 7 /\ next' = next + 1 /\ next' \in 0 .. 8 /\ next' # 0
      /\ UNCHANGED <<source, client, seen>>
  BY ReadsAreKeys DEF Read
<1>2. CASE UNCHANGED got
  BY <1>1, <1>2, ReadsAreKeys DEF SnapshotInv, Real, OffersAreServable, ObservedWasReal
<1>3. CASE got' # got
  <2>1. PICK read \in Keys : \E answer \in Answers(read) :
          got' = [got EXCEPT ![read] = answer]
    BY <1>1, <1>3, ReadsAreKeys DEF Read
  <2>2. PICK answer \in Answers(read) : got' = [got EXCEPT ![read] = answer]
    BY <2>1
  <2>3. read = "profiles" => answer \subseteq Profiles
    BY DEF Answers
  <2>4. read \in Daemons => answer = None \/ (answer = source[read] /\ answer # Gone)
    BY DEF Answers, Daemons
  <2>5. /\ got' = [r \in Keys |-> got'[r]]
        /\ \A r \in Keys : got'[r] = IF r = read THEN answer ELSE got[r]
    BY <2>2 DEF SnapshotInv
  <2>6. got'["profiles"] \subseteq Profiles
    BY <2>3, <2>5 DEF SnapshotInv, Keys
  <2>7. \A d \in Daemons : Real(d)'
    BY <1>1, <2>4, <2>5 DEF SnapshotInv, Real, Daemons, Keys
  <2>8. OffersAreServable' /\ ObservedWasReal'
    BY <1>1 DEF SnapshotInv, OffersAreServable, ObservedWasReal
  <2> QED BY <1>1, <2>5, <2>6, <2>7, <2>8, ReadsAreKeys DEF SnapshotInv
<1> QED BY <1>2, <1>3

LEMMA DeliverSnapshot == SnapshotInv /\ Deliver => SnapshotInv'
<1> SUFFICES ASSUME SnapshotInv, Deliver PROVE SnapshotInv'
  OBVIOUS
<1>1. /\ next' = 0 /\ got' = Nothing /\ UNCHANGED <<source, low, seen>>
      /\ client' = build_capability_records
  BY DEF Deliver
<1>2. OffersAreServable'
  BY <1>1, RecordIsServable DEF OffersAreServable
<1>3. ObservedWasReal'
  BY <1>1, RecordIsServable, SnapshotAssumption
     DEF ObservedWasReal, SnapshotInv, Real, Daemons, Writable, OWNER_ROUTED_WRITES
<1> QED
  BY <1>1, <1>2, <1>3, NothingRead, ReadsAreKeys DEF SnapshotInv, Real

LEMMA WorldSnapshot == SnapshotInv /\ SourceChanges => SnapshotInv'
<1> SUFFICES ASSUME SnapshotInv, SourceChanges PROVE SnapshotInv'
  OBVIOUS
<1>1. PICK s \in Sources : \E content \in Contents[s] :
        /\ source' = [source EXCEPT ![s] = content]
        /\ seen' = IF next # 0 /\ s \in Daemons
                   THEN [seen EXCEPT ![s] = @ \cup {content}] ELSE seen
        /\ UNCHANGED <<low, next, got, client>>
  BY DEF SourceChanges
<1>2. PICK content \in Contents[s] :
        /\ source' = [source EXCEPT ![s] = content]
        /\ seen' = IF next # 0 /\ s \in Daemons
                   THEN [seen EXCEPT ![s] = @ \cup {content}] ELSE seen
        /\ UNCHANGED <<low, next, got, client>>
  BY <1>1
<1>3. /\ DOMAIN source' = Sources /\ seen' = [d \in Daemons |-> seen'[d]]
      /\ \A d \in Daemons : seen[d] \subseteq seen'[d]
      /\ next = 0 => seen' = seen
      /\ next # 0 => \A d \in Daemons : source'[d] \in seen'[d]
  BY <1>2 DEF SnapshotInv, Sources, Daemons, Attributes
<1>4. OffersAreServable' /\ ObservedWasReal'
  BY <1>2, <1>3 DEF SnapshotInv, OffersAreServable, ObservedWasReal
<1> QED
  BY <1>2, <1>3, <1>4 DEF SnapshotInv, Real

LEMMA SnapshotInvariant == SnapshotSpec => []SnapshotInv
<1>1. SnapshotInv /\ UNCHANGED snapshotVars => SnapshotInv'
  BY DEF SnapshotInv, snapshotVars, Real, OffersAreServable, ObservedWasReal
<1>2. SnapshotInv /\ [SnapshotNext]_snapshotVars => SnapshotInv'
  BY <1>1, DetectSnapshot, ReadSnapshot, DeliverSnapshot, WorldSnapshot DEF SnapshotNext, Refresh
<1> QED BY InitSnapshot, <1>2, PTL DEF SnapshotSpec

(* What an enabled control can be put at is a write the service accepts,    *)
(* and it goes to the owner where there is one.                             *)
THEOREM OffersAreServed == SnapshotSpec => []OffersAreServable
<1>1. SnapshotInv => OffersAreServable
  BY DEF SnapshotInv
<1> QED BY SnapshotInvariant, <1>1, PTL

(* An enabled control of an owner shows a value the owner held during the   *)
(* refresh it comes from.                                                   *)
THEOREM ObservationsAreReal == SnapshotSpec => []ObservedWasReal
<1>1. SnapshotInv => ObservedWasReal
  BY DEF SnapshotInv
<1> QED BY SnapshotInvariant, <1>1, PTL
=============================================================================
