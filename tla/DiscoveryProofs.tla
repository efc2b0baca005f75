-------------------------- MODULE DiscoveryProofs --------------------------
(* The safety invariants of Discovery, for any internal drives, any number *)
(* of moves of the Mini SSD and either place where namespaces appear.      *)
EXTENDS Discovery, TLAPS

-----------------------------------------------------------------------------
(* The drive. *)

(* What is below it in sysfs is there only if what is above it is.          *)
Shape(s) ==
  /\ s \in Slots /\ s.ctrl \notin Internal
  /\ s.dir => s.pci
  /\ s.ctrl # None => s.dir
  /\ s.ns \/ s.hung \/ s.state # None => s.ctrl # None

(* One move takes the drive down by one level at most: a controller goes    *)
(* before its device, and leaves the device without a namespace.            *)
LEMMA OneLevel ==
  ASSUME Shape(slot), Move \/ Recover
  PROVE  /\ Shape(slot')
         /\ slot.pci => slot'.pci \/ ~slot.ns
         /\ slot.ctrl # None =>
              \/ slot'.ctrl = slot.ctrl
              \/ slot'.ctrl = None /\ slot'.pci /\ ~slot'.ns
<1> USE DriveAssumption DEF Shape, Slots
<1>1. CASE Arrive     BY <1>1 DEF Arrive
<1>2. CASE MakeDir    BY <1>2 DEF MakeDir
<1>3. CASE Register   BY <1>3 DEF Register
<1>4. CASE ScanNamespaces  BY <1>4 DEF ScanNamespaces
<1>5. CASE Hang       BY <1>5 DEF Hang
<1>6. CASE Unregister BY <1>6 DEF Unregister
<1>7. CASE RemoveDir  BY <1>7 DEF RemoveDir
<1>8. CASE Leave      BY <1>8 DEF Leave
<1>9. CASE Mount      BY <1>9 DEF Mount
<1>10. CASE Unmount   BY <1>10 DEF Unmount
<1>11. CASE Reset     BY <1>11 DEF Reset
<1>12. CASE GoLive    BY <1>12 DEF GoLive
<1>13. CASE GiveUp    BY <1>13 DEF GiveUp
<1> QED
  BY <1>1, <1>2, <1>3, <1>4, <1>5, <1>6, <1>7, <1>8, <1>9, <1>10, <1>11,
     <1>12, <1>13 DEF Move, Recover
-----------------------------------------------------------------------------
(* The call. *)

RowPlaces == {"model", "row_namespaces", "row_device", "row_resolve", "row_parent",
              "row_state"}

Making == [ctrl : Numbers, biwin : BOOLEAN,
           address : {"mini", "internal", "bridge", None}, namespaces : BOOLEAN]

Calls ==
  [by : Callers \cup {None}, at : Places, state : States \cup {None},
   pci : BOOLEAN, ctrl : (Numbers \ Internal) \cup {None}, namespaces : BOOLEAN,
   controller_state : {"connecting", "live", "dead", None},
   link : BOOLEAN, temperature : BOOLEAN, power : BOOLEAN, io : BOOLEAN,
   mounted : BOOLEAN \cup {None},
   todo : SUBSET Numbers, row : Making \cup {None},
   rows : SUBSET [ctrl : Numbers, is_mini : BOOLEAN,
                  classification : States \cup {None}]]

Typed ==
  /\ Shape(slot)
  /\ call \in Calls
  /\ call.at \in RowPlaces => call.row \in Making
  /\ call.ctrl # None => call.pci
  /\ call.namespaces => call.ctrl # None
  /\ moments \subseteq Slots /\ departed \subseteq Numbers \ Internal
  /\ moves \in 0 .. MaxMoves

(* The drive on the bus without a namespace, at some moment.                *)
Bare == \E s \in moments : s.pci /\ ~s.ns

(* What each place in discover_mini_ssd has established; whatever was found *)
(* is still there, or the drive has since been bare.                        *)
Found ==
  /\ IF call.at = "idle" THEN ~call.pci /\ call.ctrl = None ELSE slot \in moments
  /\ call.pci => slot.pci \/ Bare
  /\ call.ctrl # None => slot.ctrl = call.ctrl \/ Bare
  /\ call.at \in {"nvme", "controllers"} => call.pci
  /\ call.at = "controllers" => \E s \in moments : s.dir
  /\ call.at \in {"glob_controller", "glob_block", "state"} => call.ctrl # None
  /\ call.namespaces => \E s \in moments : Listed(s, call.ctrl)
  /\ call.at \in {"devices", "ids", "nvme", "controllers", "glob_controller"} =>
       ~call.namespaces
  /\ (\/ call.at = "glob_block" /\ "controller" \in NamespacesAppear
      \/ call.at = "state") => call.namespaces \/ Bare
  /\ call.at \in {"devices", "ids", "nvme", "controllers", "glob_controller",
                  "glob_block", "state"} => call.state = None

(* A number of the list still to be read is the Mini SSD's, or it has gone; *)
(* and what the row being made has read of it.                              *)
Listing ==
  /\ call.at \in RowPlaces =>
       /\ \A c \in (call.todo \cup {call.row.ctrl}) \ Internal :
            slot.ctrl = c \/ c \in departed
       /\ IF call.row.ctrl \in Internal
          THEN /\ ~call.row.biwin
               /\ call.at \in {"row_device", "row_resolve", "row_parent", "row_state"} =>
                    call.row.namespaces
               /\ call.at = "row_state" => call.row.address = "internal"
          ELSE call.at = "model" \/ call.row.biwin \/ call.row.ctrl \in departed
  /\ call.at \in {"devices", "ids", "nvme", "controllers", "glob_controller",
                  "glob_block", "state", "controllers_of_all"} => call.rows = {}

IInv == Typed /\ Found /\ Listing /\ PresenceWasTrue /\ RaisesOnlyIfLeft /\ RowsTellDrives

Verdict == PresenceWasTrue /\ RaisesOnlyIfLeft /\ RowsTellDrives

-----------------------------------------------------------------------------
LEMMA InitIInv == Init => IInv
<1> SUFFICES ASSUME Init PROVE IInv
  OBVIOUS
<1> USE DriveAssumption, DiscoveryAssumption
<1>1. Typed
  <2>1. Shape(slot)
    BY DEF Init, Vacant, Shape, Slots
  <2>2. call \in Calls
    BY DEF Init, Idle, Calls, Places, States
  <2> QED
    BY <2>1, <2>2 DEF Init, Idle, Typed, RowPlaces
<1>2. Found /\ Listing /\ Verdict
  BY DEF Init, Idle, Found, Listing, Verdict, RowPlaces, PresenceWasTrue,
         RaisesOnlyIfLeft, RowsTellDrives
<1> QED BY <1>1, <1>2 DEF IInv, Verdict

(* A move of the drive leaves what was found behind as a moment, or there.  *)
LEMMA WorldIInv == IInv /\ World => IInv'
<1> SUFFICES ASSUME IInv, World PROVE IInv'
  OBVIOUS
<1> USE DriveAssumption, DiscoveryAssumption
<1>1. /\ Move \/ Recover
      /\ UNCHANGED call
      /\ moments' = IF Running THEN moments \cup {slot'} ELSE moments
      /\ departed' = IF Running /\ slot'.ctrl = None
                     THEN departed \cup ({slot.ctrl} \ {None}) ELSE departed
      /\ call.at = "idle" \/ Running
  BY DEF World
<1>2. /\ Shape(slot')
      /\ slot.pci => slot'.pci \/ ~slot.ns
      /\ slot.ctrl # None =>
           \/ slot'.ctrl = slot.ctrl
           \/ slot'.ctrl = None /\ slot'.pci /\ ~slot'.ns
  BY <1>1, OneLevel DEF IInv, Typed
<1>3. moves' \in 0 .. MaxMoves
  BY DEF World, IInv, Typed
<1>4. Typed'
  BY <1>1, <1>2, <1>3 DEF IInv, Typed, Shape, Slots
<1>5. /\ moments \subseteq moments' /\ departed \subseteq departed'
      /\ Bare => Bare'
  BY <1>1 DEF Bare
<1>6. Found'
  <2>1. call.at # "idle" => slot' \in moments'
    BY <1>1 DEF Running
  <2>2. call.pci => slot'.pci \/ Bare'
    BY <1>1, <1>2, <1>5 DEF IInv, Found, Bare, Running, Typed, Calls
  <2>3. call.ctrl # None => slot'.ctrl = call.ctrl \/ Bare'
    <3>1. CASE call.at = "idle"
      BY <3>1, <1>1 DEF IInv, Found
    <3>2. CASE Running /\ call.ctrl # None /\ slot.ctrl = call.ctrl
      BY <3>2, <1>1, <1>2 DEF Bare
    <3> QED BY <3>1, <3>2, <1>1, <1>5 DEF IInv, Found
  <2>4. call.at = "controllers" => \E s \in moments' : s.dir
    BY <1>5 DEF IInv, Found
  <2>5. call.namespaces => \E s \in moments' : Listed(s, call.ctrl)
    BY <1>5 DEF IInv, Found
  <2>6. UNCHANGED call
    BY <1>1
  <2>7. /\ call.at = "idle" => ~call.pci /\ call.ctrl = None
        /\ call.at \in {"nvme", "controllers"} => call.pci
        /\ call.at \in {"glob_controller", "glob_block", "state"} => call.ctrl # None
        /\ call.at \in {"devices", "ids", "nvme", "controllers", "glob_controller"} =>
             ~call.namespaces
        /\ (\/ call.at = "glob_block" /\ "controller" \in NamespacesAppear
            \/ call.at = "state") => call.namespaces \/ Bare'
        /\ call.at \in {"devices", "ids", "nvme", "controllers", "glob_controller",
                        "glob_block", "state"} => call.state = None
    BY <1>5 DEF IInv, Found
  <2> QED
    BY <2>1, <2>2, <2>3, <2>4, <2>5, <2>6, <2>7 DEF Found, Listed
<1>7. Listing'
  <2>1. ASSUME call.at \in RowPlaces, NEW c \in (call.todo \cup {call.row.ctrl}) \ Internal
        PROVE  slot'.ctrl = c \/ c \in departed'
    <3>1. Running /\ c # None /\ (slot.ctrl = c \/ c \in departed)
      BY <2>1 DEF IInv, Typed, Calls, Making, Listing, Running, RowPlaces
    <3> QED BY <3>1, <1>1, <1>2
  <2> QED
    BY <2>1, <1>1, <1>5 DEF IInv, Listing
<1>8. Verdict'
  <2>1. PresenceWasTrue'
    BY <1>1, <1>5 DEF IInv, PresenceWasTrue, WasOnce, Listed, Live
  <2>2. RaisesOnlyIfLeft' /\ RowsTellDrives'
    BY <1>1, <1>5 DEF IInv, RaisesOnlyIfLeft, RowsTellDrives
  <2> QED BY <2>1, <2>2 DEF Verdict
<1> QED BY <1>4, <1>6, <1>7, <1>8 DEF IInv, Verdict

-----------------------------------------------------------------------------
(* discover_mini_ssd. *)

LEMMA PresenceGoesOn ==
  ASSUME NEW found
  PROVE  \E place \in {"controllers_of_all", "link", "power", "done"} :
           Presence(found) = [found EXCEPT !.at = place]
BY DEF Presence

LEMMA ListDevicesIInv == IInv /\ ListDevices => IInv'
<1> SUFFICES ASSUME IInv, ListDevices PROVE IInv'
  OBVIOUS
<1> USE DriveAssumption, DiscoveryAssumption
<1>1. call.at = "devices" /\ UNCHANGED <<slot, moments, departed, moves>>
  BY DEF ListDevices, Line
<1>2. CASE slot.pci
  <2>1. call' = [call EXCEPT !.at = "ids"]
    BY <1>2 DEF ListDevices
  <2> QED
    BY <1>1, <2>1 DEF IInv, Typed, Calls, Places, Found, Bare, Listing, RowPlaces,
       PresenceWasTrue, RaisesOnlyIfLeft, RowsTellDrives
<1>3. CASE ~slot.pci
  <2>1. PICK place \in {"controllers_of_all", "link", "power", "done"} :
          call' = [call EXCEPT !.state = "ABSENT", !.at = place]
    BY <1>3, PresenceGoesOn DEF ListDevices
  <2>2. Typed' /\ Found'
    BY <1>1, <2>1 DEF IInv, Typed, Calls, Places, States, Found, Bare, RowPlaces
  <2>3. Listing' /\ RaisesOnlyIfLeft' /\ RowsTellDrives'
    BY <1>1, <2>1 DEF IInv, Typed, Calls, Listing, RowPlaces, RaisesOnlyIfLeft, RowsTellDrives
  <2>4. PresenceWasTrue'
    BY <1>1, <1>3, <2>1 DEF IInv, Typed, Calls, Found, PresenceWasTrue, WasOnce
  <2> QED BY <2>2, <2>3, <2>4 DEF IInv
<1> QED BY <1>2, <1>3
LEMMA ReadIdsIInv == IInv /\ ReadIds => IInv'
<1> SUFFICES ASSUME IInv, ReadIds PROVE IInv'
  OBVIOUS
<1> USE DriveAssumption, DiscoveryAssumption
<1>1. call.at = "ids" /\ UNCHANGED <<slot, moments, departed, moves>>
  BY DEF ReadIds, Line
<1>2. CASE slot.pci
  <2>1. call' = [call EXCEPT !.pci = TRUE, !.at = "nvme"]
    BY <1>2 DEF ReadIds
  <2> QED
    BY <1>1, <1>2, <2>1 DEF IInv, Typed, Calls, Places, Found, Bare, Listing,
       RowPlaces, PresenceWasTrue, RaisesOnlyIfLeft, RowsTellDrives
<1>3. CASE ~slot.pci
  <2>1. PICK place \in {"controllers_of_all", "link", "power", "done"} :
          call' = [call EXCEPT !.state = "ABSENT", !.at = place]
    BY <1>3, PresenceGoesOn DEF ReadIds
  <2>2. Typed' /\ Found'
    BY <1>1, <2>1 DEF IInv, Typed, Calls, Places, States, Found, Bare, RowPlaces
  <2>3. Listing' /\ RaisesOnlyIfLeft' /\ RowsTellDrives'
    BY <1>1, <2>1 DEF IInv, Typed, Calls, Listing, RowPlaces, RaisesOnlyIfLeft, RowsTellDrives
  <2>4. PresenceWasTrue'
    BY <1>1, <1>3, <2>1 DEF IInv, Typed, Calls, Found, PresenceWasTrue, WasOnce
  <2> QED BY <2>2, <2>3, <2>4 DEF IInv
<1> QED BY <1>2, <1>3

(* The device without its nvme directory, or the directory without a        *)
(* controller: a moment without a namespace, if the device is still there.  *)
LEMMA PcieOnlyIInv ==
  ASSUME IInv, UNCHANGED <<slot, moments, departed, moves>>,
         call.at \in {"nvme", "controllers"}, slot.ctrl = None,
         call' = PcieOnly
  PROVE  IInv'
<1> USE DriveAssumption, DiscoveryAssumption
<1>1. PICK place \in {"controllers_of_all", "link", "power", "done"} :
        call' = [call EXCEPT !.state = "PCIE_ONLY", !.at = place]
  BY PresenceGoesOn DEF PcieOnly
<1>2. Typed'
  <2>1. UNCHANGED <<slot, moments, departed, moves>>
    OBVIOUS
  <2>2. call' \in Calls
    <3>1. call \in Calls /\ place \in Places /\ "PCIE_ONLY" \in States
      BY DEF IInv, Typed, Places, States
    <3> QED BY <3>1, <1>1 DEF Calls
  <2>3. call'.at \notin RowPlaces
    BY <1>1 DEF IInv, Typed, Calls, RowPlaces
  <2> QED
    BY <1>1, <2>1, <2>2, <2>3 DEF IInv, Typed, Calls
<1>5. Found'
  BY <1>1 DEF IInv, Typed, Calls, Found, Bare
<1>3. Listing' /\ RaisesOnlyIfLeft' /\ RowsTellDrives'
  BY <1>1 DEF IInv, Typed, Calls, Listing, RowPlaces, RaisesOnlyIfLeft, RowsTellDrives
<1>4. PresenceWasTrue'
  <2>1. ~slot.ns
    BY DEF IInv, Typed, Shape, Slots
  <2>2. Bare
    BY <2>1 DEF IInv, Found, Bare
  <2> QED
    BY <1>1, <2>2 DEF IInv, Typed, Calls, Bare, PresenceWasTrue, WasOnce
<1> QED BY <1>2, <1>3, <1>4, <1>5 DEF IInv

LEMMA FindNvmeIInv == IInv /\ FindNvme => IInv'
<1> SUFFICES ASSUME IInv, FindNvme PROVE IInv'
  OBVIOUS
<1> USE DriveAssumption, DiscoveryAssumption
<1>1. call.at = "nvme" /\ UNCHANGED <<slot, moments, departed, moves>>
  BY DEF FindNvme, Line
<1>2. CASE slot.dir
  <2>1. call' = [call EXCEPT !.at = "controllers"]
    BY <1>2 DEF FindNvme
  <2> QED
    BY <1>1, <1>2, <2>1 DEF IInv, Typed, Calls, Places, Found, Bare, Listing,
       RowPlaces, PresenceWasTrue, RaisesOnlyIfLeft, RowsTellDrives
<1>3. CASE ~slot.dir
  <2>1. slot.ctrl = None
    BY <1>3 DEF IInv, Typed, Shape, Slots
  <2> QED BY <1>1, <1>3, <2>1, PcieOnlyIInv DEF FindNvme
<1> QED BY <1>2, <1>3

LEMMA ListControllersIInv == IInv /\ ListControllers => IInv'
<1> SUFFICES ASSUME IInv, ListControllers PROVE IInv'
  OBVIOUS
<1> USE DriveAssumption, DiscoveryAssumption
<1>1. call.at = "controllers" /\ UNCHANGED <<slot, moments, departed, moves>>
  BY DEF ListControllers, Line
<1>2. CASE ~slot.dir
  <2>1. call' = [call EXCEPT !.at = "raised"]
    BY <1>2 DEF ListControllers
  <2> QED
    BY <1>1, <1>2, <2>1 DEF IInv, Typed, Calls, Places, Found, Bare, Listing,
       RowPlaces, PresenceWasTrue, RaisesOnlyIfLeft, RowsTellDrives
<1>3. CASE slot.dir /\ slot.ctrl = None
  BY <1>1, <1>3, PcieOnlyIInv DEF ListControllers
<1>4. CASE slot.dir /\ slot.ctrl # None
  <2>1. call' = [call EXCEPT !.ctrl = slot.ctrl, !.at = "glob_controller"]
    BY <1>4 DEF ListControllers
  <2> QED
    BY <1>1, <1>4, <2>1 DEF IInv, Typed, Shape, Slots, Calls, Places, Found, Bare, Listing,
       RowPlaces, PresenceWasTrue, RaisesOnlyIfLeft, RowsTellDrives
<1> QED BY <1>2, <1>3, <1>4
LEMMA GlobControllerIInv == IInv /\ GlobController => IInv'
<1> SUFFICES ASSUME IInv, GlobController PROVE IInv'
  OBVIOUS
<1> USE DriveAssumption, DiscoveryAssumption
<1>1. call.at = "glob_controller" /\ UNCHANGED <<slot, moments, departed, moves>>
  BY DEF GlobController, Line
<1>2. PICK seen \in BOOLEAN :
        /\ seen = ("controller" \in NamespacesAppear /\ Listed(slot, call.ctrl))
        /\ call' = [call EXCEPT !.namespaces = seen, !.at = "glob_block"]
  BY DEF GlobController
<1>3. Typed'
  <2>1. call \in Calls /\ call.ctrl # None /\ "glob_block" \in Places \ RowPlaces
    BY <1>1 DEF IInv, Typed, Found, Places, RowPlaces
  <2>2. call' \in Calls
    BY <1>2, <2>1 DEF Calls
  <2> QED
    BY <1>1, <1>2, <2>1, <2>2 DEF IInv, Typed, Calls
<1>4. Found'
  <2>1. seen => \E s \in moments : Listed(s, call.ctrl)
    BY <1>1, <1>2 DEF IInv, Found
  <2>2. "controller" \in NamespacesAppear => seen \/ Bare
    BY <1>1, <1>2 DEF IInv, Typed, Found, Bare, Listed
  <2> QED BY <1>1, <1>2, <2>1, <2>2 DEF IInv, Typed, Calls, Found, Bare
<1>5. Listing' /\ RaisesOnlyIfLeft' /\ RowsTellDrives' /\ PresenceWasTrue'
  BY <1>1, <1>2 DEF IInv, Typed, Calls, Found, Listing, RowPlaces, RaisesOnlyIfLeft,
     RowsTellDrives, PresenceWasTrue
<1> QED BY <1>3, <1>4, <1>5 DEF IInv

LEMMA GlobBlockIInv == IInv /\ GlobBlock => IInv'
<1> SUFFICES ASSUME IInv, GlobBlock PROVE IInv'
  OBVIOUS
<1> USE DriveAssumption, DiscoveryAssumption
<1>1. call.at = "glob_block" /\ UNCHANGED <<slot, moments, departed, moves>>
  BY DEF GlobBlock, Line
<1>2. PICK seen \in BOOLEAN :
        /\ seen = (call.namespaces
                   \/ ("block" \in NamespacesAppear /\ Listed(slot, call.ctrl)))
        /\ call' = [call EXCEPT !.namespaces = seen, !.at = "state"]
  BY DEF GlobBlock
<1>3. Typed'
  <2>1. call \in Calls /\ call.ctrl # None /\ "state" \in Places \ RowPlaces
    BY <1>1 DEF IInv, Typed, Found, Places, RowPlaces
  <2>2. call' \in Calls
    BY <1>2, <2>1 DEF Calls
  <2> QED
    BY <1>1, <1>2, <2>1, <2>2 DEF IInv, Typed, Calls
<1>4. Found'
  <2>1. seen => \E s \in moments : Listed(s, call.ctrl)
    BY <1>1, <1>2 DEF IInv, Found
  <2>2. seen \/ Bare
    <3>1. "controller" \in NamespacesAppear \/ "block" \in NamespacesAppear
      OBVIOUS
    <3>2. Listed(slot, call.ctrl) \/ Bare
      BY <1>1 DEF IInv, Typed, Found, Bare, Listed
    <3> QED BY <3>1, <3>2, <1>1, <1>2 DEF IInv, Found
  <2> QED BY <1>1, <1>2, <2>1, <2>2 DEF IInv, Typed, Calls, Found, Bare
<1>5. Listing' /\ RaisesOnlyIfLeft' /\ RowsTellDrives' /\ PresenceWasTrue'
  BY <1>1, <1>2 DEF IInv, Typed, Calls, Found, Listing, RowPlaces, RaisesOnlyIfLeft,
     RowsTellDrives, PresenceWasTrue
<1> QED BY <1>3, <1>4, <1>5 DEF IInv

(* The verdict: NVME_PRESENT for a namespace seen and a live state read     *)
(* now; PCIE_ONLY for a moment without a namespace, or for this one.        *)
LEMMA ReadStateIInv == IInv /\ ReadState => IInv'
<1> SUFFICES ASSUME IInv, ReadState PROVE IInv'
  OBVIOUS
<1> USE DriveAssumption, DiscoveryAssumption
<1>1. call.at = "state" /\ UNCHANGED <<slot, moments, departed, moves>>
  BY DEF ReadState, Line
<1> DEFINE read == IF slot.ctrl = call.ctrl THEN slot.state ELSE None
           state == IF call.namespaces /\ read = "live" THEN "NVME_PRESENT" ELSE "PCIE_ONLY"
<1>2. PICK place \in {"controllers_of_all", "link", "power", "done"} :
        call' = [call EXCEPT !.controller_state = read, !.state = state, !.at = place]
  BY PresenceGoesOn DEF ReadState
<1>3. call' \in Calls /\ call'.at \notin RowPlaces
  <2>1. call \in Calls /\ place \in Places /\ state \in States /\ place \notin RowPlaces
    BY DEF IInv, Typed, Places, States, RowPlaces
  <2>2. read \in {"connecting", "live", "dead", None}
    BY DEF IInv, Typed, Shape, Slots
  <2> HIDE DEF read, state
  <2> QED BY <1>2, <2>1, <2>2 DEF Calls
<1>4. /\ call'.state = state /\ call'.ctrl = call.ctrl /\ call'.pci = call.pci
      /\ call'.namespaces = call.namespaces /\ call'.rows = call.rows /\ call'.at = place
  BY <1>2 DEF IInv, Typed, Calls
<1>5. Typed' /\ Found'
  BY <1>1, <1>3, <1>4 DEF IInv, Typed, Found, Bare
<1>6. Listing' /\ RaisesOnlyIfLeft' /\ RowsTellDrives'
  BY <1>1, <1>4 DEF IInv, Listing, RowPlaces, RaisesOnlyIfLeft, RowsTellDrives
<1>7. PresenceWasTrue'
  <2>1. CASE call.namespaces /\ read = "live"
    <3>1. slot.ctrl = call.ctrl /\ Live(slot) /\ slot \in moments
      BY <1>1, <2>1 DEF IInv, Found, Live
    <3>2. \E s \in moments : Listed(s, call.ctrl)
      BY <2>1 DEF IInv, Found
    <3> QED BY <1>1, <1>4, <2>1, <3>1, <3>2 DEF PresenceWasTrue, WasOnce
  <2>2. CASE ~(call.namespaces /\ read = "live")
    <3>1. Bare \/ (slot \in moments /\ slot.pci /\ ~(slot.ns /\ Live(slot)))
      <4>1. CASE slot.ctrl = call.ctrl
        BY <1>1, <2>2, <4>1 DEF IInv, Typed, Shape, Slots, Found, Live
      <4>2. CASE slot.ctrl # call.ctrl
        BY <1>1, <4>2 DEF IInv, Found
      <4> QED BY <4>1, <4>2
    <3> QED BY <1>1, <1>4, <2>2, <3>1 DEF PresenceWasTrue, WasOnce, Bare
  <2> QED BY <2>1, <2>2
<1> QED BY <1>5, <1>6, <1>7 DEF IInv

-----------------------------------------------------------------------------
(* Telemetry and the rest of a sample. *)

Later == {"link", "hwmon", "temperature", "power", "io", "mounts", "done"}

(* What is read after the presence does not change it.                      *)
LEMMA LaterIInv ==
  ASSUME IInv, UNCHANGED <<slot, moments, departed, moves>>,
         call.at \in Later, call' \in Calls, call'.at \in Later,
         call'.state = call.state, call'.pci = call.pci, call'.ctrl = call.ctrl,
         call'.namespaces = call.namespaces, call'.rows = call.rows
  PROVE  IInv'
<1>2. Typed' /\ Found'
  BY DEF IInv, Typed, Found, Bare, Later, RowPlaces
<1>3. Listing' /\ RaisesOnlyIfLeft' /\ RowsTellDrives' /\ PresenceWasTrue'
  BY DEF IInv, Listing, Later, RowPlaces, RaisesOnlyIfLeft, RowsTellDrives,
     PresenceWasTrue, WasOnce
<1> QED BY <1>2, <1>3 DEF IInv

LEMMA AfterTelemetryLater == AfterTelemetry \in {"power", "done"}
BY DEF AfterTelemetry

LEMMA SampleIInv == IInv /\ (Telemetry \/ Sample \/ Cancelled) => IInv'
<1> SUFFICES ASSUME IInv, Telemetry \/ Sample \/ Cancelled PROVE IInv'
  OBVIOUS
<1> USE DriveAssumption, DiscoveryAssumption
<1>0. call \in Calls /\ slot \in Slots
  BY DEF IInv, Typed, Shape
<1>1. CASE ReadLink
  BY <1>0, <1>1, LaterIInv DEF ReadLink, Line, Calls, Places, Later, Slots
<1>2. CASE FindHwmon
  BY <1>0, <1>2, LaterIInv, AfterTelemetryLater DEF FindHwmon, Line, Calls, Places, Later
<1>3. CASE ReadTemperature
  <2>1. call.at \in Later /\ UNCHANGED <<slot, moments, departed, moves>>
    BY <1>3 DEF ReadTemperature, Line, Later
  <2>2. PICK read \in BOOLEAN, place \in Later :
          call' = [call EXCEPT !.temperature = read, !.at = place]
    BY <1>3, AfterTelemetryLater DEF ReadTemperature, Live, Later
  <2>3. call' \in Calls /\ call'.at \in Later
    <3>1. place \in Places
      BY DEF Later, Places
    <3> QED BY <1>0, <2>2, <3>1 DEF Calls
  <2> QED BY <1>0, <2>1, <2>2, <2>3, LaterIInv DEF Calls
<1>4. CASE Cancelled
  BY <1>0, <1>4, LaterIInv, AfterTelemetryLater DEF Cancelled, Line, Calls, Places, Later
<1>6. CASE ReadPower
  <2>1. call.at \in Later /\ UNCHANGED <<slot, moments, departed, moves>>
    BY <1>6 DEF ReadPower, Line, Later
  <2>2. PICK read \in BOOLEAN, place \in Later :
          call' = [call EXCEPT !.power = read, !.at = place]
    BY <1>6 DEF ReadPower, Later
  <2>3. call' \in Calls /\ call'.at \in Later
    <3>1. place \in Places
      BY DEF Later, Places
    <3> QED BY <1>0, <2>2, <3>1 DEF Calls
  <2> QED BY <1>0, <2>1, <2>2, <2>3, LaterIInv DEF Calls
<1>7. CASE ReadIo
  <2>1. call.at \in Later /\ UNCHANGED <<slot, moments, departed, moves>>
    BY <1>7 DEF ReadIo, Line, Later
  <2>2. PICK read \in BOOLEAN, place \in Later :
          call' = [call EXCEPT !.io = read, !.at = place]
    <3>1. Listed(slot, call.ctrl) \in BOOLEAN /\ "mounts" \in Later
      BY <1>0 DEF Listed, Later, Slots
    <3>2. call' = [call EXCEPT !.io = Listed(slot, call.ctrl), !.at = "mounts"]
      BY <1>7 DEF ReadIo
    <3> QED BY <3>1, <3>2
  <2>3. call' \in Calls /\ call'.at \in Later
    <3>1. place \in Places
      BY DEF Later, Places
    <3> QED BY <1>0, <2>2, <3>1 DEF Calls
  <2> QED BY <1>0, <2>1, <2>2, <2>3, LaterIInv DEF Calls
<1>8. CASE ReadMounts
  <2>1. call.at \in Later /\ UNCHANGED <<slot, moments, departed, moves>>
    BY <1>8 DEF ReadMounts, Line, Later
  <2>2. PICK read \in BOOLEAN, place \in Later :
          call' = [call EXCEPT !.mounted = read, !.at = place]
    <3>1. (slot.mount = call.ctrl) \in BOOLEAN /\ "done" \in Later
      BY DEF Later
    <3>2. call' = [call EXCEPT !.mounted = (slot.mount = call.ctrl), !.at = "done"]
      BY <1>8 DEF ReadMounts
    <3> QED BY <3>1, <3>2
  <2>3. call' \in Calls /\ call'.at \in Later
    <3>1. place \in Places
      BY DEF Later, Places
    <3> QED BY <1>0, <2>2, <3>1 DEF Calls
  <2> QED BY <1>0, <2>1, <2>2, <2>3, LaterIInv DEF Calls
<1> QED BY <1>1, <1>2, <1>3, <1>4, <1>6, <1>7, <1>8 DEF Telemetry, Sample
-----------------------------------------------------------------------------
(* The inventory. *)

Made == [ctrl : Numbers, is_mini : BOOLEAN, classification : States \cup {None}]

(* It goes on with a number that is the Mini SSD's, or has gone.            *)
LEMMA NextRowIInv ==
  ASSUME IInv, UNCHANGED <<slot, moments, moves>>,
         departed' \in SUBSET (Numbers \ Internal),
         call.at \in {"controllers_of_all", "row_state"},
         NEW todo \in SUBSET Numbers, NEW rows \in SUBSET Made,
         \A c \in todo \ Internal : slot.ctrl = c \/ c \in departed',
         \A row \in rows :
           IF row.ctrl \in Internal
           THEN ~row.is_mini /\ row.classification = "NVME_PRESENT"
           ELSE row.is_mini \/ row.ctrl \in departed',
         NextRow(todo, rows)
  PROVE  IInv'
<1> USE DriveAssumption, DiscoveryAssumption
<1>1. call \in Calls
  BY DEF IInv, Typed
<1>2. /\ call'.state = call.state /\ call'.pci = call.pci /\ call'.ctrl = call.ctrl
      /\ call'.namespaces = call.namespaces /\ call'.rows = rows
      /\ call' \in Calls /\ call'.at \in {"model", "done"}
      /\ call'.at = "model" =>
           /\ call'.row \in Making /\ ~call'.row.biwin
           /\ call'.row.ctrl \in todo /\ call'.todo \subseteq todo
  <2>1. CASE todo = {} /\ call' = [call EXCEPT !.rows = rows, !.row = None, !.at = "done"]
    BY <1>1, <2>1 DEF Calls, Made, Places
  <2>2. CASE \E c \in todo :
               call' = [call EXCEPT !.todo = todo \ {c}, !.rows = rows,
                                    !.row = Unread(c), !.at = "model"]
    <3>1. PICK c \in todo :
            call' = [call EXCEPT !.todo = todo \ {c}, !.rows = rows,
                                 !.row = Unread(c), !.at = "model"]
      BY <2>2
    <3>2. /\ Unread(c) \in Making /\ ~Unread(c).biwin /\ Unread(c).ctrl = c
          /\ todo \ {c} \in SUBSET Numbers /\ "model" \in Places
      BY DEF Unread, Making, Places
    <3>3. rows \in SUBSET [ctrl : Numbers, is_mini : BOOLEAN,
                           classification : States \cup {None}]
      BY DEF Made
    <3>4. call' \in Calls
      BY <1>1, <3>1, <3>2, <3>3 DEF Calls
    <3> QED BY <1>1, <3>1, <3>2, <3>4 DEF Calls
  <2> QED BY <2>1, <2>2 DEF NextRow
<1>3. Typed'
  BY <1>2 DEF IInv, Typed, RowPlaces
<1>4. Found'
  BY <1>2 DEF IInv, Typed, Found, Bare
<1>5. Listing'
  BY <1>2 DEF Listing, RowPlaces
<1>6. PresenceWasTrue' /\ RaisesOnlyIfLeft' /\ RowsTellDrives'
  BY <1>2 DEF IInv, PresenceWasTrue, WasOnce, RaisesOnlyIfLeft, RowsTellDrives
<1> QED BY <1>3, <1>4, <1>5, <1>6 DEF IInv

(* A field of the row being made is read.                                   *)
LEMMA RowIInv ==
  ASSUME IInv, UNCHANGED <<slot, moments, departed, moves>>,
         call.at \in RowPlaces,
         NEW row \in Making, row.ctrl = call.row.ctrl,
         NEW place \in RowPlaces \ {"model"},
         call' = [call EXCEPT !.row = row, !.at = place],
         IF row.ctrl \in Internal
         THEN /\ ~row.biwin
              /\ place \in {"row_device", "row_resolve", "row_parent", "row_state"} =>
                   row.namespaces
              /\ place = "row_state" => row.address = "internal"
         ELSE row.biwin \/ row.ctrl \in departed
  PROVE  IInv'
<1> USE DriveAssumption, DiscoveryAssumption
<1>1. call \in Calls /\ place \in Places
  BY DEF IInv, Typed, RowPlaces, Places
<1>2. /\ call' \in Calls /\ call'.row = row /\ call'.at = place
      /\ call'.state = call.state /\ call'.pci = call.pci /\ call'.ctrl = call.ctrl
      /\ call'.namespaces = call.namespaces /\ call'.rows = call.rows
      /\ call'.todo = call.todo
  BY <1>1 DEF Calls
<1>3. Typed'
  BY <1>2 DEF IInv, Typed, RowPlaces
<1>4. Found'
  BY <1>2 DEF IInv, Typed, Found, Bare, RowPlaces
<1>5. Listing'
  BY <1>2 DEF IInv, Listing, RowPlaces
<1>6. PresenceWasTrue' /\ RaisesOnlyIfLeft' /\ RowsTellDrives'
  BY <1>2 DEF IInv, PresenceWasTrue, WasOnce, RaisesOnlyIfLeft, RowsTellDrives, RowPlaces
<1> QED BY <1>3, <1>4, <1>5, <1>6 DEF IInv

LEMMA InventoryIInv == IInv /\ Inventory => IInv'
<1> SUFFICES ASSUME IInv, Inventory PROVE IInv'
  OBVIOUS
<1> USE DriveAssumption, DiscoveryAssumption
<1>1. CASE ListAll
  <2>1. /\ call.at = "controllers_of_all" /\ UNCHANGED <<slot, moments, moves>>
        /\ departed' = {}
    BY <1>1 DEF ListAll
  <2>2. slot.ctrl \in Numbers \cup {None}
    BY DEF IInv, Typed, Shape, Slots
  <2>3. NextRow(Internal \cup ({slot.ctrl} \ {None}), {})
    BY <1>1 DEF ListAll
  <2> QED BY <2>1, <2>2, <2>3, NextRowIInv
<1>2. CASE ReadModel
  <2>1. call.at = "model" /\ UNCHANGED <<slot, moments, departed, moves>>
    BY <1>2 DEF ReadModel, Line
  <2>2. call.row \in Making
    BY <2>1 DEF IInv, Typed, RowPlaces
  <2> DEFINE read == slot.ctrl = call.row.ctrl
             row == [call.row EXCEPT !.biwin = read]
  <2>3. row \in Making /\ row.ctrl = call.row.ctrl /\ row.biwin = read
    BY <2>2 DEF Making
  <2>4. call' = [call EXCEPT !.row = row, !.at = "row_namespaces"]
    BY <1>2 DEF ReadModel
  <2>5. IF call.row.ctrl \in Internal THEN ~read
        ELSE read \/ call.row.ctrl \in departed
    BY <2>1, <2>2 DEF IInv, Typed, Shape, Listing, RowPlaces
  <2>6. call.at \in RowPlaces /\ "row_namespaces" \in RowPlaces \ {"model"}
    BY <2>1 DEF RowPlaces
  <2> HIDE DEF row, read
  <2> QED BY <2>1, <2>3, <2>4, <2>5, <2>6, RowIInv
<1>3. CASE ListRowNamespaces
  <2>1. call.at = "row_namespaces" /\ UNCHANGED <<slot, moments, departed, moves>>
    BY <1>3 DEF ListRowNamespaces, Line
  <2>2. call.row \in Making
    BY <2>1 DEF IInv, Typed, RowPlaces
  <2> DEFINE read == call.row.ctrl \in Internal \/ Listed(slot, call.row.ctrl)
             row == [call.row EXCEPT !.namespaces = read]
  <2>3. /\ row \in Making /\ row.ctrl = call.row.ctrl /\ row.biwin = call.row.biwin
        /\ row.namespaces = read
    BY <2>2 DEF Making
  <2>4. call' = [call EXCEPT !.row = row, !.at = "row_device"]
    BY <1>3 DEF ListRowNamespaces
  <2>5. IF call.row.ctrl \in Internal THEN ~call.row.biwin /\ read
        ELSE call.row.biwin \/ call.row.ctrl \in departed
    BY <2>1 DEF IInv, Listing, RowPlaces
  <2>6. call.at \in RowPlaces /\ "row_device" \in RowPlaces \ {"model"}
    BY <2>1 DEF RowPlaces
  <2> HIDE DEF row, read
  <2> QED BY <2>1, <2>3, <2>4, <2>5, <2>6, RowIInv
<1>4. CASE FollowDevice
  <2>0. PICK from, to \in {"row_device", "row_resolve", "row_parent"} :
          /\ Line(from) /\ from # "row_parent" /\ to # "row_device"
          /\ call' = [call EXCEPT !.at = IF There(call.row.ctrl) THEN to ELSE "row_state"]
    BY <1>4 DEF FollowDevice, Follow
  <2>1. call.at = from /\ UNCHANGED <<slot, moments, departed, moves>>
    BY <2>0 DEF Line
  <2>2. call.row \in Making /\ call \in Calls
    BY <2>0, <2>1 DEF IInv, Typed, RowPlaces
  <2> DEFINE place == IF There(call.row.ctrl) THEN to ELSE "row_state"
  <2>3. call' = [call EXCEPT !.row = call.row, !.at = place]
    BY <2>0, <2>2 DEF Calls
  <2>4. /\ place \in RowPlaces \ {"model"} /\ call.at \in RowPlaces
        /\ call.row.ctrl \in Internal => place # "row_state"
    BY <2>0, <2>1 DEF RowPlaces, There
  <2>5. IF call.row.ctrl \in Internal THEN ~call.row.biwin /\ call.row.namespaces
        ELSE call.row.biwin \/ call.row.ctrl \in departed
    BY <2>0, <2>1 DEF IInv, Listing, RowPlaces
  <2> HIDE DEF place
  <2> QED BY <2>1, <2>2, <2>3, <2>4, <2>5, RowIInv
<1>5. CASE ClimbToPci
  <2>1. call.at = "row_parent" /\ UNCHANGED <<slot, moments, departed, moves>>
    BY <1>5 DEF ClimbToPci, Line
  <2>2. call.row \in Making
    BY <2>1 DEF IInv, Typed, RowPlaces
  <2> DEFINE read == IF call.row.ctrl \in Internal THEN "internal"
                     ELSE IF slot.pci THEN "mini" ELSE "bridge"
             row == [call.row EXCEPT !.address = read]
  <2>3. /\ row \in Making /\ row.ctrl = call.row.ctrl /\ row.biwin = call.row.biwin
        /\ row.namespaces = call.row.namespaces /\ row.address = read
    BY <2>2 DEF Making
  <2>4. call' = [call EXCEPT !.row = row, !.at = "row_state"]
    BY <1>5 DEF ClimbToPci
  <2>5. IF call.row.ctrl \in Internal
        THEN ~call.row.biwin /\ call.row.namespaces /\ read = "internal"
        ELSE call.row.biwin \/ call.row.ctrl \in departed
    BY <2>1 DEF IInv, Listing, RowPlaces
  <2>6. call.at \in RowPlaces /\ "row_state" \in RowPlaces \ {"model"}
    BY <2>1 DEF RowPlaces
  <2> HIDE DEF row, read
  <2> QED BY <2>1, <2>3, <2>4, <2>5, <2>6, RowIInv
<1>6. CASE Classify
  <2>1. call.at = "row_state" /\ UNCHANGED <<slot, moments, departed, moves>>
    BY <1>6 DEF Classify, Line
  <2>2. call.row \in Making /\ call \in Calls
    BY <2>1 DEF IInv, Typed, RowPlaces
  <2> DEFINE is_mini == IsMini(call.row, call.pci)
             verdict == IF is_mini THEN call.state
                        ELSE IF Usable(call.row) THEN "NVME_PRESENT" ELSE "PCIE_ONLY"
             new == Row(call.row, is_mini, verdict)
  <2>3. NextRow(call.todo, call.rows \cup {new})
    BY <1>6 DEF Classify
  <2>4. is_mini \in BOOLEAN /\ verdict \in States \cup {None}
    BY <2>2 DEF IsMini, Making, Calls, States
  <2>5. IF call.row.ctrl \in Internal THEN ~is_mini /\ verdict = "NVME_PRESENT"
        ELSE is_mini \/ call.row.ctrl \in departed
    <3>1. CASE call.row.ctrl \in Internal
      <4>1. ~call.row.biwin /\ call.row.namespaces /\ call.row.address = "internal"
        BY <2>1, <3>1 DEF IInv, Listing, RowPlaces
      <4> QED BY <3>1, <4>1 DEF IsMini, Usable
    <3>2. CASE call.row.ctrl \notin Internal
      <4>1. call.row.biwin \/ call.row.ctrl \in departed
        BY <2>1, <3>2 DEF IInv, Listing, RowPlaces
      <4> QED BY <3>2, <4>1 DEF IsMini
    <3> QED BY <3>1, <3>2
  <2> HIDE DEF is_mini, verdict
  <2>6. /\ new \in Made /\ new.ctrl = call.row.ctrl /\ new.is_mini = is_mini
        /\ new.classification = verdict
    BY <2>2, <2>4 DEF Row, Made, Making
  <2> HIDE DEF new
  <2>7. /\ call.todo \in SUBSET Numbers
        /\ call.rows \cup {new} \in SUBSET Made
    BY <2>2, <2>6 DEF Calls, Made
  <2>8. \A c \in call.todo \ Internal : slot.ctrl = c \/ c \in departed
    BY <2>1 DEF IInv, Listing, RowPlaces
  <2>9. \A row \in call.rows \cup {new} :
           IF row.ctrl \in Internal
           THEN ~row.is_mini /\ row.classification = "NVME_PRESENT"
           ELSE row.is_mini \/ row.ctrl \in departed
    BY <2>5, <2>6 DEF IInv, RowsTellDrives
  <2>10. departed' = departed /\ departed \in SUBSET (Numbers \ Internal)
    BY <2>1 DEF IInv, Typed
  <2> QED BY <2>1, <2>3, <2>7, <2>8, <2>9, <2>10, NextRowIInv
<1> QED BY <1>1, <1>2, <1>3, <1>4, <1>5, <1>6 DEF Inventory
-----------------------------------------------------------------------------
(* A call begins and ends with nothing found.                               *)
LEMMA CallIInv == IInv /\ ((\E by \in Callers : Begin(by)) \/ End) => IInv'
<1> SUFFICES ASSUME IInv, (\E by \in Callers : Begin(by)) \/ End PROVE IInv'
  OBVIOUS
<1> USE DriveAssumption, DiscoveryAssumption
<1>1. ASSUME NEW by \in Callers, Begin(by)
      PROVE  IInv'
  <2>1. /\ call' = [Idle EXCEPT !.by = by, !.at = "devices"]
        /\ moments' = {slot} /\ departed' = {} /\ moves' = 0 /\ UNCHANGED slot
    BY <1>1 DEF Begin
  <2>2. call' \in Calls
    BY <2>1 DEF Idle, Calls, Places, States
  <2>3. /\ call'.at = "devices" /\ ~call'.pci /\ call'.ctrl = None
        /\ ~call'.namespaces /\ call'.state = None /\ call'.rows = {}
    BY <2>1 DEF Idle
  <2>4. Typed'
    BY <2>1, <2>2, <2>3 DEF IInv, Typed, Shape, RowPlaces
  <2>5. Found' /\ Listing' /\ Verdict'
    BY <2>1, <2>3 DEF Found, Listing, Verdict, RowPlaces, PresenceWasTrue,
       RaisesOnlyIfLeft, RowsTellDrives
  <2> QED BY <2>4, <2>5 DEF IInv, Verdict
<1>2. ASSUME End
      PROVE  IInv'
  <2>1. /\ call' = Idle /\ moments' = {} /\ departed' = {} /\ moves' = 0
        /\ UNCHANGED slot
    BY <1>2 DEF End
  <2>2. call' \in Calls
    BY <2>1 DEF Idle, Calls, Places, States
  <2>3. /\ call'.at = "idle" /\ ~call'.pci /\ call'.ctrl = None
        /\ ~call'.namespaces /\ call'.state = None /\ call'.rows = {}
    BY <2>1 DEF Idle
  <2>4. Typed'
    BY <2>1, <2>2, <2>3 DEF IInv, Typed, Shape, RowPlaces
  <2>5. Found' /\ Listing' /\ Verdict'
    BY <2>1, <2>3 DEF Found, Listing, Verdict, RowPlaces, PresenceWasTrue,
       RaisesOnlyIfLeft, RowsTellDrives
  <2> QED BY <2>4, <2>5 DEF IInv, Verdict
<1> QED BY <1>1, <1>2

(* Every step keeps the invariant.                                          *)
LEMMA NextIInv == IInv /\ [Next]_vars => IInv'
<1> SUFFICES ASSUME IInv, [Next]_vars PROVE IInv'
  OBVIOUS
<1>1. CASE UNCHANGED vars
  BY <1>1 DEF vars, IInv, Typed, Found, Bare, Listing, PresenceWasTrue, WasOnce,
     RaisesOnlyIfLeft, RowsTellDrives
<1>2. CASE Discover
  BY <1>2, ListDevicesIInv, ReadIdsIInv, FindNvmeIInv, ListControllersIInv,
     GlobControllerIInv, GlobBlockIInv, ReadStateIInv DEF Discover
<1>3. CASE Work \/ Cancelled
  BY <1>2, <1>3, SampleIInv, InventoryIInv DEF Work
<1>4. CASE World
  BY <1>4, WorldIInv
<1>5. CASE (\E by \in Callers : Begin(by)) \/ End
  BY <1>5, CallIInv
<1> QED BY <1>1, <1>3, <1>4, <1>5 DEF Next

-----------------------------------------------------------------------------
(* The row of a sample. IInv is about what discover_mini_ssd has found; this *)
(* is about the reads that follow, and proved from it.                      *)

DiscoverPlaces == {"devices", "ids", "nvme", "controllers", "glob_controller",
                   "glob_block", "state"}

(* A sample of a drive found present has read what it has passed, and an    *)
(* empty field has its moment.                                              *)
Readings ==
  /\ call.at \in {"devices", "ids"} => ~call.pci
  /\ call.at \in DiscoverPlaces \cup {"link", "hwmon", "temperature"} => ~call.temperature
  /\ call.at \in RowPlaces \cup {"controllers_of_all"} => call.by = "inventory"
  /\ (call.by = "sample" /\ call.pci) =>
       /\ call.at \in {"hwmon", "temperature", "power", "io", "mounts", "done"} =>
            call.link \/ \E s \in moments : ~s.pci
       /\ call.at \in {"io", "mounts", "done"} =>
            call.power \/ \E s \in moments : ~s.pci
       /\ call.at \in {"power", "io", "mounts", "done"} =>
            IF call.temperature THEN \E s \in moments : Live(s)
            ELSE \E s \in moments : ~Live(s)
       /\ (call.at \in {"mounts", "done"} /\ call.namespaces) =>
            IF call.io THEN \E s \in moments : Listed(s, call.ctrl)
            ELSE \E s \in moments : ~Listed(s, call.ctrl)
       /\ (call.at = "done" /\ call.namespaces) =>
            \E s \in moments : call.mounted = (s.mount = call.ctrl)

(* Lost and still mounted at every moment of the call so far.               *)
Lost == \A s \in moments : s.state = "dead" /\ s.ns /\ s.mount = s.ctrl

(* What a sample of such a drive has made of it.                            *)
LostRow ==
  (call.by = "sample" /\ Lost) =>
    /\ ~call.temperature
    /\ call.at \in Later =>
         /\ call.state = "PCIE_ONLY" /\ call.controller_state = "dead"
         /\ call.pci /\ call.ctrl # None /\ call.namespaces
    /\ call.at \in {"mounts", "done"} => call.io
    /\ call.at = "done" => call.mounted = TRUE

Gaps == Readings /\ LostRow

LEMMA WorldGaps == IInv /\ Gaps /\ World => Gaps'
<1> SUFFICES ASSUME IInv, Gaps, World PROVE Gaps'
  OBVIOUS
<1>1. UNCHANGED call /\ moments \subseteq moments'
  BY DEF World
<1>2. Readings'
  BY <1>1 DEF Gaps, Readings, Listed, Live
<1>3. LostRow'
  BY <1>1 DEF Gaps, LostRow, Lost
<1> QED BY <1>2, <1>3 DEF Gaps

(* A drive that is lost is found, up to its namespace.                      *)
LEMMA LostIsFound ==
  ASSUME IInv, Lost, call.at # "idle"
  PROVE  /\ slot.pci /\ slot.dir /\ slot.ctrl # None /\ slot.state = "dead"
         /\ slot.ns /\ slot.mount = slot.ctrl /\ ~Bare
         /\ call.ctrl # None => slot.ctrl = call.ctrl
<1> USE DriveAssumption
<1>1. slot \in moments /\ ~Bare
  BY DEF IInv, Found, Lost, Bare
<1> QED BY <1>1 DEF IInv, Typed, Shape, Found, Lost

(* A step of the discovery to another of its places, or out of it.          *)
LEMMA DiscoverPlaceGaps ==
  ASSUME Gaps, UNCHANGED moments, call.at \in DiscoverPlaces,
         call'.by = call.by, call'.temperature = call.temperature,
         \/ call'.at \in {"nvme", "controllers", "glob_controller", "glob_block",
                          "state", "raised"}
         \/ call'.at = "ids" /\ ~call'.pci
  PROVE  Gaps'
BY DEF Gaps, Readings, LostRow, Lost, Later, RowPlaces, DiscoverPlaces

(* The end of the discovery.                                                *)
LEMMA PresenceGaps ==
  ASSUME IInv, Gaps, UNCHANGED moments, call.at \in DiscoverPlaces,
         NEW found \in Calls,
         found.by = call.by, found.temperature = call.temperature,
         call' = Presence(found),
         Lost => /\ found.state = "PCIE_ONLY" /\ found.controller_state = "dead"
                 /\ found.pci /\ found.ctrl # None /\ found.namespaces
  PROVE  Gaps'
<1> DEFINE place == IF call.by = "inventory" THEN "controllers_of_all"
                    ELSE IF found.pci THEN "link"
                    ELSE IF call.by = "sample" THEN "power" ELSE "done"
<1>1. call' = [found EXCEPT !.at = place]
  BY DEF Presence
<1>2. /\ call'.at = place /\ call'.by = call.by /\ call'.temperature = call.temperature
      /\ call'.pci = found.pci /\ call'.ctrl = found.ctrl /\ call'.state = found.state
      /\ call'.namespaces = found.namespaces
      /\ call'.controller_state = found.controller_state
  BY <1>1 DEF Calls
<1>3. ~call.temperature
  BY DEF Gaps, Readings
<1>4. Readings'
  BY <1>2, <1>3 DEF Readings, DiscoverPlaces, RowPlaces
<1>5. LostRow'
  BY <1>2, <1>3 DEF LostRow, Lost
<1> QED BY <1>4, <1>5 DEF Gaps

LEMMA DiscoverGaps == IInv /\ Gaps /\ Discover => Gaps'
<1> SUFFICES ASSUME IInv, Gaps, Discover PROVE Gaps'
  OBVIOUS
<1> USE DriveAssumption, DiscoveryAssumption
<1>0. call \in Calls
  BY DEF IInv, Typed
<1>1. ASSUME call.at \in {"devices", "ids"}, ~slot.pci, UNCHANGED moments,
             call' = Presence([call EXCEPT !.state = "ABSENT"])
      PROVE  Gaps'
  <2>1. [call EXCEPT !.state = "ABSENT"] \in Calls
    BY <1>0 DEF Calls, States
  <2>2. ~Lost
    BY <1>1, LostIsFound
  <2> QED BY <1>0, <1>1, <2>1, <2>2, PresenceGaps DEF DiscoverPlaces, Calls
<1>2. ASSUME call.at \in {"nvme", "controllers"}, ~(slot.dir /\ slot.ctrl # None),
             UNCHANGED moments, call' = PcieOnly
      PROVE  Gaps'
  <2>1. [call EXCEPT !.state = "PCIE_ONLY"] \in Calls
    BY <1>0 DEF Calls, States
  <2>2. ~Lost
    BY <1>2, LostIsFound
  <2> QED BY <1>0, <1>2, <2>1, <2>2, PresenceGaps DEF PcieOnly, DiscoverPlaces, Calls
<1>3. CASE ListDevices
  <2>1. call.at = "devices" /\ UNCHANGED moments
    BY <1>3 DEF ListDevices, Line
  <2>2. CASE slot.pci
    BY <1>0, <1>3, <2>1, <2>2, DiscoverPlaceGaps DEF ListDevices, DiscoverPlaces, Calls,
       Gaps, Readings
  <2> QED BY <1>1, <1>3, <2>1, <2>2 DEF ListDevices
<1>4. CASE ReadIds
  <2>1. call.at = "ids" /\ UNCHANGED moments
    BY <1>4 DEF ReadIds, Line
  <2>2. CASE slot.pci
    <3>1. call' = [call EXCEPT !.pci = TRUE, !.at = "nvme"]
      BY <1>4, <2>2 DEF ReadIds
    <3>2. /\ call'.by = call.by /\ call'.temperature = call.temperature
          /\ call'.at = "nvme"
      BY <1>0, <3>1 DEF Calls
    <3> QED BY <2>1, <3>2, DiscoverPlaceGaps DEF DiscoverPlaces
  <2> QED BY <1>1, <1>4, <2>1, <2>2 DEF ReadIds
<1>5. CASE FindNvme
  <2>1. call.at = "nvme" /\ UNCHANGED moments
    BY <1>5 DEF FindNvme, Line
  <2>2. CASE slot.dir
    <3>1. call' = [call EXCEPT !.at = "controllers"]
      BY <1>5, <2>2 DEF FindNvme
    <3>2. /\ call'.by = call.by /\ call'.temperature = call.temperature
          /\ call'.at = "controllers"
      BY <1>0, <3>1 DEF Calls
    <3> QED BY <2>1, <3>2, DiscoverPlaceGaps DEF DiscoverPlaces
  <2> QED BY <1>2, <1>5, <2>1, <2>2 DEF FindNvme
<1>6. CASE ListControllers
  <2>1. call.at = "controllers" /\ UNCHANGED moments
    BY <1>6 DEF ListControllers, Line
  <2>2. CASE slot.dir /\ slot.ctrl = None
    BY <1>2, <1>6, <2>1, <2>2 DEF ListControllers
  <2>3. CASE ~(slot.dir /\ slot.ctrl = None)
    <3>1. \/ call' = [call EXCEPT !.at = "raised"]
          \/ call' = [call EXCEPT !.ctrl = slot.ctrl, !.at = "glob_controller"]
      BY <1>6, <2>3 DEF ListControllers
    <3>2. /\ call'.by = call.by /\ call'.temperature = call.temperature
          /\ call'.at \in {"raised", "glob_controller"}
      BY <1>0, <3>1 DEF Calls
    <3> QED BY <2>1, <3>2, DiscoverPlaceGaps DEF DiscoverPlaces
  <2> QED BY <2>2, <2>3
<1>7. CASE GlobController \/ GlobBlock
  <2>1. call.at \in {"glob_controller", "glob_block"} /\ UNCHANGED moments
    BY <1>7 DEF GlobController, GlobBlock, Line
  <2>2. \E seen, place :
          /\ place \in {"glob_block", "state"}
          /\ call' = [call EXCEPT !.namespaces = seen, !.at = place]
    BY <1>7 DEF GlobController, GlobBlock
  <2>3. /\ call'.by = call.by /\ call'.temperature = call.temperature
        /\ call'.at \in {"glob_block", "state"}
    BY <1>0, <2>2 DEF Calls
  <2> QED BY <2>1, <2>3, DiscoverPlaceGaps DEF DiscoverPlaces
<1>8. CASE ReadState
  <2>1. call.at = "state" /\ UNCHANGED moments
    BY <1>8 DEF ReadState, Line
  <2> DEFINE read == IF slot.ctrl = call.ctrl THEN slot.state ELSE None
             verdict == IF call.namespaces /\ read = "live"
                        THEN "NVME_PRESENT" ELSE "PCIE_ONLY"
             found == [call EXCEPT !.controller_state = read, !.state = verdict]
  <2>2. call' = Presence(found)
    BY <1>8 DEF ReadState
  <2>3. read \in {"connecting", "live", "dead", None}
    BY DEF IInv, Typed, Shape, Slots
  <2>4. call.pci /\ call.ctrl # None /\ (call.namespaces \/ Bare)
    BY <2>1 DEF IInv, Typed, Found
  <2>5. Lost => read = "dead" /\ call.namespaces
    BY <2>1, <2>4, LostIsFound
  <2>7. verdict \in States /\ (read # "live" => verdict = "PCIE_ONLY")
    BY DEF States
  <2> HIDE DEF read, verdict
  <2>6. /\ found \in Calls /\ found.by = call.by /\ found.temperature = call.temperature
        /\ found.pci = call.pci /\ found.ctrl = call.ctrl
        /\ found.namespaces = call.namespaces /\ found.controller_state = read
        /\ found.state = verdict
    BY <1>0, <2>3, <2>7 DEF Calls
  <2> HIDE DEF found
  <2> QED BY <2>1, <2>2, <2>4, <2>5, <2>6, <2>7, PresenceGaps DEF DiscoverPlaces
<1> QED BY <1>3, <1>4, <1>5, <1>6, <1>7, <1>8 DEF Discover

(* The reads after it, each at its moment.                                  *)
LEMMA SampleGaps == IInv /\ Gaps /\ (Telemetry \/ Sample \/ Cancelled) => Gaps'
<1> SUFFICES ASSUME IInv, Gaps, Telemetry \/ Sample \/ Cancelled PROVE Gaps'
  OBVIOUS
<1> USE DriveAssumption, DiscoveryAssumption
<1>0. call \in Calls /\ slot \in Slots
  BY DEF IInv, Typed, Shape
<1>1. call.at # "idle" => slot \in moments
  BY DEF IInv, Found
<1>2. CASE ReadLink
  <2>1. call.at = "link" /\ UNCHANGED moments
    BY <1>2 DEF ReadLink, Line
  <2>2. call' = [call EXCEPT !.link = slot.pci, !.at = "hwmon"]
    BY <1>2 DEF ReadLink
  <2>3. /\ call'.at = "hwmon" /\ call'.link = slot.pci
        /\ call'.by = call.by /\ call'.pci = call.pci /\ call'.ctrl = call.ctrl
        /\ call'.namespaces = call.namespaces /\ call'.temperature = call.temperature
        /\ call'.state = call.state /\ call'.controller_state = call.controller_state
    BY <1>0, <2>2 DEF Calls
  <2>4. Readings'
    BY <1>1, <2>1, <2>3 DEF Gaps, Readings, DiscoverPlaces, RowPlaces
  <2>5. LostRow'
    BY <2>1, <2>3 DEF Gaps, LostRow, Lost, Later
  <2> QED BY <2>4, <2>5 DEF Gaps
<1>3. CASE FindHwmon \/ ReadTemperature \/ Cancelled
  <2>1. call.at \in {"hwmon", "temperature"} /\ UNCHANGED moments
    BY <1>3 DEF FindHwmon, ReadTemperature, Cancelled, Line
  <2>2. PICK read \in BOOLEAN, place \in {"temperature", "power", "done"} :
          /\ call' = [call EXCEPT !.temperature = read, !.at = place]
          /\ read => Live(slot)
          /\ place = "temperature" => ~read
          /\ place # "temperature" =>
               /\ place = AfterTelemetry
               /\ read \/ ~Live(slot)
    <3>1. CASE FindHwmon
      <4>1. ~call.temperature /\ call.temperature \in BOOLEAN
        BY <1>0, <2>1 DEF Gaps, Readings, Calls
      <4>2. call' = [call EXCEPT !.temperature = FALSE,
                                 !.at = IF slot.ctrl # None THEN "temperature"
                                        ELSE AfterTelemetry]
        BY <1>0, <3>1, <4>1 DEF FindHwmon, Calls
      <4>3. slot.ctrl = None => ~Live(slot)
        BY DEF IInv, Typed, Shape, Live
      <4> QED BY <4>2, <4>3, AfterTelemetryLater
    <3>2. CASE ReadTemperature
      <4>1. call' = [call EXCEPT !.temperature = Live(slot), !.at = AfterTelemetry]
        BY <3>2 DEF ReadTemperature
      <4>2. Live(slot) \in BOOLEAN
        BY DEF Live
      <4> QED BY <4>1, <4>2, AfterTelemetryLater
    <3>3. CASE Cancelled
      <4>1. ~call.temperature /\ call.temperature \in BOOLEAN
        BY <1>0, <2>1 DEF Gaps, Readings, Calls
      <4>2. call' = [call EXCEPT !.temperature = FALSE, !.at = AfterTelemetry]
        BY <1>0, <3>3, <4>1 DEF Cancelled, Calls
      <4>3. ~Live(slot)
        BY <3>3 DEF Cancelled, Live
      <4> QED BY <4>2, <4>3, AfterTelemetryLater
    <3> QED BY <1>3, <3>1, <3>2, <3>3
  <2>3. /\ call'.at = place /\ call'.temperature = read
        /\ call'.by = call.by /\ call'.pci = call.pci /\ call'.ctrl = call.ctrl
        /\ call'.namespaces = call.namespaces /\ call'.link = call.link
        /\ call'.state = call.state /\ call'.controller_state = call.controller_state
    BY <1>0, <2>2 DEF Calls
  <2>4. call.by = "sample" => place # "done"
    BY <2>2 DEF AfterTelemetry
  <2>5. Readings'
    <3>1. ASSUME call.by = "sample", call.pci
          PROVE  /\ place \in {"temperature", "power"} =>
                      call.link \/ \E s \in moments : ~s.pci
                 /\ place = "power" =>
                      IF read THEN \E s \in moments : Live(s)
                      ELSE \E s \in moments : ~Live(s)
      BY <3>1, <1>1, <2>1, <2>2 DEF Gaps, Readings
    <3> QED
      BY <2>1, <2>2, <2>3, <2>4, <3>1 DEF Readings, DiscoverPlaces, RowPlaces
  <2>6. LostRow'
    <3>1. Lost => ~read
      BY <1>1, <2>1, <2>2 DEF Lost, Live
    <3> QED BY <2>1, <2>2, <2>3, <2>4, <3>1 DEF Gaps, LostRow, Lost, Later
  <2> QED BY <2>5, <2>6 DEF Gaps
<1>4. CASE ReadPower
  <2>1. call.at = "power" /\ UNCHANGED moments
    BY <1>4 DEF ReadPower, Line
  <2>2. PICK read \in BOOLEAN :
          /\ call' = [call EXCEPT !.power = read,
                                  !.at = IF call.namespaces THEN "io" ELSE "done"]
          /\ call.pci => read \/ ~slot.pci
    BY <1>0, <1>4 DEF ReadPower, Calls, Slots
  <2>3. /\ call'.at = IF call.namespaces THEN "io" ELSE "done"
        /\ call'.temperature = call.temperature
        /\ call'.by = call.by /\ call'.pci = call.pci /\ call'.ctrl = call.ctrl
        /\ call'.namespaces = call.namespaces /\ call'.link = call.link
        /\ call'.power = read
        /\ call'.state = call.state /\ call'.controller_state = call.controller_state
    BY <1>0, <2>2 DEF Calls
  <2>4. Readings'
    BY <1>1, <2>1, <2>2, <2>3 DEF Gaps, Readings, DiscoverPlaces, RowPlaces
  <2>5. LostRow'
    BY <2>1, <2>3 DEF Gaps, LostRow, Lost, Later
  <2> QED BY <2>4, <2>5 DEF Gaps
<1>5. CASE ReadIo
  <2>1. call.at = "io" /\ UNCHANGED moments
    BY <1>5 DEF ReadIo, Line
  <2>2. call' = [call EXCEPT !.io = Listed(slot, call.ctrl), !.at = "mounts"]
    BY <1>5 DEF ReadIo
  <2>3. /\ call'.at = "mounts" /\ call'.io = Listed(slot, call.ctrl)
        /\ call'.temperature = call.temperature
        /\ call'.by = call.by /\ call'.pci = call.pci /\ call'.ctrl = call.ctrl
        /\ call'.namespaces = call.namespaces /\ call'.link = call.link
        /\ call'.power = call.power
        /\ call'.state = call.state /\ call'.controller_state = call.controller_state
    BY <1>0, <2>2 DEF Calls
  <2>4. Readings'
    <3>1. IF call'.io THEN \E s \in moments : Listed(s, call.ctrl)
          ELSE \E s \in moments : ~Listed(s, call.ctrl)
      BY <1>1, <2>1, <2>3
    <3> QED BY <2>1, <2>3, <3>1 DEF Gaps, Readings, DiscoverPlaces, RowPlaces
  <2>5. LostRow'
    <3>1. call.by = "sample" /\ Lost => Listed(slot, call.ctrl)
      BY <2>1, LostIsFound DEF Gaps, LostRow, Later, Listed
    <3> QED BY <2>1, <2>3, <3>1 DEF Gaps, LostRow, Lost, Later
  <2> QED BY <2>4, <2>5 DEF Gaps
<1>6. CASE ReadMounts
  <2>1. call.at = "mounts" /\ UNCHANGED moments
    BY <1>6 DEF ReadMounts, Line
  <2> DEFINE read == slot.mount = call.ctrl
  <2>2. call' = [call EXCEPT !.mounted = read, !.at = "done"]
    BY <1>6 DEF ReadMounts
  <2>3. /\ call'.at = "done" /\ call'.mounted = read
        /\ call'.temperature = call.temperature /\ call'.io = call.io
        /\ call'.by = call.by /\ call'.pci = call.pci /\ call'.ctrl = call.ctrl
        /\ call'.namespaces = call.namespaces /\ call'.link = call.link
        /\ call'.power = call.power
        /\ call'.state = call.state /\ call'.controller_state = call.controller_state
    <3> HIDE DEF read
    <3> QED BY <1>0, <2>2 DEF Calls
  <2>4. Readings'
    <3>1. \E s \in moments : call'.mounted = (s.mount = call.ctrl)
      BY <1>1, <2>1, <2>3
    <3> HIDE DEF read
    <3> QED BY <2>1, <2>3, <3>1 DEF Gaps, Readings, DiscoverPlaces, RowPlaces
  <2>5. LostRow'
    <3>1. call.by = "sample" /\ Lost => read = TRUE
      BY <2>1, LostIsFound DEF Gaps, LostRow, Later
    <3> HIDE DEF read
    <3> QED BY <2>1, <2>3, <3>1 DEF Gaps, LostRow, Lost, Later
  <2> QED BY <2>4, <2>5 DEF Gaps
<1> QED BY <1>2, <1>3, <1>4, <1>5, <1>6 DEF Telemetry, Sample

(* An inventory is no sample.                                               *)
LEMMA InventoryGaps == IInv /\ Gaps /\ Inventory => Gaps'
<1> SUFFICES ASSUME IInv, Gaps, Inventory PROVE Gaps'
  OBVIOUS
<1>1. call \in Calls /\ call.at \in RowPlaces \cup {"controllers_of_all"}
  BY DEF IInv, Typed, Inventory, ListAll, ReadModel, ListRowNamespaces, FollowDevice,
     Follow, ClimbToPci, Classify, Line, RowPlaces
<1>2. call.by = "inventory"
  BY <1>1 DEF Gaps, Readings
<1>3. ASSUME NEW todo, NEW rows, NextRow(todo, rows)
      PROVE  call'.by = call.by /\ call'.at \in RowPlaces \cup {"done"}
  BY <1>1, <1>3 DEF NextRow, RowPlaces, Calls
<1>4. ASSUME NEW row, NEW place \in RowPlaces,
             call' = [call EXCEPT !.row = row, !.at = place]
      PROVE  call'.by = call.by /\ call'.at \in RowPlaces \cup {"done"}
  BY <1>1, <1>4 DEF Calls
<1>5. call'.by = call.by /\ call'.at \in RowPlaces \cup {"done"}
  <2>1. CASE ListAll
    BY <2>1, <1>3 DEF ListAll
  <2>2. CASE Classify
    BY <2>2, <1>3 DEF Classify
  <2>3. CASE ReadModel
    BY <1>1, <2>3 DEF ReadModel, RowPlaces, Calls
  <2>4. CASE ListRowNamespaces
    BY <1>1, <2>4 DEF ListRowNamespaces, RowPlaces, Calls
  <2>5. CASE FollowDevice
    BY <1>1, <2>5 DEF FollowDevice, Follow, RowPlaces, Calls
  <2>6. CASE ClimbToPci
    BY <1>1, <2>6 DEF ClimbToPci, RowPlaces, Calls
  <2> QED BY <2>1, <2>2, <2>3, <2>4, <2>5, <2>6 DEF Inventory
<1>6. call'.by # "sample"
  BY <1>2, <1>5
<1>7. Readings' /\ LostRow'
  BY <1>2, <1>5, <1>6 DEF Readings, LostRow, RowPlaces, DiscoverPlaces
<1> QED BY <1>7 DEF Gaps

LEMMA InitGaps == Init => Gaps
<1> SUFFICES ASSUME Init PROVE Gaps
  OBVIOUS
<1>1. call = Idle
  BY DEF Init
<1>2. call.at = "idle" /\ call.temperature = FALSE
  BY <1>1 DEF Idle
<1> QED BY <1>2 DEF Gaps, Readings, LostRow, DiscoverPlaces, RowPlaces, Later

LEMMA NextGaps == IInv /\ Gaps /\ [Next]_vars => Gaps'
<1> SUFFICES ASSUME IInv, Gaps, [Next]_vars PROVE Gaps'
  OBVIOUS
<1>1. CASE UNCHANGED vars
  BY <1>1 DEF vars, Gaps, Readings, LostRow, Lost, Listed, Live
<1>2. CASE Work \/ Cancelled
  BY <1>2, DiscoverGaps, SampleGaps, InventoryGaps DEF Work
<1>3. CASE World
  BY <1>3, WorldGaps
<1>4. CASE (\E by \in Callers : Begin(by)) \/ End
  <2>1. /\ call'.at \in {"idle", "devices"}
        /\ ~call'.temperature /\ ~call'.pci
    <3>1. ASSUME NEW by, Begin(by)
          PROVE  call'.at = "devices" /\ ~call'.temperature /\ ~call'.pci
      BY <3>1 DEF Begin, Idle
    <3>2. CASE End
      BY <3>2 DEF End, Idle
    <3> QED BY <1>4, <3>1, <3>2
  <2> QED BY <2>1 DEF Gaps, Readings, LostRow, DiscoverPlaces, RowPlaces, Later
<1> QED BY <1>1, <1>2, <1>3, <1>4 DEF Next

-----------------------------------------------------------------------------
(* The drive and the call have their types, and a presence with a           *)
(* controller has an address, whatever the drive does.                      *)
THEOREM TypeCorrect == Spec => []TypeOK
<1>1. IInv => TypeOK
  BY DEF IInv, Typed, Shape, Calls, TypeOK
<1> QED BY InitIInv, NextIInv, <1>1, PTL DEF Spec

(* What discover_mini_ssd returns was true of the drive at some moment of   *)
(* the call, however often the drive moves between its reads.               *)
THEOREM PresenceIsTrue == Spec => []PresenceWasTrue
<1>1. IInv => PresenceWasTrue
  BY DEF IInv
<1> QED BY InitIInv, NextIInv, <1>1, PTL DEF Spec

(* Only a driver that leaves between exists() and iterdir() makes a call    *)
(* raise.                                                                   *)
THEOREM OnlyLeavingRaises == Spec => []RaisesOnlyIfLeft
<1>1. IInv => RaisesOnlyIfLeft
  BY DEF IInv
<1> QED BY InitIInv, NextIInv, <1>1, PTL DEF Spec

(* Every row of the inventory is about the drive it is taken for, or of one *)
(* that left after the controllers were listed.                             *)
THEOREM RowsAreTold == Spec => []RowsTellDrives
<1>1. IInv => RowsTellDrives
  BY DEF IInv
<1> QED BY InitIInv, NextIInv, <1>1, PTL DEF Spec

(* Each field missing from the row of a sample of a drive found on the bus  *)
(* has a reason of its own: off the bus, for the link and for the power;    *)
(* not live, for the temperature; without its namespace, for the counters,  *)
(* each at some moment of the sample. What is there was read from it.       *)
THEOREM GapsAreTrouble == Spec => []GapsMeanTrouble
<1>1. IInv /\ Gaps => GapsMeanTrouble
  BY DEF IInv, Found, Gaps, Readings, GapsMeanTrouble
<1> QED BY InitIInv, NextIInv, InitGaps, NextGaps, <1>1, PTL DEF Spec

(* A drive that is lost and still mounted all through a sample is in its    *)
(* row as what it is.                                                       *)
THEOREM LostMountIsSeen == Spec => []LostMountIsVisible
<1>1. IInv /\ Gaps => LostMountIsVisible
  BY DEF Gaps, LostRow, Lost, Later, LostMountIsVisible
<1> QED BY InitIInv, NextIInv, InitGaps, NextGaps, <1>1, PTL DEF Spec
=============================================================================
