----------------------------- MODULE Discovery -----------------------------
(***************************************************************************)
(* discover_mini_ssd and the reads that follow it, in a sample of the      *)
(* sampler (take_sample), in a snapshot of the service, and in the storage *)
(* inventory of the diagnostics. Every read of sysfs is a step, and the    *)
(* drive may come, go, hang or recover between any two of them.            *)
(* Of a value read only this is kept: whether there was one to read.       *)
(***************************************************************************)
EXTENDS Drive

CONSTANTS
  Callers,            \* "sample", "snapshot", "inventory"
  NamespacesAppear,   \* where this kernel lists them: "controller", "block"
  MaxMoves            \* bound of the model: moves of the drive during a call

ASSUME DiscoveryAssumption ==
  /\ Callers \subseteq {"sample", "snapshot", "inventory"}
  /\ NamespacesAppear \subseteq {"controller", "block"} /\ NamespacesAppear # {}
  /\ None \notin {"mini", "internal", "bridge"} /\ MaxMoves \in Nat

VARIABLES
  call,      \* the local variables of the call being made
  moments,   \* the slots since the call began: history, for the properties
  departed,  \* those unregistered since the controllers were listed: history
  moves

vars == <<slot, call, moments, departed, moves>>

Idle == [by |-> None, at |-> "idle", state |-> None, pci |-> FALSE, ctrl |-> None,
         namespaces |-> FALSE, controller_state |-> None,
         link |-> FALSE, temperature |-> FALSE, power |-> FALSE,
         io |-> FALSE, mounted |-> None,
         todo |-> {}, row |-> None, rows |-> {}]

Init == slot = Vacant /\ call = Idle /\ moments = {} /\ departed = {} /\ moves = 0

(* A line of the caller that leaves the drive alone.                        *)
Line(place) == call.at = place /\ UNCHANGED <<slot, moments, departed, moves>>

Begin(by) ==
  /\ call.at = "idle"
  /\ call' = [Idle EXCEPT !.by = by, !.at = "devices"]
  /\ moments' = {slot} /\ departed' = {} /\ moves' = 0
  /\ UNCHANGED slot

(* The row is appended, the snapshot rendered, the report printed, or the   *)
(* exception has reached main or the main loop.                             *)
End == call.at \in {"done", "raised"} /\ call' = Idle
       /\ moments' = {} /\ departed' = {} /\ moves' = 0 /\ UNCHANGED slot

-----------------------------------------------------------------------------
(* discover_mini_ssd. *)

(* What the caller does with the presence it gets.                          *)
Presence(found) ==
  [found EXCEPT !.at = IF call.by = "inventory" THEN "controllers_of_all"
                       ELSE IF found.pci THEN "link"
                       ELSE IF call.by = "sample" THEN "power" ELSE "done"]

ListDevices ==
  /\ Line("devices")
  /\ call' = IF slot.pci THEN [call EXCEPT !.at = "ids"]
                         ELSE Presence([call EXCEPT !.state = "ABSENT"])

(* OSError: the device has left the bus, and is skipped.                    *)
ReadIds ==
  /\ Line("ids")
  /\ call' = IF slot.pci THEN [call EXCEPT !.pci = TRUE, !.at = "nvme"]
                         ELSE Presence([call EXCEPT !.state = "ABSENT"])

PcieOnly == Presence([call EXCEPT !.state = "PCIE_ONLY"])

(* Slip: exists() is not asked.                                             *)
FindNvme_Unasked == Line("nvme") /\ call' = [call EXCEPT !.at = "controllers"]

FindNvme ==
  /\ Line("nvme")
  /\ call' = IF slot.dir THEN [call EXCEPT !.at = "controllers"] ELSE PcieOnly

(* Slip: the controllers of all drives are listed.                          *)
ListControllers_All ==
  /\ Line("controllers")
  /\ call' = [call EXCEPT !.ctrl = CHOOSE c \in Internal \cup ({slot.ctrl} \ {None}) : TRUE,
                          !.at = "glob_controller"]

(* iterdir() of a directory that has gone raises FileNotFoundError.         *)
ListControllers ==
  /\ Line("controllers")
  /\ call' = CASE ~slot.dir -> [call EXCEPT !.at = "raised"]
               [] slot.dir /\ slot.ctrl = None -> PcieOnly
               [] OTHER -> [call EXCEPT !.ctrl = slot.ctrl, !.at = "glob_controller"]

GlobController ==
  /\ Line("glob_controller")
  /\ call' = [call EXCEPT
       !.namespaces = "controller" \in NamespacesAppear /\ Listed(slot, call.ctrl),
       !.at = "glob_block"]

GlobBlock ==
  /\ Line("glob_block")
  /\ call' = [call EXCEPT
       !.namespaces = @ \/ ("block" \in NamespacesAppear /\ Listed(slot, call.ctrl)),
       !.at = "state"]

(* Slip: a namespace is taken for a live drive.                             *)
ReadState_AnyState ==
  /\ Line("state")
  /\ LET read == IF slot.ctrl = call.ctrl THEN slot.state ELSE None
     IN  call' = Presence([call EXCEPT
                   !.controller_state = read,
                   !.state = IF call.namespaces THEN "NVME_PRESENT" ELSE "PCIE_ONLY"])

(* Slip: namespaces are kept for a live controller only.                    *)
ReadState_Bare ==
  /\ Line("state")
  /\ LET read == IF slot.ctrl = call.ctrl THEN slot.state ELSE None
         present == call.namespaces /\ read = "live"
     IN  call' = Presence([call EXCEPT
                   !.controller_state = read, !.namespaces = present,
                   !.state = IF present THEN "NVME_PRESENT" ELSE "PCIE_ONLY"])

(* "Only a live controller counts"; one that cannot be read does not.       *)
ReadState ==
  /\ Line("state")
  /\ LET read == IF slot.ctrl = call.ctrl THEN slot.state ELSE None
     IN  call' = Presence([call EXCEPT
                   !.controller_state = read,
                   !.state = IF call.namespaces /\ read = "live"
                             THEN "NVME_PRESENT" ELSE "PCIE_ONLY"])

Discover ==
  \/ ListDevices \/ ReadIds \/ FindNvme \/ ListControllers
  \/ GlobController \/ GlobBlock \/ ReadState

-----------------------------------------------------------------------------
(* read_mini_ssd_telemetry, read_mini_ssd_power_state, read_namespace_io. *)

(* Link and ASPM attributes, each read on its own: one stands for all.      *)
ReadLink ==
  /\ Line("link")
  /\ call' = [call EXCEPT !.link = slot.pci, !.at = "hwmon"]

AfterTelemetry == IF call.by = "sample" THEN "power" ELSE "done"

(* The drive's hwmon is the one below its PCI device.                       *)
FindHwmon ==
  /\ Line("hwmon")
  /\ call' = [call EXCEPT !.at = IF slot.ctrl # None THEN "temperature" ELSE AfterTelemetry]

(* Slip: a temperature without an answer is asked for again.                *)
ReadTemperature_Again ==
  /\ Line("temperature") /\ ~Unanswering(slot)
  /\ call' = IF Live(slot)
             THEN [call EXCEPT !.temperature = TRUE, !.at = AfterTelemetry]
             ELSE call

(* The read sends a command to the drive and blocks until it is answered or *)
(* fails: "a sample blocked for 63.5 s on the unresponsive controller".     *)
ReadTemperature ==
  /\ Line("temperature") /\ ~Unanswering(slot)
  /\ call' = [call EXCEPT !.temperature = Live(slot),
                          !.at = AfterTelemetry]

(* The reset cancels the command.                                           *)
Cancelled ==
  /\ Line("temperature") /\ slot.state = "connecting"
  /\ call' = [call EXCEPT !.at = AfterTelemetry]

(* Slip: the power files are looked up below the wrong address.             *)
ReadPower_Elsewhere ==
  /\ Line("power")
  /\ call' = [call EXCEPT !.power = FALSE,
                          !.at = IF call.namespaces THEN "io" ELSE "done"]

ReadPower ==
  /\ Line("power")
  /\ call' = [call EXCEPT !.power = call.pci /\ slot.pci,
                          !.at = IF call.namespaces THEN "io" ELSE "done"]

(* /sys/block/<namespace>/stat.                                             *)
ReadIo ==
  /\ Line("io")
  /\ call' = [call EXCEPT !.io = Listed(slot, call.ctrl),
                          !.at = "mounts"]

ReadMounts ==
  /\ Line("mounts")
  /\ call' = [call EXCEPT !.mounted = slot.mount = call.ctrl, !.at = "done"]

-----------------------------------------------------------------------------
(* get_storage_inventory: the rows of all NVMe controllers, one by one.      *)

Unread(c) == [ctrl |-> c, biwin |-> FALSE, address |-> None,
              namespaces |-> FALSE]

(* The for loop: what is left of the list made at its start.                *)
NextRow(todo, rows) ==
  \/ todo = {} /\ call' = [call EXCEPT !.rows = rows, !.row = None, !.at = "done"]
  \/ \E c \in todo :
       /\ \A n \in todo : c <= n
       /\ call' = [call EXCEPT !.todo = todo \ {c}, !.rows = rows,
                               !.row = Unread(c), !.at = "model"]

ListAll ==
  /\ call.at = "controllers_of_all" /\ departed' = {} /\ UNCHANGED <<slot, moments, moves>>
  /\ NextRow(Internal \cup ({slot.ctrl} \ {None}), {})

ReadModel ==
  /\ Line("model")
  /\ call' = [call EXCEPT !.row.biwin = slot.ctrl = call.row.ctrl, !.at = "row_namespaces"]

There(c) == c \in Internal \/ slot.ctrl = c

ListRowNamespaces ==
  /\ Line("row_namespaces")
  /\ LET c == call.row.ctrl
     IN  call' = [call EXCEPT !.row.namespaces = c \in Internal \/ Listed(slot, c),
                              !.at = "row_device"]

(* The device link is asked for, then followed: no link, or one that leads  *)
(* nowhere any more, and there is no PCI address.                           *)
Follow(place, next) ==
  /\ Line(place)
  /\ call' = [call EXCEPT !.at = IF There(call.row.ctrl) THEN next ELSE "row_state"]

FollowDevice == Follow("row_device", "row_resolve") \/ Follow("row_resolve", "row_parent")

(* _find_pci_parent: the nearest PCI device on the path that is still there, *)
(* the bridge above it if the drive has left the bus.                        *)
ClimbToPci ==
  /\ Line("row_parent")
  /\ call' = [call EXCEPT !.row.address = IF call.row.ctrl \in Internal THEN "internal"
                                          ELSE IF slot.pci THEN "mini" ELSE "bridge",
                          !.at = "row_state"]

IsMini(row, pci) ==
  row.address = (IF pci THEN "mini" ELSE None) \/ row.biwin

Usable(row) ==
  row.namespaces /\ (row.ctrl \in Internal \/ (slot.ctrl = row.ctrl /\ Live(slot)))

Row(row, is_mini, classification) ==
  [ctrl |-> row.ctrl, is_mini |-> is_mini, classification |-> classification]

(* Slip: the model is not looked at.                                        *)
Classify_AddressOnly ==
  /\ Line("row_state")
  /\ LET row == call.row
         is_mini == row.address = (IF call.pci THEN "mini" ELSE None)
     IN  NextRow(call.todo, call.rows \cup
           {Row(row, is_mini, IF is_mini THEN call.state
                              ELSE IF Usable(row) THEN "NVME_PRESENT" ELSE "PCIE_ONLY")})

Classify ==
  /\ Line("row_state")
  /\ LET row == call.row
         is_mini == IsMini(row, call.pci)
     IN  NextRow(call.todo, call.rows \cup
           {Row(row, is_mini, IF is_mini THEN call.state
                              ELSE IF Usable(row) THEN "NVME_PRESENT" ELSE "PCIE_ONLY")})

-----------------------------------------------------------------------------
Telemetry == ReadLink \/ FindHwmon \/ ReadTemperature

Sample == ReadPower \/ ReadIo \/ ReadMounts

Inventory == ListAll \/ ReadModel \/ ListRowNamespaces \/ FollowDevice \/ ClimbToPci \/ Classify

Work == Discover \/ Telemetry \/ Sample \/ Inventory

Running == call.at \notin {"idle", "done", "raised"}

(* The drive moves, between calls as it likes.                              *)
World ==
  /\ call.at = "idle" \/ Running
  /\ \/ /\ Move /\ (Running => moves < MaxMoves)
        /\ moves' = IF Running THEN moves + 1 ELSE moves
     \/ Recover /\ UNCHANGED moves
  /\ moments' = IF Running THEN moments \cup {slot'} ELSE moments
  /\ departed' = IF Running /\ slot'.ctrl = None
                 THEN departed \cup ({slot.ctrl} \ {None}) ELSE departed
  /\ UNCHANGED call

Next == (\E by \in Callers : Begin(by)) \/ Work \/ Cancelled \/ End \/ World

(* The calls are straight-line code; and the kernel gives up waiting for a  *)
(* command, resets the controller and recovers it or not. Nothing else the  *)
(* drive does is assumed.                                                   *)
Fairness == WF_vars(Work) /\ WF_vars(World /\ Recover)

Spec == Init /\ [][Next]_vars /\ Fairness

-----------------------------------------------------------------------------
Places == {"idle", "devices", "ids", "nvme", "controllers", "glob_controller",
           "glob_block", "state", "link", "hwmon", "temperature", "power",
           "io", "mounts", "controllers_of_all", "model", "row_namespaces",
           "row_device", "row_resolve", "row_parent", "row_state",
           "done", "raised"}

States == {"ABSENT", "PCIE_ONLY", "NVME_PRESENT"}

(* Type invariant: what a drive and a presence may be. A controller has its *)
(* number only while it is registered, and a presence has a controller only *)
(* if it has an address.                                                    *)
TypeOK ==
  /\ slot \in Slots /\ slot.ctrl \notin Internal
  /\ moments \subseteq Slots /\ departed \subseteq Numbers \ Internal
  /\ moves \in 0 .. MaxMoves
  /\ call.at \in Places /\ call.by \in Callers \cup {None}
  /\ call.state \in States \cup {None}
  /\ call.ctrl \in (Numbers \ Internal) \cup {None}
  /\ call.ctrl # None => call.pci
  /\ call.namespaces => call.ctrl # None

(* What one moment is, if it is called so. Of a rebound drive the namespace *)
(* and the live state may have been seen under one number at two moments.   *)
WasOnce ==
  CASE call.state = "ABSENT"    -> \E s \in moments : ~s.pci
    [] call.state = "PCIE_ONLY" -> \E s \in moments : s.pci /\ ~(s.ns /\ Live(s))
    [] OTHER -> /\ \E s \in moments : Listed(s, call.ctrl)
                /\ \E s \in moments : s.ctrl = call.ctrl /\ Live(s)

(* "A drive is classified from PCIe through namespace presence" and only a  *)
(* live one counts: the verdict of a call that read a dozen attributes was  *)
(* true of the drive at some moment of that call, whatever it did meanwhile *)
(* - or, of NVME_PRESENT, each half of it at a moment of its own.           *)
PresenceWasTrue == call.state # None => WasOnce

(* A sample's empty fields mean something: the link or the power state is   *)
(* missing from the row of a drive found on the bus only if it was off the  *)
(* bus at some moment of the sample; the temperature only if it stopped     *)
(* answering, was lost or left; the I/O counters only if its namespace went.*)
(* And the fields that are there, the mount included, were read from it.    *)
GapsMeanTrouble ==
  (call.at = "done" /\ call.by = "sample" /\ call.pci) =>
    /\ ~(call.link /\ call.power) => \E s \in moments : ~s.pci
    /\ IF call.temperature THEN \E s \in moments : Live(s)
       ELSE \E s \in moments : ~Live(s)
    /\ call.namespaces =>
         /\ IF call.io THEN \E s \in moments : Listed(s, call.ctrl)
            ELSE \E s \in moments : ~Listed(s, call.ctrl)
         /\ \E s \in moments : call.mounted = (s.mount = call.ctrl)

(* "Namespaces stay listed for a non-live controller so a mounted file      *)
(* system on a lost drive is visible": whenever a drive is lost, mounted,   *)
(* all through a sample, its row shows the mount and no healthy presence.   *)
LostMountIsVisible ==
  (/\ call.at = "done" /\ call.by = "sample"
   /\ \A s \in moments : s.state = "dead" /\ s.ns /\ s.mount = s.ctrl) =>
     /\ call.state = "PCIE_ONLY" /\ call.controller_state = "dead"
     /\ call.mounted = TRUE /\ call.io /\ ~call.temperature

(* A call fails for no other reason than the drive's driver leaving it      *)
(* while it was being listed: an absent, dead or silent drive is no error.  *)
RaisesOnlyIfLeft ==
  call.at = "raised" => (\E s \in moments : s.dir) /\ (\E s \in moments : ~s.dir)

(* The inventory tells the removable drive from the internal ones, also if  *)
(* it arrived after its discovery: only one that left after the controllers *)
(* were listed ever has a row that takes it for another drive, and no       *)
(* internal drive ever gets the Mini SSD's verdict.                         *)
RowsTellDrives ==
  \A row \in call.rows :
    IF row.ctrl \in Internal
    THEN ~row.is_mini /\ row.classification = "NVME_PRESENT"
    ELSE row.is_mini \/ row.ctrl \in departed

(* Every sample, snapshot and inventory ends, however long the drive does   *)
(* not answer.                                                              *)
EveryCallEnds == Running ~> ~Running
=============================================================================
