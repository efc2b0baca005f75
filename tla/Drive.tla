------------------------------- MODULE Drive -------------------------------
(***************************************************************************)
(* The Mini SSD as sysfs shows it, and what may happen to it: it comes and *)
(* goes, its driver binds and unbinds, its controller stops answering, is  *)
(* reset, recovers or is given up with its namespace still listed. This is *)
(* the kernel's half, external to the program; Discovery is the code that  *)
(* reads it. The internal drives stay as they are.                         *)
(***************************************************************************)
EXTENDS Integers

CONSTANTS
  Numbers,    \* controller numbers: n stands for nvme<n>
  Internal,   \* those of the internal drives
  None

ASSUME DriveAssumption ==
  /\ Numbers \subseteq Nat /\ Internal \subseteq Numbers
  /\ None \notin Numbers /\ None \notin {"connecting", "live", "dead"}

VARIABLE slot

(* pci: on the bus; dir: its nvme directory; ctrl: its controller; ns: its  *)
(* namespace; hung: it does not answer; mount: the number of a controller   *)
(* whose file system is still mounted, the drive there or not.              *)
Vacant == [pci |-> FALSE, dir |-> FALSE, ctrl |-> None, state |-> None,
           ns |-> FALSE, hung |-> FALSE, mount |-> None]

Arrive == ~slot.pci /\ slot' = [slot EXCEPT !.pci = TRUE]

(* The driver binds: the nvme directory, then the controller in it, under   *)
(* the lowest number free. A mounted file system holds its number.          *)
MakeDir == slot.pci /\ ~slot.dir /\ slot' = [slot EXCEPT !.dir = TRUE]

Register ==
  /\ slot.dir /\ slot.ctrl = None
  /\ LET taken == Internal \cup {slot.mount}
     IN  \E n \in Numbers \ taken :
           /\ \A m \in Numbers : m < n => m \in taken
           /\ slot' = [slot EXCEPT !.ctrl = n, !.state = "connecting"]

(* The controller is up, for the first time or after a reset.               *)
GoLive == slot.state = "connecting" /\ slot' = [slot EXCEPT !.state = "live"]

ScanNamespaces ==
  /\ slot.state = "live" /\ ~slot.hung /\ ~slot.ns
  /\ slot' = [slot EXCEPT !.ns = TRUE]

(* The drive stops answering; its controller still counts as live.          *)
Hang == slot.state = "live" /\ ~slot.hung /\ slot' = [slot EXCEPT !.hung = TRUE]

(* A command has timed out: the kernel resets the controller.               *)
Reset == slot.hung /\ slot' = [slot EXCEPT !.hung = FALSE, !.state = "connecting"]

(* "Disabling device after reset failure": the namespace stays listed.      *)
GiveUp == slot.state = "connecting" /\ slot' = [slot EXCEPT !.state = "dead"]

Unregister ==
  /\ slot.ctrl # None
  /\ slot' = [slot EXCEPT !.ctrl = None, !.state = None, !.ns = FALSE, !.hung = FALSE]

RemoveDir ==
  slot.dir /\ slot.ctrl = None /\ slot' = [slot EXCEPT !.dir = FALSE]

Leave == slot.pci /\ ~slot.dir /\ slot' = [slot EXCEPT !.pci = FALSE]

Mount ==
  /\ slot.ns /\ slot.state = "live" /\ slot.mount = None
  /\ slot' = [slot EXCEPT !.mount = slot.ctrl]

Unmount == slot.mount # None /\ slot' = [slot EXCEPT !.mount = None]

(* The kernel waits for no command for ever: it resets the controller, and  *)
(* then brings it up or gives it up.                                        *)
Recover == Reset \/ GoLive \/ GiveUp

Move ==
  \/ Arrive \/ MakeDir \/ Register \/ ScanNamespaces \/ Hang
  \/ Unregister \/ RemoveDir \/ Leave \/ Mount \/ Unmount

-----------------------------------------------------------------------------
(* What a slot s says of the drive. *)

Listed(s, c) == s.ctrl = c /\ s.ns

Live(s) == s.state = "live"

(* A command sent to the drive is not answered yet.                         *)
Unanswering(s) == s.hung \/ s.state = "connecting"

Slots == [pci : BOOLEAN, dir : BOOLEAN, ctrl : Numbers \cup {None},
          state : {"connecting", "live", "dead", None},
          ns : BOOLEAN, hung : BOOLEAN, mount : Numbers \cup {None}]
=============================================================================
