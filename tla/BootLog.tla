------------------------------ MODULE BootLog ------------------------------
(***************************************************************************)
(* parse_mini_ssd_boot_log of collector.py: one boot's kernel log is read  *)
(* line by line and the events of the removable Mini SSD are kept. The     *)
(* parser looks at no later line, so the model feeds it each line as the   *)
(* kernel logs it: the kernel's half (drives probed, named, removed) says  *)
(* which line is really about which drive.                                 *)
(*                                                                         *)
(* A line has a label, what it starts with or names: a controller number   *)
(* (nvmeN: or nvmeNn1p2) or a drive, standing for that drive's PCI address *)
(* (nvme 0000:c4:00.0:); and the classes of the keywords in its text.      *)
(***************************************************************************)
EXTENDS Integers, SequencesExt, FiniteSetsExt

CONSTANTS
  Mini,          \* the drive at MINI_SSD_PCI_ADDRESS
  Others,        \* the other NVMe drives
  Hotplug,       \* those among them that may come once the Mini SSD is gone
  MaxProbes, MaxMessages, MaxSuspends,   \* bounds of the model
  None

(* A drive stands for its address, which is no controller number. *)
ASSUME BootLogAssumption ==
  /\ Mini \notin Others /\ Hotplug \subseteq Others /\ IsFiniteSet(Others)
  /\ ({Mini, None} \cup Others) \cap Nat = {} /\ None \notin {Mini} \cup Others
  /\ MaxMessages \in Nat

VARIABLES
  name,      \* the controller number of every drive the driver has probed
  pci,       \* whether the Mini SSD is on the bus
  held,      \* its former numbers, kept while a filesystem is still mounted
  removed,   \* whether it has been removed in this boot
  count,     \* probes, messages and suspends logged so far
  due,       \* keyword lines under the Mini SSD's address or present number
  losses,    \* the probes after which the kernel logged a loss
  parser     \* the local variables of parse_mini_ssd_boot_log

vars == <<name, pci, held, removed, count, due, losses, parser>>

Drives == {Mini} \cup Others

(* The classes of _MINI_SSD_EVENT_KEYWORDS: loss, io_error, aftermath and   *)
(* recovery have a tuple of their own, "other" stands for reset or timeout. *)
Texts == {{}, {"other"}, {"loss", "other"}, {"io_error"}, {"aftermath"}, {"recovery"}}

-----------------------------------------------------------------------------
(* The parser, a line at a time. *)

Scoped(label, controller) ==
  label = Mini \/ (controller # None /\ label = controller)

(* _event_kind: the earlier tuples win. *)
EventKind(text, loss_seen) ==
  IF "loss" \in text THEN "loss"
  ELSE IF "io_error" \in text THEN "io_error"
  ELSE IF "aftermath" \in text THEN "aftermath"
  ELSE IF "recovery" \in text /\ loss_seen THEN "recovery" ELSE "other"

Fresh == [controller |-> None, active |-> None, suspend_count |-> 0, events |-> <<>>,
          pcie_enumerated |-> FALSE, nvme_probed |-> FALSE,
          in_loss |-> FALSE, loss_seen |-> FALSE, loss_episodes |-> 0]

(* "pci 0000:c4:00.0: [1dee:2268]". *)
OnEnumeration(p) == [p EXCEPT !.pcie_enumerated = TRUE]

(* Slips: the address taken for the name; any drive's probe followed; the   *)
(* first probe's name kept; an episode not closed by a probe.               *)
OnFunction_Swapped(p, controller, address) ==
  IF address = Mini THEN [p EXCEPT !.nvme_probed = TRUE, !.active = address] ELSE p

OnFunction_AnyAddress(p, controller, address) ==
  [p EXCEPT !.nvme_probed = TRUE, !.active = controller, !.in_loss = FALSE]

OnFunction_FirstName(p, controller, address) ==
  IF address = Mini
  THEN [p EXCEPT !.nvme_probed = TRUE, !.in_loss = FALSE,
                 !.active = IF @ = None THEN controller ELSE @]
  ELSE p

OnFunction_StillInLoss(p, controller, address) ==
  IF address = Mini
  THEN [p EXCEPT !.nvme_probed = TRUE, !.active = controller]
  ELSE p

(* "nvme nvmeN: pci function <address>": the mapping in effect from here on. *)
(* controller_by_address is filled too, and never read.                     *)
OnFunction(p, controller, address) ==
  IF address = Mini
  THEN [p EXCEPT !.nvme_probed = TRUE,
                 !.controller = IF @ = None THEN controller ELSE @,
                 !.active = controller,
                 !.in_loss = FALSE]
  ELSE p

(* "PM: suspend entry". *)
OnSuspend(p) == [p EXCEPT !.suspend_count = @ + 1]

(* Any other line. Its text, its time and the suspends before it are left   *)
(* out of the event. The drive it is about, the probe it follows and        *)
(* whether it is due are not read by the code: the properties need them.    *)
OnMessage(p, label, text, truth) ==
  IF ~Scoped(label, p.active) \/ text = {} THEN p
  ELSE LET kind  == EventKind(text, p.loss_seen)
           start == kind = "loss" /\ ~p.in_loss
           event == [kind |-> kind, controller |-> p.active,
                     episode_start |-> start, truth |-> truth]
       IN  [p EXCEPT !.loss_seen = @ \/ kind = "loss",
                     !.in_loss = @ \/ kind = "loss",
                     !.loss_episodes = IF start THEN @ + 1 ELSE @,
                     !.events = Append(@, event)]

-----------------------------------------------------------------------------
(* The kernel. *)

Init ==
  /\ name = [d \in Drives |-> None]
  /\ pci = FALSE /\ held = {} /\ removed = FALSE
  /\ count = [probes |-> 0, messages |-> 0, suspends |-> 0]
  /\ due = 0 /\ losses = {}
  /\ parser = Fresh

FreeNumber ==
  CHOOSE n \in 0 .. Cardinality(Drives) + Cardinality(held) :
    /\ n \notin {name[d] : d \in Drives} \cup held
    /\ \A m \in 0 .. n - 1 : m \in {name[d] : d \in Drives} \cup held

Enumerate ==
  /\ ~pci
  /\ pci' = TRUE
  /\ parser' = OnEnumeration(parser)
  /\ UNCHANGED <<name, held, removed, count, due, losses>>

Probe(d) ==
  /\ name[d] = None
  /\ IF d = Mini THEN pci /\ count.probes < MaxProbes
                 ELSE ~removed \/ d \in Hotplug
  /\ name' = [name EXCEPT ![d] = FreeNumber]
  /\ count' = IF d = Mini THEN [count EXCEPT !.probes = @ + 1] ELSE count
  /\ parser' = OnFunction(parser, FreeNumber, d)
  /\ UNCHANGED <<pci, held, removed, due, losses>>

(* The drive is taken off the bus (pulled, or removed before a rescan). A   *)
(* mounted filesystem keeps its controller number from being given again.   *)
Unplug ==
  /\ pci
  /\ pci' = FALSE /\ removed' = TRUE
  /\ name' = [name EXCEPT ![Mini] = None]
  /\ held' \in {held, held \cup ({name[Mini]} \ {None})}
  /\ UNCHANGED <<count, due, losses, parser>>

Suspend ==
  /\ count.suspends < MaxSuspends
  /\ count' = [count EXCEPT !.suspends = @ + 1]
  /\ parser' = OnSuspend(parser)
  /\ UNCHANGED <<name, pci, held, removed, due, losses>>

(* The driver's or a filesystem's line about drive d, under its present     *)
(* number or its address.                                                   *)
Message(d, label, text) ==
  /\ count.messages < MaxMessages
  /\ label \in ({name[d]} \ {None}) \cup (IF d # Mini \/ pci THEN {d} ELSE {})
  /\ count' = [count EXCEPT !.messages = @ + 1]
  /\ LET isDue == d = Mini /\ text # {}
     IN  /\ due' = IF isDue THEN due + 1 ELSE due
         /\ losses' = IF d = Mini /\ "loss" \in text
                      THEN losses \cup {count.probes} ELSE losses
         /\ parser' = OnMessage(parser, label, text,
                        [about |-> d, probe |-> count.probes, due |-> isDue])
  /\ UNCHANGED <<name, pci, held, removed>>

(* A filesystem still mounted on the removed drive goes on failing. *)
LateMessage(n) ==
  /\ count.messages < MaxMessages
  /\ count' = [count EXCEPT !.messages = @ + 1]
  /\ parser' = OnMessage(parser, n, {"io_error"},
                 [about |-> Mini, probe |-> count.probes, due |-> FALSE])
  /\ UNCHANGED <<name, pci, held, removed, due, losses>>

Next ==
  \/ Enumerate
  \/ \E d \in Drives : Probe(d)
  \/ Unplug
  \/ Suspend
  \/ \E d \in Drives : \E label \in {d, name[d]}, text \in Texts : Message(d, label, text)
  \/ \E n \in held : LateMessage(n)

Spec == Init /\ [][Next]_vars

-----------------------------------------------------------------------------
Events == parser.events

(* Type invariant. *)
TypeOK ==
  /\ name \in [Drives -> Nat \cup {None}] /\ held \subseteq Nat
  /\ parser.active \in Nat \cup {None} /\ parser.loss_episodes \in 0 .. MaxMessages
  /\ \A i \in DOMAIN Events :
       Events[i].kind \in {"loss", "io_error", "aftermath", "recovery", "other"}

(* "Events use the mapping in effect at that line" (the comment in the      *)
(* loop): no event is another drive's, however the kernel numbers them.     *)
NoMisattribution == \A i \in DOMAIN Events : Events[i].truth.about = Mini

(* Every keyword line under the Mini SSD's address or the number it has     *)
(* then is kept, before any probe and after a second one included.          *)
NothingMissed == Quantify(DOMAIN Events, LAMBDA i : Events[i].truth.due) = due

(* "Losses are counted as episodes": one for each probe after which the     *)
(* drive was lost, and it is the first loss line after that probe that      *)
(* starts it, whatever else is logged in between.                           *)
EpisodesMatch ==
  /\ parser.loss_episodes = Cardinality(losses)
  /\ \A i \in DOMAIN Events :
       Events[i].episode_start <=>
         /\ Events[i].kind = "loss"
         /\ \A j \in 1 .. i - 1 :
              Events[j].kind = "loss" => Events[j].truth.probe # Events[i].truth.probe
=============================================================================
