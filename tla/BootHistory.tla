---------------------------- MODULE BootHistory ----------------------------
(***************************************************************************)
(* get_mini_ssd_boot_events of collector.py: the retained boots are listed *)
(* and then the journal of each is read and parsed, one command after the  *)
(* other, while the machine goes on logging and journald drops its oldest  *)
(* files, the beginning of a boot's journal or all there is of it. BootLog *)
(* is the boot that is running: its parser is what parse_mini_ssd_boot_log *)
(* makes of the lines logged so far.                                       *)
(***************************************************************************)
EXTENDS BootLog

CONSTANTS MaxBoots, MaxVacuums   \* bounds of the model

VARIABLES
  past,      \* the boots before, oldest first: what their journals parse to
  vacuumed,  \* how many of the oldest are no longer retained
  cut,       \* whether the oldest one retained has lost its beginning
  report     \* the result being made

history == <<past, vacuumed, cut, report>>

(* logged: losses logged when the boots were listed, by boot; history.      *)
NoReport == [at |-> "idle", available |-> FALSE, todo |-> <<>>, boots |-> <<>>,
             logged |-> <<>>]

HistoryInit ==
  Init /\ past = <<>> /\ vacuumed = 0 /\ cut = FALSE /\ report = NoReport

Boots == Len(past) + 1

LossesOf(b) == IF b = Boots THEN Cardinality(losses) ELSE past[b].losses

-----------------------------------------------------------------------------
(* A clean shutdown or a crash: the next boot numbers its drives anew.      *)
Reboot ==
  /\ report.at # "done"
  /\ Boots < MaxBoots
  /\ past' = Append(past, [losses |-> Cardinality(losses), episodes |-> parser.loss_episodes])
  /\ name' = [d \in Drives |-> None]
  /\ pci' = FALSE /\ held' = {} /\ removed' = FALSE
  /\ due' = 0 /\ losses' = {} /\ parser' = Fresh
  /\ report' = NoReport
  /\ UNCHANGED <<count, vacuumed, cut>>

(* The oldest file goes: the beginning of the oldest journal retained, the  *)
(* running boot's if it is the only one, or the last that there is of it.   *)
Vacuum ==
  /\ report.at # "done"
  /\ vacuumed < MaxVacuums
  /\ \/ ~cut /\ cut' = TRUE /\ UNCHANGED vacuumed
     \/ vacuumed < Len(past) /\ vacuumed' = vacuumed + 1 /\ cut' = FALSE
  /\ UNCHANGED <<vars, past, report>>

(* journalctl --list-boots; when it fails the section is unavailable.       *)
ListBoots ==
  /\ report.at = "idle"
  /\ report' \in
       {[NoReport EXCEPT !.at = "done"],
        [NoReport EXCEPT !.at = "reading",
                         !.todo = [i \in 1 .. Boots - vacuumed |-> vacuumed + i],
                         !.logged = [b \in 1 .. Boots |-> LossesOf(b)]]}
  /\ UNCHANGED <<vars, past, vacuumed, cut>>

(* Slip: the present boot's journal is read for every boot of the list.     *)
Episodes_Present(b) == {parser.loss_episodes}

HasBeginning(b) == b # vacuumed + 1 \/ ~cut

(* What the parser makes of journalctl -k -b <boot_id>: of a journal without *)
(* its beginning no more episodes than of the whole, for a loss line opens  *)
(* one at most once after each probe, and probes only get fewer.            *)
Episodes(b) ==
  LET all == IF b = Boots THEN parser.loss_episodes ELSE past[b].episodes
  IN  IF HasBeginning(b) THEN {all} ELSE 0 .. all

(* whole: that no journal without its beginning was read; history.          *)
Entry(b, available, episodes) ==
  [boot |-> b, available |-> available, loss_episodes |-> episodes,
   whole |-> available => HasBeginning(b)]

(* The journal may have been dropped since the list was made, or the        *)
(* command fails: the boot is kept, unavailable, and the next one is read.  *)
ReadBoot ==
  /\ report.at = "reading"
  /\ LET b == Head(report.todo)
     IN  \E entry \in {Entry(b, FALSE, 0)}
                      \cup (IF b > vacuumed
                            THEN {Entry(b, TRUE, n) : n \in Episodes(b)} ELSE {}) :
           report' = [report EXCEPT !.todo = Tail(@), !.boots = Append(@, entry),
                                    !.at = IF Len(report.todo) = 1 THEN "done" ELSE @,
                                    !.available = Len(report.todo) = 1]
  /\ UNCHANGED <<vars, past, vacuumed, cut>>

Reported ==
  /\ report.at = "done"
  /\ report' = NoReport
  /\ UNCHANGED <<vars, past, vacuumed, cut>>

(* A report is printed as soon as it is made.                               *)
KernelLogs == report.at # "done" /\ Next /\ UNCHANGED history

HistoryNext ==
  KernelLogs \/ Reboot \/ Vacuum \/ ListBoots \/ ReadBoot \/ Reported

HistorySpec == HistoryInit /\ [][HistoryNext]_<<vars, history>>

-----------------------------------------------------------------------------
(* The totals of the result.                                                *)
loss_episodes == MapThenSumSet(LAMBDA i : report.boots[i].loss_episodes, DOMAIN report.boots)

boots_with_losses == Quantify(DOMAIN report.boots, LAMBDA i : report.boots[i].loss_episodes > 0)

(* The boots whose journals have been read.                                 *)
Known == {b \in DOMAIN report.logged :
            \E i \in DOMAIN report.boots :
              report.boots[i].boot = b /\ report.boots[i].available}

Whole == {b \in Known :
            \A i \in DOMAIN report.boots :
              report.boots[i].boot = b => report.boots[i].whole}

(* "Losses are counted as episodes ... in N of M boots": the totals count   *)
(* every loss the kernel had logged, in a boot still retained in full, when *)
(* the boots were listed, but for the boots the report itself calls         *)
(* unavailable; they count no loss twice and none that has not happened,    *)
(* whatever is logged or dropped while the journals are read.               *)
LossesAreCounted ==
  (report.at = "done" /\ report.available) =>
    /\ MapThenSumSet(LAMBDA b : report.logged[b], Whole) <= loss_episodes
    /\ loss_episodes <= MapThenSumSet(LAMBDA b : LossesOf(b), Known)
    /\ Quantify(Whole, LAMBDA b : report.logged[b] > 0) <= boots_with_losses
    /\ boots_with_losses <= Quantify(Known, LAMBDA b : LossesOf(b) > 0)
=============================================================================
