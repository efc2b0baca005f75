------------------------------- MODULE Window -------------------------------
(***************************************************************************)
(* The controls of the GTK window (ui/window.py, ui/widgets.py,            *)
(* ui/pages/base.py): every row shows a record of the last snapshot, a     *)
(* user's gesture becomes a write at once or, on a slider, 400 ms after the*)
(* last one, and a write is followed by a re-rendering queued as an idle   *)
(* callback. All of it runs on one main loop, a callback at a time, which  *)
(* a write and a snapshot block; the owners of the values do not stop.     *)
(***************************************************************************)
EXTENDS Integers, Sequences, FiniteSets

CONSTANTS
  Order,         \* the capabilities, in the order a snapshot reads them
  Rows,          \* the rows of all pages that have a control
  Shows,         \* the capability of every row
  Sliders,       \* the rows whose control is a Gtk.Scale
  Wired,         \* the rows built with an on_set: not the dashboard's
  Values,        \* the values an owner may hold, a function of the capability
  Positions,     \* where a control may be put, a function of the capability
  Clamped,       \* where a control stands for a value: the slider's floor
  Drift,         \* the values other clients set, a function of the capability
  MaxGestures,   \* bound of the model: gestures of the user
  MaxRaises,     \* bound of the model: snapshots that raise
  Gone, None

Capabilities == {Order[i] : i \in DOMAIN Order}

(* A snapshot reads each capability once; where a control is put is where it *)
(* stands for the value that it is put at.                                  *)
ASSUME WindowAssumption ==
  /\ Sliders \subseteq Rows /\ Wired \subseteq Rows /\ IsFiniteSet(Rows)
  /\ \A r \in Rows : Shows[r] \in Capabilities
  /\ Order \in Seq(Capabilities)
  /\ \A i, j \in DOMAIN Order : Order[i] = Order[j] => i = j
  /\ \A c \in Capabilities : \A p \in Positions[c] : p # None /\ Clamped[p] = p
  /\ MaxGestures \in Nat

VARIABLES
  owner,      \* what every capability's owner holds, or Gone
  row,        \* every row: its record's observed_value and its control
  timer,      \* the position a slider's armed timeout would write, or None
  idles,      \* _refresh_idle callbacks queued
  loop,       \* what the main loop is doing
  gestures,   \* gestures so far
  touched,    \* history: where the user last put the control of this row
  skipped,    \* history: the last value a row did not forward
  outside,    \* history: capabilities changed by others since they were read
  raises,     \* snapshots that raised so far
  stale       \* history: the last snapshot raised, nothing was rendered

hidden == <<raises, stale>>

vars == <<owner, row, timer, idles, loop, gestures, touched, skipped, outside, hidden>>

Free == [at |-> "free", row |-> None, value |-> None, shot |-> <<>>]
Reading == [Free EXCEPT !.at = "reading"]

(* The window's constructor ends in refresh(): if that one raises there is   *)
(* no window.                                                               *)
Init ==
  /\ owner \in {o \in [Capabilities -> UNION {Values[c] : c \in Capabilities}] :
                  \A c \in Capabilities : o[c] \in Values[c]}
  /\ row = [r \in Rows |-> [observed |-> Gone, control |-> None]]
  /\ timer = [r \in Rows |-> None]
  /\ idles = 0
  /\ loop = [Reading EXCEPT !.at = "opening"]
  /\ raises = 0 /\ stale = FALSE
  /\ gestures = 0
  /\ touched = [r \in Rows |-> None]
  /\ skipped = None
  /\ outside = {}

-----------------------------------------------------------------------------
(* _emit_set: a value equal to the record's is taken for a no-op. Otherwise *)
(* _apply_capability calls the service.                                     *)
EmitSet(r, value) ==
  IF value = row[r].observed
  THEN /\ skipped' = [value |-> value, held |-> owner[Shows[r]]]
       /\ UNCHANGED loop
  ELSE /\ loop' = [Free EXCEPT !.at = "setting", !.row = r, !.value = value]
       /\ UNCHANGED skipped

Gesture(r, position) ==
  /\ loop.at = "free" /\ gestures < MaxGestures
  /\ row[r].observed # Gone /\ position # row[r].control
  /\ gestures' = gestures + 1
  /\ row' = [row EXCEPT ![r].control = position]
  /\ touched' = [touched EXCEPT ![r] = position]
  /\ UNCHANGED <<owner, idles, outside, hidden>>

(* A slider's value-changed: the timeout is cancelled and armed again; its  *)
(* callback reads the slider.                                               *)
Drag(r, position) ==
  /\ r \in Sliders
  /\ Gesture(r, position)
  /\ timer' = IF r \in Wired THEN [timer EXCEPT ![r] = position] ELSE timer
  /\ UNCHANGED <<loop, skipped>>

(* Slip: a row without an on_set writes. *)
Choose_Unwired(r, position) ==
  /\ r \notin Sliders
  /\ Gesture(r, position)
  /\ EmitSet(r, position)
  /\ UNCHANGED timer

(* A drop-down's or a switch's notify. *)
Choose(r, position) ==
  /\ r \notin Sliders
  /\ Gesture(r, position)
  /\ IF r \in Wired THEN EmitSet(r, position) ELSE UNCHANGED <<loop, skipped>>
  /\ UNCHANGED timer

PressRefresh ==
  /\ loop.at = "free" /\ gestures < MaxGestures
  /\ gestures' = gestures + 1
  /\ loop' = Reading
  /\ UNCHANGED <<owner, row, timer, idles, touched, skipped, outside, hidden>>

-----------------------------------------------------------------------------
(* _flush_scale: the debounce interval of a slider has passed. *)
FlushScale(r) ==
  /\ loop.at = "free" /\ timer[r] # None
  /\ timer' = [timer EXCEPT ![r] = None]
  /\ EmitSet(r, timer[r])
  /\ UNCHANGED <<owner, row, idles, gestures, touched, outside, hidden>>

(* Slip: nothing is re-rendered. *)
SetReturns_NoRefresh ==
  /\ loop.at = "setting"
  /\ owner' \in {owner, [owner EXCEPT ![Shows[loop.row]] = loop.value]}
  /\ loop' = Free
  /\ UNCHANGED <<row, timer, idles, gestures, touched, skipped, outside, hidden>>

(* set_capability returns, the value read back or not, and _apply_capability*)
(* queues a re-rendering either way. What else becomes of the owner after a *)
(* failed write is Drift.                                                   *)
SetReturns ==
  /\ loop.at = "setting"
  /\ owner' \in {owner, [owner EXCEPT ![Shows[loop.row]] = loop.value]}
  /\ idles' = idles + 1
  /\ loop' = Free
  /\ UNCHANGED <<row, timer, gestures, touched, skipped, outside, hidden>>

(* Slip: it returns True. *)
RefreshIdle_Again ==
  /\ loop.at = "free" /\ idles > 0
  /\ loop' = Reading
  /\ UNCHANGED <<owner, row, timer, idles, gestures, touched, skipped, outside, hidden>>

(* _refresh_idle returns False: it runs once. *)
RefreshIdle ==
  /\ loop.at = "free" /\ idles > 0
  /\ idles' = idles - 1
  /\ loop' = Reading
  /\ UNCHANGED <<owner, row, timer, gestures, touched, skipped, outside, hidden>>

(* get_snapshot reads one owner after the other. *)
ReadOwner ==
  /\ loop.at \in {"opening", "reading"} /\ Len(loop.shot) < Len(Order)
  /\ LET c == Order[Len(loop.shot) + 1]
     IN  /\ loop' = [loop EXCEPT !.shot = Append(@, owner[c])]
         /\ outside' = outside \ {c}
  /\ UNCHANGED <<owner, row, timer, idles, gestures, touched, skipped, hidden>>

(* FileNotFoundError from the discovery of the Mini SSD, before any owner is *)
(* read: refresh() renders nothing, and the main loop goes on.              *)
SnapshotRaises ==
  /\ loop.at = "reading" /\ loop.shot = <<>> /\ raises < MaxRaises
  /\ raises' = raises + 1 /\ stale' = TRUE
  /\ loop' = Free
  /\ UNCHANGED <<owner, row, timer, idles, gestures, touched, skipped, outside>>

Index(c) == CHOOSE i \in DOMAIN Order : Order[i] = c

(* Slip: the timeout of a row that goes away still fires. *)
Render_KeepsTimeouts ==
  /\ loop.at \in {"opening", "reading"} /\ Len(loop.shot) = Len(Order)
  /\ row' = [r \in Rows |->
               LET seen == loop.shot[Index(Shows[r])]
               IN  [observed |-> seen,
                    control |-> IF seen = Gone THEN None ELSE Clamped[seen]]]
  /\ touched' = [r \in Rows |-> None]
  /\ loop' = Free
  /\ stale' = FALSE
  /\ UNCHANGED <<owner, timer, idles, gestures, skipped, outside, raises>>

(* update_from_snapshot rebuilds every row; a row that goes away cancels    *)
(* its timeout.                                                             *)
Render ==
  /\ loop.at \in {"opening", "reading"} /\ Len(loop.shot) = Len(Order)
  /\ row' = [r \in Rows |->
               LET seen == loop.shot[Index(Shows[r])]
               IN  [observed |-> seen,
                    control |-> IF seen = Gone THEN None ELSE Clamped[seen]]]
  /\ timer' = [r \in Rows |-> None]
  /\ touched' = [r \in Rows |-> None]
  /\ loop' = Free
  /\ stale' = FALSE
  /\ UNCHANGED <<owner, idles, gestures, skipped, outside, raises>>

MainLoop == (\E r \in Rows : FlushScale(r)) \/ SetReturns \/ RefreshIdle
              \/ ReadOwner \/ Render

(* Another client, the brightness keys, a daemon leaving or coming back. *)
Drifts ==
  \E c \in Capabilities : \E value \in Drift[c] \ {owner[c]} :
    /\ owner' = [owner EXCEPT ![c] = value]
    /\ outside' = outside \cup {c}
    /\ UNCHANGED <<row, timer, idles, loop, gestures, touched, skipped, hidden>>

Next ==
  \/ \E r \in Rows : \E p \in Positions[Shows[r]] : Drag(r, p) \/ Choose(r, p)
  \/ PressRefresh
  \/ MainLoop \/ SnapshotRaises
  \/ Drifts

(* GLib dispatches what is due; the service's calls have timeouts. *)
Spec == Init /\ [][Next]_vars /\ WF_vars(MainLoop)

-----------------------------------------------------------------------------
(* Type invariant. *)
TypeOK ==
  /\ \A c \in Capabilities : owner[c] \in Values[c] \cup Positions[c] \cup Drift[c]
  /\ loop.at \in {"free", "setting", "opening", "reading"}
  /\ loop.at = "setting" => loop.row \in Wired
  /\ idles \in 0 .. MaxGestures
  /\ \A r \in Rows : timer[r] # None => r \in Sliders

(* "Building a row never emits a write", and one that was torn down emits   *)
(* none either: whatever is written is where the user last put the control  *)
(* of a row that is still on the screen.                                    *)
WritesAreTheUsers ==
  loop.at = "setting" => touched[loop.row] = loop.value

(* "Request a capability write, then re-render from the read-back state":   *)
(* with no re-rendering queued, and unless the last one failed, the window   *)
(* shows what the owners hold, but for what others have changed since, and a *)
(* control that could still be written shows the same unless its write is   *)
(* due.                                                                     *)
WindowAgrees ==
  (loop.at = "free" /\ idles = 0 /\ ~stale) =>
    \A r \in Rows :
      /\ Shows[r] \notin outside => row[r].observed = owner[Shows[r]]
      /\ (r \in Wired /\ timer[r] = None /\ row[r].observed # Gone)
           => row[r].control = Clamped[row[r].observed]

(* "Forward a user-originated value, skipping no-op writes" (_emit_set):    *)
(* a value is skipped only if the owner already holds it.                   *)
OnlyNoOpsAreSkipped == skipped # None => skipped.held = skipped.value

(* Once the user is done the window comes to rest: each timeout and each    *)
(* idle callback runs once, also if it raises, and a write never makes      *)
(* another one.                                                             *)
Settles ==
  <>[](loop.at = "free" /\ idles = 0 /\ \A r \in Rows : timer[r] = None)
=============================================================================
