----------------------------- MODULE SamplerLog -----------------------------
(***************************************************************************)
(* append_sample of mini_ssd_sampler.py: runs of the sampler (the timer's, *)
(* and any run by hand) append one line to a shared log and trim it to its *)
(* newest MaxLines lines through a temporary file. A run's file operations *)
(* are separate steps; files are inodes that names point to, so that a run *)
(* may go on writing to a file whose name has been taken over. The         *)
(* diagnostics' reader of the log (get_mini_ssd_telemetry_log) may read at *)
(* the same time, from a file that is being replaced.                      *)
(***************************************************************************)
EXTENDS Integers, SequencesExt

CONSTANTS
  Writers,        \* the timer's unit, a manual run, ...: one run each at a time
  MaxLines,       \* --max-lines
  Limit,          \* limit of get_mini_ssd_telemetry_log
  LineBytes,      \* size of a line
  MinLineBytes,   \* _MIN_LINE_BYTES
  Inodes,
  MaxSamples,     \* bound of the model: samples taken
  MaxKills,       \* bound of the model: runs killed
  Torn,           \* a last line cut short, without its newline
  Junk,           \* a torn line joined with the whole one appended to it
  None

ASSUME SamplerAssumption ==
  /\ MaxLines \in Nat \ {0} /\ LineBytes \in Nat /\ MinLineBytes \in Nat
  /\ Limit \in 1 .. MaxLines
  /\ LineBytes > MinLineBytes   \* "assumes every line is >100 bytes"
  /\ MaxSamples \in Nat
  /\ Torn # Junk /\ {Torn, Junk, None} \cap (1 .. MaxSamples) = {}
  /\ None \notin Inodes
  \* There is always an inode that nobody has open.
  /\ IsFiniteSet(Writers) /\ IsFiniteSet(Inodes)
  /\ Cardinality(Inodes) > Cardinality(Writers) + 1

VARIABLES
  data,      \* the lines of every inode
  log, tmp,  \* the inode each name points to, or None
  run,       \* each writer's run
  taken,     \* samples taken so far: their numbers are the lines
  kills,     \* runs killed so far
  history,   \* the lines an untrimmed log would hold
  reader     \* the diagnostics reading the log

writing == <<data, log, tmp, run, taken, kills, history>>

vars == <<data, log, tmp, run, taken, kills, history, reader>>

Idle == [at |-> "idle", sample |-> None, handle |-> None, lines |-> <<>>,
         code |-> None]

(* opened, until: the length of the history, and the history, when the log  *)
(* was opened and when its end was reached, kept for the property.          *)
NotReading == [at |-> "idle", handle |-> None, lines |-> <<>>,
               opened |-> 0, until |-> <<>>]

Init ==
  /\ data = [i \in Inodes |-> <<>>]
  /\ log = None /\ tmp = None
  /\ run = [w \in Writers |-> Idle]
  /\ taken = 0 /\ kills = 0
  /\ history = <<>>
  /\ reader = NotReading

Held == {run[w].handle : w \in Writers} \cup {reader.handle}

FreeInode == CHOOSE i \in Inodes : i \notin {log, tmp} \cup Held

(* One line appended after a torn one becomes part of it. *)
Appended(lines, line) ==
  IF lines # <<>> /\ Last(lines) = Torn
  THEN Append(Front(lines), IF line = Torn THEN Torn ELSE Junk)
  ELSE Append(lines, line)

(* Slip: lines[:n]. *)
Newest_Oldest(lines, n) == IF Len(lines) <= n THEN lines ELSE SubSeq(lines, 1, n)

(* The newest n lines: lines[-n:]. *)
Newest(lines, n) ==
  IF Len(lines) <= n THEN lines ELSE SubSeq(lines, Len(lines) - n + 1, Len(lines))

Goes(w, place) == run' = [run EXCEPT ![w].at = place]

Exits(w, code) ==
  run' = [run EXCEPT ![w] = [Idle EXCEPT !.sample = run[w].sample, !.code = code]]

-----------------------------------------------------------------------------
(* open("a"): creates the log if there is none. *)
OpenLog(w) ==
  /\ run[w].at = "idle" /\ taken < MaxSamples
  /\ LET inode == IF log = None THEN FreeInode ELSE log
     IN  /\ log' = inode
         /\ data' = IF log = None THEN [data EXCEPT ![inode] = <<>>] ELSE data
         /\ run' = [run EXCEPT ![w] = [Idle EXCEPT !.at = "append",
                                         !.sample = taken + 1, !.handle = inode]]
  /\ taken' = taken + 1
  /\ UNCHANGED <<tmp, kills, history, reader>>

(* Slip: the size is asked for before the handle is closed. *)
WriteLine_Open(w) ==
  /\ run[w].at = "append"
  /\ data' = [data EXCEPT ![run[w].handle] = Appended(@, run[w].sample)]
  /\ history' = Appended(history, run[w].sample)
  /\ Goes(w, "stat")
  /\ UNCHANGED <<log, tmp, taken, kills, reader>>

(* The line is written when the handle is closed. *)
WriteLine(w) ==
  /\ run[w].at = "append"
  /\ data' = [data EXCEPT ![run[w].handle] = Appended(@, run[w].sample)]
  /\ history' = Appended(history, run[w].sample)
  /\ run' = [run EXCEPT ![w].at = "stat", ![w].handle = None]
  /\ UNCHANGED <<log, tmp, taken, kills, reader>>

(* Slip: lines are taken to be larger than they are. *)
Stat_Generous(w) ==
  /\ run[w].at = "stat"
  /\ IF Len(data[log]) * LineBytes <= MaxLines * 2 * LineBytes
     THEN Exits(w, 0)
     ELSE Goes(w, "read")
  /\ UNCHANGED <<data, log, tmp, taken, kills, history, reader>>

(* st_size <= max_lines * _MIN_LINE_BYTES: too small to need a trim. *)
Stat(w) ==
  /\ run[w].at = "stat"
  /\ IF Len(data[log]) * LineBytes <= MaxLines * MinLineBytes
     THEN Exits(w, 0)
     ELSE Goes(w, "read")
  /\ UNCHANGED <<data, log, tmp, taken, kills, history, reader>>

ReadLines(w) ==
  /\ run[w].at = "read"
  /\ IF Len(data[log]) <= MaxLines
     THEN Exits(w, 0)
     ELSE run' = [run EXCEPT ![w].at = "open_tmp",
                             ![w].lines = Newest(data[log], MaxLines)]
  /\ UNCHANGED <<data, log, tmp, taken, kills, history, reader>>

(* write_text opens the temporary file, emptying the one that is there, and *)
(* writes from its start.                                                   *)
OpenTmp(w) ==
  /\ run[w].at = "open_tmp"
  /\ LET inode == IF tmp = None THEN FreeInode ELSE tmp
     IN  /\ tmp' = inode
         /\ data' = [data EXCEPT ![inode] = <<>>]
         /\ run' = [run EXCEPT ![w].at = "write_tmp", ![w].handle = inode]
  /\ UNCHANGED <<log, taken, kills, history, reader>>

WriteTmp(w) ==
  /\ run[w].at = "write_tmp"
  /\ LET lines == run[w].lines
     IN  data' = [data EXCEPT ![run[w].handle] =
                    lines \o SubSeq(@, Len(lines) + 1, Len(@))]
  /\ run' = [run EXCEPT ![w].at = "replace", ![w].handle = None]
  /\ UNCHANGED <<log, tmp, taken, kills, history, reader>>

(* Slip: the log is truncated and written again in its place.               *)
Replace_InPlace(w) ==
  /\ run[w].at = "replace"
  /\ data' = [data EXCEPT ![log] = data[tmp]]
  /\ tmp' = None /\ Exits(w, 0)
  /\ UNCHANGED <<log, taken, kills, history, reader>>

(* os.replace; FileNotFoundError when another run has moved the file. *)
Replace(w) ==
  /\ run[w].at = "replace"
  /\ IF tmp = None
     THEN Exits(w, 1) /\ UNCHANGED <<log, tmp>>
     ELSE log' = tmp /\ tmp' = None /\ Exits(w, 0)
  /\ UNCHANGED <<data, taken, kills, history, reader>>

(* A run is killed, or fails with OSError, between two operations or in the *)
(* middle of its line.                                                      *)
Kill(w) ==
  /\ run[w].at # "idle" /\ kills < MaxKills
  /\ kills' = kills + 1
  /\ Exits(w, 1)
  /\ \/ UNCHANGED <<data, history>>
     \/ /\ run[w].at = "append"
        /\ data' = [data EXCEPT ![run[w].handle] = Appended(@, Torn)]
        /\ history' = Appended(history, Torn)
  /\ UNCHANGED <<log, tmp, taken, reader>>

-----------------------------------------------------------------------------
(* get_mini_ssd_telemetry_log, through a deque of the last Limit lines. *)

(* "A missing file is reported, not an error": no samples.                  *)
OpenForReading ==
  /\ reader.at = "idle"
  /\ reader' = IF log = None THEN [NotReading EXCEPT !.at = "done"]
               ELSE [NotReading EXCEPT !.at = "reading", !.handle = log,
                                       !.opened = Len(history)]
  /\ UNCHANGED writing

(* A buffer of whole lines.                                                 *)
ReadBuffer ==
  /\ reader.at = "reading"
  /\ LET file == data[reader.handle]
     IN  \E n \in Len(reader.lines) + 1 .. Len(file) :
           /\ file[n] # Torn
           /\ reader' = [reader EXCEPT
                !.lines = @ \o SubSeq(file, Len(@) + 1, n)]
  /\ UNCHANGED writing

(* The end of the file: what does not parse is kept as "unparsed".          *)
ReadToEnd ==
  /\ reader.at = "reading"
  /\ LET file == data[reader.handle]
         rest == SubSeq(file, Len(reader.lines) + 1, Len(file))
     IN  reader' = [reader EXCEPT !.at = "done", !.handle = None,
                      !.lines = Newest(@ \o rest, Limit), !.until = history]
  /\ UNCHANGED writing

Reported ==
  reader.at = "done" /\ reader' = NotReading /\ UNCHANGED writing

Read == OpenForReading \/ ReadBuffer \/ ReadToEnd \/ Reported

RunStep(w) ==
  \/ OpenLog(w) \/ WriteLine(w) \/ Stat(w) \/ ReadLines(w)
  \/ OpenTmp(w) \/ WriteTmp(w) \/ Replace(w) \/ Kill(w)

Next == (\E w \in Writers : RunStep(w)) \/ Read

Spec == Init /\ [][Next]_vars

-----------------------------------------------------------------------------
Lines == 1 .. MaxSamples \cup {Torn, Junk}

(* Type invariant. *)
TypeOK ==
  /\ data \in [Inodes -> Seq(Lines)]
  /\ {log, tmp} \subseteq Inodes \cup {None}
  /\ \A w \in Writers :
       /\ run[w].at \in {"idle", "append", "stat", "read",
                         "open_tmp", "write_tmp", "replace"}
       /\ run[w].handle # None <=> run[w].at \in {"append", "write_tmp"}

LogLines == IF log = None THEN <<>> ELSE data[log]

(* With one run at a time, the log is at every moment, killed runs         *)
(* included, the newest part of everything written: nothing is lost but    *)
(* the oldest lines, and a reader never finds a half-written log.          *)
LogIsNewest == IsSuffix(LogLines, history)

(* "The file is capped at the newest 50 000 lines": a run that ended       *)
(* normally leaves no more, and drops none that fit.                       *)
LogIsCapped ==
  \A w \in Writers :
    (run[w].at = "idle" /\ run[w].code = 0) =>
      Len(LogLines) \in {Len(history), MaxLines} /\ Len(LogLines) <= MaxLines

(* "superx-diag embeds the last 200 samples": what it gets is a run of      *)
(* consecutive lines, none older than need be and none skipped, that misses *)
(* nothing logged before it opened the log and of which there are Limit if  *)
(* so many were ever logged; also if the log is appended to, trimmed and    *)
(* replaced while it reads.                                                 *)
ReaderSeesTheLog ==
  (reader.at = "done" /\ reader.until # <<>>) =>
    /\ Len(reader.lines) <= Limit
    /\ \E end \in reader.opened .. Len(reader.until) :
         reader.lines = Newest(SubSeq(reader.until, 1, end), Limit)

(* "One run = one JSON line appended": the line of a run that ended         *)
(* normally is in the log for as long as it is among the newest MaxLines.   *)
OneRunOneLine ==
  \A w \in Writers :
    /\ run[w].at = "idle" /\ run[w].code = 0
    /\ run[w].sample \in ToSet(Newest(history, MaxLines))
    => run[w].sample \in ToSet(LogLines)
=============================================================================
