# Super X Helper: a TLA+ model

Super X Helper is the Linux control centre of one handheld PC. It shows what the
hardware can do, lets the user change the few things that have been validated on
that machine, and keeps a record of a removable SSD that tends to fall off its
bus. This directory models the parts where something can go wrong between two
lines of code: writes that are verified by reading back what others may change,
daemons that come and go, a window whose callbacks race its own refreshes, a log
written by overlapping processes and read meanwhile, a drive that leaves while
it is being read, and device names that the kernel reuses.

All paths below are relative to `src/superx_helper/` in the repository.

## 1. The system

| Component | State it keeps | Operations | Talks to |
|---|---|---|---|
| platform backend, `platform.py` | cached capabilities (paths), `authorized_writes`, `dry_run` | `set_fan_duty`, `set_fan_auto`, `set_cpu_boost`, `set_epp`, `set_display_brightness_percent`, the reads, `refresh_capabilities` | sysfs attributes, which the firmware, drivers and other processes change |
| session owners, `session_owners.py` | a bus connection | `read`, `profiles`, `status`, `set` of the power profile and of the session brightness | power-profiles-daemon and gnome-settings-daemon over D-Bus, 2 s a call |
| service facade, `service.py`, `policy.py` | the validated writes | `set_capability`, `get_capability_snapshot` | the two above |
| contract and transport, `contracts.py`, `transport.py`, `client.py` | none | `can_write`, the client; the dictionary form of a record, for a transport there is not yet | service, window |
| capability detection, `capabilities.py` | none; the paths it returns are the backend's | `detect_capabilities`, `find_hwmon_by_name` | sysfs, the discovery |
| window, `ui/window.py`, `ui/widgets.py`, `ui/pages/` | rows and their records, one timeout per slider, idle callbacks | gestures, debounce, write, re-rendering | client, GLib main loop |
| Mini SSD sampler, `mini_ssd_sampler.py` | a JSON-lines log on disk | `take_sample`, `append_sample` | the discovery, the filesystem, other runs of itself |
| Mini SSD discovery, `storage.py` | none | `discover_mini_ssd`, telemetry, power state, I/O | sysfs, and through the temperature the drive itself |
| boot-log parser, `collector.py` | the local variables of a pass | `parse_mini_ssd_boot_log` | one boot's kernel lines |
| boot-events aggregation, `collector.py` | none | `get_mini_ssd_boot_events` | journalctl, a command for the list and one for each boot |
| inventory collector, `collector.py` | none | `get_storage_inventory`, `get_mini_ssd_telemetry_log`, other one-shot inventories and their text | sysfs, the sampler's log, smartctl, ... |

Nothing in the program runs in parallel with itself: the window has one thread
and its calls block the main loop; the sampler and the diagnostics are processes
of their own. What is concurrent is everything else, and it is what the models
let happen between any two calls: the firmware and other processes write the
same attributes, the daemons serve other clients, exit and come back, apply a
`Set` after the caller has given up on it, a second sampler runs by hand, a
drive hangs, is reset, given up, removed or rebound between two reads of its
attributes, drivers are loaded and unloaded, the machine reboots while its
journals are read, and the kernel gives the number of a removed `nvme` or
`hwmon` device to another one.

What should be true of it:

* platform backend: nothing is written without a grant; the authorization a fan
  duty lends itself is returned on every path; a duty is written only if the mode
  was held manual since the write of it; reported success was verified; a dry run
  writes nothing;
* session owners: reported success was held by the owner after the `Set`; no
  brightness below the floor is ever requested; every call ends;
* service: an unvalidated capability reaches nobody; an owner-routed one never
  reaches sysfs, whatever happens to its owner between the probe and the write;
* snapshot: what the window will enable is what the service will accept;
* window: only what the user did is written, and the window ends up showing what
  the owners hold;
* detection: a fan that is there is found under the name its kernel gives it, and
  no other chip's PWM is written in its place while it stays;
* sampler: the log is the newest part of all that was appended, and capped, also
  for a process that reads it while it is replaced;
* discovery and telemetry: a verdict was true of the drive at a moment of the
  call, each gap in a row has its own cause, a lost drive that is still mounted is
  visible, only a drive that leaves may make it raise, and every call ends;
* inventory: the removable drive is told from the internal ones;
* boot log: each event is the Mini SSD's, none is missed, and an episode is
  counted once; over several boots each loss is counted once.

`PROJECT.json` lists, under "hazards", the lines where each of these is at risk.

## 2. The modules

| Module | Code | What it is |
|---|---|---|
| `FanScale` | the arithmetic of `platform.py` | duty to pwm level and back, Python's half-to-even rounding |
| `Platform` | `PlatformBackend` | operations, the steps of `_safe_write`, interference |
| `Owners` | `PowerProfilesOwner`, `GsdBrightnessOwner` | one action per D-Bus call and its outcome |
| `Service` | `SuperXService.set_capability` | INSTANCEs of `Owners` and `Platform` on shared variables, and the dispatch between them |
| `VerifiedWrite` | what `set_capability` promises | abstract specification, refined by `Service` |
| `Snapshot` | `get_capability_snapshot`, `build_capability_records`, `can_write` | a refresh as a sequence of reads of changing sources |
| `Window` | `SuperXWindow`, `CapabilityRow`, `BasePage` | the main loop, a callback at a time |
| `Detection` | `find_hwmon_by_name` and the fan's part of `detect_capabilities`; where fan writes go | reads and writes by number, under a kernel that numbers hwmon chips |
| `Drive` | external: the Mini SSD and the NVMe driver as sysfs shows them | what may happen to the drive, one attribute at a time |
| `Discovery` | `storage.py`, `take_sample`, `get_storage_inventory` | extends `Drive`; one action per read, in three callers |
| `SamplerLog` | `append_sample`, `main`, `get_mini_ssd_telemetry_log` | file operations on inodes and names |
| `BootLog` | `parse_mini_ssd_boot_log` | the parser, fed by a kernel that numbers controllers |
| `BootHistory` | `get_mini_ssd_boot_events` | extends `BootLog` by the boots before and the report of them |
| `PlatformProofs`, `OwnersProofs`, `ServiceProofs`, `DiscoveryProofs`, `WindowProofs`, `SamplerLogProofs`, `BootHistoryProofs` | | theorems about the module of that name and those it extends |
| `CapabilityProofs` | | theorems about `Snapshot` and `Detection` |
| `MC*` | | values of the constants for TLC |

Operators whose comment says "Slip" are not part of a specification. Each is a
plausible mistake in the definition that follows it (a dropped `finally`, a
guard left out, a comparison trusted), and the property named for it in
`PROJECT.json` is violated when the slip takes that definition's place: it is how
we know that each property can fail.

### How state and actions correspond to the code

**Platform.** `file` is the content of each attribute or `Gone`; `found` is
`self.capabilities` reduced to which paths it has resolved; `authorized` is
`authorized_writes`; `job` is the operation in progress with the local variables
of `_safe_write`; `dry_run` is the constructor's flag and never changes. `Call`
is an operation up to its first `_safe_write`: `Refuse` its early returns,
`EnterManualMode` the `fan_pwm_enable_path` branch of `set_fan_duty`,
`EnterWrite` everything else. `Enter`, `WriteText`, `ReadText`, `Check` are the
lines of `_safe_write` between which the world may move, `Raise` its two
`except` clauses, `Return` what the caller does with the result. `Interfere` is
everyone else. A driver may accept a write and keep its old value: `WriteText`
has both outcomes. `held` is a history variable: what each attribute has held
since this operation wrote it. Values are raw attribute contents; a preference
is a spelling with its `strip().lower()` given by the constant `Clean`.

**Owners.** `bus` is the property each daemon holds, or `Gone`; `late` the `Set`
calls a daemon has accepted and not yet applied, including those that timed out
at the caller; `call` the `set()` in progress. A Python argument is a record of
its kind and value, numbers counted in tenths, because the checks tell apart
booleans, fractions and text, and of text what `int()` parses (`numeral`).

**Service.** `set_capability` is `Refuse`, `ToOwner` (the availability read that
follows) or `ToBackend`. The steps of the layer below are those of `Owners` and
`Platform`; `_write_authorized` and `BackendGrant` are the two halves of the
policy. `dry_run` starts FALSE, the constructor's default. What a request wants
(`Wanted`, which the refinement compares with the history of the destination) is
stated by `WholeDuty`, the whole part of a duty, and not by the `Truncated` that
models `int(value)`; that they agree is checked and proved (`TruncatedIsWhole`).

**Snapshot.** `RefreshCapabilities` is `refresh_capabilities`; the refresh then makes its
`Reads` one at a time, the ones `Made` says, and `Deliver` hands the records built
from them to the client, which `LocalServiceClient` does as they are. Presence of the
read-only capabilities is a constant: no write depends on it. Here the detection
is one step; `Detection` is the part of it where more than one read matters.

**Detection.** `chip` is what each `hwmon<n>` is: a directory whose attributes
come after it and go before it. `call` is the detection in progress with its
local variables, or a fan write; `cached` is `self.capabilities`, the fan's part.
`Glob`, `ReadName`, `NextQuery`, `ReadNameAgain`, `FindPwm`, `FindEnable` are the
lines of `detect_capabilities`, the generator of `glob` being the numbers still
`left`; `Raise` is the discovery failing before `Assign`. `SetFanDuty` and
`SetFanAuto` start from the cached paths, and each write lands on whatever chip
has that number then (`written`). `lost` and `through` are history: whether the
fan left since a detection began, and which numbers it had meanwhile.

**Window.** `loop` is what the main loop does: free, in `set_capability`, or in
the reads of a snapshot. A write and a snapshot block the loop, so no gesture or
timeout happens in them, but the owners go on changing. `timer` holds the
position an armed debounce timeout will read from the slider, `idles` the queued
`_refresh_idle` callbacks. A row of the dashboard is not in `Wired`. A row that
`update_from_snapshot` removes is unrealized by GTK, which cancels its timeout.
`SnapshotRaises` is a refresh that ends in an exception (the discovery's, see
below): nothing is rendered, and the window is `stale` until the next one.

**SamplerLog.** Files are inodes, names point to them. `Kill` is SIGKILL, a power
loss after the data reached the disk, or an `OSError`: between any two calls or
in the middle of a line, which leaves `Torn`; the next append makes it `Junk`.
Lines are numbers; sizes are counted with one `LineBytes`, above the
`_MIN_LINE_BYTES` the code assumes. The reader keeps the inode it has opened:
`ReadBuffer` reads some of it, `ReadToEnd` the rest and the cut to the last
samples, while runs append, trim and rename.

**Drive and Discovery.** `slot` is what sysfs shows of the Mini SSD, on the bus or
not, with its nvme directory, controller, state and namespace, whether it answers, and the
number a mounted file system still holds. `call` is the call in progress with
its local variables, `by` its caller. A step is one read of sysfs: the device
list, the ids, the `nvme` directory, its entries, the two globs of namespaces, the
state, then for a sample or a snapshot the link, the hwmon and the temperature,
and for a sample power, I/O counters and mounts. `ReadTemperature` waits while
the drive does not answer; `Cancelled` is the kernel's reset ending that wait.
`get_storage_inventory` makes its discovery first and then a row per controller;
`FollowDevice` is its `exists()` and then its `resolve()` of the `device` link.
A value is kept as whether there was one to read: what a temperature is does not
matter, that it is missing does. `moments` and `departed` are history: the states
of the slot since the call began, and the numbers unregistered since the controllers
were listed (before that, since the call began).

**BootLog.** The parser never looks ahead, so it is fed each line as the kernel
half logs it. A line is its label (a controller number or an address) and the
classes of keyword it has; its text, its time and the suspends counted before it,
which an event also carries, are left out. The kernel gives a new controller the lowest free
number. What a line is really about is recorded next to the event (`truth`); the
parser's code never reads it.

**BootHistory.** The boot that is running is `BootLog`; `past` holds the boots
before it, `report` the result being made. `ListBoots` takes the list, `ReadBoot`
one journal at a time: it may fail, or the boot's journal may have been dropped
since. journald drops files, and a boot may have several: `Vacuum` takes the
beginning of the oldest journal retained (`cut`), or the last there is of it.
What the parser makes of a journal without its beginning is any number of
episodes up to that of the whole (`Episodes`), since it sees a part of the lines
and fewer probes. `whole` and `logged` are history: that a row's journal was read
with its beginning, and the losses there were when the boots were listed. A
reboot ends the report: the program dies with the machine.

## 3. The runs

| Run | Question | Properties |
|---|---|---|
| `platform` | does every operation keep its promises while attributes change and vanish? | TypeOK, AuthorizationRestored, NothingWithoutGrant, DutyUnderManualMode, SuccessVerified, WritesStayInside, EveryCallReturns |
| `owners` | the same over D-Bus | TypeOK, SuccessWasHeld, PanelStaysVisible, EverySetReturns |
| `service` | does the facade implement a verified write, and what does a request that is not validated reach? | TypeOK, NoSysfsFallback, UnvalidatedReachesNobody, ImplementsVerifiedWrite, EveryRequestAnswered |
| `snapshot` | can a record offer what the service refuses? | OffersAreServable, ObservedWasReal |
| `detection` | is the fan found while chips come and go, and is it the fan that is written? | DetectionFindsTheFan, FanWritesReachTheFan |
| `discovery_calls` | are samples, snapshots and inventories true of a drive that moves under them, and do they end? | TypeOK, PresenceWasTrue, GapsMeanTrouble, LostMountIsVisible, RaisesOnlyIfLeft, RowsTellDrives, EveryCallEnds |
| `window_shared` | does the window write only gestures and show what is true, then rest? | TypeOK, WritesAreTheUsers, WindowAgrees, Settles |
| `window_alone` | are only no-ops skipped? **No** | OnlyNoOpsAreSkipped |
| `sampler_single` | does one sampler, killed anywhere, keep the log right, and what does a reader see? | TypeOK, LogIsNewest, LogIsCapped, ReaderSeesTheLog |
| `sampler_overlap` | does every run leave its line? **No** | OneRunOneLine |
| `boothistory_internal` | is parsing right beside an internal drive that stays, and is the report of all boots? | TypeOK, NoMisattribution, NothingMissed, EpisodesMatch, LossesAreCounted |
| `bootlog_hotplug` | and beside another removable drive? **No** | NoMisattribution |

The three that end in a violation are findings:

* **A line can be lost when runs overlap.** `docs/MINI_SSD.md` says one run is one
  line appended. Once the log is at its cap, a line appended between another
  run's read and its rename is gone, though both runs exit 0.
* **A reused controller number misattributes events.** The parser keeps
  `active_mini_controller` after the Mini SSD is gone and does not notice that
  another address is probed under the same `nvmeN`; `controller_by_address` is
  filled for this and never read. With only internal drives, the case the
  documentation has in mind, it cannot happen (`boothistory_internal`).
* **A choice can be taken for a no-op.** After a write, and before the queued
  re-rendering, the row still compares with the value of the last snapshot:
  going back to that value is dropped. The re-rendering then puts the control
  back, so the window stays truthful (`WindowAgrees`) but the choice is lost.

### Bounds, and why they are enough

* `platform`: duties 30, 100 (the top of the scale) and 101 (refused); one legal,
  one illegal and one shouted EPP spelling; two brightness levels. One operation
  runs at a time and starts afresh, so longer sequences only meet other contents
  and other cached paths, all of which are reachable here.
* `owners`: `MaxReads` is the code's 11. Two profiles, one extra level besides
  the requested ones, the sentinel -1, `Gone`; arguments of each kind on each
  side of each check.
* `service`: two read-backs, since `owners` has all eleven. Every dispatched write
  but the profile is validated, so that one run has both the writes that go
  through and one that must reach nobody; the profile's own path is in `owners`.
* `snapshot`: each source has a value, another value or `Gone`; three of the
  eleven read-only capabilities stand for all.
* `detection`: three numbers, so that one chip may be below and one above the fan
  and the fan may move; the fan has the legacy name and is found by the second
  query, and the first one is a whole scan that finds nothing. Calls and loads are unbounded.
* `discovery_calls`: three numbers, the first an internal drive's. `MaxMoves = 3`
  bounds the drive's moves during one call, the kernel's recovery not counted;
  between calls it moves freely, so a call starts in every state it can be in.
  Three moves are enough to hang, be given up and unbound in one sample, or to
  leave and come back under another number.
* `window_*`: `MaxGestures = 3` bounds the user. Two gestures reach every race of
  a timeout, a write and a re-rendering; the third one comes after. `MaxRaises = 1`
  in `window_shared`: one refresh fails.
* `sampler_*`: `LineBytes` and `MinLineBytes` such that the byte gate opens below,
  at and above the cap (`MaxLines`), and a reader that keeps the last `Limit = 2` of them;
  eight samples and three kills, or two writers: at least two trims meet.
* `boothistory_internal`, `bootlog_hotplug`: `MaxProbes`, `MaxMessages`,
  `MaxSuspends` bound the log: two probes of the Mini SSD and enough messages for
  a loss, aftermath, and a second loss or a stranger's line. `MaxBoots = 2`: a
  boot that is over and one that runs. `MaxVacuums = 1` journal dropped:
  the older boot's may lose its beginning and then the rest, before, between and
  after the reads, and that of the boot that runs its beginning, while it is the
  only one. A second drop would leave the running boot cut after the older one
  is gone, which for its entry is what the first boot alone already shows.

`sampler_*` and `window_alone` are run without deadlock checking: once the
samples or the gestures of the bound are used up the system stops.

### Fairness

`Platform`, `Owners` and `Service`: weak fairness of the steps of the operation
in progress. The code runs them in one thread with no wait but `call_sync`
(2 s) and `time.sleep(0.1)`, ten times at most. Nothing is assumed of daemons,
drivers or other clients. `Window`: weak fairness of the main loop, which GLib
dispatches as long as something is due. `Discovery`: weak fairness of the reads of
the call, and of the kernel's error recovery, because the one read that waits
for the drive waits for it: the NVMe driver times a command out, resets the
controller and gives it up if that fails, and `docs/MINI_SSD.md` has seen the read
return after 63.5 s. The drive itself is not fair. `SamplerLog`, `BootLog`,
`BootHistory`, `Snapshot` and `Detection` have no liveness property and no
fairness.

## 4. The proofs

The theorems hold for all values of the constants that satisfy the modules'
assumptions: any grant, requests, preferences, number of read-backs, drives,
boots, rows or lines, and any behaviour of others. The assumptions are those
the code justifies: a row shows a capability of the list and a slider's positions
are within its range (`WindowAssumption`), a line is longer than the code takes the
shortest to be and there is always an inode nobody has open
(`SamplerAssumption`), an address is no controller number (`BootLogAssumption`), a
number that is asked for is one (`ServiceAssumption`).

* `PlatformProofs`: of the arithmetic, a duty's level is within a byte
  (`RawPwmInRange`) and reads back as the same duty (`DutyRoundTrip`), through a
  bound on the error of the rounding (`RoundingBound`). Of the backend,
  `TypeCorrect`, `LoanIsReturned`, `GrantIsRequired`, `PrerequisiteHolds`,
  `SuccessIsReal`, `WritesAreConfined`. None of the properties is inductive
  alone: what is true when an operation ends depends on where it has been. The
  inductive invariant `IInv` adds `Loan` (the authorizations are the granted ones
  except in the manual-mode write, whose saved copy is the granted ones),
  `Writing` (which write is in progress and with which value) and `History` (the
  present content is in the history, the final attribute is untouched before its
  write, manual mode was held before the duty is written). One lemma covers all
  returns of `_safe_write`.
* `OwnersProofs`: `TypeCorrect`, `SuccessIsReal`, `FloorHolds`. `IInv` adds what
  has been checked of the argument at each place and that what was read back is
  in the history since the `Set`.
* `ServiceProofs`: `FailsClosed`, `OwnersAreNotBypassed`, from an `IInv` that relates
  the facade's place to those of the two layers (`Routing`) and confines the
  backend to the attributes the service can ask it for (`Confined`). On top of it
  `Layers` says that the layer at work serves this request: with its argument, and
  with a history that is empty before its own `Set` or write (`OwnerPart`,
  `BackendPart`, `RequestPart`). From both follow `TypeCorrect` and
  `ServiceImplements`: each step of the service, of a layer and of the world is a
  step of `VerifiedWrite` or a stutter. Only the answer is a step, and it is
  successful only if the value is in the history of the capability's own
  destination.
* `CapabilityProofs`, of the snapshot: `OffersAreServed`, `ObservationsAreReal`.
  `SnapshotInv` adds that whatever has been read from an owner it has held since
  the refresh began, that the choices read are the owner's, and that nothing is
  left from the refresh before. One lemma says what a record that offers a write
  was built from. Of the detection: `PresentFanIsFound`, `OnlyALostFanIsMistaken`,
  for any set of hwmon numbers and either name. Its `IInv` is `Typed`, `Single`
  (there is one fan), `Known` (a number found is the fan's unless the fan has left
  since that detection began), `Pending` (a fan that has been there all through is
  among the numbers left, or is what was found) and `Seen` (what is there now is
  in the history, and nothing is found before it is looked for).
* `DiscoveryProofs`: `TypeCorrect`, `PresenceIsTrue`, `OnlyLeavingRaises`,
  `RowsAreTold`. A verdict is put together from reads of different moments, so
  the argument is about what cannot have happened between them. `OneLevel`: a
  move takes the drive down by one level at most, so a controller that is gone
  left a moment without a namespace behind it (`Bare`). `IInv` is `Typed` (with the
  shape of the slot), `Found` (what each place of the discovery has established,
  and that it is still so or the drive has since been bare), `Listing` (a number
  still to be read is the Mini SSD's or has departed) and the three properties.
  `Gaps` goes on from there to the row of a sample, for `GapsAreTrouble` and
  `LostMountIsSeen`: each field passed has been read, or has its moment
  (`Readings`), and what the row of a drive lost at every moment has in it
  (`LostRow`).
* `WindowProofs`: `TypeCorrect`, `OnlyTheUserWrites`, `WindowIsTrue`, for any number of
  rows and gestures and any order of the reads. `IInv` adds `Budget` (an armed
  timeout, a write in progress and a queued re-rendering each have a gesture of
  their own, which bounds the queue), `Debounce` (a timeout is armed only for a
  connected slider, with the position at which the user left its control, so
  that what it will write is not stale), `Writing` (the same of the write in
  progress) and `Shot` (what a snapshot has read so far is what the owners hold,
  but for what others changed since).
* `SamplerLogProofs`: `TypeCorrect` holds for any number of runs at once.
  `NothingIsLost`, `LogStaysCapped` and `ReaderIsTold` have the hypothesis `OneRun`: one
  run at a time, killed anywhere and started again. They need it: with two runs
  the log does lose lines (`sampler_overlap`). `LogInv` is that the log ends as the
  history does and holds what is not cut off (`Kept`), that the temporary name
  never points to the log (`Apart`), and that from its read to its rename a trim
  finds the log as it has read it and the temporary file as it has written it
  (`Trim`). For the reader, `Reading`: the file it has open is the log, or was, and
  then it has stayed as it was when it was replaced, an end of the history at
  some length between then and now. Most lemmas are about suffixes (`Ends`):
  appending to them, cutting them, and skipping what is no line.
* `BootHistoryProofs`: `TypeCorrect` and `DueLinesAreKept` hold whatever drives come
  and go, from `Base`: the Mini SSD's number, while it has one, is the one the
  parser follows, and no two drives have the same. `EventsAreTheMinis`,
  `LossesAreEpisodes` and `ReportsCountLosses` have the hypothesis `NoHotplug`: no
  drive comes after the Mini SSD was pulled. They need it too
  (`bootlog_hotplug`): `Followed` says that no other drive has the number the
  parser follows, which is true after a pull only because nobody takes the number. `Counted`:
  the losses are the probes of the loss events, and the open episode is the last
  probe's. For the report, `Reading`: what it has are the boots of the list so
  far, in order, each with a number between its losses at the list (or none, if
  its journal had lost its beginning) and its losses now. A total is the size of a set of cells (`SumIsCells`, by the least
  counterexample, `LeastNatural`, in place of induction) and a bound on it is an
  injection (`CellsInject`).

Checked by TLC only: liveness (`EveryCallReturns`, `EverySetReturns`,
`EveryRequestAnswered`, `EveryCallEnds`, `Settles`), which the prover does not do.
Every other property of a passing run is a theorem. `NoMisattribution` with
hot-plugged drives, `OneRunOneLine` and `OnlyNoOpsAreSkipped` are false: their runs
show it.

## 5. Not modelled

* The DMI, CPU, hwmon, SMART and connectivity inventories, their text summary and
  the command line: one-shot reads and formatting. Page layout, badges, banners
  and formatting of values.
* Of the detection: which backlight is taken, the power method, the list of
  conflicting daemons (`pgrep`) and the ownership state made of it, which only
  become text. Every other attribute is one `exists()`.
* `warnings`, `safety_state`, labels and reasons of the records: only text.
* `transport.py` and `to_dict`: the client of the window is in
  its own process and returns the service's snapshot as it is; nothing
  serializes one for another process yet.
* `int(float('inf'))` raises an exception `set_capability` does not catch; no
  infinite value is among the arguments, and the fan is not validated in
  production.
* A crash of the program in the middle of an operation: it persists nothing but
  the sampler's log, whose runs are killed in the model.
* The timer units: a run of the sampler may start at any time.

What the models show about the code that no document contradicts, and that a
maintainer may want to know:

* The row of the sample during which the drive is lost still says `NVME_PRESENT`
  and `live`: the verdict comes before the temperature read, which waits for the
  drive, and the timestamp after it. Only the empty temperature tells
  (`GapsMeanTrouble`).
* Firmware may take the fan back between the manual-mode write and the duty's:
  `DutyUnderManualMode` says that the mode was held manual since it was written, not
  that it still is when the duty is.
* Of a drive rebound under the same number during a call, the namespace may be
  seen before and the live state after: `PresenceWasTrue` therefore speaks of two
  moments for `NVME_PRESENT`.
* A controller that leaves after the inventory has listed it may be listed as a drive
  with no model, address or namespace that is not removable (`RowsTellDrives`
  excepts it).
* The fan's number is not checked again before a write: after the driver has been
  unloaded, another chip that took its number is written until the next refresh
  (`FanWritesReachTheFan` says only then).
* A refresh that raised leaves the last values on the window until the next one.
* A torn last line of the log is reported as unparsed, and the summary then says
  that there are no samples.
* A boot whose journal could not be read is marked in the report and not in its
  one-line summary. One whose journal has lost its beginning is marked in neither,
  and its episodes may be fewer than its losses (`LossesAreCounted` has no lower
  bound for it).
* The dashboard builds its rows without a writer (`ui/pages/dashboard.py:70`): the
  control of a writable capability there can be moved, writes nothing (TypeOK of
  `Window`), and stays where it was put until the next re-rendering. `WindowAgrees`
  is about the rows that are wired.

## 6. Plan

Done: `FanScale`, `Platform`, `Owners`, `Service` with `VerifiedWrite`,
`SamplerLog` with its reader, `BootLog` and `BootHistory`, `Window`, `Snapshot`,
`Drive` with `Discovery`, `Detection`; and the proofs of every property of a passing
run that is not a liveness property.

Next, proofs:

1. Of a log that several runs write: what is still true of it. A line of it is a
   line that was appended, and none is there twice; what `LogIsNewest` says of one
   run is false, so the statement has to be found first, and checked on
   `sampler_overlap`'s constants.
2. Of the parser with hot-plugged drives: an event that is another drive's comes
   after a pull of the Mini SSD and before its next probe, so `NoMisattribution`
   holds of every event outside that time.
3. The ranking functions behind the liveness properties, as invariants and action
   properties: each step of a call brings it closer to its end.
