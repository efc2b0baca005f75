------------------------------ MODULE Snapshot ------------------------------
(***************************************************************************)
(* get_capability_snapshot and build_capability_records (service.py): the  *)
(* cached paths are detected again, then every source is read in turn, the *)
(* sysfs attributes through the backend and the owners over D-Bus, while   *)
(* all of them go on changing; the records built from what was read carry  *)
(* the policy that enables a control (contracts.py) to the client, in the  *)
(* same process (LocalServiceClient).                                      *)
(***************************************************************************)
EXTENDS Integers, Sequences

CONSTANTS
  Validated,     \* validated_writes
  CapabilityIds,
  Present,       \* capabilities whose telemetry, or whose driver's module, is there
  Profiles,      \* what power-profiles-daemon advertises
  Contents,      \* what each source may hold, a function of the source
  Gone,          \* the attribute or the daemon does not exist
  None

OWNER_ROUTED_WRITES == {"performance.epp", "display.brightness"}

Writable == OWNER_ROUTED_WRITES \cup {"performance.cpu_boost", "cooling.internal_fan"}

Attributes == {"boost", "epp", "fan", "backlight"}   \* sysfs
Daemons    == {"ppd", "gsd"}                         \* D-Bus
Sources    == Attributes \cup Daemons
NoBacklight == -1

ASSUME SnapshotAssumption ==
  /\ Writable \subseteq CapabilityIds /\ Validated \subseteq CapabilityIds
  /\ None \notin UNION {Contents[s] : s \in Sources}

VARIABLES
  source,    \* what every source holds
  low,       \* the attributes detect_capabilities found
  next,      \* the read the refresh has come to, or 0: none under way
  got,       \* what its reads gave
  client,    \* the records the client holds
  seen       \* history: what each daemon has held since the refresh began

snapshotVars == <<source, low, next, got, client, seen>>

Reads == <<"boost", "ppd", "epp", "profiles", "fan", "gsd", "backlight">>

Nothing == [r \in {Reads[i] : i \in DOMAIN Reads} |-> IF r = "profiles" THEN {} ELSE None]

-----------------------------------------------------------------------------
(* contracts.py *)

can_write(record) ==
  /\ record.write_supported /\ record.write_authorized
  /\ record.locally_validated /\ record.status = "CONFIRMED_LOCAL"

(* A record that offers no write. *)
ReadOnly(status, observed) ==
  [status |-> status, write_supported |-> FALSE, write_authorized |-> FALSE,
   locally_validated |-> status \in {"READ_ONLY", "CONFIRMED_LOCAL"},
   observed_value |-> observed, backend |-> "none", choices |-> {}]

_unavailable == ReadOnly("UNAVAILABLE", None)

(* A record whose write is as good as its validation. The choices are its   *)
(* allowed_values, or what lies between its minimum and its maximum.        *)
Offer(id, observed, backend, choices) ==
  LET authorized == id \in Validated
  IN  [status |-> IF authorized THEN "CONFIRMED_LOCAL" ELSE "SUPPORTED_UNVERIFIED",
       write_supported |-> TRUE, write_authorized |-> authorized,
       locally_validated |-> authorized, observed_value |-> observed,
       backend |-> backend, choices |-> choices]

(* The same interface seen through sysfs: readable, never authorized. *)
Fallback(observed, choices) ==
  [status |-> "SUPPORTED_UNVERIFIED", write_supported |-> TRUE,
   write_authorized |-> FALSE, locally_validated |-> FALSE,
   observed_value |-> observed, backend |-> "platform", choices |-> choices]

-----------------------------------------------------------------------------
(* build_capability_records *)

BoostRecord ==
  IF "boost" \in low
  THEN Offer("performance.cpu_boost", got["boost"], "platform", {0, 1})
  ELSE _unavailable

EppRecord ==
  IF got["ppd"] # None
  THEN Offer("performance.epp", got["ppd"], "power_profiles", got["profiles"])
  ELSE IF "epp" \in low THEN Fallback(got["epp"], Contents["epp"] \ {Gone})
  ELSE _unavailable

FanRecord ==
  IF "fan" \in low
  THEN Offer("cooling.internal_fan", got["fan"], "platform", 0 .. 100)
  ELSE IF "cooling.internal_fan" \in Present   \* oxpec installed, not loaded
  THEN ReadOnly("SUPPORTED_UNVERIFIED", None)
  ELSE _unavailable

(* Slips: the fallback offers writes; "no backlight" is taken for a level.  *)
BrightnessRecord_SysfsOffer ==
  IF got["gsd"] \notin {None, NoBacklight}
  THEN Offer("display.brightness", got["gsd"], "session_brightness", 5 .. 100)
  ELSE IF "backlight" \in low
  THEN Offer("display.brightness", got["backlight"], "platform", 0 .. 100)
  ELSE _unavailable

BrightnessRecord_AnyAnswer ==
  IF got["gsd"] # None
  THEN Offer("display.brightness", got["gsd"], "session_brightness", 5 .. 100)
  ELSE _unavailable

BrightnessRecord ==
  IF got["gsd"] \notin {None, NoBacklight}
  THEN Offer("display.brightness", got["gsd"], "session_brightness", 5 .. 100)
  ELSE IF "backlight" \in low THEN Fallback(got["backlight"], 0 .. 100)
  ELSE _unavailable

(* The eleven capabilities with no write interface. *)
StaticRecord(id) ==
  ReadOnly(CASE id \in {"cooling.frost_bay.telemetry", "cooling.frost_bay.control"}
                  -> "RESEARCH_PENDING"
             [] id \in {"power.charge_control", "device.rgb"} -> "UNAVAILABLE"
             [] id = "device.controller_integration" -> "SUPPORTED_UNVERIFIED"
             [] id = "diagnostics.export" -> "CONFIRMED_LOCAL"
             [] id = "performance.power_target" /\ id \in Present
                  -> "SUPPORTED_UNVERIFIED"
             [] id \in {"display.mode", "power.battery"} /\ id \in Present
                  -> "READ_ONLY"
             [] id \in {"storage.mini_ssd.presence", "storage.mini_ssd.reliability"}
                  -> "READ_ONLY"
             [] OTHER -> "UNAVAILABLE", None)

build_capability_records ==
  [id \in CapabilityIds |->
     CASE id = "performance.cpu_boost" -> BoostRecord
       [] id = "performance.epp"       -> EppRecord
       [] id = "cooling.internal_fan"  -> FanRecord
       [] id = "display.brightness"    -> BrightnessRecord
       [] OTHER                        -> StaticRecord(id)]

-----------------------------------------------------------------------------

Existing == {a \in Attributes : source[a] # Gone}

SnapshotInit ==
  /\ source \in {f \in [Sources -> UNION {Contents[s] : s \in Sources}] :
                   \A s \in Sources : f[s] \in Contents[s]}
  /\ low = {}
  /\ next = 0
  /\ got = Nothing
  /\ client = [id \in CapabilityIds |-> _unavailable]
  /\ seen = [d \in Daemons |-> {}]

(* refresh_capabilities *)
RefreshCapabilities ==
  /\ next = 0
  /\ low' = Existing
  /\ next' = 1
  /\ seen' = [d \in Daemons |-> {source[d]}]
  /\ UNCHANGED <<source, got, client>>

(* The reads the refresh makes. *)
Made(read) ==
  CASE read \in {"boost", "fan"} -> read \in low
    [] read = "epp"       -> "epp" \in low
    [] read = "profiles"  -> got["ppd"] # None
    [] read = "backlight" -> got["gsd"] \in {None, NoBacklight} /\ "backlight" \in low
    [] OTHER              -> TRUE

(* What a read may give: a daemon may also fail to answer in time, and the  *)
(* profiles are asked for in a call of their own.                           *)
Answers(read) ==
  IF read = "profiles" THEN {{}} \cup (IF source["ppd"] = Gone THEN {} ELSE {Profiles})
  ELSE IF source[read] = Gone THEN {None}
  ELSE IF read \in Daemons THEN {source[read], None}
  ELSE {source[read]}

Read ==
  /\ next \in DOMAIN Reads
  /\ LET read == Reads[next]
     IN  IF Made(read)
         THEN \E answer \in Answers(read) : got' = [got EXCEPT ![read] = answer]
         ELSE UNCHANGED got
  /\ next' = next + 1
  /\ UNCHANGED <<source, low, client, seen>>

Deliver ==
  /\ next = Len(Reads) + 1
  /\ client' = build_capability_records
  /\ next' = 0
  /\ got' = Nothing
  /\ UNCHANGED <<source, low, seen>>

SourceChanges ==
  \E s \in Sources : \E content \in Contents[s] \ {source[s]} :
    /\ source' = [source EXCEPT ![s] = content]
    /\ seen' = IF next # 0 /\ s \in Daemons
               THEN [seen EXCEPT ![s] = @ \cup {content}] ELSE seen
    /\ UNCHANGED <<low, next, got, client>>

Refresh == RefreshCapabilities \/ Read \/ Deliver

SnapshotNext == Refresh \/ SourceChanges

SnapshotSpec == SnapshotInit /\ [][SnapshotNext]_snapshotVars

-----------------------------------------------------------------------------
(* What set_capability and the layer below it make of a value: the policy   *)
(* for the capability, its owner's or its backend's check of the value.     *)
Servable(id, value) ==
  /\ id \in Validated
  /\ CASE id = "performance.epp"       -> value \in Profiles
       [] id = "display.brightness"    -> value \in 5 .. 100
       [] id = "performance.cpu_boost" -> value \in {0, 1}
       [] id = "cooling.internal_fan"  -> value \in 0 .. 100
       [] OTHER                        -> FALSE

(* "The UI enables a mutating control only when can_write": whatever an     *)
(* enabled control can be put at is a write the service accepts, and goes   *)
(* to the owner where there is one: it is never the fallback's, although    *)
(* daemons came and went while the records were built.                      *)
OffersAreServable ==
  \A id \in CapabilityIds :
    can_write(client[id]) =>
      /\ \A value \in client[id].choices : Servable(id, value)
      /\ id \in OWNER_ROUTED_WRITES => client[id].backend # "platform"

(* An enabled control of an owner starts from a value the owner held while  *)
(* this snapshot was taken.                                                 *)
ObservedWasReal ==
  next = 0 =>
    /\ can_write(client["performance.epp"]) =>
         client["performance.epp"].observed_value \in seen["ppd"] \ {Gone}
    /\ can_write(client["display.brightness"]) =>
         client["display.brightness"].observed_value \in seen["gsd"] \ {Gone, NoBacklight}
=============================================================================
