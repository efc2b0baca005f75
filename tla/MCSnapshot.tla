----------------------------- MODULE MCSnapshot -----------------------------
(* Instance of Snapshot for TLC: the production policy, and sources that    *)
(* come, go and change.                                                     *)
EXTENDS Snapshot

CONSTANTS saver, balanced

MCIds == Writable \cup {"performance.power_target", "power.battery", "device.rgb"}

MCContents ==
  [s \in Sources |-> CASE s = "boost" -> {1}
                       [] s = "epp"   -> {saver}
                       [] s = "fan"   -> {30}
                       [] s = "backlight" -> {2, Gone}
                       [] s = "ppd"   -> {saver, balanced, Gone}
                       [] s = "gsd"   -> {60, NoBacklight, Gone}]
=============================================================================
