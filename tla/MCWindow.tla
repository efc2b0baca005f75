------------------------------ MODULE MCWindow ------------------------------
(* Instance of Window for TLC: the brightness slider of the Display page   *)
(* (floor 5), and the profile's drop-downs on the Performance and Power    *)
(* pages and, not wired, on the dashboard.                                 *)
EXTENDS Window

CONSTANTS display, performance, power, dashboard, saver, balanced

MCOrder == <<"performance.epp", "display.brightness">>
MCShows == [r \in Rows |-> IF r = display THEN "display.brightness" ELSE "performance.epp"]

Of(profiles, levels) ==
  [c \in Capabilities |-> IF c = "performance.epp" THEN profiles ELSE levels]

MCValues    == Of({saver}, {60, 3})
MCPositions == Of({saver, balanced}, {5, 60})
MCClamped   == [v \in {saver, balanced, 3, 5, 60} |-> IF v = 3 THEN 5 ELSE v]
MCDrift     == Of({balanced, Gone}, {60})
NoDrift     == Of({}, {})
=============================================================================
