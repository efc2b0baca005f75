------------------------------ MODULE MCService ------------------------------
(* Instance of Service for TLC: validated for all it dispatches but the     *)
(* profile, and for a capability that is not writable; a request of each    *)
(* outcome, and a world that moves every destination.                       *)
EXTENDS Service

CONSTANTS saver, performance

Numeral(n) == [kind |-> "numeral", of |-> n]
Text(p)   == [kind |-> "text", of |-> p]
Number(n) == [kind |-> "number", of |-> n]
Bool(b)   == [kind |-> "bool", of |-> b]

MCValidated == {"performance.cpu_boost", "cooling.internal_fan",
                "display.brightness", "device.rgb"}

MCRequests ==
  {<<"no.such.capability", Bool(1)>>, <<"device.rgb", Bool(1)>>,
   <<"display.mode", Text(saver)>>,
   <<"performance.epp", Text(saver)>>,
   <<"display.brightness", Number(40)>>, <<"display.brightness", Number(500)>>,
   <<"performance.cpu_boost", Bool(1)>>, <<"performance.cpu_boost", Number(10)>>,
   <<"cooling.internal_fan", Number(309)>>, <<"cooling.internal_fan", Number(-5)>>,
   <<"cooling.internal_fan", Number(-15)>>, <<"cooling.internal_fan", Numeral(30)>>,
   <<"cooling.internal_fan", Text(saver)>>, <<"performance.cpu_boost", Numeral(1)>>}

MCDrift ==
  [o \in {"ppd", "gsd"} |-> IF o = "ppd" THEN {performance, Gone} ELSE {-1, Gone}]

Attributes == {"boost", "epp", "fan_pwm", "fan_pwm_enable", "backlight"}

MCForeign ==
  [f \in Attributes |-> CASE f = "boost" -> {0}
                       [] f = "fan_pwm_enable" -> {2}
                       [] OTHER -> {}]

MCFiles ==
  {[f \in Attributes |-> CASE f = "boost" -> 0
                        [] f = "fan_pwm" -> 0
                        [] f = "fan_pwm_enable" -> 2
                        [] f = "epp" -> saver
                        [] f = "backlight" -> 1]}

MCClean == [s \in {saver} |-> s]
=============================================================================
