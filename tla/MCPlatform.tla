----------------------------- MODULE MCPlatform -----------------------------
(* Instance of Platform for TLC: every operation, in and out of its range,  *)
(* one capability not granted, and every attribute changed or removed by    *)
(* others.                                                                  *)
EXTENDS Platform

CONSTANTS low, quiet, Shouted

MCClean == [s \in {low, quiet, Shouted} |-> IF s = Shouted THEN low ELSE s]

MCPreferences == {low}

MCRequests ==
  {<<"set_fan_duty", 30>>, <<"set_fan_duty", 100>>, <<"set_fan_duty", 101>>,
   <<"set_fan_auto", None>>,
   <<"set_cpu_boost", 0>>, <<"set_epp", low>>, <<"set_epp", quiet>>,
   <<"set_epp", Shouted>>, <<"set_display_brightness_percent", 50>>,
   <<"set_display_brightness_percent", 101>>}

MCForeign ==
  [f \in Files |-> CASE f = "fan_pwm" -> {0, Gone}
                     [] f = "fan_pwm_enable" -> {AutoMode, Gone}
                     [] f = "boost" -> {1, Gone}
                     [] f = "backlight" -> {Gone}
                     [] f = "epp" -> {quiet}]

MCFiles ==
  {[f \in Files |-> CASE f = "fan_pwm" -> 0
                      [] f = "fan_pwm_enable" -> mode
                      [] f = "boost" -> 1
                      [] f = "epp" -> quiet
                      [] f = "backlight" -> 1] : mode \in {AutoMode, Gone}}
=============================================================================
