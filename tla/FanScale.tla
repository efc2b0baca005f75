------------------------------ MODULE FanScale ------------------------------
(***************************************************************************)
(* The two integer conversions of platform.py between a fan duty in        *)
(* percent and the raw 0..255 value of the pwm1 attribute, and between a   *)
(* brightness percentage and the raw backlight level.                      *)
(***************************************************************************)
EXTENDS Integers

(* Python's round(n / m): to the nearest integer, a tie to the even one.  *)
RoundHalfEven(n, m) ==
  LET q == n \div m
      r == n % m
  IN  IF 2 * r < m THEN q
      ELSE IF 2 * r > m THEN q + 1
      ELSE q + (q % 2)

Duties    == 0 .. 100
RawValues == 0 .. 255

(* int(round((duty_percent / 100.0) * 255)) *)
RawPwm(duty) == RoundHalfEven(duty * 255, 100)

(* round((raw_pwm / 255.0) * 100) *)
DutyOf(raw) == RoundHalfEven(raw * 100, 255)

(* int(round((percent / 100.0) * backlight_max)) *)
RawLevel(percent, max) == RoundHalfEven(percent * max, 100)
=============================================================================
