------------------------------ MODULE MCOwners ------------------------------
(* Instance of Owners for TLC: two profiles, brightness at the floor, below *)
(* it and in the middle, and arguments of every kind.                       *)
EXTENDS Owners

CONSTANTS saver, performance

Text(p)   == [kind |-> "text", of |-> p]
Number(n) == [kind |-> "number", of |-> n]

MCArguments ==
  {<<"ppd", Text(saver)>>, <<"ppd", Text(None)>>, <<"ppd", Number(10)>>,
   <<"gsd", Number(40)>>, <<"gsd", Number(50)>>, <<"gsd", Number(505)>>,
   <<"gsd", Number(1000)>>, <<"gsd", [kind |-> "bool", of |-> 1]>>}

MCDrift ==
  [o \in OwnerNames |-> IF o = "ppd" THEN {performance, Gone}
                        ELSE {60, NoBacklight, Gone}]
=============================================================================
