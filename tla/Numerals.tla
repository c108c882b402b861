-------------------------------- MODULE Numerals --------------------------------
(* Powers, and how many digits a number has in a base: for the properties  *)
(* of LibC and Printf.                                                     *)
EXTENDS Integers

Power(base) ==
    LET power[k \in Nat] == IF k = 0 THEN 1 ELSE base * power[k - 1] IN power

(* Zero has a digit, too.                                                  *)
DigitCount(value, base) ==
    CHOOSE k \in 1 .. value + 1 :
        value < Power(base)[k] /\ (k = 1 \/ value >= Power(base)[k - 1])
=============================================================================
