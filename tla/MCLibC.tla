------------------------------- MODULE MCLibC -------------------------------
(* Instances of LibC: memories of a few bytes that hold a digit, a capital *)
(* and a small letter (the capital is the one letter too many of base 11), *)
(* and words of eight bits.                                                *)
EXTENDS LibC

MCChars   == {0, 49, 66, 98}
MCBases   == {10, 11}
MCNumbers == {-128, -100, -1, 0, 9, 10, 63, 64, 127}
MCLimits  == 0 .. 2
=============================================================================
