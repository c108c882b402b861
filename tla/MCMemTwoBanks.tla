---------------------------- MODULE MCMemTwoBanks ----------------------------
(* A second bank, above the first and a hole, is plugged in at any time.   *)
EXTENDS MemSafety

TwoBanks == <<[addr |-> 1, size |-> 9], [addr |-> 12, size |-> 12]>>
=============================================================================
