----------------------------- MODULE MCMemHotplug -----------------------------
(* A second bank, below the first, is plugged in at any time ("Supports    *)
(* RAM holes and RAM hotplug", alloc.c:2).                                 *)
EXTENDS MemMaster

LowerBank == <<[addr |-> 12, size |-> 9], [addr |-> 1, size |-> 9]>>
=============================================================================
