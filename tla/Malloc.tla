-------------------------------- MODULE Malloc --------------------------------
(***************************************************************************)
(* What malloc and free promise their clients, whatever the allocator: the *)
(* memory handed out lies inside one bank of RAM and shares no byte with   *)
(* memory that is still owned.  A malloc that finds no memory does not     *)
(* return at all (libc/lib.c, malloc).                                     *)
(***************************************************************************)
EXTENDS Integers

CONSTANTS Word,     \* the modulus of addresses
          Sizes,    \* the sizes that are asked for
          Ram       \* the banks of RAM there are, [addr, size]

VARIABLES ram,      \* the banks the heap has been given
          held,     \* the memory owned by clients, [ptr, size]
          halted    \* malloc has given up

vars == <<ram, held, halted>>

Disjoint(g, h) == g.ptr + g.size <= h.ptr \/ h.ptr + h.size <= g.ptr

Inside(g, bank) == bank.addr <= g.ptr /\ g.ptr + g.size <= bank.addr + bank.size

Init == ram = {} /\ held = {} /\ halted = FALSE

Hotplug ==
    /\ ~ halted
    /\ \E bank \in Ram : ram' = ram \cup {bank}
    /\ UNCHANGED <<held, halted>>

Alloc ==
    /\ ~ halted
    /\ \E p \in 1 .. Word - 1, s \in Sizes :
         LET g == [ptr |-> p, size |-> s] IN
         /\ \E bank \in ram : Inside(g, bank)
         /\ \A h \in held : Disjoint(g, h)
         /\ held' = held \cup {g}
    /\ UNCHANGED <<ram, halted>>

Fail == ~ halted /\ halted' = TRUE /\ UNCHANGED <<ram, held>>

Free ==
    /\ ~ halted
    /\ \E g \in held : held' = held \ {g}
    /\ UNCHANGED <<ram, halted>>

Next == Hotplug \/ Alloc \/ Fail \/ Free

Spec == Init /\ [][Next]_vars

=============================================================================
