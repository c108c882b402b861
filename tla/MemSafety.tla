------------------------------ MODULE MemSafety ------------------------------
(***************************************************************************)
(* What the heap of libc/alloc.c guarantees when its banks are registered  *)
(* from the lowest to the highest and nobody asks for zero bytes.          *)
(***************************************************************************)
EXTENDS MemMaster, FiniteSets

(* The banks: real RAM above address 0, each larger than its own table,    *)
(* one slot for each, registered in ascending order without overlap.       *)
(* main.c registers a single bank and satisfies this.                      *)
ASSUME BanksAssumption ==
    /\ MaxRegions \in Nat /\ MaxBlocks \in Nat /\ Word \in Nat /\ Word > 0
    /\ Banks \in Seq([addr : Nat \ {0}, size : Nat])
    /\ Len(Banks) <= MaxRegions
    /\ \A k \in 1 .. Len(Banks) :
         /\ TableLen(Banks[k].size) \in 1 .. MaxBlocks
         /\ TableBytes(Banks[k].size) \in 1 .. Banks[k].size
         /\ Banks[k].addr + Banks[k].size < Word
         /\ \A j \in 1 .. k - 1 : Banks[j].addr + Banks[j].size <= Banks[k].addr

ASSUME SizesAssumption == Sizes \subseteq 1 .. Word - 1

Usable(k) == Banks[k].size - TableBytes(Banks[k].size)

-----------------------------------------------------------------------------
(* Every variable keeps its type.                                          *)
TypeOK ==
    /\ regions \in [Slots -> Region]
    /\ blocks \in [BlockIds -> Block]
    /\ nbanks \in 0 .. Len(Banks)
    /\ pc \in {"idle", "alloc", "alloc_walk", "alloc_return",
               "free", "free_walk", "halted"}
    /\ i \in 1 .. MaxRegions + 1
    /\ block \in BlockIds \cup {NIL} /\ prev \in BlockIds \cup {NIL}
    /\ bptr \in Addrs
    /\ arg \in Grant
    /\ held \subseteq Grant
    /\ at \in [BlockIds -> Addrs]

(* The descriptor at the head of a region is a free block at the region's  *)
(* address ("software will always hit the free block"), and free_size,     *)
(* which mem_free does not give back, is never more than that block has:   *)
(* so block->size -= size in mem_alloc, which tests free_size only, never  *)
(* wraps.                                                                  *)
HeadCovers ==
    \A r \in Slots : regions[r].addr # NULL =>
        LET h == regions[r].head IN
        /\ blocks[h].type = "free"
        /\ at[h] = regions[r].addr
        /\ regions[r].free_size <= blocks[h].size

(* No descriptor is lost: one that is not absent is a head or the          *)
(* successor of exactly one descriptor that is not absent.                 *)
Linked ==
    \A b \in BlockIds : blocks[b].type # "absent" =>
        LET preds == {c \in BlockIds : blocks[c].type # "absent" /\ blocks[c].next = b}
        IN Cardinality(preds) = IF b = regions[b[1]].head THEN 0 ELSE 1

Live(bs) == {b \in BlockIds : bs[b].type # "absent"}

(* mem_total_free: the free sizes on the list from a block on, and on the  *)
(* lists of the first r regions.                                           *)
FreeInList[b \in Live(blocks) \cup {NIL}] ==
    IF b = NIL THEN 0
    ELSE (IF blocks[b].type = "free" THEN blocks[b].size ELSE 0)
         + FreeInList[blocks[b].next]

FreeInRegions[r \in 0 .. MaxRegions] ==
    IF r = 0 THEN 0
    ELSE FreeInRegions[r - 1]
         + (IF regions[r].addr = NULL THEN 0 ELSE FreeInList[regions[r].head])

mem_total_free == FreeInRegions[MaxRegions]

(* The bytes from address a up to address e.                               *)
Bytes(a, e) == a .. e - 1

GrantedBytes == UNION {Bytes(g.ptr, g.ptr + g.size) : g \in Granted}
UsableBytes  == UNION {Bytes(Banks[k].addr, Banks[k].addr + Usable(k)) : k \in 1 .. nbanks}

(* No byte is lost or counted twice: what mem_total_free reports and the   *)
(* bytes that are granted always add up to the usable bytes of the banks.  *)
BytesConserved ==
    mem_total_free + Cardinality(GrantedBytes) = Cardinality(UsableBytes)

(* malloc and free always come back, to the caller or to the endless loop  *)
(* of a malloc that has no memory.                                         *)
CallReturns == pc \notin {"idle", "halted"} ~> pc \in {"idle", "halted"}

-----------------------------------------------------------------------------
(* The inductive invariant.  HeapOK speaks of a state of the descriptors   *)
(* bs and addresses ats with k banks registered, so that the effect of one *)
(* change of the list can be stated alone.                                 *)

EndOf(bs, ats, b) == ats[b] + bs[b].size

Top(r) == Banks[r].addr + Usable(r)

(* Every block lies in the payload of a registered bank, and only a free   *)
(* one can be empty.                                                       *)
Confined(bs, ats, k) ==
    \A b \in Live(bs) :
        /\ b[1] \in 1 .. k
        /\ Banks[b[1]].addr <= ats[b] /\ EndOf(bs, ats, b) <= Top(b[1])
        /\ bs[b].type = "used" => bs[b].size > 0

(* A block's successor begins where it ends; the last one ends the bank.   *)
Chained(bs, ats) ==
    \A b \in Live(bs) :
        IF bs[b].next = NIL THEN EndOf(bs, ats, b) = Top(b[1])
        ELSE /\ bs[b].next \in Live(bs)
             /\ bs[b].next[1] = b[1] /\ bs[b].next[2] # 0
             /\ ats[bs[b].next] = EndOf(bs, ats, b)

(* No two blocks have the same successor, or a byte in common.             *)
Apart(bs, ats) ==
    \A b, c \in Live(bs) : b # c =>
        /\ bs[b].next # NIL => bs[b].next # bs[c].next
        /\ b[1] = c[1] /\ bs[b].size > 0 /\ bs[c].size > 0 =>
              EndOf(bs, ats, b) <= ats[c] \/ EndOf(bs, ats, c) <= ats[b]

(* Every block but the heads is the successor of another.                  *)
Reached(bs) ==
    \A b \in Live(bs) : b[2] # 0 => \E c \in Live(bs) : bs[c].next = b

(* No list runs in a circle: every set of blocks has a way out.            *)
Acyclic(bs) ==
    \A S \in SUBSET Live(bs) : S # {} => \E b \in S : bs[b].next \notin S

Heads(bs, ats, k) ==
    \A r \in 1 .. k : bs[<<r, 0>>].type = "free" /\ ats[<<r, 0>>] = Banks[r].addr

HeapOK(bs, ats, k) ==
    /\ Confined(bs, ats, k) /\ Chained(bs, ats) /\ Apart(bs, ats) /\ Heads(bs, ats, k)
    /\ Reached(bs) /\ Acyclic(bs)

(* Slot r holds bank r, and its first block covers free_size.              *)
RegionsOK ==
    \A r \in Slots :
        IF r <= nbanks
        THEN /\ regions[r].addr = Banks[r].addr
             /\ regions[r].size = Banks[r].size
             /\ regions[r].head = <<r, 0>>
             /\ regions[r].max_blocks = TableLen(Banks[r].size)
             /\ regions[r].free_size <= blocks[<<r, 0>>].size
        ELSE regions[r].addr = NULL /\ regions[r].head = NIL

(* mem_alloc only ever looks at the head of a region.                      *)
AllocOK ==
    /\ pc \in {"alloc", "alloc_walk", "alloc_return"} => arg.size \in Sizes
    /\ pc = "alloc_walk" =>
         /\ i <= nbanks /\ block = <<i, 0>> /\ bptr = Banks[i].addr
         /\ arg.size <= regions[i].free_size
    /\ pc = "alloc_return" /\ bptr # NULL => [ptr |-> bptr, size |-> arg.size] \notin held

(* mem_free has the address of its cursor right, and the block it looks    *)
(* for is still ahead.                                                     *)
FreeOK ==
    /\ pc \in {"free", "free_walk"} =>
         /\ arg \notin held
         /\ \E t \in Used : /\ GrantOf(t) = arg /\ t[1] >= i
                            /\ pc = "free_walk" /\ t[1] = i => at[t] >= bptr
    /\ pc = "free_walk" =>
         /\ i <= MaxRegions
         /\ block = NIL => i > nbanks \/ bptr = Top(i)
         /\ block # NIL => block \in Live(blocks) /\ block[1] = i /\ bptr = at[block]
         /\ block # NIL /\ prev # NIL =>
              prev \in Live(blocks) /\ blocks[prev].next = block

(* The state between any two steps of the allocator: the lists tile the    *)
(* banks, the call in progress is where it believes to be, and what is     *)
(* used is what is granted.                                                *)
Inv ==
    /\ TypeOK
    /\ RegionsOK
    /\ HeapOK(blocks, at, nbanks)
    /\ AllocOK
    /\ FreeOK
    /\ UsedIsGranted

-----------------------------------------------------------------------------
(* The heap keeps the promise of malloc and free: what it hands out lies   *)
(* inside a registered bank and overlaps nothing that is still held.       *)
Promise == INSTANCE Malloc WITH
    Ram <- {Banks[k] : k \in 1 .. Len(Banks)},
    ram <- {Banks[k] : k \in 1 .. nbanks},
    halted <- (pc = "halted")

KeepsPromise == Promise!Spec

=============================================================================
