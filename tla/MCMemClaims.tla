----------------------------- MODULE MCMemClaims -----------------------------
(* What the comments of alloc.c say of the heap, with one bank as main.c   *)
(* registers it.                                                           *)
EXTENDS MemMaster

OneBank == <<[addr |-> 1, size |-> 16]>>

(* "the free block always is the fist block; the heap will take space from *)
(* the free block" (alloc.c:7-9): mem_alloc does not return NULL while the *)
(* first block of a region has the size and a descriptor is left.          *)
TakesFromTheFreeBlock ==
    pc = "alloc_return" /\ bptr = NULL =>
        \A r \in Slots : regions[r].addr # NULL =>
            \/ blocks[regions[r].head].size < arg.size
            \/ NewBlocks(blocks, r) = {}

(* "New genesis block = less free memory on region" (alloc.c:73): the      *)
(* bytes of the descriptor table are not part of the memory handed out.    *)
TableIsNotHandedOut == ~ \E g \in held : OverTable(g)
=============================================================================
