------------------------------ MODULE MemMaster ------------------------------
(***************************************************************************)
(* The heap of the kernel: libc/alloc.c behind malloc and free of          *)
(* libc/lib.c.                                                             *)
(*                                                                         *)
(* A master holds MaxRegions region slots.  A registered region (a bank of *)
(* RAM) holds a table of max_blocks descriptors; the descriptors in use    *)
(* form a singly linked list from the region's head, in address order.  A  *)
(* descriptor does not record where its block is: mem_alloc and mem_free   *)
(* find out by walking the list and adding up the sizes.  One step of the  *)
(* model is one iteration of one of those loops, so that every address is  *)
(* the one the walk computes.                                              *)
(*                                                                         *)
(* Descriptor <<r, n>> is regions[r].blocks[n]; <<0, 0>> is a NULL         *)
(* descriptor and 0 is a NULL address.  size_t and pointer arithmetic is   *)
(* modulo Word.                                                            *)
(***************************************************************************)
EXTENDS Integers, Sequences

CONSTANTS
    MaxRegions,     \* DEFAULT_MAX_REGIONS
    BytesPerBlock,  \* DEFAULT_DESCRIPTORS_PER_BYTES
    MinBlocks,      \* the least length of a descriptor table (8192)
    BlockBytes,     \* sizeof(struct mem_block)
    MaxBlocks,      \* bound of the model: no descriptor table is longer
    Word,           \* the modulus of size_t and of addresses
    Banks,          \* the banks of RAM, [addr, size], in registration order
    Sizes           \* the sizes the clients ask for

NIL  == <<0, 0>>
NULL == 0

Slots    == 1 .. MaxRegions
BlockIds == Slots \X (0 .. MaxBlocks - 1)
Addrs    == 0 .. Word - 1

Block  == [next : BlockIds \cup {NIL}, size : Addrs,
           type : {"free", "used", "absent"}]
Region == [addr : Addrs, free_size : Addrs, size : Addrs,
           head : BlockIds \cup {NIL}, max_blocks : 0 .. MaxBlocks]
Grant  == [ptr : Addrs, size : Addrs]

Add(a, b) == IF a + b < Word THEN a + b ELSE a + b - Word
Sub(a, b) == IF a >= b THEN a - b ELSE a - b + Word

VARIABLES
    regions,    \* master.regions
    blocks,     \* the descriptor tables of all regions
    nbanks,     \* how many of Banks have been passed to mem_new_region
    pc,         \* where the call in progress is
    i,          \* its region index, from 1
    block,      \* its list cursor
    prev,       \* mem_free: the descriptor before the cursor
    bptr,       \* the address of the cursor's block (ptr in mem_alloc)
    arg,        \* the arguments of the call: the pointer, the size
    held,       \* what the clients own: the results of malloc not yet freed
    at          \* history: the address each descriptor's block had when made

memory == <<regions, blocks, nbanks, at>>
call   == <<pc, i, block, prev, bptr, arg>>
vars   == <<regions, blocks, nbanks, pc, i, block, prev, bptr, arg, held, at>>

-----------------------------------------------------------------------------
(* The descriptor table of a bank.                                         *)

TableLen(size) == IF size \div BytesPerBlock < MinBlocks
                  THEN MinBlocks ELSE size \div BytesPerBlock

TableBytes(size) == BlockBytes * TableLen(size)

Table(r) == {r} \X (0 .. regions[r].max_blocks - 1)

(* Mutant: the table searched is that of the first region.                 *)
NewBlocksOfTheFirst(bs, r) ==
    {n \in Table(1) : /\ bs[n].type = "absent"
                      /\ \A m \in Table(1) : bs[m].type = "absent" => n[2] <= m[2]}

(* mem_new_block: the first absent descriptor of the table, if any.        *)
NewBlocks(bs, r) ==
    {n \in Table(r) : /\ bs[n].type = "absent"
                      /\ \A m \in Table(r) : bs[m].type = "absent" => n[2] <= m[2]}

(* Mutant: the size of the successor is dropped.                           *)
MergedLosingSize(bs, b, n) ==
    [bs EXCEPT ![b].next = bs[n].next, ![n].type = "absent"]

(* Mutant: the successor is given back to the table but stays linked.      *)
MergedStillLinked(bs, b, n) ==
    [bs EXCEPT ![b].size = Add(bs[b].size, bs[n].size), ![n].type = "absent"]

(* A block takes in its successor n, whose descriptor becomes absent.      *)
Merged(bs, b, n) ==
    [bs EXCEPT ![b].size = Add(bs[b].size, bs[n].size),
               ![b].next = bs[n].next,
               ![n].type = "absent"]

(* Mutant: whether the next block is free is not looked at.                *)
FixedUnchecked(bs, b) ==
    LET n == bs[b].next IN
    IF n # NIL /\ bs[b].type = "free" THEN Merged(bs, b, n) ELSE bs

(* mem_fix_block: a free block takes in the free block after it, one only. *)
Fixed(bs, b) ==
    LET n == bs[b].next IN
    IF n # NIL /\ bs[b].type = "free" /\ bs[n].type = "free"
    THEN Merged(bs, b, n) ELSE bs

(* The grant g shares bytes with the descriptor table of a region: the     *)
(* table starts at the region's own address and region->addr is not moved  *)
(* past it.                                                                *)
OverTable(g) ==
    \E r \in Slots : /\ regions[r].addr # NULL
                     /\ g.ptr < regions[r].addr + TableBytes(regions[r].size)
                     /\ regions[r].addr < g.ptr + g.size

-----------------------------------------------------------------------------
(* mem_init_master.                                                        *)
Init ==
    /\ regions = [r \in Slots |-> [addr |-> NULL, free_size |-> 0, size |-> 0,
                                   head |-> NIL, max_blocks |-> 0]]
    /\ blocks = [b \in BlockIds |-> [next |-> NIL, size |-> 0, type |-> "absent"]]
    /\ nbanks = 0
    /\ pc = "idle" /\ i = 1 /\ block = NIL /\ prev = NIL /\ bptr = NULL
    /\ arg = [ptr |-> NULL, size |-> 0]
    /\ held = {}
    /\ at = [b \in BlockIds |-> 0]

(* Mutant: the search for a free slot stops at the first.                  *)
NewSlotTheFirst(r) == r = 1

(* The slot mem_new_region writes: the first free one, the last one when   *)
(* none is free.                                                           *)
NewSlot(r) ==
    /\ \A q \in 1 .. r - 1 : regions[q].addr # NULL
    /\ regions[r].addr = NULL \/ r = MaxRegions

(* All of the table absent but blocks[0], the genesis block.               *)
Genesis(bs, r, size) ==
    [b \in BlockIds |->
        IF b = <<r, 0>> THEN [next |-> NIL, size |-> size, type |-> "free"]
        ELSE IF b[1] = r THEN [bs[b] EXCEPT !.type = "absent"]
        ELSE bs[b]]

(* mem_new_region: the genesis block is given the size of the bank less    *)
(* that of the table.                                                      *)
NewRegion ==
    /\ pc = "idle" /\ nbanks < Len(Banks)
    /\ nbanks' = nbanks + 1
    /\ LET bank == Banks[nbanks + 1]
           usable == Sub(bank.size, TableBytes(bank.size))
       IN \E r \in Slots :
            /\ NewSlot(r)
            /\ regions' = [regions EXCEPT ![r] =
                  [addr |-> bank.addr, free_size |-> usable, size |-> bank.size,
                   head |-> <<r, 0>>, max_blocks |-> TableLen(bank.size)]]
            /\ blocks' = Genesis(blocks, r, usable)
            /\ at' = [at EXCEPT ![<<r, 0>>] = bank.addr]
    /\ UNCHANGED <<call, held>>

-----------------------------------------------------------------------------
(* Calls.  main registers the first bank before anything can allocate.  A  *)
(* client that owns bytes of a descriptor table may overwrite descriptors, *)
(* after which nothing is known of the heap: the model stops there.        *)

Ready == pc = "idle" /\ nbanks > 0 /\ ~ \E g \in held : OverTable(g)

(* Mutant: the region index starts one too low.                            *)
StartTooLow(where, p, s) ==
    /\ pc' = where /\ i' = 0
    /\ arg' = [ptr |-> p, size |-> s]
    /\ UNCHANGED <<block, prev, bptr>>

Start(where, p, s) ==
    /\ pc' = where /\ i' = 1
    /\ arg' = [ptr |-> p, size |-> s]
    /\ UNCHANGED <<block, prev, bptr>>

Return(where) ==
    /\ pc' = where /\ i' = 1 /\ block' = NIL /\ prev' = NIL /\ bptr' = NULL
    /\ arg' = [ptr |-> NULL, size |-> 0]

Malloc(s) ==
    /\ Ready
    /\ Start("alloc", NULL, s)
    /\ UNCHANGED <<memory, held>>

(* Mutant: free_size is not looked at.                                     *)
PassedWithoutBank(r, s) == regions[r].addr = NULL

(* Whether mem_alloc passes over a region: it looks at free_size.          *)
Passed(r, s) == regions[r].addr = NULL \/ regions[r].free_size < s

(* The outer loop of mem_alloc; past the last slot the result is NULL.     *)
AllocRegion ==
    /\ pc = "alloc"
    /\ IF i > MaxRegions
       THEN /\ pc' = "alloc_return" /\ bptr' = NULL
            /\ UNCHANGED <<i, block>>
       ELSE IF Passed(i, arg.size)
       THEN /\ i' = i + 1
            /\ UNCHANGED <<pc, block, bptr>>
       ELSE /\ pc' = "alloc_walk"
            /\ block' = regions[i].head /\ bptr' = regions[i].addr
            /\ UNCHANGED i
    /\ UNCHANGED <<memory, prev, arg, held>>

(* Mutant: block->next is set before newblock->next is read from it.       *)
CarvedInTheWrongOrder(bs, b, n, s) ==
    [bs EXCEPT ![n] = [next |-> n, size |-> s, type |-> "used"],
               ![b].next = n,
               ![b].size = Sub(bs[b].size, s)]

(* Carving n out of the block b: n becomes the end of b and its successor. *)
Carved(bs, b, n, s) ==
    [bs EXCEPT ![n] = [next |-> bs[b].next, size |-> s, type |-> "used"],
               ![b].next = n,
               ![b].size = Sub(bs[b].size, s)]

(* One iteration of the list loop of mem_alloc.                            *)
AllocBlock ==
    /\ pc = "alloc_walk"
    /\ IF block = NIL
       THEN /\ pc' = "alloc" /\ i' = i + 1
            /\ UNCHANGED <<regions, blocks, at, block, bptr>>
       ELSE LET bs == Fixed(blocks, block) b == bs[block] IN
            IF b.type # "free" /\ ~ (b.size >= arg.size)
            THEN /\ blocks' = bs
                 /\ bptr' = Add(bptr, b.size) /\ block' = b.next
                 /\ UNCHANGED <<regions, at, pc, i>>
            ELSE IF NewBlocks(bs, i) = {}
            THEN /\ blocks' = bs
                 /\ pc' = "alloc_return" /\ bptr' = NULL
                 /\ UNCHANGED <<regions, at, i, block>>
            ELSE \E n \in NewBlocks(bs, i) :
                 /\ blocks' = Carved(bs, block, n, arg.size)
                 /\ regions' = [regions EXCEPT ![i].free_size = Sub(@, arg.size)]
                 /\ bptr' = Add(bptr, Sub(b.size, arg.size))
                 /\ at' = [at EXCEPT ![n] = Add(bptr, Sub(b.size, arg.size))]
                 /\ pc' = "alloc_return"
                 /\ UNCHANGED <<i, block>>
    /\ UNCHANGED <<nbanks, prev, arg, held>>

(* malloc: on NULL it prints the heap and never returns.                   *)
MallocReturn ==
    /\ pc = "alloc_return"
    /\ IF bptr = NULL
       THEN Return("halted") /\ UNCHANGED held
       ELSE /\ Return("idle")
            /\ held' = held \cup {[ptr |-> bptr, size |-> arg.size]}
    /\ UNCHANGED memory

(* free: the client gives up what it owns at the call.                     *)
Free(g) ==
    /\ Ready
    /\ Start("free", g.ptr, g.size)
    /\ held' = held \ {g}
    /\ UNCHANGED memory

(* The outer loop of mem_free; a slot without a bank has an empty list.    *)
FreeRegion ==
    /\ pc = "free"
    /\ IF i > MaxRegions
       THEN Return("idle")
       ELSE /\ pc' = "free_walk"
            /\ block' = regions[i].head /\ bptr' = regions[i].addr
            /\ prev' = NIL
            /\ UNCHANGED <<i, arg>>
    /\ UNCHANGED <<memory, held>>

(* Mutant: the pointer may lie anywhere in the block, its end included.    *)
MatchesInside(b, a, p) ==
    b.type = "used" /\ a <= p /\ p <= Add(a, b.size)

(* How mem_free recognises the block it is looking for.                    *)
Matches(b, a, p) ==
    b.type = "used" /\ a >= p /\ p <= Add(a, b.size)

(* A released block is merged into a free predecessor, else marked free.   *)
Released(bs, b, p) ==
    IF p # NIL /\ bs[p].type = "free" THEN Merged(bs, p, b)
    ELSE [bs EXCEPT ![b].type = "free"]

(* One iteration of the list loop of mem_free.                             *)
FreeBlock ==
    /\ pc = "free_walk"
    /\ IF block = NIL
       THEN /\ pc' = "free" /\ i' = i + 1
            /\ UNCHANGED <<blocks, block, prev, bptr, arg>>
       ELSE LET bs == Fixed(blocks, block) b == bs[block] IN
            IF Matches(b, bptr, arg.ptr)
            THEN blocks' = Released(bs, block, prev) /\ Return("idle")
            ELSE /\ blocks' = bs
                 /\ bptr' = Add(bptr, b.size)
                 /\ prev' = block /\ block' = b.next
                 /\ UNCHANGED <<pc, i, arg>>
    /\ UNCHANGED <<regions, nbanks, held, at>>

-----------------------------------------------------------------------------
(* The steps of a call in progress; the clients and the RAM hotplug decide *)
(* only what is called next.                                               *)
CallStep == AllocRegion \/ AllocBlock \/ MallocReturn \/ FreeRegion \/ FreeBlock

Next ==
    \/ NewRegion
    \/ \E s \in Sizes : Malloc(s)
    \/ \E g \in held : Free(g)
    \/ CallStep

Spec == Init /\ [][Next]_vars

(* The kernel runs on one processor and takes no interrupts: a call that   *)
(* has a step to take takes it.                                            *)
FairSpec == Spec /\ WF_vars(CallStep)

-----------------------------------------------------------------------------
(* The memory that is granted: what the clients hold, what a malloc about  *)
(* to return will hand out, what a free in progress has not released yet.  *)
Granted ==
    held \cup (IF pc = "alloc_return" /\ bptr # NULL
               THEN {[ptr |-> bptr, size |-> arg.size]} ELSE {})
         \cup (IF pc \in {"free", "free_walk"} THEN {arg} ELSE {})

Used == {b \in BlockIds : blocks[b].type = "used"}

GrantOf(b) == [ptr |-> at[b], size |-> blocks[b].size]

(* The used descriptors are exactly the granted memory, each at its own    *)
(* address with its own size, and no two for the same memory: mem_free,    *)
(* which only has the address it reaches by adding up sizes, never         *)
(* releases the block of another client and never misses the one it was    *)
(* given.                                                                  *)
UsedIsGranted ==
    /\ Granted = {GrantOf(b) : b \in Used}
    /\ \A b, c \in Used : GrantOf(b) = GrantOf(c) => b = c

=============================================================================
