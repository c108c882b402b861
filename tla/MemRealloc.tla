------------------------------ MODULE MemRealloc ------------------------------
(***************************************************************************)
(* realloc over the heap of MemMaster: mem_realloc of libc/alloc.c.        *)
(*                                                                         *)
(* mem_realloc walks the lists as mem_free does, and resizes the block it  *)
(* finds in place when a free neighbour allows it; else it calls mem_alloc *)
(* and mem_free, whose steps are those of MemMaster.  The variable frame   *)
(* is the activation of mem_realloc that waits for them.                   *)
(***************************************************************************)
EXTENDS MemSafety

CONSTANTS Resizes   \* how clients resize: pairs <<old size, new size>>

VARIABLES
    frame,      \* what mem_realloc is doing, what it was given to resize
                \* and what mem_alloc found in its place
    sound       \* history: only the first block of a region has been
                \* given bytes by shrinking, and no copy has run over the
                \* descriptors

reallocVars == <<vars, frame, sound>>

NoGrant == [ptr |-> NULL, size |-> 0]
NoFrame == [doing |-> "none", old |-> NoGrant, new |-> NoGrant]

ReallocInit == Init /\ frame = NoFrame /\ sound = TRUE

-----------------------------------------------------------------------------
(* realloc: the client hands in the memory g to have s bytes instead.      *)
Realloc(g, s) ==
    /\ Ready /\ frame = NoFrame
    /\ <<g.size, s>> \in Resizes
    /\ Start("realloc", g.ptr, s)
    /\ frame' = [doing |-> "resize", old |-> g, new |-> NoGrant]
    /\ held' = held \ {g}
    /\ UNCHANGED <<memory, sound>>

(* The result p goes back to the client; with NULL the client still has    *)
(* what it handed in.                                                      *)
Result(p, s) ==
    /\ held' = held \cup {IF p = NULL THEN frame.old ELSE [ptr |-> p, size |-> s]}
    /\ frame' = NoFrame
    /\ Return("idle")

(* The outer loop.  Past the last slot no block was found: memory is       *)
(* allocated all the same.                                                 *)
ReallocRegion ==
    /\ pc = "realloc"
    /\ IF i > MaxRegions
       THEN /\ Start("alloc", NULL, arg.size)
            /\ frame' = [frame EXCEPT !.doing = "miss"]
       ELSE IF Passed(i, arg.size)
       THEN i' = i + 1 /\ UNCHANGED <<pc, block, prev, bptr, arg, frame>>
       ELSE /\ pc' = "realloc_walk"
            /\ block' = regions[i].head /\ bptr' = regions[i].addr /\ prev' = NIL
            /\ UNCHANGED <<i, arg, frame>>
    /\ UNCHANGED <<memory, held, sound>>

(* The descriptors after mem_fix_block at the cursor; the cursor is at the *)
(* block of the client.                                                    *)
Here == Fixed(blocks, block)

Found == pc = "realloc_walk" /\ block # NIL /\ Matches(Here[block], bptr, arg.ptr)

ReallocWalk ==
    /\ pc = "realloc_walk" /\ ~ Found
    /\ IF block = NIL
       THEN pc' = "realloc" /\ i' = i + 1 /\ UNCHANGED <<blocks, block, prev, bptr>>
       ELSE /\ blocks' = Here
            /\ bptr' = Add(bptr, Here[block].size)
            /\ prev' = block /\ block' = Here[block].next
            /\ UNCHANGED <<pc, i>>
    /\ UNCHANGED <<regions, nbanks, at, arg, held, frame, sound>>

-----------------------------------------------------------------------------
(* The block is found: grow it, shrink it, or leave it.                    *)

Grown  == arg.size - Here[block].size
Shrunk == Here[block].size - arg.size

(* Mutant: the size of the neighbour is not looked at.                     *)
FreeWithAnySize(b, n) == b # NIL /\ Here[b].type = "free"

(* Mutant: whether the neighbour is free is not looked at.                 *)
UsedOrFreeWith(b, n) == b # NIL /\ Here[b].size >= n

FreeWith(b, n) == b # NIL /\ Here[b].type = "free" /\ Here[b].size >= n

(* Mutant: only the neighbour's size is updated.                           *)
ShiftedOnOneSide(bs, from, to, n) == [bs EXCEPT ![from].size = @ - n]

(* n bytes change from one block to a neighbour.                           *)
Shifted(bs, from, to, n) ==
    [bs EXCEPT ![from].size = @ - n, ![to].size = Add(@, n)]

(* Mutant: the region's free_size is left as it is.                        *)
FreeSizeStays(n) == regions' = regions

FreeSizeBecomes(n) == regions' = [regions EXCEPT ![i].free_size = n]

TakeFromNext ==
    /\ Found /\ Grown > 0
    /\ LET n == Here[block].next IN
       /\ FreeWith(n, Grown)
       /\ blocks' = Shifted(Here, n, block, Grown)
       /\ at' = [at EXCEPT ![n] = Add(@, Grown)]
    /\ FreeSizeBecomes(Sub(regions[i].free_size, Grown))
    /\ Result(bptr, arg.size)
    /\ UNCHANGED <<nbanks, sound>>

(* The contents of the block stay where they are.                          *)
TakeFromPrev ==
    /\ Found /\ Grown > 0
    /\ ~ FreeWith(Here[block].next, Grown) /\ FreeWith(prev, Grown)
    /\ blocks' = Shifted(Here, prev, block, Grown)
    /\ at' = [at EXCEPT ![block] = Sub(@, Grown)]
    /\ FreeSizeBecomes(Sub(regions[i].free_size, Grown))
    /\ Result(Sub(bptr, Grown), arg.size)
    /\ UNCHANGED <<nbanks, sound>>

MoveElsewhere ==
    /\ Found /\ Grown > 0
    /\ ~ FreeWith(Here[block].next, Grown) /\ ~ FreeWith(prev, Grown)
    /\ blocks' = Here
    /\ Start("alloc", NULL, arg.size)
    /\ frame' = [frame EXCEPT !.doing = "move"]
    /\ UNCHANGED <<regions, nbanks, at, held, sound>>

GiveToPrev ==
    /\ Found /\ Shrunk > 0 /\ FreeWith(prev, 0)
    /\ blocks' = Shifted(Here, block, prev, Shrunk)
    /\ at' = [at EXCEPT ![block] = Add(@, Shrunk)]
    /\ FreeSizeBecomes(Add(regions[i].free_size, Shrunk))
    /\ Result(Add(bptr, Shrunk), arg.size)
    /\ sound' = (sound /\ prev = regions[i].head)
    /\ UNCHANGED nbanks

GiveToNext ==
    /\ Found /\ Shrunk > 0 /\ ~ FreeWith(prev, 0)
    /\ LET n == Here[block].next IN
       /\ FreeWith(n, 0)
       /\ blocks' = Shifted(Here, block, n, Shrunk)
       /\ at' = [at EXCEPT ![n] = Sub(@, Shrunk)]
    /\ FreeSizeBecomes(Add(regions[i].free_size, Shrunk))
    /\ Result(bptr, arg.size)
    /\ sound' = FALSE
    /\ UNCHANGED nbanks

(* The remainder gets a descriptor, which no other descriptor points to:   *)
(* what its next was is left in it.                                        *)
Split ==
    /\ Found /\ Shrunk > 0
    /\ ~ FreeWith(prev, 0) /\ ~ FreeWith(Here[block].next, 0)
    /\ IF NewBlocks(Here, i) = {}
       THEN blocks' = Here /\ Result(NULL, arg.size) /\ UNCHANGED <<regions, at, sound>>
       ELSE \E n \in NewBlocks(Here, i) :
            /\ blocks' = [Here EXCEPT ![n].type = "free", ![n].size = Shrunk,
                                      ![block].size = arg.size]
            /\ at' = [at EXCEPT ![n] = Add(bptr, arg.size)]
            /\ FreeSizeBecomes(Add(regions[i].free_size, Shrunk))
            /\ Result(bptr, arg.size)
            /\ sound' = FALSE
    /\ UNCHANGED nbanks

SameSize ==
    /\ Found /\ Grown = 0
    /\ blocks' = Here
    /\ Result(bptr, arg.size)
    /\ UNCHANGED <<regions, nbanks, at, sound>>

-----------------------------------------------------------------------------
(* Back from mem_alloc.  The contents are copied to the new place: on top  *)
(* of a descriptor table nothing is known of the heap from there on.       *)
Moved ==
    /\ pc = "alloc_return" /\ frame.doing = "move"
    /\ IF bptr = NULL THEN Result(NULL, arg.size) /\ UNCHANGED sound
       ELSE IF OverTable([ptr |-> bptr, size |-> frame.old.size])
       THEN Return("overwritten") /\ sound' = FALSE /\ UNCHANGED <<held, frame>>
       ELSE /\ Start("free", frame.old.ptr, frame.old.size)
            /\ frame' = [frame EXCEPT !.doing = "free",
                                      !.new = [ptr |-> bptr, size |-> arg.size]]
            /\ UNCHANGED <<held, sound>>
    /\ UNCHANGED memory

(* Back from mem_free.                                                     *)
OldFreed ==
    /\ pc = "idle" /\ frame.doing = "free"
    /\ Result(frame.new.ptr, frame.new.size)
    /\ UNCHANGED <<memory, sound>>

(* After a miss: what mem_alloc found is dropped, the result is NULL.      *)
Missed ==
    /\ pc = "alloc_return" /\ frame.doing = "miss"
    /\ Result(NULL, arg.size)
    /\ UNCHANGED <<memory, sound>>

-----------------------------------------------------------------------------
ReallocStep ==
    \/ ReallocRegion \/ ReallocWalk
    \/ TakeFromNext \/ TakeFromPrev \/ MoveElsewhere
    \/ GiveToPrev \/ GiveToNext \/ Split \/ SameSize
    \/ Moved \/ OldFreed \/ Missed

(* The steps of mem_alloc and mem_free, whoever called them.               *)
CalleeStep ==
    /\ AllocRegion \/ AllocBlock \/ FreeRegion \/ FreeBlock
    /\ UNCHANGED <<frame, sound>>

(* What happens while no mem_realloc is in progress.                       *)
DirectCall ==
    /\ frame = NoFrame
    /\ \/ NewRegion \/ MallocReturn
       \/ \E s \in Sizes : Malloc(s)
       \/ \E g \in held : Free(g)
    /\ UNCHANGED <<frame, sound>>

ReallocNext ==
    \/ DirectCall
    \/ \E g \in held, s \in Sizes : Realloc(g, s)
    \/ CalleeStep
    \/ ReallocStep

ReallocSpec == ReallocInit /\ [][ReallocNext]_reallocVars

(* One processor, no interrupts: as FairSpec of MemMaster.                 *)
ReallocFairSpec ==
    ReallocSpec /\ WF_reallocVars(CalleeStep \/ ReallocStep)

-----------------------------------------------------------------------------
(* Every variable keeps its type, also when the lists are broken.          *)
ReallocTypeOK ==
    /\ nbanks \in 0 .. Len(Banks) /\ regions \in [Slots -> Region] /\ blocks \in [BlockIds -> Block]
    /\ pc \in {"idle", "alloc", "alloc_walk", "alloc_return", "free", "free_walk",
               "realloc", "realloc_walk", "halted", "overwritten"}
    /\ i \in 1 .. MaxRegions + 1 /\ bptr \in Addrs
    /\ block \in BlockIds \cup {NIL} /\ prev \in BlockIds \cup {NIL}
    /\ arg \in Grant /\ held \subseteq Grant /\ at \in [BlockIds -> Addrs]
    /\ frame \in [doing : {"none", "resize", "move", "free", "miss"},
                  old : Grant, new : Grant]
    /\ sound \in BOOLEAN

(* The memory that is spoken for, a mem_realloc in progress included.      *)
Reserved ==
    Granted \cup (IF frame.doing \in {"resize", "move", "miss"} THEN {frame.old} ELSE {})
            \cup (IF frame.doing = "free" THEN {frame.new} ELSE {})

(* Whatever is grown, moved or shrunk into the first block, the used       *)
(* blocks are exactly the memory that is spoken for, each at its own       *)
(* address with its own size: a resized block can be found again by its    *)
(* pointer, what mem_realloc calls never releases a block of another       *)
(* client, and nothing is left behind that nobody can free.                *)
ReservedIsUsed ==
    sound =>
        /\ Reserved = {GrantOf(b) : b \in Used}
        /\ \A b, c \in Used : GrantOf(b) = GrantOf(c) => b = c

(* As long as all that shrinking gave went to the first block, no two      *)
(* pieces of memory overlap, and all lie in a bank.  After any other       *)
(* shrink (alloc.c:363, 371, 389) this may be false.                       *)
ReservedApart ==
    sound => \A g \in Reserved :
        /\ \E k \in 1 .. nbanks : Promise!Inside(g, Banks[k])
        /\ \A h \in Reserved \ {g} : Promise!Disjoint(g, h)

(* As long as all that shrinking gave went to the first block, free_size,  *)
(* of which mem_realloc takes and gives, stays covered by that block.  Any *)
(* other shrink credits free_size as well (alloc.c:364, 372, 390): from    *)
(* there on a region may promise more than its first block has.            *)
HeadCoveredWhileSound == sound => HeadCovers

(* realloc returns, unless the copy of the contents runs over the          *)
(* descriptors: also when shrinking has broken the lists.                  *)
ReallocReturns ==
    frame.doing # "none" ~> frame.doing = "none" \/ pc = "overwritten"

-----------------------------------------------------------------------------
(* The inductive invariant, for a single bank.                             *)

(* The call in progress is one that the activation of mem_realloc can be   *)
(* waiting for.                                                            *)
FrameOK ==
    CASE frame.doing = "none"   -> pc \notin {"realloc", "realloc_walk"}
      [] frame.doing = "resize" -> pc \in {"realloc", "realloc_walk"}
      [] frame.doing = "move"   -> pc \in {"alloc", "alloc_walk", "alloc_return"}
      [] frame.doing = "miss"   -> pc \in {"alloc", "alloc_return"}
      [] frame.doing = "free"   -> pc \in {"free", "free_walk", "idle"}

(* What mem_realloc was given belongs to no client until it returns, and   *)
(* neither mem_alloc nor mem_free has it for its own.                      *)
OldOK ==
    /\ frame.doing \in {"resize", "move", "miss"} => frame.old \notin held
    /\ frame.doing \in {"move", "miss"} /\ pc = "alloc_return" /\ bptr # NULL =>
          frame.old # [ptr |-> bptr, size |-> arg.size]
    /\ frame.doing = "free" /\ pc # "idle" => arg # frame.new

(* mem_realloc misses the block only if the region had too little          *)
(* free_size for the new size; then mem_alloc finds nothing either.        *)
MissOK ==
    /\ pc = "realloc" => \A r \in Slots : r < i => Passed(r, arg.size)
    /\ frame.doing = "miss" => /\ \A r \in Slots : Passed(r, arg.size)
                               /\ pc = "alloc_return" => bptr = NULL

(* mem_realloc has the address of its cursor right, and the block it looks *)
(* for is not behind it.                                                   *)
WalkOK ==
    /\ pc \in {"realloc", "realloc_walk"} => arg.size \in Sizes /\ arg.ptr = frame.old.ptr
    /\ pc = "realloc_walk" =>
         /\ i <= nbanks /\ arg.size <= regions[i].free_size
         /\ block \in Live(blocks) /\ block[1] = i /\ bptr = at[block]
         /\ prev # NIL => prev \in Live(blocks) /\ blocks[prev].next = block
         /\ \E t \in Used : GrantOf(t) = frame.old /\ at[t] >= bptr

(* In a walk i is a slot, whether or not the lists are broken.             *)
IndexOK == pc \in {"alloc_walk", "free_walk", "realloc_walk"} => i <= MaxRegions

ReallocInv ==
    /\ ReallocTypeOK /\ IndexOK
    /\ sound =>
         /\ Len(Banks) <= 1
         /\ RegionsOK /\ HeapOK(blocks, at, nbanks)
         /\ AllocOK /\ FreeOK
         /\ FrameOK /\ OldOK /\ MissOK /\ WalkOK
         /\ ReservedIsUsed
=============================================================================
