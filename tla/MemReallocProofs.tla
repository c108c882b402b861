--------------------------- MODULE MemReallocProofs ---------------------------
(***************************************************************************)
(* Proofs about realloc.  Types hold for every number and size of banks,   *)
(* also after shrinking has broken the lists.  The properties of runs that *)
(* are sound hold for every single bank.                                   *)
(***************************************************************************)
EXTENDS MemRealloc, MemSafetyProofs

USE DEF NULL

-----------------------------------------------------------------------------
(* Types.                                                                  *)

Frames == [doing : {"none", "resize", "move", "free", "miss"}, old : Grant, new : Grant]

MemoryTyped ==
    /\ nbanks \in 0 .. Len(Banks) /\ regions \in [Slots -> Region]
    /\ blocks \in [BlockIds -> Block] /\ at \in [BlockIds -> Addrs]

CallTyped ==
    /\ pc \in {"idle", "alloc", "alloc_walk", "alloc_return", "free", "free_walk",
               "realloc", "realloc_walk", "halted", "overwritten"}
    /\ i \in 1 .. MaxRegions + 1 /\ bptr \in Addrs
    /\ block \in BlockIds \cup {NIL} /\ prev \in BlockIds \cup {NIL}
    /\ arg \in Grant /\ held \subseteq Grant
    /\ frame \in Frames /\ sound \in BOOLEAN
    /\ IndexOK

Typed == MemoryTyped /\ CallTyped

LEMMA TypedIsTypeOK == Typed <=> ReallocTypeOK /\ IndexOK
BY DEF Typed, MemoryTyped, CallTyped, Frames, ReallocTypeOK

(* The constants, and the values a call starts and ends with.              *)
LEMMA ConstantFacts ==
    /\ MaxRegions \in Nat /\ MaxBlocks \in Nat /\ Word \in Nat /\ Word > 0
    /\ Len(Banks) \in Nat /\ Len(Banks) <= MaxRegions
    /\ NULL \in Addrs /\ NoGrant \in Grant /\ NoFrame \in Frames
    /\ 1 \in 1 .. MaxRegions + 1
    /\ \A s \in Sizes : s \in Addrs /\ s \in Nat /\ s > 0
    /\ \A a \in Addrs : a \in Nat /\ a < Word
<1>1. /\ MaxRegions \in Nat /\ MaxBlocks \in Nat /\ Word \in Nat /\ Word > 0
      /\ Len(Banks) \in Nat /\ Len(Banks) <= MaxRegions
  BY BanksAssumption
<1>2. NULL \in Addrs /\ 1 \in 1 .. MaxRegions + 1
  BY <1>1 DEF Addrs
<1>3. NoGrant \in Grant /\ NoFrame \in Frames
  <2>1. NoGrant \in Grant
    BY <1>2 DEF NoGrant, Grant
  <2> QED
    BY <2>1 DEF NoFrame, Frames
<1>4. \A s \in Sizes : s \in Addrs /\ s \in Nat /\ s > 0
  <2> TAKE s \in Sizes
  <2>1. s \in 1 .. Word - 1
    BY SizesAssumption
  <2> QED
    BY <2>1, <1>1 DEF Addrs
<1>5. \A a \in Addrs : a \in Nat /\ a < Word
  BY <1>1 DEF Addrs
<1> QED
  BY <1>1, <1>2, <1>3, <1>4, <1>5

(* mem_fix_block, and taking in a successor, leave a table of descriptors. *)
LEMMA MergedTyped ==
    ASSUME NEW bs \in [BlockIds -> Block], NEW b \in BlockIds, NEW n \in BlockIds
    PROVE  Merged(bs, b, n) \in [BlockIds -> Block]
<1>1. /\ bs[b].size \in Addrs /\ bs[n].size \in Addrs /\ bs[n].next \in BlockIds \cup {NIL}
  BY DEF Block
<1>2. Add(bs[b].size, bs[n].size) \in Addrs
  BY <1>1, ConstantFacts, NoWrap
<1>3. \A x \in Addrs, y \in BlockIds \cup {NIL} :
        [bs EXCEPT ![b].size = x, ![b].next = y, ![n].type = "absent"]
            \in [BlockIds -> Block]
  BY DEF Block
<1> QED
  BY <1>1, <1>2, <1>3 DEF Merged

LEMMA FixedTyped ==
    ASSUME NEW bs \in [BlockIds -> Block], NEW b \in BlockIds
    PROVE  Fixed(bs, b) \in [BlockIds -> Block]
<1>1. bs[b].next \in BlockIds \cup {NIL}
  BY DEF Block
<1> QED
  BY <1>1, MergedTyped DEF Fixed

(* The descriptors mem_new_block can return are in the table.              *)
LEMMA NewBlocksTyped ==
    ASSUME MemoryTyped, NEW bs \in [BlockIds -> Block], NEW r \in Slots,
           NEW n \in NewBlocks(bs, r)
    PROVE  n \in BlockIds /\ n[1] = r /\ bs[n].type = "absent"
<1>1. regions[r].max_blocks \in 0 .. MaxBlocks
  BY DEF MemoryTyped, Region
<1>2. n \in {r} \X (0 .. regions[r].max_blocks - 1) /\ bs[n].type = "absent"
  BY DEF NewBlocks, Table
<1>3. \A m \in 0 .. regions[r].max_blocks - 1 : m \in 0 .. MaxBlocks - 1
  BY <1>1, ConstantFacts
<1> QED
  BY <1>2, <1>3 DEF BlockIds

(* Bytes that change sides stay sizes.                                     *)
LEMMA ShiftedTyped ==
    ASSUME NEW bs \in [BlockIds -> Block], NEW b \in BlockIds, NEW c \in BlockIds,
           NEW n \in Nat, n <= bs[b].size
    PROVE  Shifted(bs, b, c, n) \in [BlockIds -> Block]
<1>1. bs[b].size \in Addrs /\ bs[c].size \in Addrs
  BY DEF Block
<1>2. bs[b].size - n \in Addrs /\ n \in Addrs
  BY <1>1, ConstantFacts DEF Addrs
<1>3. Add(bs[c].size, n) \in Addrs
  BY <1>1, <1>2, ConstantFacts, NoWrap
<1>4. \A x, y \in Addrs : [bs EXCEPT ![b].size = x, ![c].size = y] \in [BlockIds -> Block]
  BY DEF Block
<1> QED
  BY <1>2, <1>3, <1>4 DEF Shifted

LEMMA FreeSizeTyped ==
    ASSUME MemoryTyped, NEW n \in Addrs, FreeSizeBecomes(n)
    PROVE  regions' \in [Slots -> Region]
<1>1. \A x \in Addrs : \A r : [regions EXCEPT ![r].free_size = x] \in [Slots -> Region]
  BY DEF MemoryTyped, Region
<1> QED
  BY <1>1 DEF FreeSizeBecomes

(* A call that ends or begins leaves typed arguments.                      *)
LEMMA ReturnTyped ==
    ASSUME NEW p \in {"idle", "halted", "overwritten"}, Return(p),
           held' \subseteq Grant, frame' \in Frames, sound' \in BOOLEAN
    PROVE  CallTyped'
BY ConstantFacts DEF Return, CallTyped, IndexOK, NoGrant

LEMMA ResultTyped ==
    ASSUME CallTyped, NEW p \in Addrs, NEW s \in Addrs, Result(p, s), sound' \in BOOLEAN
    PROVE  CallTyped'
<1>1. frame.old \in Grant
  BY DEF CallTyped, Frames
<1>2. [ptr |-> p, size |-> s] \in Grant
  BY DEF Grant
<1>3. held' \subseteq Grant
  BY <1>1, <1>2 DEF Result, CallTyped
<1>4. frame' \in Frames /\ Return("idle")
  BY ConstantFacts DEF Result
<1> QED
  BY <1>3, <1>4, ReturnTyped

LEMMA StartTyped ==
    ASSUME CallTyped, NEW q \in {"alloc", "free", "realloc"}, NEW p \in Addrs, NEW s \in Addrs,
           Start(q, p, s), held' \subseteq Grant, frame' \in Frames, sound' \in BOOLEAN
    PROVE  CallTyped'
<1>1. [ptr |-> p, size |-> s] \in Grant
  BY DEF Grant
<1> QED
  BY <1>1, ConstantFacts DEF Start, CallTyped, IndexOK

LEMMA MemoryStays ==
    ASSUME MemoryTyped, UNCHANGED memory
    PROVE  MemoryTyped'
BY DEF MemoryTyped, memory

(* The steps of clients that do not call realloc.                          *)
LEMMA DirectTyped ==
    ASSUME Typed, DirectCall
    PROVE  Typed'
<1>1. CallTyped /\ MemoryTyped /\ frame' = frame /\ sound' = sound
  BY DEF Typed, DirectCall
<1>2. CASE NewRegion
  <2> DEFINE k == nbanks + 1
             bank == Banks[k]
  <2>1. k \in 1 .. Len(Banks) /\ nbanks' = k
    BY <1>1, <1>2, ConstantFacts DEF NewRegion, MemoryTyped
  <2>2. /\ bank.addr \in Addrs /\ bank.size \in Addrs /\ Usable(k) \in Addrs
        /\ TableLen(bank.size) \in 0 .. MaxBlocks
        /\ Sub(bank.size, TableBytes(bank.size)) = Usable(k)
    BY <2>1, NewBankFacts
  <2>3. PICK r \in Slots :
          /\ regions' = [regions EXCEPT ![r] =
                [addr |-> bank.addr, free_size |-> Usable(k), size |-> bank.size,
                 head |-> <<r, 0>>, max_blocks |-> TableLen(bank.size)]]
          /\ blocks' = Genesis(blocks, r, Usable(k))
          /\ at' = [at EXCEPT ![<<r, 0>>] = bank.addr]
    BY <1>2, <2>2 DEF NewRegion
  <2>4. <<r, 0>> \in BlockIds
    <3>1. TableLen(bank.size) \in 1 .. MaxBlocks
      BY <2>1, BankFacts
    <3>2. 0 \in 0 .. MaxBlocks - 1
      BY <3>1, ConstantFacts
    <3> QED
      BY <3>2, ConstantFacts DEF BlockIds
  <2>5. regions' \in [Slots -> Region]
    <3>1. [addr |-> bank.addr, free_size |-> Usable(k), size |-> bank.size,
           head |-> <<r, 0>>, max_blocks |-> TableLen(bank.size)] \in Region
      BY <2>2, <2>4 DEF Region
    <3> QED
      BY <1>1, <2>3, <3>1 DEF MemoryTyped
  <2>6. blocks' \in [BlockIds -> Block]
    <3>1. \A b \in BlockIds : [blocks[b] EXCEPT !.type = "absent"] \in Block
      BY <1>1 DEF MemoryTyped, Block
    <3>2. [next |-> NIL, size |-> Usable(k), type |-> "free"] \in Block
      BY <2>2 DEF Block
    <3> QED
      BY <1>1, <2>3, <3>1, <3>2 DEF Genesis, MemoryTyped
  <2>7. at' \in [BlockIds -> Addrs]
    BY <1>1, <2>2, <2>3 DEF MemoryTyped
  <2>8. MemoryTyped'
    BY <2>1, <2>5, <2>6, <2>7, ConstantFacts DEF MemoryTyped
  <2>9. CallTyped'
    BY <1>1, <1>2 DEF NewRegion, call, CallTyped, IndexOK
  <2> QED
    BY <2>8, <2>9 DEF Typed
<1>3. CASE MallocReturn
  <2>1. MemoryTyped'
    BY <1>1, <1>3, MemoryStays DEF MallocReturn
  <2>2. [ptr |-> bptr, size |-> arg.size] \in Grant
    BY <1>1 DEF CallTyped, Grant
  <2>3. held' \subseteq Grant /\ \E p \in {"idle", "halted"} : Return(p)
    BY <1>1, <1>3, <2>2 DEF MallocReturn, CallTyped
  <2>4. CallTyped'
    BY <1>1, <2>3, ReturnTyped DEF CallTyped
  <2> QED
    BY <2>1, <2>4 DEF Typed
<1>4. ASSUME NEW s \in Sizes, Malloc(s) PROVE Typed'
  <2>1. MemoryTyped'
    BY <1>1, <1>4, MemoryStays DEF Malloc, memory
  <2>2. Start("alloc", NULL, s) /\ held' = held
    BY <1>4 DEF Malloc
  <2>3. CallTyped'
    BY <1>1, <2>2, ConstantFacts, StartTyped DEF CallTyped
  <2> QED
    BY <2>1, <2>3 DEF Typed
<1>5. ASSUME NEW g \in held, Free(g) PROVE Typed'
  <2>1. MemoryTyped'
    BY <1>1, <1>5, MemoryStays DEF Free
  <2>2. Start("free", g.ptr, g.size) /\ held' = held \ {g}
    BY <1>5 DEF Free
  <2>3. g.ptr \in Addrs /\ g.size \in Addrs
    BY <1>1 DEF CallTyped, Grant
  <2>4. CallTyped'
    BY <1>1, <2>2, <2>3, StartTyped DEF CallTyped
  <2> QED
    BY <2>1, <2>4 DEF Typed
<1> QED
  BY <1>2, <1>3, <1>4, <1>5 DEF DirectCall

(* The steps of mem_alloc and mem_free.                                    *)
LEMMA CalleeTyped ==
    ASSUME Typed, CalleeStep
    PROVE  Typed'
<1>1. CallTyped /\ MemoryTyped /\ frame' = frame /\ sound' = sound
  BY DEF Typed, CalleeStep
<1>2. /\ i \in 1 .. MaxRegions + 1 /\ block \in BlockIds \cup {NIL}
      /\ bptr \in Addrs /\ arg.size \in Addrs /\ arg \in Grant /\ MaxRegions \in Nat
      /\ blocks \in [BlockIds -> Block] /\ at \in [BlockIds -> Addrs]
      /\ \A r \in Slots : /\ regions[r].head \in BlockIds \cup {NIL}
                          /\ regions[r].addr \in Addrs /\ regions[r].free_size \in Addrs
  BY <1>1, ConstantFacts DEF CallTyped, MemoryTyped, Grant, Region
<1>3. CASE AllocRegion
  <2>1. MemoryTyped'
    BY <1>1, <1>3, MemoryStays DEF AllocRegion
  <2>2. CASE i > MaxRegions
    BY <1>1, <1>2, <1>3, <2>1, <2>2, ConstantFacts DEF AllocRegion, Typed, CallTyped, IndexOK
  <2>3. CASE i <= MaxRegions
    <3>1. i \in Slots /\ i + 1 \in 1 .. MaxRegions + 1
      BY <1>2, <2>3 DEF Slots
    <3> QED
      BY <1>1, <1>2, <1>3, <2>1, <2>3, <3>1 DEF AllocRegion, Typed, CallTyped, IndexOK
  <2> QED
    BY <1>2, <2>2, <2>3
<1>4. CASE FreeRegion
  <2>1. MemoryTyped'
    BY <1>1, <1>4, MemoryStays DEF FreeRegion
  <2>2. CASE i > MaxRegions
    <3>1. Return("idle") /\ held' = held
      BY <1>2, <1>4, <2>2 DEF FreeRegion
    <3> QED
      BY <1>1, <2>1, <3>1, ReturnTyped DEF Typed, CallTyped
  <2>3. CASE i <= MaxRegions
    <3>1. i \in Slots
      BY <1>2, <2>3 DEF Slots
    <3> QED
      BY <1>1, <1>2, <1>4, <2>1, <2>3, <3>1 DEF FreeRegion, Typed, CallTyped, IndexOK
  <2> QED
    BY <1>2, <2>2, <2>3
<1>5. CASE AllocBlock
  <2>1. pc = "alloc_walk" /\ i \in Slots /\ i + 1 \in 1 .. MaxRegions + 1
    BY <1>1, <1>2, <1>5 DEF AllocBlock, CallTyped, IndexOK, Slots
  <2>2. nbanks' = nbanks /\ prev' = prev /\ arg' = arg /\ held' = held
    BY <1>5 DEF AllocBlock
  <2>3. CASE block = NIL
    BY <1>1, <1>5, <2>1, <2>2, <2>3
       DEF AllocBlock, Typed, MemoryTyped, CallTyped, IndexOK
  <2>4. CASE block # NIL
    <3> DEFINE fs == Fixed(blocks, block)
    <3>1. block \in BlockIds /\ fs \in [BlockIds -> Block]
      BY <1>2, <2>4, FixedTyped
    <3>2. fs[block].size \in Addrs /\ fs[block].next \in BlockIds \cup {NIL}
      BY <3>1 DEF Block
    <3>3. /\ Add(bptr, fs[block].size) \in Addrs
          /\ Sub(fs[block].size, arg.size) \in Addrs
          /\ Sub(regions[i].free_size, arg.size) \in Addrs
          /\ Add(bptr, Sub(fs[block].size, arg.size)) \in Addrs
      <4>1. \A a, b \in Addrs : Add(a, b) \in Addrs /\ Sub(a, b) \in Addrs
        BY ConstantFacts, NoWrap
      <4> QED
        BY <1>2, <2>1, <3>2, <4>1
    <3> HIDE DEF fs
    <3>4. CASE fs[block].type # "free" /\ ~ (fs[block].size >= arg.size)
      <4>1. /\ blocks' = fs /\ bptr' = Add(bptr, fs[block].size)
            /\ block' = fs[block].next /\ regions' = regions /\ at' = at
            /\ pc' = pc /\ i' = i
        BY <1>5, <2>4, <3>4 DEF AllocBlock, fs
      <4> QED
        BY <1>1, <2>1, <2>2, <3>1, <3>2, <3>3, <4>1
           DEF Typed, MemoryTyped, CallTyped, IndexOK
    <3>5. CASE /\ ~ (fs[block].type # "free" /\ ~ (fs[block].size >= arg.size))
               /\ NewBlocks(fs, i) = {}
      <4>1. /\ blocks' = fs /\ bptr' = NULL /\ pc' = "alloc_return"
            /\ block' = block /\ regions' = regions /\ at' = at /\ i' = i
        BY <1>5, <2>4, <3>5 DEF AllocBlock, fs
      <4> QED
        BY <1>1, <2>1, <2>2, <3>1, <4>1, ConstantFacts
           DEF Typed, MemoryTyped, CallTyped, IndexOK
    <3>6. CASE /\ ~ (fs[block].type # "free" /\ ~ (fs[block].size >= arg.size))
               /\ NewBlocks(fs, i) # {}
      <4>1. PICK n \in NewBlocks(fs, i) :
              /\ blocks' = Carved(fs, block, n, arg.size)
              /\ regions' = [regions EXCEPT ![i].free_size = Sub(@, arg.size)]
              /\ bptr' = Add(bptr, Sub(fs[block].size, arg.size))
              /\ at' = [at EXCEPT ![n] = Add(bptr, Sub(fs[block].size, arg.size))]
              /\ pc' = "alloc_return" /\ i' = i /\ block' = block
        BY <1>5, <2>4, <3>6 DEF AllocBlock, fs
      <4>2. n \in BlockIds
        BY <1>1, <2>1, <3>1, NewBlocksTyped
      <4>3. Carved(fs, block, n, arg.size) \in [BlockIds -> Block]
        <5>0. /\ \A x \in Addrs, y \in BlockIds \cup {NIL} :
                    [fs EXCEPT ![n] = [next |-> y, size |-> x, type |-> "used"]]
                        \in [BlockIds -> Block]
              /\ \A gs \in [BlockIds -> Block], z \in Addrs :
                    [gs EXCEPT ![block].next = n, ![block].size = z]
                        \in [BlockIds -> Block]
          BY <3>1, <4>2 DEF Block
        <5>1. \A z, x \in Addrs, y \in BlockIds \cup {NIL} :
                [fs EXCEPT ![n] = [next |-> y, size |-> x, type |-> "used"],
                           ![block].next = n, ![block].size = z]
                    \in [BlockIds -> Block]
          BY <5>0
        <5> QED
          BY <1>2, <3>2, <3>3, <5>1 DEF Carved
      <4>4. regions' \in [Slots -> Region]
        <5>1. \A x \in Addrs : [regions EXCEPT ![i].free_size = x] \in [Slots -> Region]
          BY <1>1 DEF MemoryTyped, Region
        <5> QED
          BY <3>3, <4>1, <5>1
      <4>5. at' \in [BlockIds -> Addrs]
        BY <1>2, <3>3, <4>1
      <4> QED
        BY <1>1, <2>1, <2>2, <3>3, <4>1, <4>3, <4>4, <4>5
           DEF Typed, MemoryTyped, CallTyped, IndexOK
    <3> QED
      BY <3>4, <3>5, <3>6
  <2> QED
    BY <2>3, <2>4
<1>6. CASE FreeBlock
  <2>1. pc = "free_walk" /\ i \in Slots /\ i + 1 \in 1 .. MaxRegions + 1
    BY <1>1, <1>2, <1>6 DEF FreeBlock, CallTyped, IndexOK, Slots
  <2>2. regions' = regions /\ nbanks' = nbanks /\ held' = held /\ at' = at
    BY <1>6 DEF FreeBlock
  <2>3. CASE block = NIL
    BY <1>1, <1>6, <2>1, <2>2, <2>3
       DEF FreeBlock, Typed, MemoryTyped, CallTyped, IndexOK
  <2>4. CASE block # NIL
    <3> DEFINE fs == Fixed(blocks, block)
    <3>1. block \in BlockIds /\ fs \in [BlockIds -> Block]
      BY <1>2, <2>4, FixedTyped
    <3>2. fs[block].size \in Addrs /\ fs[block].next \in BlockIds \cup {NIL}
      BY <3>1 DEF Block
    <3>3. Add(bptr, fs[block].size) \in Addrs
      BY <1>2, <3>2, ConstantFacts, NoWrap
    <3> HIDE DEF fs
    <3>4. CASE Matches(fs[block], bptr, arg.ptr)
      <4>1. blocks' = Released(fs, block, prev) /\ Return("idle")
        BY <1>6, <2>4, <3>4 DEF FreeBlock, fs
      <4>2. prev # NIL => prev \in BlockIds
        BY <1>1 DEF CallTyped
      <4>3. [fs EXCEPT ![block].type = "free"] \in [BlockIds -> Block]
        BY <3>1 DEF Block
      <4>4. blocks' \in [BlockIds -> Block]
        BY <3>1, <4>1, <4>2, <4>3, MergedTyped DEF Released
      <4>5. CallTyped'
        BY <1>1, <2>2, <4>1, ReturnTyped DEF CallTyped
      <4> QED
        BY <1>1, <2>2, <4>4, <4>5 DEF Typed, MemoryTyped
    <3>5. CASE ~ Matches(fs[block], bptr, arg.ptr)
      <4>1. /\ blocks' = fs /\ bptr' = Add(bptr, fs[block].size)
            /\ prev' = block /\ block' = fs[block].next
            /\ pc' = pc /\ i' = i /\ arg' = arg
        BY <1>6, <2>4, <3>5 DEF FreeBlock, fs
      <4> QED
        BY <1>1, <2>1, <2>2, <3>1, <3>2, <3>3, <4>1
           DEF Typed, MemoryTyped, CallTyped, IndexOK
    <3> QED
      BY <3>4, <3>5
  <2> QED
    BY <2>3, <2>4
<1> QED
  BY <1>3, <1>4, <1>5, <1>6 DEF CalleeStep

(* Where the cursor is when mem_realloc has found its block.               *)
LEMMA HereTyped ==
    ASSUME Typed, pc = "realloc_walk", block # NIL
    PROVE  /\ i \in Slots /\ i + 1 \in 1 .. MaxRegions + 1
           /\ block \in BlockIds /\ Here \in [BlockIds -> Block]
           /\ Here[block].size \in Nat /\ Here[block].size \in Addrs
           /\ Here[block].next \in BlockIds \cup {NIL}
           /\ arg.size \in Nat /\ arg.size \in Addrs /\ bptr \in Addrs
           /\ regions[i].free_size \in Addrs
           /\ Grown \in Int /\ Shrunk \in Int
           /\ Grown > 0 => Grown \in Addrs
           /\ Shrunk > 0 => Shrunk \in Addrs /\ Shrunk <= Here[block].size
<1>1. /\ i \in 1 .. MaxRegions + 1 /\ i <= MaxRegions /\ MaxRegions \in Nat
      /\ block \in BlockIds /\ blocks \in [BlockIds -> Block]
      /\ arg.size \in Addrs /\ bptr \in Addrs
  BY ConstantFacts DEF Typed, MemoryTyped, CallTyped, IndexOK, Grant
<1>2. i \in Slots /\ i + 1 \in 1 .. MaxRegions + 1
  BY <1>1 DEF Slots
<1>3. Here \in [BlockIds -> Block]
  BY <1>1, FixedTyped DEF Here
<1>4. Here[block].size \in Addrs /\ Here[block].next \in BlockIds \cup {NIL}
  BY <1>1, <1>3 DEF Block
<1>5. regions[i].free_size \in Addrs
  BY <1>2 DEF Typed, MemoryTyped, Region
<1>6. \A x, y \in Addrs :
        /\ x \in Nat /\ x - y \in Int
        /\ x - y > 0 => x - y \in Addrs /\ x - y <= x
  BY ConstantFacts DEF Addrs
<1> QED
  BY <1>1, <1>2, <1>3, <1>4, <1>5, <1>6 DEF Grown, Shrunk

(* Moving n bytes between the found block and a neighbour.                 *)
LEMMA ResizedTyped ==
    ASSUME Typed, pc = "realloc_walk", block # NIL,
           NEW b \in BlockIds, NEW c \in BlockIds, NEW n \in Addrs, NEW p \in Addrs,
           NEW t \in BlockIds, NEW a \in Addrs, NEW f \in Addrs,
           n <= Here[b].size,
           blocks' = Shifted(Here, b, c, n), at' = [at EXCEPT ![t] = a],
           FreeSizeBecomes(f), Result(p, arg.size), nbanks' = nbanks, sound' \in BOOLEAN
    PROVE  Typed'
<1>1. MemoryTyped /\ CallTyped
  BY DEF Typed
<1>2. Here \in [BlockIds -> Block] /\ arg.size \in Addrs /\ n \in Nat
  BY HereTyped, ConstantFacts
<1>3. blocks' \in [BlockIds -> Block]
  BY <1>2, ShiftedTyped
<1>4. regions' \in [Slots -> Region]
  BY <1>1, FreeSizeTyped
<1>5. at' \in [BlockIds -> Addrs]
  BY <1>1 DEF MemoryTyped
<1>6. CallTyped'
  BY <1>1, <1>2, ResultTyped
<1> QED
  BY <1>1, <1>3, <1>4, <1>5, <1>6 DEF Typed, MemoryTyped

LEMMA ReallocStepTyped ==
    ASSUME Typed, ReallocStep
    PROVE  Typed'
<1>1. MemoryTyped /\ CallTyped
  BY DEF Typed
<1>2. /\ i \in 1 .. MaxRegions + 1 /\ MaxRegions \in Nat
      /\ block \in BlockIds \cup {NIL} /\ prev \in BlockIds \cup {NIL}
      /\ arg \in Grant /\ arg.size \in Addrs /\ bptr \in Addrs /\ held \subseteq Grant
      /\ frame \in Frames /\ frame.old \in Grant /\ frame.new \in Grant
      /\ frame.old.ptr \in Addrs /\ frame.old.size \in Addrs
      /\ frame.new.ptr \in Addrs /\ frame.new.size \in Addrs
      /\ sound \in BOOLEAN /\ NULL \in Addrs
      /\ at \in [BlockIds -> Addrs] /\ \A b \in BlockIds : at[b] \in Addrs
      /\ \A a, b \in Addrs : Add(a, b) \in Addrs /\ Sub(a, b) \in Addrs
  <2>1. frame.old \in Grant /\ frame.new \in Grant /\ arg \in Grant
    BY <1>1 DEF CallTyped, Frames
  <2>2. \A g \in Grant : g.ptr \in Addrs /\ g.size \in Addrs
    BY DEF Grant
  <2>3. \A a, b \in Addrs : Add(a, b) \in Addrs /\ Sub(a, b) \in Addrs
    BY ConstantFacts, NoWrap
  <2> QED
    BY <1>1, <2>1, <2>2, <2>3, ConstantFacts DEF MemoryTyped, CallTyped
<1>3. ASSUME NEW d \in {"move", "miss", "free"}, NEW g \in Grant
      PROVE  [frame EXCEPT !.doing = d] \in Frames /\
             [frame EXCEPT !.doing = d, !.new = g] \in Frames
  BY <1>2 DEF Frames
<1>4. CASE ReallocRegion
  <2>1. MemoryTyped' /\ held' = held /\ sound' = sound
    BY <1>1, <1>4, MemoryStays DEF ReallocRegion
  <2>2. CASE i > MaxRegions
    <3>1. Start("alloc", NULL, arg.size) /\ frame' = [frame EXCEPT !.doing = "miss"]
      BY <1>4, <2>2 DEF ReallocRegion
    <3>2. CallTyped'
      BY <1>1, <1>2, <1>3, <2>1, <3>1, StartTyped
    <3> QED
      BY <2>1, <3>2 DEF Typed
  <2>3. CASE i <= MaxRegions /\ Passed(i, arg.size)
    <3>1. /\ i' = i + 1 /\ pc' = "realloc" /\ block' = block /\ prev' = prev
          /\ bptr' = bptr /\ arg' = arg /\ frame' = frame
      BY <1>2, <1>4, <2>3 DEF ReallocRegion
    <3>2. i + 1 \in 1 .. MaxRegions + 1
      BY <1>2, <2>3
    <3> QED
      BY <1>1, <2>1, <3>1, <3>2 DEF Typed, CallTyped, IndexOK
  <2>4. CASE i <= MaxRegions /\ ~ Passed(i, arg.size)
    <3>1. /\ pc' = "realloc_walk" /\ block' = regions[i].head
          /\ bptr' = regions[i].addr /\ prev' = NIL
          /\ i' = i /\ arg' = arg /\ frame' = frame
      BY <1>2, <1>4, <2>4 DEF ReallocRegion
    <3>2. i \in Slots
      BY <1>2, <2>4 DEF Slots
    <3>3. regions[i].head \in BlockIds \cup {NIL} /\ regions[i].addr \in Addrs
      BY <1>1, <3>2 DEF MemoryTyped, Region
    <3> QED
      BY <1>1, <2>1, <2>4, <3>1, <3>3 DEF Typed, CallTyped, IndexOK
  <2> QED
    BY <1>2, <2>2, <2>3, <2>4
<1>5. CASE ReallocWalk
  <2>1. /\ regions' = regions /\ nbanks' = nbanks /\ at' = at /\ arg' = arg
        /\ held' = held /\ frame' = frame /\ sound' = sound /\ pc = "realloc_walk"
    BY <1>5 DEF ReallocWalk
  <2>2. CASE block = NIL
    <3>1. /\ pc' = "realloc" /\ i' = i + 1 /\ blocks' = blocks
          /\ block' = block /\ bptr' = bptr /\ prev' = prev
      BY <1>5, <2>2 DEF ReallocWalk
    <3>2. i + 1 \in 1 .. MaxRegions + 1
      BY <1>1, <1>2, <2>1 DEF CallTyped, IndexOK
    <3> QED
      BY <1>1, <2>1, <3>1, <3>2 DEF Typed, MemoryTyped, CallTyped, IndexOK
  <2>3. CASE block # NIL
    <3>1. /\ blocks' = Here /\ bptr' = Add(bptr, Here[block].size)
          /\ prev' = block /\ block' = Here[block].next /\ pc' = pc /\ i' = i
      BY <1>5, <2>3 DEF ReallocWalk
    <3>2. /\ Here \in [BlockIds -> Block] /\ Here[block].next \in BlockIds \cup {NIL}
          /\ Here[block].size \in Addrs
      BY <2>1, <2>3, HereTyped
    <3> QED
      BY <1>1, <1>2, <2>1, <3>1, <3>2 DEF Typed, MemoryTyped, CallTyped, IndexOK
  <2> QED
    BY <2>2, <2>3
<1>6. CASE ReallocRegion \/ ReallocWalk
  BY <1>4, <1>5, <1>6
<1>7. ASSUME Found
      PROVE  /\ pc = "realloc_walk" /\ block # NIL /\ block \in BlockIds
             /\ i \in Slots /\ Here \in [BlockIds -> Block]
             /\ Here[block].size \in Nat /\ Here[block].next \in BlockIds \cup {NIL}
             /\ regions[i].free_size \in Addrs
             /\ Grown > 0 => Grown \in Addrs
             /\ Shrunk > 0 => Shrunk \in Addrs /\ Shrunk <= Here[block].size
  BY <1>7, HereTyped DEF Found
<1>8. CASE TakeFromNext
  <2> DEFINE n == Here[block].next
             a == Add(at[n], Grown)
             f == Sub(regions[i].free_size, Grown)
  <2>1. Found /\ Grown > 0 /\ n # NIL /\ Here[n].size >= Grown
    BY <1>8 DEF TakeFromNext, FreeWith
  <2>2. n \in BlockIds /\ Grown \in Addrs /\ a \in Addrs /\ f \in Addrs
    BY <1>2, <1>7, <2>1
  <2>3. Grown <= Here[n].size
    <3>1. Here[n].size \in Nat /\ Grown \in Nat
      BY <1>7, <2>1, <2>2, ConstantFacts DEF Block
    <3> QED
      BY <2>1, <3>1
  <2>4. /\ blocks' = Shifted(Here, n, block, Grown) /\ at' = [at EXCEPT ![n] = a]
        /\ FreeSizeBecomes(f) /\ Result(bptr, arg.size)
        /\ nbanks' = nbanks /\ sound' \in BOOLEAN
    BY <1>2, <1>8 DEF TakeFromNext
  <2> HIDE DEF n, a, f
  <2> QED
    BY <1>2, <1>7, <2>1, <2>2, <2>3, <2>4, ResizedTyped
<1>9. CASE TakeFromPrev
  <2> DEFINE a == Sub(at[block], Grown)
             f == Sub(regions[i].free_size, Grown)
             p == Sub(bptr, Grown)
  <2>1. Found /\ Grown > 0 /\ prev # NIL /\ Here[prev].size >= Grown
    BY <1>9 DEF TakeFromPrev, FreeWith
  <2>2. prev \in BlockIds /\ Grown \in Addrs /\ a \in Addrs /\ f \in Addrs /\ p \in Addrs
    BY <1>2, <1>7, <2>1
  <2>3. Grown <= Here[prev].size
    <3>1. Here[prev].size \in Nat /\ Grown \in Nat
      BY <1>7, <2>1, <2>2, ConstantFacts DEF Block
    <3> QED
      BY <2>1, <3>1
  <2>4. /\ blocks' = Shifted(Here, prev, block, Grown) /\ at' = [at EXCEPT ![block] = a]
        /\ FreeSizeBecomes(f) /\ Result(p, arg.size)
        /\ nbanks' = nbanks /\ sound' \in BOOLEAN
    BY <1>2, <1>9 DEF TakeFromPrev
  <2> HIDE DEF a, f, p
  <2> QED
    BY <1>7, <2>1, <2>2, <2>3, <2>4, ResizedTyped
<1>10. CASE GiveToPrev
  <2> DEFINE a == Add(at[block], Shrunk)
             f == Add(regions[i].free_size, Shrunk)
             p == Add(bptr, Shrunk)
  <2>1. Found /\ Shrunk > 0 /\ prev # NIL
    BY <1>10 DEF GiveToPrev, FreeWith
  <2>2. /\ prev \in BlockIds /\ Shrunk \in Addrs /\ Shrunk <= Here[block].size
        /\ a \in Addrs /\ f \in Addrs /\ p \in Addrs
    BY <1>2, <1>7, <2>1
  <2>3. /\ blocks' = Shifted(Here, block, prev, Shrunk) /\ at' = [at EXCEPT ![block] = a]
        /\ FreeSizeBecomes(f) /\ Result(p, arg.size)
        /\ nbanks' = nbanks /\ sound' \in BOOLEAN
    BY <1>2, <1>10 DEF GiveToPrev
  <2> HIDE DEF a, f, p
  <2> QED
    BY <1>7, <2>1, <2>2, <2>3, ResizedTyped
<1>11. CASE GiveToNext
  <2> DEFINE n == Here[block].next
             a == Sub(at[n], Shrunk)
             f == Add(regions[i].free_size, Shrunk)
  <2>1. Found /\ Shrunk > 0 /\ n # NIL
    BY <1>11 DEF GiveToNext, FreeWith
  <2>2. /\ n \in BlockIds /\ Shrunk \in Addrs /\ Shrunk <= Here[block].size
        /\ a \in Addrs /\ f \in Addrs
    BY <1>2, <1>7, <2>1
  <2>3. /\ blocks' = Shifted(Here, block, n, Shrunk) /\ at' = [at EXCEPT ![n] = a]
        /\ FreeSizeBecomes(f) /\ Result(bptr, arg.size)
        /\ nbanks' = nbanks /\ sound' \in BOOLEAN
    BY <1>2, <1>11 DEF GiveToNext
  <2> HIDE DEF n, a, f
  <2> QED
    BY <1>2, <1>7, <2>1, <2>2, <2>3, ResizedTyped
<1>12. CASE Split
  <2>1. Found /\ Shrunk > 0 /\ nbanks' = nbanks
    BY <1>12 DEF Split
  <2>2. CASE NewBlocks(Here, i) = {}
    <3>1. /\ blocks' = Here /\ Result(NULL, arg.size)
          /\ regions' = regions /\ at' = at /\ sound' = sound
      BY <1>12, <2>2 DEF Split
    <3>2. CallTyped'
      BY <1>1, <1>2, <3>1, ResultTyped
    <3> QED
      BY <1>1, <1>7, <2>1, <3>1, <3>2 DEF Typed, MemoryTyped
  <2>3. CASE NewBlocks(Here, i) # {}
    <3>1. PICK n \in NewBlocks(Here, i) :
            /\ blocks' = [Here EXCEPT ![n].type = "free", ![n].size = Shrunk,
                                      ![block].size = arg.size]
            /\ at' = [at EXCEPT ![n] = Add(bptr, arg.size)]
            /\ FreeSizeBecomes(Add(regions[i].free_size, Shrunk))
            /\ Result(bptr, arg.size)
            /\ sound' = FALSE
      BY <1>12, <2>3 DEF Split
    <3>2. n \in BlockIds
      BY <1>1, <1>7, <2>1, NewBlocksTyped
    <3>3. blocks' \in [BlockIds -> Block]
      <4>1. \A x, y \in Addrs :
              [Here EXCEPT ![n].type = "free", ![n].size = x, ![block].size = y]
                  \in [BlockIds -> Block]
        BY <1>7, <2>1, <3>2 DEF Block
      <4> QED
        BY <1>2, <1>7, <2>1, <3>1, <4>1
    <3>4. at' \in [BlockIds -> Addrs]
      BY <1>2, <3>1
    <3>5. regions' \in [Slots -> Region]
      BY <1>1, <1>2, <1>7, <2>1, <3>1, FreeSizeTyped
    <3>6. CallTyped'
      BY <1>1, <1>2, <3>1, ResultTyped
    <3> QED
      BY <1>1, <2>1, <3>3, <3>4, <3>5, <3>6 DEF Typed, MemoryTyped
  <2> QED
    BY <2>2, <2>3
<1>13. CASE SameSize
  <2>1. Found /\ blocks' = Here /\ Result(bptr, arg.size) /\ sound' = sound
    BY <1>13 DEF SameSize
  <2>2. CallTyped'
    BY <1>1, <1>2, <2>1, ResultTyped
  <2> QED
    BY <1>1, <1>7, <1>13, <2>1, <2>2 DEF SameSize, Typed, MemoryTyped
<1>14. CASE MoveElsewhere
  <2>1. /\ Found /\ blocks' = Here /\ Start("alloc", NULL, arg.size)
        /\ frame' = [frame EXCEPT !.doing = "move"] /\ held' = held /\ sound' = sound
    BY <1>14 DEF MoveElsewhere
  <2>2. CallTyped'
    BY <1>1, <1>2, <1>3, <2>1, StartTyped
  <2> QED
    BY <1>1, <1>7, <1>14, <2>1, <2>2 DEF MoveElsewhere, Typed, MemoryTyped
<1>15. CASE Moved
  <2>1. MemoryTyped'
    BY <1>1, <1>15, MemoryStays DEF Moved
  <2>2. CASE bptr = NULL
    <3>1. Result(NULL, arg.size) /\ sound' = sound
      BY <1>15, <2>2 DEF Moved
    <3> QED
      BY <1>1, <1>2, <2>1, <3>1, ResultTyped DEF Typed
  <2>3. CASE bptr # NULL /\ OverTable([ptr |-> bptr, size |-> frame.old.size])
    <3>1. Return("overwritten") /\ sound' = FALSE /\ held' = held /\ frame' = frame
      BY <1>15, <2>3 DEF Moved
    <3> QED
      BY <1>2, <2>1, <3>1, ReturnTyped DEF Typed
  <2>4. CASE bptr # NULL /\ ~ OverTable([ptr |-> bptr, size |-> frame.old.size])
    <3>1. /\ Start("free", frame.old.ptr, frame.old.size)
          /\ frame' = [frame EXCEPT !.doing = "free",
                                    !.new = [ptr |-> bptr, size |-> arg.size]]
          /\ held' = held /\ sound' = sound
      BY <1>15, <2>4 DEF Moved
    <3>2. [ptr |-> bptr, size |-> arg.size] \in Grant
      BY <1>2 DEF Grant
    <3>3. frame' \in Frames
      BY <1>3, <3>1, <3>2
    <3>4. CallTyped'
      BY <1>1, <1>2, <3>1, <3>3, StartTyped
    <3> QED
      BY <2>1, <3>4 DEF Typed
  <2> QED
    BY <2>2, <2>3, <2>4
<1>16. CASE OldFreed
  <2>1. MemoryTyped' /\ Result(frame.new.ptr, frame.new.size) /\ sound' = sound
    BY <1>1, <1>16, MemoryStays DEF OldFreed
  <2> QED
    BY <1>1, <1>2, <2>1, ResultTyped DEF Typed
<1>17. CASE Missed
  <2>1. MemoryTyped' /\ Result(NULL, arg.size) /\ sound' = sound
    BY <1>1, <1>17, MemoryStays DEF Missed
  <2> QED
    BY <1>1, <1>2, <2>1, ResultTyped DEF Typed
<1> QED
  BY <1>4, <1>5, <1>8, <1>9, <1>10, <1>11, <1>12, <1>13, <1>14, <1>15, <1>16, <1>17
     DEF ReallocStep

LEMMA ReallocTyped ==
    ASSUME Typed, NEW g \in held, NEW s \in Sizes, Realloc(g, s)
    PROVE  Typed'
<1>1. MemoryTyped /\ CallTyped
  BY DEF Typed
<1>2. MemoryTyped'
  BY <1>1, MemoryStays DEF Realloc
<1>3. /\ Start("realloc", g.ptr, s) /\ held' = held \ {g} /\ sound' = sound
      /\ frame' = [doing |-> "resize", old |-> g, new |-> NoGrant]
  BY DEF Realloc
<1>4. g \in Grant /\ g.ptr \in Addrs /\ s \in Addrs
  BY <1>1, ConstantFacts DEF CallTyped, Grant
<1>5. frame' \in Frames
  BY <1>3, <1>4, ConstantFacts DEF Frames
<1>6. CallTyped'
  BY <1>1, <1>3, <1>4, <1>5, StartTyped DEF CallTyped
<1> QED
  BY <1>2, <1>6 DEF Typed

LEMMA InitTyped == ReallocInit => Typed
<1> SUFFICES ASSUME ReallocInit PROVE Typed
  OBVIOUS
<1>1. MemoryTyped
  <2>1. [addr |-> NULL, free_size |-> 0, size |-> 0, head |-> NIL, max_blocks |-> 0] \in Region
    BY ConstantFacts DEF Region
  <2>2. [next |-> NIL, size |-> 0, type |-> "absent"] \in Block
    BY ConstantFacts DEF Block
  <2> QED
    BY <2>1, <2>2, ConstantFacts DEF ReallocInit, Init, MemoryTyped
<1>2. CallTyped
  BY ConstantFacts DEF ReallocInit, Init, CallTyped, IndexOK, NoGrant
<1> QED
  BY <1>1, <1>2 DEF Typed

LEMMA NextTyped == Typed /\ [ReallocNext]_reallocVars => Typed'
<1> SUFFICES ASSUME Typed, [ReallocNext]_reallocVars PROVE Typed'
  OBVIOUS
<1>1. CASE DirectCall
  BY <1>1, DirectTyped
<1>2. CASE CalleeStep
  BY <1>2, CalleeTyped
<1>3. CASE ReallocStep
  BY <1>3, ReallocStepTyped
<1>4. ASSUME NEW g \in held, NEW s \in Sizes, Realloc(g, s) PROVE Typed'
  BY <1>4, ReallocTyped
<1>5. CASE UNCHANGED reallocVars
  BY <1>5 DEF reallocVars, vars, Typed, MemoryTyped, CallTyped, IndexOK
<1> QED
  BY <1>1, <1>2, <1>3, <1>4, <1>5 DEF ReallocNext

(* Every variable of a heap with realloc keeps its type, for any number of *)
(* banks of any size, also in the runs in which shrinking has left         *)
(* descriptors that no list reaches: no size or index leaves its range.    *)
THEOREM ReallocTypes == ReallocSpec => []ReallocTypeOK
<1>1. Typed => ReallocTypeOK
  BY TypedIsTypeOK
<1> QED
  BY InitTyped, NextTyped, <1>1, PTL DEF ReallocSpec

-----------------------------------------------------------------------------
(* Resizing a list in place.                                               *)

(* Two adjacent pieces of memory, from a, that together keep their length, *)
(* and a third one.                                                        *)
LEMMA SameTogether ==
    ASSUME NEW a \in Nat, NEW x \in Nat, NEW y \in Nat, NEW v \in Nat, NEW w \in Nat,
           NEW c \in Nat, NEW z \in Nat, v + w = x + y,
           z > 0 /\ x > 0 => a + x <= c \/ c + z <= a,
           z > 0 /\ y > 0 => (a + x) + y <= c \/ c + z <= a + x
    PROVE  /\ z > 0 /\ v > 0 => a + v <= c \/ c + z <= a
           /\ z > 0 /\ w > 0 => (a + v) + w <= c \/ c + z <= a + v
OBVIOUS

LEMMA SameEnd ==
    ASSUME NEW a \in Nat, NEW x \in Nat, NEW y \in Nat, NEW v \in Nat, NEW w \in Nat,
           NEW lo \in Nat, NEW hi \in Nat, v + w = x + y, lo <= a, (a + x) + y <= hi
    PROVE  /\ (a + v) + w = (a + x) + y /\ a + v \in Nat
           /\ lo <= a + v /\ a + v <= hi
OBVIOUS

(* From bs, ats to ms, as the boundary between b and its successor n moves.*)
BoundaryMoves(bs, ms, ats, as, b, n) ==
    /\ bs[b].next = n /\ n # NIL
    /\ \A c \in BlockIds : ms[c].type = bs[c].type /\ ms[c].next = bs[c].next
    /\ \A c \in BlockIds : c # b /\ c # n => ms[c].size = bs[c].size
    /\ \A c \in BlockIds : c # n => as[c] = ats[c]
    /\ ms[b].size + ms[n].size = bs[b].size + bs[n].size
    /\ as[n] = ats[b] + ms[b].size
    /\ bs[b].type = "used" => ms[b].size > 0
    /\ bs[n].type = "used" => ms[n].size > 0

(* Moving the boundary between a block and its successor, whichever of     *)
(* them is the block of the client, keeps the heap well formed.            *)
LEMMA BoundaryMoved ==
    ASSUME NEW bs \in [BlockIds -> Block], NEW ms \in [BlockIds -> Block],
           NEW ats \in [BlockIds -> Addrs], NEW as \in [BlockIds -> Addrs],
           NEW k \in 0 .. Len(Banks), HeapOK(bs, ats, k),
           NEW b \in Live(bs), NEW n, BoundaryMoves(bs, ms, ats, as, b, n)
    PROVE  HeapOK(ms, as, k)
<1>a. /\ bs[b].next = n /\ n # NIL
      /\ \A c \in BlockIds : ms[c].type = bs[c].type /\ ms[c].next = bs[c].next
      /\ \A c \in BlockIds : c # b /\ c # n => ms[c].size = bs[c].size
      /\ \A c \in BlockIds : c # n => as[c] = ats[c]
      /\ ms[b].size + ms[n].size = bs[b].size + bs[n].size
      /\ as[n] = ats[b] + ms[b].size
      /\ bs[b].type = "used" => ms[b].size > 0
      /\ bs[n].type = "used" => ms[n].size > 0
  BY DEF BoundaryMoves
<1> USE <1>a
<1>1. /\ b \in BlockIds /\ b[1] \in 1 .. k /\ b[1] \in 1 .. Len(Banks)
      /\ bs[b].size \in Nat /\ ats[b] \in Nat /\ Banks[b[1]].addr <= ats[b]
      /\ n \in Live(bs) /\ n # b /\ n[1] = b[1] /\ n[2] # 0
      /\ ats[n] = ats[b] + bs[b].size
  BY LiveFacts
<1>2. /\ n \in BlockIds /\ bs[n].size \in Nat /\ ats[n] + bs[n].size <= Top(b[1])
      /\ bs[n].next # NIL =>
            /\ bs[n].next \in Live(bs) /\ bs[n].next # n /\ bs[n].next \in BlockIds
            /\ bs[n].next[1] = b[1] /\ bs[n].next[2] # 0
            /\ ats[bs[n].next] = ats[n] + bs[n].size
      /\ bs[n].next = NIL => ats[n] + bs[n].size = Top(b[1])
  <2>1. \A c \in Live(bs) : c \in BlockIds
    BY DEF Live
  <2> QED
    BY <2>1, <1>1, LiveFacts
<1>3. Live(ms) = Live(bs)
  BY DEF Live
<1>4. /\ \A c \in BlockIds : ms[c].size \in Nat /\ as[c] \in Nat
      /\ Banks[b[1]].addr \in Nat /\ Top(b[1]) \in Nat
  <2>1. \A c \in BlockIds : ms[c].size \in Addrs /\ as[c] \in Addrs
    BY DEF Block
  <2> QED
    BY <2>1, <1>1, ConstantFacts, BankFacts
<1>5. /\ ms[b].size \in Nat /\ ms[n].size \in Nat /\ as[b] = ats[b] /\ as[n] \in Nat
      /\ as[b] + ms[b].size = as[n]
      /\ as[n] + ms[n].size = ats[n] + bs[n].size
      /\ Banks[b[1]].addr <= as[n] /\ as[n] <= Top(b[1])
  <2>1. ms[b].size \in Nat /\ ms[n].size \in Nat /\ as[b] = ats[b] /\ as[n] \in Nat
    BY <1>1, <1>2, <1>4
  <2>2. (ats[b] + bs[b].size) + bs[n].size <= Top(b[1])
    BY <1>1, <1>2
  <2>3. /\ (ats[b] + ms[b].size) + ms[n].size = (ats[b] + bs[b].size) + bs[n].size
        /\ Banks[b[1]].addr <= ats[b] + ms[b].size /\ ats[b] + ms[b].size <= Top(b[1])
    <3> DEFINE a == ats[b] x == bs[b].size y == bs[n].size
               v == ms[b].size w == ms[n].size lo == Banks[b[1]].addr hi == Top(b[1])
    <3>1. /\ a \in Nat /\ x \in Nat /\ y \in Nat /\ v \in Nat /\ w \in Nat
          /\ lo \in Nat /\ hi \in Nat /\ v + w = x + y /\ lo <= a /\ (a + x) + y <= hi
      BY <2>1, <2>2, <1>1, <1>2, <1>4
    <3> HIDE DEF a, x, y, v, w, lo, hi
    <3>2. /\ (a + v) + w = (a + x) + y
          /\ lo <= a + v /\ a + v <= hi
      BY <3>1, SameEnd
    <3> QED
      BY <3>2 DEF a, x, y, v, w, lo, hi
  <2> QED
    BY <2>1, <2>3, <1>1
<1>6. ASSUME NEW c \in Live(bs), c # b, c # n
      PROVE  /\ c \in BlockIds /\ as[c] = ats[c] /\ ms[c].size = bs[c].size
             /\ bs[c].next # n
             /\ bs[c].size \in Nat /\ ats[c] \in Nat
             /\ bs[c].size > 0 /\ ms[b].size > 0 =>
                   as[b] + ms[b].size <= ats[c] \/ ats[c] + bs[c].size <= as[b]
             /\ bs[c].size > 0 /\ ms[n].size > 0 =>
                   as[n] + ms[n].size <= ats[c] \/ ats[c] + bs[c].size <= as[n]
  <2>1. c \in BlockIds /\ bs[c].size \in Nat /\ ats[c] \in Nat
    BY LiveFacts
  <2>2. as[c] = ats[c] /\ ms[c].size = bs[c].size
    BY <2>1, <1>6
  <2>3. bs[c].next # n
    BY <1>6, ApartFacts
  <2>4. bs[c].size > 0 /\ bs[b].size > 0 =>
           ats[b] + bs[b].size <= ats[c] \/ ats[c] + bs[c].size <= ats[b]
    BY <1>6, ApartFacts
  <2>5. bs[c].size > 0 /\ bs[n].size > 0 =>
           ats[n] + bs[n].size <= ats[c] \/ ats[c] + bs[c].size <= ats[n]
    BY <1>1, <1>6, ApartFacts
  <2>6. bs[c].size > 0 /\ bs[n].size > 0 =>
           (ats[b] + bs[b].size) + bs[n].size <= ats[c]
             \/ ats[c] + bs[c].size <= ats[b] + bs[b].size
    BY <2>5, <1>1
  <2>7. /\ bs[c].size > 0 /\ ms[b].size > 0 =>
              ats[b] + ms[b].size <= ats[c] \/ ats[c] + bs[c].size <= ats[b]
        /\ bs[c].size > 0 /\ ms[n].size > 0 =>
              (ats[b] + ms[b].size) + ms[n].size <= ats[c]
                \/ ats[c] + bs[c].size <= ats[b] + ms[b].size
    <3> DEFINE a == ats[b] x == bs[b].size y == bs[n].size
               v == ms[b].size w == ms[n].size e == ats[c] z == bs[c].size
    <3>1. /\ a \in Nat /\ x \in Nat /\ y \in Nat /\ v \in Nat /\ w \in Nat
          /\ e \in Nat /\ z \in Nat /\ v + w = x + y
      BY <2>1, <1>1, <1>2, <1>5
    <3>2. /\ z > 0 /\ x > 0 => a + x <= e \/ e + z <= a
          /\ z > 0 /\ y > 0 => (a + x) + y <= e \/ e + z <= a + x
      BY <2>4, <2>6
    <3> HIDE DEF a, x, y, v, w, e, z
    <3>3. /\ z > 0 /\ v > 0 => a + v <= e \/ e + z <= a
          /\ z > 0 /\ w > 0 => (a + v) + w <= e \/ e + z <= a + v
      BY <3>1, <3>2, SameTogether
    <3> QED
      BY <3>3 DEF a, x, y, v, w, e, z
  <2>8. /\ as[b] = ats[b] /\ as[n] = ats[b] + ms[b].size
    BY <1>5
  <2> QED
    BY <2>1, <2>2, <2>3, <2>7, <2>8
<1>7. Confined(ms, as, k)
  <2> SUFFICES ASSUME NEW c \in Live(bs)
               PROVE  /\ c[1] \in 1 .. k
                      /\ Banks[c[1]].addr <= as[c] /\ as[c] + ms[c].size <= Top(c[1])
                      /\ ms[c].type = "used" => ms[c].size > 0
    BY <1>3 DEF Confined, EndOf
  <2>1. CASE c = b
    BY <2>1, <1>1, <1>5
  <2>2. CASE c = n
    BY <2>2, <1>1, <1>2, <1>5
  <2>3. CASE c # b /\ c # n
    <3>1. c \in BlockIds /\ as[c] = ats[c] /\ ms[c].size = bs[c].size
      BY <2>3, <1>6
    <3>2. ms[c].type = bs[c].type
      BY <3>1
    <3> QED
      BY <3>1, <3>2 DEF HeapOK, Confined, EndOf
  <2> QED
    BY <2>1, <2>2, <2>3
<1>8. Chained(ms, as)
  <2> SUFFICES ASSUME NEW c \in Live(bs)
               PROVE  IF ms[c].next = NIL THEN as[c] + ms[c].size = Top(c[1])
                      ELSE /\ ms[c].next \in Live(bs)
                           /\ ms[c].next[1] = c[1] /\ ms[c].next[2] # 0
                           /\ as[ms[c].next] = as[c] + ms[c].size
    BY <1>3 DEF Chained, EndOf
  <2>0. c \in BlockIds /\ ms[c].next = bs[c].next
    BY DEF Live
  <2>1. CASE c = b
    BY <2>0, <2>1, <1>1, <1>5
  <2>2. CASE c = n
    <3>1. ms[n].next = bs[n].next /\ as[n] + ms[n].size = ats[n] + bs[n].size
      BY <2>0, <2>2, <1>5
    <3>2. bs[n].next # NIL => as[bs[n].next] = ats[n] + bs[n].size
      BY <1>2
    <3> QED
      BY <3>1, <3>2, <2>2, <1>1, <1>2
  <2>3. CASE c # b /\ c # n
    <3>1. /\ bs[c].next # NIL =>
                /\ bs[c].next \in Live(bs) /\ bs[c].next[1] = c[1] /\ bs[c].next[2] # 0
                /\ ats[bs[c].next] = ats[c] + bs[c].size
          /\ bs[c].next = NIL => ats[c] + bs[c].size = Top(c[1])
      BY LiveFacts
    <3>2. as[c] = ats[c] /\ ms[c].size = bs[c].size /\ bs[c].next # n
      BY <2>3, <1>6
    <3>3. bs[c].next # NIL => as[bs[c].next] = ats[bs[c].next]
      BY <3>1, <3>2 DEF Live
    <3> QED
      BY <2>0, <3>1, <3>2, <3>3
  <2> QED
    BY <2>1, <2>2, <2>3
<1>9. Apart(ms, as)
  <2> SUFFICES ASSUME NEW c \in Live(bs), NEW d \in Live(bs), c # d
               PROVE  /\ ms[c].next # NIL => ms[c].next # ms[d].next
                      /\ ms[c].size > 0 /\ ms[d].size > 0 =>
                            \/ as[c] + ms[c].size <= as[d]
                            \/ as[d] + ms[d].size <= as[c]
    BY <1>3 DEF Apart, EndOf
  <2>0. /\ ms[c].next = bs[c].next /\ ms[d].next = bs[d].next
        /\ bs[c].next # NIL => bs[c].next # bs[d].next
    BY ApartFacts DEF Live
  <2>1. CASE c \in {b, n} /\ d \in {b, n}
    <3>1. as[b] + ms[b].size <= as[n]
      BY <1>5
    <3>2. ASSUME c = b PROVE d = n
      BY <2>1, <3>2
    <3>3. ASSUME c = n PROVE d = b
      BY <2>1, <3>3
    <3>4. CASE c = b
      BY <2>0, <3>1, <3>2, <3>4
    <3>5. CASE c = n
      BY <2>0, <3>1, <3>3, <3>5
    <3> QED
      BY <2>1, <3>4, <3>5
  <2>2. CASE c \in {b, n} /\ d \notin {b, n}
    BY <2>0, <2>2, <1>6
  <2>3. CASE c \notin {b, n} /\ d \in {b, n}
    BY <2>0, <2>3, <1>6
  <2>4. CASE c \notin {b, n} /\ d \notin {b, n}
    <3>1. /\ as[c] = ats[c] /\ ms[c].size = bs[c].size
          /\ as[d] = ats[d] /\ ms[d].size = bs[d].size
      BY <2>4, <1>6
    <3> QED
      BY <2>0, <3>1, ApartFacts
  <2> QED
    BY <2>1, <2>2, <2>3, <2>4
<1>10. Heads(ms, as, k)
  <2> SUFFICES ASSUME NEW r \in 1 .. k
               PROVE  ms[<<r, 0>>].type = "free" /\ as[<<r, 0>>] = Banks[r].addr
    BY DEF Heads
  <2>1. r \in 1 .. Len(Banks)
    BY ConstantFacts
  <2>2. <<r, 0>> \in BlockIds
    BY <2>1, BankFacts
  <2>3. <<r, 0>> # n
    BY <1>1
  <2> QED
    BY <2>2, <2>3 DEF HeapOK, Heads
<1>11. Reached(ms) /\ Acyclic(ms)
  <2>1. \A c \in Live(bs) : ms[c].next = bs[c].next
    BY DEF Live
  <2>2. Reached(ms)
    BY <2>1, <1>3 DEF HeapOK, Reached
  <2>3. Acyclic(ms)
    <3> SUFFICES ASSUME NEW S \in SUBSET Live(bs), S # {}
                 PROVE  \E c \in S : ms[c].next \notin S
      BY <1>3 DEF Acyclic
    <3>1. PICK c \in S : bs[c].next \notin S
      BY DEF HeapOK, Acyclic
    <3> QED
      BY <3>1, <2>1
  <2> QED
    BY <2>2, <2>3
<1> QED
  BY <1>7, <1>8, <1>9, <1>10, <1>11 DEF HeapOK

(* A used block of the region that is neither the cursor nor behind it     *)
(* lies where the cursor goes, or after that.                              *)
LEMMA Ahead ==
    ASSUME NEW bs \in [BlockIds -> Block], NEW ats \in [BlockIds -> Addrs],
           NEW k \in 0 .. Len(Banks), HeapOK(bs, ats, k),
           NEW b \in Live(bs), NEW t \in BlockIds, bs[t].type = "used",
           t # b, t[1] = b[1], ats[b] <= ats[t]
    PROVE  /\ bs[b].next # NIL /\ bs[b].next \in Live(bs)
           /\ ats[bs[b].next] = ats[b] + bs[b].size
           /\ ats[bs[b].next] <= ats[t]
<1>1. /\ t \in Live(bs) /\ ats[t] \in Nat /\ bs[t].size \in Nat /\ bs[t].size > 0
      /\ t[1] \in 1 .. Len(Banks)
      /\ ats[t] + bs[t].size <= Top(t[1])
  BY UsedFacts
<1>2. /\ ats[b] \in Nat /\ bs[b].size \in Nat /\ Top(b[1]) \in Nat
      /\ bs[b].next # NIL => /\ bs[b].next \in Live(bs)
                             /\ ats[bs[b].next] = ats[b] + bs[b].size
      /\ bs[b].next = NIL => ats[b] + bs[b].size = Top(b[1])
  <2>1. Top(b[1]) \in Nat
    BY <1>1, BankFacts
  <2> QED
    BY <2>1, LiveFacts
<1>3. ats[b] + bs[b].size <= ats[t]
  <2>1. bs[b].size > 0 =>
          ats[b] + bs[b].size <= ats[t] \/ ats[t] + bs[t].size <= ats[b]
    BY <1>1, ApartFacts
  <2> QED
    BY <2>1, <1>1, <1>2
<1>4. bs[b].next # NIL
  BY <1>1, <1>2, <1>3
<1> QED
  BY <1>2, <1>3, <1>4

-----------------------------------------------------------------------------
(* The heap as mem_alloc and mem_free see it, called by mem_realloc or     *)
(* not: what mem_realloc keeps is owned by it as by any client, and while  *)
(* it walks itself no call is in progress.  For such a heap the invariant  *)
(* of MemSafety is proved.                                                 *)

Owned ==
    held \cup (IF frame.doing \in {"resize", "move", "miss"} THEN {frame.old} ELSE {})
         \cup (IF frame.doing = "free" THEN {frame.new} ELSE {})

HeapPc == IF pc \in {"realloc", "realloc_walk"} THEN "idle"
          ELSE IF pc = "overwritten" THEN "halted" ELSE pc

Heap == INSTANCE MemSafetyProofs WITH held <- Owned, pc <- HeapPc

(* What the invariant of MemSafety says of that heap.                      *)
Lists == RegionsOK /\ HeapOK(blocks, at, nbanks)

Calls ==
    /\ AllocOK /\ FreeOK
    /\ pc = "alloc_return" /\ bptr # NULL => [ptr |-> bptr, size |-> arg.size] \notin Owned
    /\ pc \in {"free", "free_walk"} => arg \notin Owned

UsedIsReserved ==
    /\ Reserved = {GrantOf(b) : b \in Used}
    /\ \A b, c \in Used : GrantOf(b) = GrantOf(c) => b = c

(* ReallocInv of a sound run.                                              *)
Sound ==
    /\ Len(Banks) <= 1
    /\ Lists /\ Calls /\ UsedIsReserved
    /\ FrameOK /\ MissOK /\ WalkOK
    /\ frame.doing \in {"resize", "move", "miss"} => frame.old \notin held

LEMMA BridgeLists ==
    /\ Heap!RegionsOK <=> RegionsOK
    /\ Heap!HeapOK(blocks, at, nbanks) <=> HeapOK(blocks, at, nbanks)
<1>1. Heap!RegionsOK <=> RegionsOK
  BY DEF Heap!RegionsOK, RegionsOK, Slots, Heap!Slots, TableLen, Heap!TableLen,
         NIL, Heap!NIL, NULL, Heap!NULL
<1>2. Heap!Live(blocks) = Live(blocks)
  BY DEF Heap!Live, Live, BlockIds, Heap!BlockIds, Slots, Heap!Slots
<1>3. \A r : Heap!Top(r) = Top(r)
  BY DEF Heap!Top, Top, Heap!Usable, Usable, TableBytes, Heap!TableBytes,
         TableLen, Heap!TableLen
<1>4. \A b : Heap!EndOf(blocks, at, b) = EndOf(blocks, at, b)
  BY DEF Heap!EndOf, EndOf
<1>5. Heap!Confined(blocks, at, nbanks) <=> Confined(blocks, at, nbanks)
  BY <1>2, <1>3, <1>4 DEF Heap!Confined, Confined
<1>6. Heap!Chained(blocks, at) <=> Chained(blocks, at)
  BY <1>2, <1>3, <1>4 DEF Heap!Chained, Chained, NIL, Heap!NIL
<1>7. Heap!Apart(blocks, at) <=> Apart(blocks, at)
  BY <1>2, <1>4 DEF Heap!Apart, Apart, NIL, Heap!NIL
<1>8. Heap!Heads(blocks, at, nbanks) <=> Heads(blocks, at, nbanks)
  BY DEF Heap!Heads, Heads
<1>9. Heap!Reached(blocks) <=> Reached(blocks)
  BY <1>2 DEF Heap!Reached, Reached
<1>10. Heap!Acyclic(blocks) <=> Acyclic(blocks)
  BY <1>2 DEF Heap!Acyclic, Acyclic
<1> QED
  BY <1>1, <1>5, <1>6, <1>7, <1>8, <1>9, <1>10 DEF Heap!HeapOK, HeapOK

LEMMA BridgeUsed ==
    /\ Heap!Used = Used /\ \A b : Heap!GrantOf(b) = GrantOf(b)
    /\ Heap!Granted = Reserved
    /\ Heap!UsedIsGranted <=> UsedIsReserved
<1>1. Heap!Used = Used /\ \A b : Heap!GrantOf(b) = GrantOf(b)
  BY DEF Heap!Used, Used, BlockIds, Heap!BlockIds, Slots, Heap!Slots, Heap!GrantOf, GrantOf
<1>2. Heap!Granted = Reserved
  BY DEF Heap!Granted, Reserved, Granted, Owned, HeapPc, Heap!NULL
<1> QED
  BY <1>1, <1>2 DEF Heap!UsedIsGranted, UsedIsReserved

LEMMA BridgeCalls == Heap!AllocOK /\ Heap!FreeOK <=> Calls
<1>1. Heap!Live(blocks) = Live(blocks) /\ \A r : Heap!Top(r) = Top(r)
  BY DEF Heap!Top, Top, Heap!Usable, Usable, TableBytes, Heap!TableBytes,
         TableLen, Heap!TableLen, Heap!Live, Live, BlockIds, Heap!BlockIds, Slots, Heap!Slots
<1>2. \A q \in {"alloc", "alloc_walk", "alloc_return", "free", "free_walk"} :
        HeapPc = q <=> pc = q
  BY DEF HeapPc
<1>3. Heap!AllocOK <=> /\ AllocOK
                       /\ pc = "alloc_return" /\ bptr # NULL =>
                             [ptr |-> bptr, size |-> arg.size] \notin Owned
  BY <1>2 DEF Heap!AllocOK, AllocOK, Heap!NULL, Owned
<1>4. Heap!FreeOK <=> /\ FreeOK
                      /\ pc \in {"free", "free_walk"} => arg \notin Owned
  <2>1. arg \notin Owned => arg \notin held
    BY DEF Owned
  <2> QED
    BY <1>1, <1>2, <2>1, BridgeUsed DEF Heap!FreeOK, FreeOK, Heap!NIL, NIL
<1> QED
  BY <1>3, <1>4 DEF Calls

LEMMA BridgeTypes == Typed => Heap!TypeOK
<1> SUFFICES ASSUME Typed PROVE Heap!TypeOK
  OBVIOUS
<1>1. /\ Heap!Slots = Slots /\ Heap!BlockIds = BlockIds /\ Heap!Addrs = Addrs
      /\ Heap!NIL = NIL
  BY DEF Heap!Slots, Slots, Heap!BlockIds, BlockIds, Heap!Addrs, Addrs, Heap!NIL, NIL
<1>2. Heap!Block = Block /\ Heap!Region = Region /\ Heap!Grant = Grant
  BY <1>1 DEF Heap!Block, Block, Heap!Region, Region, Heap!Grant, Grant
<1>3. Owned \subseteq Grant
  BY DEF Owned, Typed, CallTyped, Frames
<1>4. HeapPc \in {"idle", "alloc", "alloc_walk", "alloc_return", "free", "free_walk", "halted"}
  BY DEF HeapPc, Typed, CallTyped
<1> QED
  BY <1>1, <1>2, <1>3, <1>4 DEF Heap!TypeOK, Typed, MemoryTyped, CallTyped

(* The invariant of MemSafety is the part of Sound about the heap.         *)
LEMMA Bridge == Typed => (Heap!Inv <=> Lists /\ Calls /\ UsedIsReserved)
BY BridgeTypes, BridgeLists, BridgeUsed, BridgeCalls DEF Heap!Inv, Lists

(* The steps of the allocator, taken in the heap as it is seen from there. *)
LEMMA CalleeIsHeapStep ==
    ASSUME UNCHANGED frame
    PROVE  /\ AllocRegion => Heap!AllocRegion
           /\ AllocBlock => Heap!AllocBlock
           /\ FreeRegion => Heap!FreeRegion
           /\ FreeBlock => Heap!FreeBlock
<1>1. held' = held => Owned' = Owned
  BY DEF Owned
<1>2. \A q \in {"alloc", "alloc_walk", "free", "free_walk"} : pc = q => HeapPc = q
  BY DEF HeapPc
<1>3. \A q \in {"idle", "alloc", "alloc_walk", "alloc_return", "free", "free_walk"} :
        pc' = q => HeapPc' = q
  BY DEF HeapPc
<1>4. pc' = pc => HeapPc' = HeapPc
  BY DEF HeapPc
<1>5. AllocRegion => Heap!AllocRegion
  BY <1>1, <1>2, <1>3, <1>4
     DEF AllocRegion, Heap!AllocRegion, Passed, Heap!Passed, NULL, Heap!NULL,
         memory, Heap!memory
<1>6. FreeRegion => Heap!FreeRegion
  BY <1>1, <1>2, <1>3, <1>4
     DEF FreeRegion, Heap!FreeRegion, Return, Heap!Return, NIL, Heap!NIL,
         NULL, Heap!NULL, memory, Heap!memory
<1>7. AllocBlock => Heap!AllocBlock
  <2> SUFFICES ASSUME AllocBlock PROVE Heap!AllocBlock
    OBVIOUS
  <2>1. \A bs, r : Heap!NewBlocks(bs, r) = NewBlocks(bs, r)
    BY DEF Heap!NewBlocks, NewBlocks, Heap!Table, Table
  <2>2. \A bs, b : Heap!Fixed(bs, b) = Fixed(bs, b)
    BY DEF Heap!Fixed, Fixed, Heap!Merged, Merged, Heap!Add, Add, Heap!NIL, NIL
  <2>3. \A bs, b, n, z : Heap!Carved(bs, b, n, z) = Carved(bs, b, n, z)
    BY DEF Heap!Carved, Carved, Heap!Sub, Sub
  <2>4. \A x, y : Heap!Add(x, y) = Add(x, y) /\ Heap!Sub(x, y) = Sub(x, y)
    BY DEF Heap!Add, Add, Heap!Sub, Sub
  <2>5. Owned' = Owned /\ HeapPc = "alloc_walk"
    BY <1>1, <1>2 DEF AllocBlock
  <2> QED
    BY <2>1, <2>2, <2>3, <2>4, <2>5, <1>3, <1>4
       DEF AllocBlock, Heap!AllocBlock, Heap!NIL, NIL, Heap!NULL
<1>8. FreeBlock => Heap!FreeBlock
  <2> SUFFICES ASSUME FreeBlock PROVE Heap!FreeBlock
    OBVIOUS
  <2>1. \A bs, b : Heap!Fixed(bs, b) = Fixed(bs, b)
    BY DEF Heap!Fixed, Fixed, Heap!Merged, Merged, Heap!Add, Add, Heap!NIL, NIL
  <2>2. \A bs, b, q : Heap!Released(bs, b, q) = Released(bs, b, q)
    BY DEF Heap!Released, Released, Heap!Merged, Merged, Heap!Add, Add, Heap!NIL, NIL
  <2>3. \A b, a, q : Heap!Matches(b, a, q) = Matches(b, a, q)
    BY DEF Heap!Matches, Matches, Heap!Add, Add
  <2>4. \A x, y : Heap!Add(x, y) = Add(x, y)
    BY DEF Heap!Add, Add
  <2>5. Owned' = Owned /\ HeapPc = "free_walk"
    BY <1>1, <1>2 DEF FreeBlock
  <2> QED
    BY <2>1, <2>2, <2>3, <2>4, <2>5, <1>3, <1>4
       DEF FreeBlock, Heap!FreeBlock, Return, Heap!Return, Heap!NIL, NIL, Heap!NULL
<1> QED
  BY <1>5, <1>6, <1>7, <1>8

LEMMA CalleeInv ==
    ASSUME Typed, Sound, CalleeStep
    PROVE  Sound'
<1>1. frame' = frame /\ held' = held
  BY DEF CalleeStep, AllocRegion, AllocBlock, FreeRegion, FreeBlock
<1>2. Heap!Inv
  BY Bridge DEF Sound
<1>3. Heap!Inv'
  <2>1. \/ Heap!AllocRegion \/ Heap!AllocBlock \/ Heap!FreeRegion \/ Heap!FreeBlock
    BY <1>1, CalleeIsHeapStep DEF CalleeStep
  <2> QED
    BY <1>2, <2>1, BanksAssumption, SizesAssumption, Heap!AllocRegionInv,
       Heap!AllocBlockInv, Heap!FreeRegionInv, Heap!FreeBlockInv
       DEF TableLen, Heap!TableLen, TableBytes, Heap!TableBytes
<1>4. Typed'
  BY CalleeTyped
<1>5. (Lists /\ Calls /\ UsedIsReserved)'
  <2>1. Typed' => (Heap!Inv' <=> (Lists /\ Calls /\ UsedIsReserved)')
    BY Bridge, PTL
  <2> QED
    BY <2>1, <1>3, <1>4
<1>6. /\ pc \in {"alloc", "alloc_walk", "free", "free_walk"}
      /\ pc \in {"alloc", "alloc_walk"} =>
            arg' = arg /\ pc' \in {"alloc", "alloc_walk", "alloc_return"}
      /\ pc \in {"free", "free_walk"} => pc' \in {"free", "free_walk", "idle"}
  BY DEF CalleeStep, AllocRegion, AllocBlock, FreeRegion, FreeBlock, Return
<1>7. frame.doing \in {"none", "resize", "move", "free", "miss"}
  BY DEF Typed, CallTyped, Frames
<1>8. ASSUME frame.doing = "miss"
      PROVE  /\ pc' \in {"alloc", "alloc_return"} /\ regions' = regions /\ arg' = arg
             /\ pc' = "alloc_return" => bptr' = NULL
  <2>1. pc = "alloc" /\ AllocRegion
    BY <1>6, <1>8 DEF Sound, FrameOK, CalleeStep, AllocRegion, AllocBlock, FreeRegion, FreeBlock
  <2>2. \A r \in Slots : Passed(r, arg.size)
    BY <1>8 DEF Sound, MissOK
  <2>3. i <= MaxRegions => i \in Slots
    BY DEF Slots, Typed, CallTyped
  <2>4. i > MaxRegions \/ i <= MaxRegions
    BY ConstantFacts DEF Typed, CallTyped
  <2> QED
    BY <2>1, <2>2, <2>3, <2>4 DEF AllocRegion, memory
<1>9. FrameOK'
  BY <1>1, <1>6, <1>7, <1>8 DEF Sound, FrameOK
<1>10. MissOK' /\ WalkOK'
  <2>1. pc' \notin {"realloc", "realloc_walk"}
    BY <1>6
  <2>2. WalkOK'
    BY <2>1 DEF WalkOK
  <2>3. MissOK'
    <3>1. frame.doing = "miss" => (\A r \in Slots : Passed(r, arg.size))'
      BY <1>8 DEF Sound, MissOK, Passed
    <3> QED
      BY <2>1, <3>1, <1>1, <1>8 DEF MissOK
  <2> QED
    BY <2>2, <2>3
<1> QED
  BY <1>1, <1>5, <1>9, <1>10 DEF Sound

(* A call that mem_realloc did not make leaves its part of Sound as it is. *)
LEMMA DirectLeavesSound ==
    ASSUME Typed, Sound, DirectCall, Heap!Inv', pc' \notin {"realloc", "realloc_walk"}
    PROVE  Sound'
<1>1. frame' = frame /\ frame.doing = "none"
  BY DEF DirectCall, NoFrame
<1>2. Typed'
  BY DirectTyped
<1>3. (Lists /\ Calls /\ UsedIsReserved)'
  <2>1. Typed' => (Heap!Inv' <=> (Lists /\ Calls /\ UsedIsReserved)')
    BY Bridge, PTL
  <2> QED
    BY <2>1, <1>2
<1>4. FrameOK' /\ MissOK' /\ WalkOK'
  BY <1>1 DEF FrameOK, MissOK, WalkOK
<1> QED
  BY <1>1, <1>3, <1>4 DEF Sound

LEMMA DirectInv ==
    ASSUME Typed, Sound, DirectCall
    PROVE  Sound'
<1>1. frame = NoFrame /\ frame' = frame /\ frame.doing = "none"
  BY DEF DirectCall, NoFrame
<1>2. Owned = held /\ Owned' = held'
  BY <1>1 DEF Owned
<1>3. \A q \in {"idle", "alloc_return"} : pc = q => HeapPc = q
  BY DEF HeapPc
<1>4. /\ \A q \in {"idle", "alloc", "free", "halted"} : pc' = q => HeapPc' = q
      /\ pc' = pc => HeapPc' = HeapPc
  BY DEF HeapPc
<1>5. \A q \in {"alloc", "free", "idle", "halted"} : q \notin {"realloc", "realloc_walk"}
  OBVIOUS
<1>6. Heap!Inv
  BY Bridge DEF Sound
<1>7. Ready => Heap!Ready
  BY <1>2, <1>3 DEF Ready, Heap!Ready, OverTable, Heap!OverTable, Heap!Slots, Slots,
     Heap!NULL, TableBytes, Heap!TableBytes, TableLen, Heap!TableLen
<1>8. CASE NewRegion
  <2>1. pc' = pc
    BY <1>8 DEF NewRegion, call
  <2>2. Heap!NewRegion
    <3>1. \A r : Heap!NewSlot(r) = NewSlot(r)
      BY DEF Heap!NewSlot, NewSlot, Heap!NULL
    <3>2. \A bs, r, z : Heap!Genesis(bs, r, z) = Genesis(bs, r, z)
      BY DEF Heap!Genesis, Genesis, Heap!NIL, NIL, Heap!BlockIds, BlockIds, Heap!Slots, Slots
    <3>3. pc = "idle" /\ held' = held
      BY <1>8 DEF NewRegion
    <3> QED
      BY <3>1, <3>2, <3>3, <2>1, <1>2, <1>3, <1>4, <1>8
         DEF NewRegion, Heap!NewRegion, call, Heap!call, Heap!Slots, Slots,
             TableBytes, Heap!TableBytes, TableLen, Heap!TableLen, Sub, Heap!Sub
  <2>3. Heap!Inv'
    BY <1>6, <2>2, BanksAssumption, SizesAssumption, Heap!NewRegionInv
       DEF TableLen, Heap!TableLen, TableBytes, Heap!TableBytes
  <2>4. pc' \notin {"realloc", "realloc_walk"}
    BY <1>8, <2>1 DEF NewRegion
  <2> QED
    BY <2>3, <2>4, DirectLeavesSound
<1>9. CASE MallocReturn
  <2>1. Heap!MallocReturn
    BY <1>2, <1>3, <1>4, <1>9
       DEF MallocReturn, Heap!MallocReturn, Return, Heap!Return, memory, Heap!memory,
           NIL, Heap!NIL, Heap!NULL
  <2>2. Heap!Inv'
    BY <1>6, <2>1, BanksAssumption, SizesAssumption, Heap!MallocReturnInv
       DEF TableLen, Heap!TableLen, TableBytes, Heap!TableBytes
  <2>3. pc' \notin {"realloc", "realloc_walk"}
    BY <1>9 DEF MallocReturn, Return
  <2> QED
    BY <2>2, <2>3, DirectLeavesSound
<1>10. ASSUME NEW s \in Sizes, Malloc(s) PROVE Sound'
  <2>1. Heap!Malloc(s)
    BY <1>2, <1>4, <1>7, <1>10
       DEF Malloc, Heap!Malloc, Start, Heap!Start, memory, Heap!memory, Heap!NULL
  <2>2. Heap!Inv'
    BY <1>6, <2>1, BanksAssumption, SizesAssumption, Heap!MallocInv
       DEF TableLen, Heap!TableLen, TableBytes, Heap!TableBytes
  <2>3. pc' \notin {"realloc", "realloc_walk"}
    BY <1>10 DEF Malloc, Start
  <2> QED
    BY <2>2, <2>3, DirectLeavesSound
<1>11. ASSUME NEW g \in held, Free(g) PROVE Sound'
  <2>1. Heap!Free(g) /\ g \in Owned
    BY <1>2, <1>4, <1>7, <1>11
       DEF Free, Heap!Free, Start, Heap!Start, memory, Heap!memory
  <2>2. Heap!Inv'
    BY <1>6, <2>1, BanksAssumption, SizesAssumption, Heap!FreeInv
       DEF TableLen, Heap!TableLen, TableBytes, Heap!TableBytes
  <2>3. pc' \notin {"realloc", "realloc_walk"}
    BY <1>11 DEF Free, Start
  <2> QED
    BY <2>2, <2>3, DirectLeavesSound
<1> QED
  BY <1>8, <1>9, <1>10, <1>11 DEF DirectCall

-----------------------------------------------------------------------------
(* The steps of mem_realloc itself.                                        *)

LEMMA HeapStays ==
    ASSUME Lists, UNCHANGED memory
    PROVE  /\ Lists' /\ Used' = Used
           /\ {GrantOf(b) : b \in Used}' = {GrantOf(b) : b \in Used}
           /\ \A b \in Used : GrantOf(b)' = GrantOf(b)
<1>1. regions' = regions /\ blocks' = blocks /\ nbanks' = nbanks /\ at' = at
  BY DEF memory
<1>2. RegionsOK'
  BY <1>1 DEF Lists, RegionsOK
<1>3. HeapOK(blocks', at', nbanks')
  BY <1>1 DEF Lists
<1>4. Used' = Used /\ \A b : GrantOf(b)' = GrantOf(b)
  BY <1>1 DEF Used, GrantOf
<1> QED
  BY <1>2, <1>3, <1>4 DEF Lists

(* What the invariant says while mem_realloc is at work.                   *)
LEMMA ResizeFacts ==
    ASSUME Typed, Sound, pc \in {"realloc", "realloc_walk"}
    PROVE  /\ frame.doing = "resize" /\ frame.old \in Grant /\ frame.old \notin held
           /\ arg.size \in Sizes /\ arg.size \in Nat /\ arg.size > 0 /\ arg.size < Word
           /\ arg.ptr = frame.old.ptr
           /\ held \cup {frame.old} = {GrantOf(b) : b \in Used}
           /\ Reserved = held \cup {frame.old}
           /\ nbanks \in 0 .. Len(Banks) /\ Len(Banks) \in Nat /\ Len(Banks) <= 1
           /\ blocks \in [BlockIds -> Block] /\ at \in [BlockIds -> Addrs]
           /\ HeapOK(blocks, at, nbanks)
<1>1. frame.doing = "resize"
  BY DEF Sound, FrameOK, Typed, CallTyped, Frames
<1>2. frame.old \in Grant /\ frame.old \notin held
  BY <1>1 DEF Sound, Typed, CallTyped, Frames
<1>3. arg.size \in Sizes /\ arg.ptr = frame.old.ptr
  BY DEF Sound, WalkOK
<1>4. arg.size \in Nat /\ arg.size > 0 /\ arg.size < Word
  BY <1>3, ConstantFacts
<1>5. Reserved = held \cup {frame.old}
  BY <1>1 DEF Reserved, Granted
<1>6. held \cup {frame.old} = {GrantOf(b) : b \in Used}
  BY <1>5 DEF Sound, UsedIsReserved
<1>7. /\ nbanks \in 0 .. Len(Banks) /\ Len(Banks) \in Nat /\ Len(Banks) <= 1
      /\ blocks \in [BlockIds -> Block] /\ at \in [BlockIds -> Addrs]
      /\ HeapOK(blocks, at, nbanks)
  BY ConstantFacts DEF Sound, Lists, Typed, MemoryTyped
<1> QED
  BY <1>1, <1>2, <1>3, <1>4, <1>5, <1>6, <1>7

LEMMA WalkFacts ==
    ASSUME Typed, Sound, pc = "realloc_walk"
    PROVE  /\ i = 1 /\ nbanks = 1 /\ 1 \in 1 .. Len(Banks) /\ 1 \in Slots
           /\ block \in Live(blocks) /\ block \in BlockIds /\ block # NIL
           /\ block[1] = 1 /\ bptr = at[block] /\ bptr \in Nat
           /\ prev # NIL => prev \in Live(blocks) /\ blocks[prev].next = block
           /\ \E t \in Used : GrantOf(t) = frame.old /\ at[t] >= bptr
           /\ regions[1].free_size \in Nat /\ arg.size <= regions[1].free_size
           /\ regions[1].free_size <= blocks[<<1, 0>>].size
           /\ <<1, 0>> \in BlockIds /\ <<1, 0>> \in Live(blocks)
<1>1. /\ i <= nbanks /\ arg.size <= regions[i].free_size
      /\ block \in Live(blocks) /\ block[1] = i /\ bptr = at[block]
      /\ prev # NIL => prev \in Live(blocks) /\ blocks[prev].next = block
      /\ \E t \in Used : GrantOf(t) = frame.old /\ at[t] >= bptr
  BY DEF Sound, WalkOK
<1>2. i \in 1 .. MaxRegions + 1 /\ MaxRegions \in Nat /\ bptr \in Nat
  BY ConstantFacts DEF Typed, CallTyped
<1>3. i = 1 /\ nbanks = 1
  <2>1. nbanks \in 0 .. Len(Banks) /\ Len(Banks) \in Nat /\ Len(Banks) <= 1
    BY ResizeFacts
  <2>2. nbanks \in Nat /\ nbanks <= 1
    BY <2>1
  <2> QED
    BY <2>2, <1>1, <1>2
<1>4. 1 \in 1 .. Len(Banks) /\ 1 \in Slots /\ <<1, 0>> \in BlockIds
  <2>1. 1 \in 1 .. Len(Banks)
    BY <1>3, ResizeFacts
  <2> QED
    BY <2>1, BankFacts
<1>5. block \in BlockIds /\ block # NIL
  BY <1>1, BlockIdFacts DEF Live
<1>6. regions[1].free_size \in Nat
  BY <1>4, ConstantFacts DEF Typed, MemoryTyped, Region
<1>7. regions[1].free_size <= blocks[<<1, 0>>].size
  BY <1>3, <1>4 DEF Sound, Lists, RegionsOK
<1>8. <<1, 0>> \in Live(blocks)
  <2>1. blocks[<<1, 0>>].type = "free"
    BY <1>3, ResizeFacts DEF HeapOK, Heads
  <2> QED
    BY <2>1, <1>4 DEF Live
<1> QED
  BY <1>1, <1>2, <1>3, <1>4, <1>5, <1>6, <1>7, <1>8

(* The block mem_realloc finds is the one it was given: none of its        *)
(* descriptors has changed yet.                                            *)
LEMMA FoundFacts ==
    ASSUME Typed, Sound, Found
    PROVE  /\ pc = "realloc_walk" /\ Here = blocks
           /\ block \in Used /\ blocks[block].type = "used" /\ block[2] # 0
           /\ GrantOf(block) = frame.old
           /\ blocks[block].size \in Nat /\ at[block] \in Nat /\ at[block] > 0
           /\ bptr = at[block]
           /\ at[block] + blocks[block].size <= Top(1) /\ Top(1) \in Nat /\ Top(1) < Word
           /\ held = {GrantOf(b) : b \in Used \ {block}}
<1>1. pc = "realloc_walk" /\ Matches(Here[block], bptr, arg.ptr)
  BY DEF Found
<1>2. /\ block \in Live(blocks) /\ block \in BlockIds /\ bptr = at[block] /\ bptr \in Nat
      /\ blocks \in [BlockIds -> Block] /\ at \in [BlockIds -> Addrs]
      /\ nbanks \in 0 .. Len(Banks) /\ HeapOK(blocks, at, nbanks)
      /\ block[1] = 1 /\ 1 \in 1 .. Len(Banks)
  BY <1>1, WalkFacts, ResizeFacts
<1>3. Here[block].type = "used" /\ bptr >= arg.ptr
  BY <1>1 DEF Matches
<1>4. blocks[block].type = "used"
  BY <1>2, <1>3, FixedOK DEF Here
<1>5. Here = blocks
  BY <1>4 DEF Here, Fixed
<1>6. block \in Used
  BY <1>2, <1>4 DEF Used
<1>7. PICK t \in Used : GrantOf(t) = frame.old /\ at[t] >= bptr
  BY <1>1, WalkFacts
<1>8. arg.ptr = at[t] /\ t \in BlockIds /\ blocks[t].type = "used"
  BY <1>1, <1>7, ResizeFacts DEF GrantOf, Used
<1>9. /\ block[2] # 0 /\ blocks[block].size \in Nat /\ at[block] \in Nat /\ at[block] > 0
      /\ at[block] + blocks[block].size <= Top(1)
      /\ \A c \in BlockIds : blocks[c].type = "used" /\ c # block => at[c] # at[block]
  BY <1>2, <1>4, UsedFacts
<1>10. t = block
  <2>1. at[t] \in Nat
    BY <1>2, <1>8, UsedFacts
  <2>2. at[t] = at[block]
    BY <2>1, <1>2, <1>3, <1>7, <1>8
  <2> QED
    BY <2>2, <1>8, <1>9
<1>11. Top(1) \in Nat /\ Top(1) < Word
  BY <1>2, BankFacts
<1>12. held = {GrantOf(b) : b \in Used \ {block}}
  <2>1. held \cup {frame.old} = {GrantOf(b) : b \in Used} /\ frame.old \notin held
    BY <1>1, ResizeFacts
  <2>2. \A b \in Used : GrantOf(b) = frame.old => b = block
    BY <1>6, <1>7, <1>10 DEF Sound, UsedIsReserved
  <2>3. GrantOf(block) = frame.old
    BY <1>7, <1>10
  <2> QED
    BY <2>1, <2>2, <2>3
<1> QED
  BY <1>1, <1>2, <1>4, <1>5, <1>6, <1>7, <1>9, <1>10, <1>11, <1>12

(* The region keeps its description when free_size changes with its head.  *)
LEMMA RegionStays ==
    ASSUME Typed, Sound, pc = "realloc_walk", nbanks' = nbanks,
           NEW f, FreeSizeBecomes(f), f <= blocks'[<<1, 0>>].size
    PROVE  RegionsOK'
<1>1. i = 1 /\ nbanks = 1 /\ 1 \in Slots
  BY WalkFacts
<1>2. regions' = [regions EXCEPT ![1].free_size = f] /\ regions \in [Slots -> Region]
  BY <1>1 DEF FreeSizeBecomes, Typed, MemoryTyped
<1>3. \A q \in Slots : q # 1 => regions'[q] = regions[q]
  BY <1>2
<1>4. /\ regions'[1].addr = regions[1].addr /\ regions'[1].size = regions[1].size
      /\ regions'[1].head = regions[1].head /\ regions'[1].max_blocks = regions[1].max_blocks
      /\ regions'[1].free_size = f
  BY <1>1, <1>2 DEF Region
<1>5. \A q \in Slots : q <= 1 => q = 1
  BY ConstantFacts DEF Slots
<1> QED
  BY <1>1, <1>3, <1>4, <1>5 DEF Sound, Lists, RegionsOK

(* A call of realloc ends.                                                 *)
LEMMA ResultFacts ==
    ASSUME NEW p, NEW s, Result(p, s)
    PROVE  /\ pc' = "idle" /\ frame' = NoFrame /\ frame'.doing = "none"
           /\ held' = held \cup {IF p = NULL THEN frame.old ELSE [ptr |-> p, size |-> s]}
           /\ Reserved' = held'
           /\ Calls' /\ FrameOK' /\ MissOK' /\ WalkOK'
<1>1. /\ pc' = "idle" /\ frame' = NoFrame /\ frame'.doing = "none"
      /\ held' = held \cup {IF p = NULL THEN frame.old ELSE [ptr |-> p, size |-> s]}
  BY DEF Result, Return, NoFrame
<1>2. Reserved' = held'
  BY <1>1 DEF Reserved, Granted
<1>3. Calls'
  BY <1>1 DEF Calls, AllocOK, FreeOK
<1>4. FrameOK' /\ MissOK' /\ WalkOK'
  BY <1>1 DEF FrameOK, MissOK, WalkOK
<1> QED
  BY <1>1, <1>2, <1>3, <1>4

(* It ends without having changed the heap: the memory of the result was   *)
(* reserved for it.                                                        *)
LEMMA ResultInv ==
    ASSUME Sound, UNCHANGED memory, NEW p, NEW s, Result(p, s),
           Reserved = held \cup {IF p = NULL THEN frame.old ELSE [ptr |-> p, size |-> s]}
    PROVE  Sound'
<1>1. /\ Lists' /\ Used' = Used
      /\ {GrantOf(b) : b \in Used}' = {GrantOf(b) : b \in Used}
      /\ \A b \in Used : GrantOf(b)' = GrantOf(b)
  BY HeapStays DEF Sound
<1>2. Reserved' = Reserved
  BY ResultFacts
<1>3. UsedIsReserved'
  BY <1>1, <1>2 DEF Sound, UsedIsReserved
<1> QED
  BY <1>1, <1>3, ResultFacts DEF Sound

(* It ends with the found block resized.                                   *)
LEMMA ResizedInv ==
    ASSUME Typed, Sound, Found, Typed', nbanks' = nbanks,
           HeapOK(blocks', at', nbanks'), RegionsOK',
           \A c \in BlockIds : blocks'[c].type = blocks[c].type,
           \A c \in Used : c # block => blocks'[c].size = blocks[c].size /\ at'[c] = at[c],
           blocks'[block].size = arg.size,
           NEW p, p = at'[block], Result(p, arg.size)
    PROVE  Sound'
<1>1. Used' = Used
  BY DEF Used
<1>2. /\ blocks' \in [BlockIds -> Block] /\ at' \in [BlockIds -> Addrs]
      /\ nbanks' \in 0 .. Len(Banks)
  BY DEF Typed, MemoryTyped
<1>3. \A b \in Used : b \in BlockIds /\ blocks'[b].type = "used"
  BY <1>1 DEF Used
<1>4. ASSUME NEW b \in Used
      PROVE  /\ at'[b] \in Nat /\ at'[b] > 0
             /\ \A c \in Used : c # b => at'[c] # at'[b]
  BY <1>2, <1>3, UsedFacts
<1>5. /\ block \in Used /\ held = {GrantOf(b) : b \in Used \ {block}}
  BY FoundFacts
<1>6. p # NULL
  BY <1>4, <1>5
<1>7. held' = held \cup {[ptr |-> at'[block], size |-> blocks'[block].size]}
  BY <1>6, ResultFacts
<1>8. \A b \in Used \ {block} : GrantOf(b)' = GrantOf(b)
  BY DEF GrantOf
<1>9. held' = {GrantOf(b)' : b \in Used}
  BY <1>5, <1>7, <1>8 DEF GrantOf
<1>10. UsedIsReserved'
  <2>1. \A b, c \in Used : GrantOf(b)' = GrantOf(c)' => b = c
    <3> SUFFICES ASSUME NEW b \in Used, NEW c \in Used, GrantOf(b)' = GrantOf(c)'
                 PROVE  b = c
      OBVIOUS
    <3>1. at'[b] = at'[c]
      BY DEF GrantOf
    <3> QED
      BY <3>1, <1>4
  <2>2. Reserved' = held'
    BY ResultFacts
  <2> QED
    BY <2>1, <2>2, <1>1, <1>9 DEF UsedIsReserved
<1> QED
  BY <1>10, ResultFacts DEF Sound, Lists

LEMMA ReallocCallInv ==
    ASSUME Typed, Sound, NEW g \in held, NEW s \in Sizes, Realloc(g, s)
    PROVE  Sound'
<1>1. /\ pc = "idle" /\ frame = NoFrame /\ frame.doing = "none"
      /\ pc' = "realloc" /\ i' = 1 /\ arg' = [ptr |-> g.ptr, size |-> s]
      /\ frame' = [doing |-> "resize", old |-> g, new |-> NoGrant]
      /\ held' = held \ {g}
      /\ UNCHANGED memory
  BY DEF Realloc, Ready, Start, NoFrame
<1>2. /\ Lists' /\ Used' = Used
      /\ {GrantOf(b) : b \in Used}' = {GrantOf(b) : b \in Used}
      /\ \A b \in Used : GrantOf(b)' = GrantOf(b)
  BY <1>1, HeapStays DEF Sound
<1>3. Reserved = held /\ Reserved' = (held \ {g}) \cup {g}
  BY <1>1 DEF Reserved, Granted
<1>4. UsedIsReserved'
  BY <1>2, <1>3 DEF Sound, UsedIsReserved
<1>5. Calls' /\ FrameOK' /\ WalkOK'
  BY <1>1 DEF Calls, AllocOK, FreeOK, FrameOK, WalkOK
<1>6. MissOK'
  BY <1>1 DEF MissOK, Slots
<1> QED
  BY <1>1, <1>2, <1>4, <1>5, <1>6 DEF Sound

(* mem_realloc calls mem_alloc: what it was given stays its own.           *)
LEMMA CallsAllocInv ==
    ASSUME Typed, Sound, pc \in {"realloc", "realloc_walk"}, UNCHANGED memory, held' = held,
           Start("alloc", NULL, arg.size),
           NEW d \in {"move", "miss"}, frame' = [frame EXCEPT !.doing = d],
           d = "miss" => \A r \in Slots : Passed(r, arg.size)
    PROVE  Sound'
<1>1. /\ pc' = "alloc" /\ arg' = [ptr |-> NULL, size |-> arg.size]
      /\ frame'.doing = d /\ frame'.old = frame.old
      /\ frame.doing = "resize" /\ frame.old \notin held /\ arg.size \in Sizes
      /\ Reserved = held \cup {frame.old}
  <2>1. frame'.doing = d /\ frame'.old = frame.old
    BY DEF Typed, CallTyped, Frames
  <2> QED
    BY <2>1, ResizeFacts DEF Start
<1>2. /\ Lists' /\ Used' = Used
      /\ {GrantOf(b) : b \in Used}' = {GrantOf(b) : b \in Used}
      /\ \A b \in Used : GrantOf(b)' = GrantOf(b)
  BY HeapStays DEF Sound
<1>3. Reserved' = Reserved
  BY <1>1 DEF Reserved, Granted
<1>4. UsedIsReserved'
  BY <1>2, <1>3 DEF Sound, UsedIsReserved
<1>5. Calls' /\ FrameOK' /\ WalkOK'
  BY <1>1 DEF Calls, AllocOK, FreeOK, FrameOK, WalkOK
<1>6. MissOK'
  BY <1>1 DEF MissOK, Passed, memory
<1> QED
  BY <1>1, <1>2, <1>4, <1>5, <1>6 DEF Sound

LEMMA ReallocRegionInv ==
    ASSUME Typed, Sound, ReallocRegion
    PROVE  Sound'
<1>1. /\ pc = "realloc" /\ UNCHANGED memory /\ held' = held
      /\ \A r \in Slots : r < i => Passed(r, arg.size)
      /\ i \in 1 .. MaxRegions + 1 /\ MaxRegions \in Nat
      /\ frame.doing = "resize" /\ frame.old \notin held
  BY ConstantFacts, ResizeFacts DEF ReallocRegion, Sound, MissOK, Typed, CallTyped
<1>2. /\ Lists' /\ Used' = Used
      /\ {GrantOf(b) : b \in Used}' = {GrantOf(b) : b \in Used}
      /\ \A b \in Used : GrantOf(b)' = GrantOf(b)
  BY <1>1, HeapStays DEF Sound
<1>3. \A r \in Slots : r \in Nat /\ r <= MaxRegions
  BY <1>1 DEF Slots
<1>4. CASE i > MaxRegions
  <2>1. Start("alloc", NULL, arg.size) /\ frame' = [frame EXCEPT !.doing = "miss"]
    BY <1>4 DEF ReallocRegion
  <2>2. \A r \in Slots : Passed(r, arg.size)
    BY <1>1, <1>3, <1>4
  <2> QED
    BY <1>1, <2>1, <2>2, CallsAllocInv
<1>5. ASSUME ~ (i > MaxRegions)
      PROVE  i \in Slots /\ frame' = frame /\ arg' = arg
  BY <1>1, <1>5 DEF ReallocRegion, Slots
<1>6. ASSUME ~ (i > MaxRegions), pc' \in {"realloc", "realloc_walk"}
      PROVE  UsedIsReserved' /\ Calls' /\ FrameOK'
  <2>1. Reserved' = Reserved
    BY <1>1, <1>5, <1>6 DEF Reserved, Granted
  <2>2. UsedIsReserved'
    BY <2>1, <1>2 DEF Sound, UsedIsReserved
  <2>3. Calls' /\ FrameOK'
    BY <1>1, <1>5, <1>6 DEF Calls, AllocOK, FreeOK, FrameOK
  <2> QED
    BY <2>2, <2>3
<1>7. CASE ~ (i > MaxRegions) /\ Passed(i, arg.size)
  <2>1. pc' = "realloc" /\ i' = i + 1
    BY <1>7, <1>1 DEF ReallocRegion
  <2>2. MissOK'
    <3>1. \A r \in Slots : r < i + 1 => r < i \/ r = i
      BY <1>1, <1>3
    <3>2. \A r \in Slots : r < i + 1 => Passed(r, arg.size)
      BY <3>1, <1>1, <1>7
    <3>3. \A r \in Slots : r < i' => Passed(r, arg.size)'
      BY <3>2, <2>1, <1>1, <1>5, <1>7 DEF Passed, memory
    <3> QED
      BY <3>3, <2>1, <1>1, <1>5, <1>7 DEF MissOK
  <2>3. WalkOK'
    BY <2>1, <1>1, <1>5, <1>7, ResizeFacts DEF WalkOK
  <2> QED
    BY <2>1, <2>2, <2>3, <1>1, <1>2, <1>5, <1>6, <1>7 DEF Sound
<1>8. CASE ~ (i > MaxRegions) /\ ~ Passed(i, arg.size)
  <2>1. /\ pc' = "realloc_walk" /\ i' = i /\ prev' = NIL
        /\ block' = regions[i].head /\ bptr' = regions[i].addr
    BY <1>8 DEF ReallocRegion
  <2>2. /\ i <= nbanks /\ regions[i].addr = Banks[i].addr /\ regions[i].head = <<i, 0>>
    BY <1>5, <1>8 DEF Sound, Lists, RegionsOK, Passed
  <2>3. /\ nbanks \in 0 .. Len(Banks) /\ Len(Banks) \in Nat /\ Len(Banks) <= 1
        /\ HeapOK(blocks, at, nbanks) /\ arg.size \in Sizes /\ arg.ptr = frame.old.ptr
        /\ arg.size \in Nat /\ held \cup {frame.old} = {GrantOf(b) : b \in Used}
        /\ blocks \in [BlockIds -> Block] /\ at \in [BlockIds -> Addrs]
    BY <1>1, ResizeFacts
  <2>4. nbanks \in Nat /\ nbanks <= 1
    BY <2>3
  <2>5. i = 1 /\ nbanks = 1
    BY <2>2, <2>4, <1>1
  <2>6. 1 \in 1 .. Len(Banks)
    BY <2>3, <2>5
  <2>7. <<1, 0>> \in Live(blocks) /\ at[<<1, 0>>] = Banks[1].addr /\ <<1, 0>>[1] = 1
    <3>1. <<1, 0>> \in BlockIds
      BY <2>6, BankFacts
    <3> QED
      BY <3>1, <2>3, <2>5 DEF HeapOK, Heads, Live
  <2>8. arg.size <= regions[1].free_size
    <3>1. regions[1].free_size \in Nat
      BY <1>5, <1>8, <2>5, ConstantFacts DEF Typed, MemoryTyped, Region
    <3> QED
      BY <3>1, <2>3, <2>5, <1>8 DEF Passed
  <2>9. PICK t \in Used : GrantOf(t) = frame.old
    BY <2>3
  <2>10. at[t] >= Banks[1].addr
    <3>1. t[1] \in 1 .. nbanks /\ Banks[t[1]].addr <= at[t] /\ at[t] \in Nat
      BY <2>3, UsedFacts DEF Used
    <3>2. t[1] = 1
      BY <3>1, <2>5
    <3>3. Banks[1].addr \in Nat
      BY <2>6, BankFacts
    <3> QED
      BY <3>1, <3>2, <3>3
  <2>11. WalkOK'
    <3>1. \E b \in Used : GrantOf(b)' = frame.old /\ at'[b] >= bptr'
      BY <2>1, <2>2, <2>5, <2>9, <2>10, <1>1, <1>2 DEF memory
    <3>2. /\ i' <= nbanks' /\ arg'.size <= regions'[i'].free_size
          /\ block' \in Live(blocks') /\ block'[1] = i' /\ bptr' = at'[block']
      BY <2>1, <2>2, <2>5, <2>7, <2>8, <1>1, <1>5, <1>8 DEF memory
    <3> QED
      BY <3>1, <3>2, <2>1, <2>3, <1>2, <1>5, <1>8 DEF WalkOK
  <2>12. MissOK'
    BY <2>1, <1>1, <1>5, <1>8 DEF MissOK
  <2> QED
    BY <2>1, <2>11, <2>12, <1>1, <1>2, <1>5, <1>6, <1>8 DEF Sound
<1> QED
  BY <1>4, <1>7, <1>8

LEMMA ReallocWalkInv ==
    ASSUME Typed, Sound, ReallocWalk
    PROVE  Sound'
<1>1. /\ pc = "realloc_walk" /\ ~ Found
      /\ regions' = regions /\ nbanks' = nbanks /\ at' = at /\ arg' = arg
      /\ held' = held /\ frame' = frame
  BY DEF ReallocWalk
<1>2. /\ i = 1 /\ nbanks = 1 /\ 1 \in 1 .. Len(Banks) /\ 1 \in Slots
      /\ block \in Live(blocks) /\ block \in BlockIds /\ block # NIL
      /\ block[1] = 1 /\ bptr = at[block] /\ bptr \in Nat
      /\ arg.size <= regions[1].free_size /\ regions[1].free_size \in Nat
      /\ regions[1].free_size <= blocks[<<1, 0>>].size
      /\ <<1, 0>> \in BlockIds /\ <<1, 0>> \in Live(blocks)
  BY <1>1, WalkFacts
<1>3. /\ frame.doing = "resize" /\ arg.size \in Sizes /\ arg.ptr = frame.old.ptr
      /\ frame.old \notin held
      /\ nbanks \in 0 .. Len(Banks)
      /\ blocks \in [BlockIds -> Block] /\ at \in [BlockIds -> Addrs]
      /\ HeapOK(blocks, at, nbanks)
  BY <1>1, ResizeFacts
<1>4. /\ blocks' = Here /\ bptr' = Add(bptr, Here[block].size)
      /\ prev' = block /\ block' = Here[block].next /\ pc' = pc /\ i' = i
  BY <1>2 DEF ReallocWalk
<1>5. /\ Here \in [BlockIds -> Block] /\ HeapOK(Here, at, nbanks)
      /\ block \in Live(Here)
      /\ \A c \in BlockIds : Here[c].type = "used" <=> blocks[c].type = "used"
      /\ \A c \in BlockIds : Here[c].type = "used" => Here[c] = blocks[c]
      /\ Here[<<1, 0>>].size >= blocks[<<1, 0>>].size
  <2>1. <<1, 0>>[2] = 0
    OBVIOUS
  <2> QED
    BY <2>1, <1>2, <1>3, FixedOK DEF Here
<1>6. /\ Used' = Used
      /\ \A b \in Used : b \in BlockIds /\ Here[b] = blocks[b] /\ Here[b].type = "used"
      /\ \A b \in Used : GrantOf(b)' = GrantOf(b)
  BY <1>1, <1>4, <1>5 DEF Used, GrantOf
<1>7. UsedIsReserved'
  <2>1. Reserved' = Reserved
    BY <1>1, <1>4 DEF Reserved, Granted
  <2>2. {GrantOf(b)' : b \in Used} = {GrantOf(b) : b \in Used}
    BY <1>6
  <2> QED
    BY <2>1, <2>2, <1>6 DEF Sound, UsedIsReserved
<1>8. RegionsOK'
  <2>1. regions[1].free_size <= Here[<<1, 0>>].size
    <3>1. Here[<<1, 0>>].size \in Nat /\ blocks[<<1, 0>>].size \in Nat
      BY <1>2, <1>3, <1>5, ConstantFacts DEF Block
    <3> QED
      BY <3>1, <1>2, <1>5
  <2>2. \A q \in Slots : q <= 1 => q = 1
    BY ConstantFacts DEF Slots
  <2> QED
    BY <2>1, <2>2, <1>1, <1>2, <1>4 DEF Sound, Lists, RegionsOK
<1>9. PICK t \in Used : GrantOf(t) = frame.old /\ at[t] >= bptr
  BY <1>1, WalkFacts
<1>10. /\ t \in BlockIds /\ Here[t].type = "used" /\ at[t] = arg.ptr
       /\ t[1] = 1 /\ at[t] \in Nat
  <2>1. t[1] \in 1 .. nbanks /\ at[t] \in Nat
    BY <1>3, UsedFacts DEF Used
  <2> QED
    BY <2>1, <1>2, <1>3, <1>6, <1>9 DEF GrantOf
<1>11. /\ Here[block].size \in Nat /\ Add(bptr, Here[block].size) = at[block] + Here[block].size
  <2>1. /\ Here[block].size \in Nat /\ at[block] \in Nat
        /\ at[block] + Here[block].size <= Top(1) /\ Top(1) < Word
    BY <1>2, <1>3, <1>5, LiveFacts
  <2>2. Top(1) \in Nat /\ Word \in Nat
    BY <1>2, BankFacts, ConstantFacts
  <2>3. at[block] + Here[block].size < Word
    BY <2>1, <2>2
  <2> QED
    BY <2>1, <2>3, <1>2, NoWrap
<1>12. t # block
  <2> SUFFICES ASSUME t = block PROVE FALSE
    OBVIOUS
  <2>1. Here[block].type = "used" /\ arg.ptr = bptr
    BY <1>2, <1>10
  <2>2. bptr <= Add(bptr, Here[block].size)
    BY <1>2, <1>11
  <2>3. Matches(Here[block], bptr, arg.ptr)
    BY <2>1, <2>2, <1>2 DEF Matches
  <2> QED
    BY <2>3, <1>1, <1>2 DEF Found
<1>13. /\ Here[block].next # NIL /\ Here[block].next \in Live(Here)
       /\ at[Here[block].next] = at[block] + Here[block].size
       /\ at[Here[block].next] <= at[t]
       /\ Here[block].next[1] = 1
  <2>1. at[block] <= at[t] /\ t[1] = block[1]
    BY <1>2, <1>9, <1>10
  <2>2. /\ Here[block].next # NIL /\ Here[block].next \in Live(Here)
        /\ at[Here[block].next] = at[block] + Here[block].size
        /\ at[Here[block].next] <= at[t]
    BY <2>1, <1>3, <1>5, <1>10, <1>12, Ahead
  <2> QED
    BY <2>2, <1>2, <1>3, <1>5, LiveFacts
<1>14. WalkOK'
  <2>1. \E b \in Used : GrantOf(b)' = frame.old /\ at[b] >= bptr'
    <3>1. at[t] >= bptr'
      <4>1. at[block] + Here[block].size \in Nat
        BY <1>2, <1>11
      <4> QED
        BY <4>1, <1>4, <1>10, <1>11, <1>13
    <3> QED
      BY <3>1, <1>6, <1>9
  <2>2. /\ block' \in Live(blocks') /\ block'[1] = 1 /\ bptr' = at[block']
        /\ prev' \in Live(blocks') /\ blocks'[prev'].next = block'
    BY <1>4, <1>5, <1>11, <1>13
  <2> QED
    BY <2>1, <2>2, <1>1, <1>2, <1>3, <1>4, <1>6 DEF WalkOK
<1>15. Calls' /\ FrameOK' /\ MissOK'
  BY <1>1, <1>3, <1>4 DEF Calls, AllocOK, FreeOK, FrameOK, MissOK
<1>16. HeapOK(blocks', at', nbanks')
  BY <1>1, <1>4, <1>5
<1> QED
  BY <1>1, <1>3, <1>7, <1>8, <1>14, <1>15, <1>16 DEF Sound, Lists

(* Bytes change sides between two different blocks.                        *)
LEMMA ShiftedFacts ==
    ASSUME NEW bs \in [BlockIds -> Block], NEW b \in BlockIds, NEW c \in BlockIds, b # c,
           NEW n \in Nat, n <= bs[b].size, bs[c].size + n < Word,
           NEW ms, ms = Shifted(bs, b, c, n)
    PROVE  /\ ms[b].size = bs[b].size - n /\ ms[c].size = bs[c].size + n
           /\ \A e \in BlockIds : ms[e].type = bs[e].type /\ ms[e].next = bs[e].next
           /\ \A e \in BlockIds : e # b /\ e # c => ms[e].size = bs[e].size
<1>1. bs[c].size \in Nat /\ bs[b].size \in Nat
  BY ConstantFacts DEF Block
<1>2. Add(bs[c].size, n) = bs[c].size + n
  BY <1>1, NoWrap
<1>3. ms = [bs EXCEPT ![b].size = bs[b].size - n, ![c].size = bs[c].size + n]
  BY <1>2 DEF Shifted
<1> QED
  BY <1>3 DEF Block

(* A neighbour of the found block that is free: it is never the block      *)
(* itself, and only the one before it can be the head.                     *)
LEMMA NeighbourFacts ==
    ASSUME Typed, Sound, Found
    PROVE  /\ block # <<1, 0>>
           /\ LET n == blocks[block].next IN
              n # NIL =>
                /\ n \in Live(blocks) /\ n \in BlockIds /\ n # block /\ n # <<1, 0>>
                /\ at[n] = at[block] + blocks[block].size /\ at[n] \in Nat
                /\ blocks[n].size \in Nat
                /\ at[n] + blocks[n].size <= Top(1)
           /\ prev # NIL =>
                /\ prev \in Live(blocks) /\ prev \in BlockIds /\ prev # block
                /\ blocks[prev].next = block
                /\ at[block] = at[prev] + blocks[prev].size /\ at[prev] \in Nat
                /\ blocks[prev].size \in Nat
<1>1. /\ block \in Live(blocks) /\ block \in BlockIds /\ block # NIL /\ block[1] = 1
      /\ block[2] # 0
      /\ nbanks \in 0 .. Len(Banks)
      /\ blocks \in [BlockIds -> Block] /\ at \in [BlockIds -> Addrs]
      /\ HeapOK(blocks, at, nbanks)
      /\ prev # NIL => prev \in Live(blocks) /\ blocks[prev].next = block
  BY FoundFacts, WalkFacts, ResizeFacts
<1>2. \A c \in Live(blocks) : c \in BlockIds
  BY DEF Live
<1>3. block # <<1, 0>>
  BY <1>1
<1>4. ASSUME blocks[block].next # NIL
      PROVE  LET n == blocks[block].next IN
             /\ n \in Live(blocks) /\ n \in BlockIds /\ n # block /\ n # <<1, 0>>
             /\ at[n] = at[block] + blocks[block].size /\ at[n] \in Nat
             /\ blocks[n].size \in Nat
             /\ at[n] + blocks[n].size <= Top(1)
  <2> DEFINE n == blocks[block].next
  <2>1. /\ n \in Live(blocks) /\ n # block /\ n[1] = 1 /\ n[2] # 0
        /\ at[n] = at[block] + blocks[block].size
    BY <1>1, <1>4, LiveFacts
  <2>2. /\ at[n] \in Nat /\ blocks[n].size \in Nat /\ at[n] + blocks[n].size <= Top(n[1])
    BY <2>1, <1>1, LiveFacts
  <2> QED
    BY <2>1, <2>2, <1>2
<1>5. ASSUME prev # NIL
      PROVE  /\ prev \in BlockIds /\ prev # block
             /\ at[block] = at[prev] + blocks[prev].size /\ at[prev] \in Nat
             /\ blocks[prev].size \in Nat
  BY <1>1, <1>2, <1>5, LiveFacts
<1> QED
  BY <1>1, <1>3, <1>4, <1>5

(* Growing into the free block behind.                                     *)
LEMMA TakeFromNextInv ==
    ASSUME Typed, Sound, Typed', TakeFromNext
    PROVE  Sound'
<1> DEFINE n == blocks[block].next
           d == arg.size - blocks[block].size
<1>1. /\ Found /\ Here = blocks /\ pc = "realloc_walk" /\ bptr = at[block]
      /\ block \in Used /\ block \in BlockIds
      /\ blocks[block].size \in Nat /\ at[block] \in Nat
      /\ Top(1) \in Nat /\ Top(1) < Word
      /\ i = 1 /\ regions[1].free_size \in Nat /\ arg.size <= regions[1].free_size
      /\ regions[1].free_size <= blocks[<<1, 0>>].size
      /\ arg.size \in Nat /\ arg.size < Word /\ arg.size > 0
      /\ <<1, 0>> \in BlockIds
  <2>1. Found
    BY DEF TakeFromNext
  <2>2. pc = "realloc_walk"
    BY <2>1, FoundFacts
  <2> QED
    BY <2>1, <2>2, FoundFacts, WalkFacts, ResizeFacts
<1>2. /\ d > 0 /\ n # NIL /\ blocks[n].type = "free" /\ blocks[n].size >= d
      /\ blocks' = Shifted(blocks, n, block, d)
      /\ at' = [at EXCEPT ![n] = Add(@, d)]
      /\ FreeSizeBecomes(Sub(regions[1].free_size, d))
      /\ Result(at[block], arg.size) /\ nbanks' = nbanks
  BY <1>1 DEF TakeFromNext, Grown, FreeWith
<1>3. /\ n \in Live(blocks) /\ n \in BlockIds /\ n # block /\ n # <<1, 0>>
      /\ block # <<1, 0>>
      /\ at[n] = at[block] + blocks[block].size /\ at[n] \in Nat
      /\ blocks[n].size \in Nat /\ at[n] + blocks[n].size <= Top(1)
  BY <1>1, <1>2, NeighbourFacts
<1>4. /\ blocks \in [BlockIds -> Block] /\ at \in [BlockIds -> Addrs]
      /\ nbanks \in 0 .. Len(Banks) /\ HeapOK(blocks, at, nbanks)
      /\ block \in Live(blocks)
      /\ blocks' \in [BlockIds -> Block] /\ at' \in [BlockIds -> Addrs]
  BY <1>1, ResizeFacts, WalkFacts DEF Typed, MemoryTyped
<1>5. /\ d \in Nat /\ blocks[block].size + d = arg.size /\ d <= blocks[n].size
      /\ d <= regions[1].free_size
  BY <1>1, <1>2, <1>3
<1>6. /\ blocks'[n].size = blocks[n].size - d /\ blocks'[block].size = arg.size
      /\ \A e \in BlockIds : blocks'[e].type = blocks[e].type /\ blocks'[e].next = blocks[e].next
      /\ \A e \in BlockIds : e # n /\ e # block => blocks'[e].size = blocks[e].size
  <2>1. /\ blocks \in [BlockIds -> Block] /\ n \in BlockIds /\ block \in BlockIds
        /\ n # block /\ d \in Nat /\ d <= blocks[n].size /\ blocks[block].size + d < Word
        /\ blocks' = Shifted(blocks, n, block, d)
    BY <1>1, <1>2, <1>3, <1>4, <1>5
  <2> HIDE DEF d, n
  <2>2. /\ blocks'[n].size = blocks[n].size - d
        /\ blocks'[block].size = blocks[block].size + d
        /\ \A e \in BlockIds : blocks'[e].type = blocks[e].type
                               /\ blocks'[e].next = blocks[e].next
        /\ \A e \in BlockIds : e # n /\ e # block => blocks'[e].size = blocks[e].size
    BY <2>1, ShiftedFacts
  <2> QED
    BY <2>2, <1>5
<1>7. /\ at'[n] = at[block] + arg.size
      /\ \A e \in BlockIds : e # n => at'[e] = at[e]
  <2>1. at[n] + d < Word /\ at[n] + d = at[block] + arg.size
    <3>1. Word \in Nat
      BY ConstantFacts
    <3> HIDE DEF d, n
    <3> QED
      BY <3>1, <1>1, <1>3, <1>5
  <2>2. Add(at[n], d) = at[n] + d
    BY <2>1, <1>3, <1>5, NoWrap
  <2> QED
    BY <2>1, <2>2, <1>2, <1>3, <1>4
<1>7a. blocks[block].next = n
  OBVIOUS
<1> HIDE DEF d, n
<1>8. HeapOK(blocks', at', nbanks')
  <2>1. blocks'[block].size + blocks'[n].size = blocks[block].size + blocks[n].size
    BY <1>1, <1>3, <1>5, <1>6
  <2>2. /\ blocks[n].type # "used" /\ blocks'[block].size > 0
        /\ at'[n] = at[block] + blocks'[block].size
    BY <1>1, <1>2, <1>6, <1>7
  <2>3. HeapOK(blocks', at', nbanks)
    <3>1. BoundaryMoves(blocks, blocks', at, at', block, n)
      BY <2>1, <2>2, <1>2, <1>6, <1>7, <1>7a DEF BoundaryMoves
    <3> QED
      BY <3>1, <1>4, BoundaryMoved
  <2> QED
    BY <2>3, <1>2
<1>9. RegionsOK'
  <2>1. Sub(regions[1].free_size, d) = regions[1].free_size - d
    BY <1>1, <1>5, NoWrap
  <2>2. blocks'[<<1, 0>>].size = blocks[<<1, 0>>].size /\ blocks[<<1, 0>>].size \in Nat
    BY <1>1, <1>3, <1>4, <1>6, ConstantFacts DEF Block
  <2>3. Sub(regions[1].free_size, d) <= blocks'[<<1, 0>>].size
    BY <2>1, <2>2, <1>1, <1>5
  <2> QED
    BY <2>3, <1>1, <1>2, RegionStays
<1>10. \A c \in Used : c # block => blocks'[c].size = blocks[c].size /\ at'[c] = at[c]
  BY <1>2, <1>6, <1>7 DEF Used
<1> QED
  BY <1>1, <1>2, <1>3, <1>6, <1>7, <1>8, <1>9, <1>10, ResizedInv

(* Growing into the free block before: the block starts earlier.           *)
LEMMA TakeFromPrevInv ==
    ASSUME Typed, Sound, Typed', TakeFromPrev
    PROVE  Sound'
<1> DEFINE d == arg.size - blocks[block].size
<1>1. /\ Found /\ Here = blocks /\ pc = "realloc_walk" /\ bptr = at[block]
      /\ block \in Used /\ block \in BlockIds /\ block # NIL
      /\ blocks[block].size \in Nat /\ at[block] \in Nat
      /\ i = 1 /\ regions[1].free_size \in Nat /\ arg.size <= regions[1].free_size
      /\ regions[1].free_size <= blocks[<<1, 0>>].size
      /\ arg.size \in Nat /\ arg.size < Word /\ arg.size > 0
      /\ <<1, 0>> \in BlockIds
  <2>1. Found
    BY DEF TakeFromPrev
  <2>2. pc = "realloc_walk"
    BY <2>1, FoundFacts
  <2> QED
    BY <2>1, <2>2, FoundFacts, WalkFacts, ResizeFacts
<1>2. /\ d > 0 /\ prev # NIL /\ blocks[prev].type = "free" /\ blocks[prev].size >= d
      /\ blocks' = Shifted(blocks, prev, block, d)
      /\ at' = [at EXCEPT ![block] = Sub(@, d)]
      /\ FreeSizeBecomes(Sub(regions[1].free_size, d))
      /\ Result(Sub(at[block], d), arg.size) /\ nbanks' = nbanks
  BY <1>1 DEF TakeFromPrev, Grown, FreeWith
<1>3. /\ prev \in Live(blocks) /\ prev \in BlockIds /\ prev # block
      /\ blocks[prev].next = block /\ block # <<1, 0>>
      /\ at[block] = at[prev] + blocks[prev].size /\ at[prev] \in Nat
      /\ blocks[prev].size \in Nat
  BY <1>1, <1>2, NeighbourFacts
<1>4. /\ blocks \in [BlockIds -> Block] /\ at \in [BlockIds -> Addrs]
      /\ nbanks \in 0 .. Len(Banks) /\ HeapOK(blocks, at, nbanks)
      /\ blocks' \in [BlockIds -> Block] /\ at' \in [BlockIds -> Addrs]
  BY <1>1, ResizeFacts DEF Typed, MemoryTyped
<1>5. /\ d \in Nat /\ blocks[block].size + d = arg.size /\ d <= blocks[prev].size
      /\ d <= regions[1].free_size
  BY <1>1, <1>2, <1>3
<1>6. /\ blocks'[prev].size = blocks[prev].size - d /\ blocks'[block].size = arg.size
      /\ \A e \in BlockIds : blocks'[e].type = blocks[e].type /\ blocks'[e].next = blocks[e].next
      /\ \A e \in BlockIds : e # prev /\ e # block => blocks'[e].size = blocks[e].size
  <2>1. /\ blocks \in [BlockIds -> Block] /\ prev \in BlockIds /\ block \in BlockIds
        /\ prev # block /\ d \in Nat /\ d <= blocks[prev].size
        /\ blocks[block].size + d < Word
        /\ blocks' = Shifted(blocks, prev, block, d)
    BY <1>1, <1>2, <1>3, <1>4, <1>5
  <2> HIDE DEF d
  <2>2. /\ blocks'[prev].size = blocks[prev].size - d
        /\ blocks'[block].size = blocks[block].size + d
        /\ \A e \in BlockIds : blocks'[e].type = blocks[e].type
                               /\ blocks'[e].next = blocks[e].next
        /\ \A e \in BlockIds : e # prev /\ e # block => blocks'[e].size = blocks[e].size
    BY <2>1, ShiftedFacts
  <2> QED
    BY <2>2, <1>5
<1>7. /\ at'[block] = at[prev] + blocks'[prev].size
      /\ at'[block] = Sub(at[block], d)
      /\ \A e \in BlockIds : e # block => at'[e] = at[e]
  <2>1. at[block] >= d /\ at[block] - d = at[prev] + (blocks[prev].size - d)
    BY <1>1, <1>3, <1>5
  <2>2. Sub(at[block], d) = at[block] - d
    BY <2>1, <1>1, <1>5, NoWrap
  <2> QED
    BY <2>1, <2>2, <1>1, <1>2, <1>4, <1>6
<1> HIDE DEF d
<1>8. HeapOK(blocks', at', nbanks')
  <2>1. blocks'[prev].size + blocks'[block].size = blocks[prev].size + blocks[block].size
    BY <1>1, <1>3, <1>5, <1>6
  <2>2. blocks[prev].type # "used" /\ blocks'[block].size > 0
    BY <1>1, <1>2, <1>6
  <2>3. prev \in Live(blocks) /\ blocks[prev].next = block /\ block # NIL
    BY <1>1, <1>3
  <2>4. HeapOK(blocks', at', nbanks)
    <3>1. BoundaryMoves(blocks, blocks', at, at', prev, block)
      BY <2>1, <2>2, <2>3, <1>6, <1>7 DEF BoundaryMoves
    <3> QED
      BY <2>3, <3>1, <1>4, BoundaryMoved
  <2> QED
    BY <2>4, <1>2
<1>9. RegionsOK'
  <2>1. Sub(regions[1].free_size, d) = regions[1].free_size - d
    BY <1>1, <1>5, NoWrap
  <2>2. blocks[<<1, 0>>].size \in Nat
    BY <1>1, <1>4, ConstantFacts DEF Block
  <2>3. blocks'[<<1, 0>>].size \in Nat /\ blocks'[<<1, 0>>].size >= blocks[<<1, 0>>].size - d
    <3>1. CASE prev = <<1, 0>>
      BY <3>1, <2>2, <1>1, <1>3, <1>5, <1>6
    <3>2. CASE prev # <<1, 0>>
      <4>1. blocks'[<<1, 0>>].size = blocks[<<1, 0>>].size
        BY <3>2, <1>1, <1>3, <1>6
      <4> QED
        BY <4>1, <2>2, <1>5
    <3> QED
      BY <3>1, <3>2
  <2>4. Sub(regions[1].free_size, d) <= blocks'[<<1, 0>>].size
    BY <2>1, <2>2, <2>3, <1>1, <1>5
  <2> QED
    BY <2>4, <1>1, <1>2, RegionStays
<1>10. \A c \in Used : c # block => blocks'[c].size = blocks[c].size /\ at'[c] = at[c]
  BY <1>2, <1>6, <1>7 DEF Used
<1>11. Result(at'[block], arg.size)
  BY <1>2, <1>7
<1> QED
  BY <1>1, <1>2, <1>6, <1>8, <1>9, <1>10, <1>11, ResizedInv

(* Shrinking into the free block before, as long as that is the head,      *)
(* whose bytes free_size counts.                                           *)
LEMMA GiveToPrevInv ==
    ASSUME Typed, Sound, Typed', GiveToPrev, sound'
    PROVE  Sound'
<1> DEFINE d == blocks[block].size - arg.size
<1>1. /\ Found /\ Here = blocks /\ pc = "realloc_walk" /\ bptr = at[block]
      /\ block \in Used /\ block \in BlockIds /\ block # NIL
      /\ blocks[block].size \in Nat /\ at[block] \in Nat
      /\ at[block] + blocks[block].size <= Top(1) /\ Top(1) \in Nat /\ Top(1) < Word
      /\ i = 1 /\ nbanks = 1 /\ 1 \in Slots /\ regions[1].free_size \in Nat
      /\ regions[1].free_size <= blocks[<<1, 0>>].size
      /\ arg.size \in Nat /\ arg.size < Word /\ arg.size > 0
      /\ <<1, 0>> \in BlockIds
  <2>1. Found
    BY DEF GiveToPrev
  <2>2. pc = "realloc_walk"
    BY <2>1, FoundFacts
  <2> QED
    BY <2>1, <2>2, FoundFacts, WalkFacts, ResizeFacts
<1>2. /\ d > 0 /\ prev # NIL /\ blocks[prev].type = "free"
      /\ blocks' = Shifted(blocks, block, prev, d)
      /\ at' = [at EXCEPT ![block] = Add(@, d)]
      /\ FreeSizeBecomes(Add(regions[1].free_size, d))
      /\ Result(Add(at[block], d), arg.size) /\ nbanks' = nbanks
      /\ prev = regions[1].head
  BY <1>1 DEF GiveToPrev, Shrunk, FreeWith
<1>3. /\ prev \in Live(blocks) /\ prev \in BlockIds /\ prev # block
      /\ blocks[prev].next = block /\ block # <<1, 0>>
      /\ at[block] = at[prev] + blocks[prev].size /\ at[prev] \in Nat
      /\ blocks[prev].size \in Nat
  BY <1>1, <1>2, NeighbourFacts
<1>4. /\ blocks \in [BlockIds -> Block] /\ at \in [BlockIds -> Addrs]
      /\ nbanks \in 0 .. Len(Banks) /\ HeapOK(blocks, at, nbanks)
      /\ blocks' \in [BlockIds -> Block] /\ at' \in [BlockIds -> Addrs]
  BY <1>1, ResizeFacts DEF Typed, MemoryTyped
<1>5. d \in Nat /\ blocks[block].size = arg.size + d /\ d <= blocks[block].size
  BY <1>1, <1>2
<1>6. /\ blocks'[prev].size = blocks[prev].size + d /\ blocks'[block].size = arg.size
      /\ \A e \in BlockIds : blocks'[e].type = blocks[e].type /\ blocks'[e].next = blocks[e].next
      /\ \A e \in BlockIds : e # prev /\ e # block => blocks'[e].size = blocks[e].size
  <2>1. blocks[prev].size + d < Word
    <3>1. Word \in Nat
      BY ConstantFacts
    <3> HIDE DEF d
    <3> QED
      BY <3>1, <1>1, <1>3, <1>5
  <2>2. blocks[block].size - d = arg.size
    BY <1>1, <1>5
  <2>3. /\ blocks \in [BlockIds -> Block] /\ prev \in BlockIds /\ block \in BlockIds
        /\ prev # block /\ d \in Nat /\ d <= blocks[block].size
        /\ blocks' = Shifted(blocks, block, prev, d)
    BY <1>1, <1>2, <1>3, <1>4, <1>5
  <2> HIDE DEF d
  <2>4. /\ blocks'[block].size = blocks[block].size - d
        /\ blocks'[prev].size = blocks[prev].size + d
        /\ \A e \in BlockIds : blocks'[e].type = blocks[e].type
                               /\ blocks'[e].next = blocks[e].next
        /\ \A e \in BlockIds : e # block /\ e # prev => blocks'[e].size = blocks[e].size
    BY <2>1, <2>3, ShiftedFacts
  <2> QED
    BY <2>2, <2>4
<1>7. /\ at'[block] = at[prev] + blocks'[prev].size
      /\ at'[block] = Add(at[block], d)
      /\ \A e \in BlockIds : e # block => at'[e] = at[e]
  <2>1. at[block] + d < Word /\ at[block] + d = at[prev] + (blocks[prev].size + d)
    <3>1. Word \in Nat
      BY ConstantFacts
    <3> HIDE DEF d
    <3> QED
      BY <3>1, <1>1, <1>3, <1>5
  <2>2. Add(at[block], d) = at[block] + d
    BY <2>1, <1>1, <1>5, NoWrap
  <2> QED
    BY <2>1, <2>2, <1>1, <1>2, <1>4, <1>6
<1> HIDE DEF d
<1>8. HeapOK(blocks', at', nbanks')
  <2>1. blocks'[prev].size + blocks'[block].size = blocks[prev].size + blocks[block].size
    BY <1>1, <1>3, <1>5, <1>6
  <2>2. blocks[prev].type # "used" /\ blocks'[block].size > 0
    BY <1>1, <1>2, <1>6
  <2>3. prev \in Live(blocks) /\ blocks[prev].next = block /\ block # NIL
    BY <1>1, <1>3
  <2>4. HeapOK(blocks', at', nbanks)
    <3>1. BoundaryMoves(blocks, blocks', at, at', prev, block)
      BY <2>1, <2>2, <2>3, <1>6, <1>7 DEF BoundaryMoves
    <3> QED
      BY <2>3, <3>1, <1>4, BoundaryMoved
  <2> QED
    BY <2>4, <1>2
<1>9. RegionsOK'
  <2>1. prev = <<1, 0>>
    BY <1>1, <1>2 DEF Sound, Lists, RegionsOK
  <2>2. regions[1].free_size + d <= blocks[prev].size + d
    BY <2>1, <1>1, <1>3, <1>5
  <2>3. Add(regions[1].free_size, d) = regions[1].free_size + d
    <3>1. regions[1].free_size + d < Word
      <4>1. Word \in Nat
        BY ConstantFacts
      <4> QED
        BY <4>1, <2>2, <1>1, <1>3, <1>5
    <3> QED
      BY <3>1, <1>1, <1>5, NoWrap
  <2>4. Add(regions[1].free_size, d) <= blocks'[<<1, 0>>].size
    BY <2>1, <2>2, <2>3, <1>6
  <2> QED
    BY <2>4, <1>1, <1>2, RegionStays
<1>10. \A c \in Used : c # block => blocks'[c].size = blocks[c].size /\ at'[c] = at[c]
  BY <1>2, <1>6, <1>7 DEF Used
<1>11. Result(at'[block], arg.size)
  BY <1>2, <1>7
<1> QED
  BY <1>1, <1>2, <1>6, <1>8, <1>9, <1>10, <1>11, ResizedInv

(* Nothing to resize, or no descriptor for the remainder.                  *)
LEMMA InPlaceInv ==
    ASSUME Typed, Sound, SameSize \/ Split, sound'
    PROVE  Sound'
<1>1. /\ Found /\ Here = blocks /\ pc = "realloc_walk" /\ bptr = at[block]
      /\ GrantOf(block) = frame.old /\ Reserved = held \cup {frame.old}
      /\ at[block] > 0 /\ at[block] \in Nat /\ blocks[block].size \in Nat /\ arg.size \in Nat
  <2>1. Found
    BY DEF SameSize, Split
  <2>2. pc = "realloc_walk"
    BY <2>1, FoundFacts
  <2> QED
    BY <2>1, <2>2, FoundFacts, ResizeFacts
<1>2. CASE SameSize
  <2>1. UNCHANGED memory /\ Result(bptr, arg.size) /\ arg.size = blocks[block].size
    BY <1>1, <1>2 DEF SameSize, Grown, memory
  <2>2. bptr # NULL /\ [ptr |-> bptr, size |-> arg.size] = frame.old
    BY <1>1, <2>1 DEF GrantOf
  <2> QED
    BY <1>1, <2>1, <2>2, ResultInv
<1>3. CASE Split
  <2>1. UNCHANGED memory /\ Result(NULL, arg.size)
    BY <1>1, <1>3 DEF Split, memory
  <2> QED
    BY <1>1, <2>1, ResultInv
<1> QED
  BY <1>2, <1>3

LEMMA MoveElsewhereInv ==
    ASSUME Typed, Sound, MoveElsewhere
    PROVE  Sound'
<1>1. Found /\ Here = blocks /\ pc = "realloc_walk"
  BY FoundFacts DEF MoveElsewhere
<1>2. /\ UNCHANGED memory /\ held' = held /\ Start("alloc", NULL, arg.size)
      /\ frame' = [frame EXCEPT !.doing = "move"]
  BY <1>1 DEF MoveElsewhere, memory
<1> QED
  BY <1>1, <1>2, CallsAllocInv

(* Back from mem_alloc: without memory the client keeps what it had, with  *)
(* memory mem_free gets the old block, of which no client knows.           *)
LEMMA MovedInv ==
    ASSUME Typed, Sound, Moved, sound'
    PROVE  Sound'
<1> DEFINE g == [ptr |-> bptr, size |-> arg.size]
<1>1. /\ pc = "alloc_return" /\ frame.doing = "move" /\ UNCHANGED memory
      /\ frame.old \notin held /\ frame.old \in Grant
      /\ bptr # NULL => g # frame.old
      /\ Reserved = held \cup (IF bptr # NULL THEN {g} ELSE {}) \cup {frame.old}
  <2>1. pc = "alloc_return" /\ frame.doing = "move" /\ UNCHANGED memory
    BY DEF Moved
  <2>2. frame.old \notin held /\ frame.old \in Grant
    BY <2>1 DEF Sound, Typed, CallTyped, Frames
  <2>3. bptr # NULL => g # frame.old
    BY <2>1 DEF Sound, Calls, Owned
  <2>4. Reserved = held \cup (IF bptr # NULL THEN {g} ELSE {}) \cup {frame.old}
    BY <2>1 DEF Reserved, Granted
  <2> QED
    BY <2>1, <2>2, <2>3, <2>4
<1>2. CASE bptr = NULL
  <2>1. Result(NULL, arg.size) /\ Reserved = held \cup {frame.old}
    BY <1>1, <1>2 DEF Moved
  <2> QED
    BY <1>1, <2>1, ResultInv
<1>3. CASE bptr # NULL
  <2>1. /\ Start("free", frame.old.ptr, frame.old.size)
        /\ frame' = [frame EXCEPT !.doing = "free", !.new = g]
        /\ held' = held
    BY <1>3 DEF Moved
  <2>2. /\ pc' = "free" /\ i' = 1 /\ arg' = frame.old
        /\ frame'.doing = "free" /\ frame'.new = g
    <3>1. [ptr |-> frame.old.ptr, size |-> frame.old.size] = frame.old
      BY <1>1 DEF Grant
    <3>2. frame'.doing = "free" /\ frame'.new = g
      BY <2>1 DEF Typed, CallTyped, Frames
    <3> QED
      BY <2>1, <3>1, <3>2 DEF Start
  <2>3. /\ Lists' /\ Used' = Used
        /\ {GrantOf(b) : b \in Used}' = {GrantOf(b) : b \in Used}
        /\ \A b \in Used : GrantOf(b)' = GrantOf(b)
    BY <1>1, HeapStays DEF Sound
  <2>4. Reserved' = held \cup {frame.old} \cup {g} /\ Reserved = held \cup {g} \cup {frame.old}
    BY <1>1, <1>3, <2>1, <2>2 DEF Reserved, Granted
  <2>5. UsedIsReserved'
    BY <2>3, <2>4 DEF Sound, UsedIsReserved
  <2>6. Calls'
    <3>1. PICK t \in Used : GrantOf(t) = frame.old
      BY <1>1 DEF Sound, UsedIsReserved
    <3>2. t[1] >= 1
      <4>1. t[1] \in Slots
        BY BlockIdFacts DEF Used
      <4> QED
        BY <4>1, ConstantFacts DEF Slots
    <3>3. FreeOK'
      BY <3>1, <3>2, <1>1, <2>1, <2>2, <2>3 DEF FreeOK
    <3>4. arg' \notin Owned'
      BY <1>1, <1>3, <2>1, <2>2 DEF Owned
    <3>5. AllocOK'
      BY <2>2 DEF AllocOK
    <3> QED
      BY <3>3, <3>4, <3>5, <2>2 DEF Calls
  <2>7. FrameOK' /\ MissOK' /\ WalkOK'
    BY <2>2 DEF FrameOK, MissOK, WalkOK
  <2> QED
    BY <2>2, <2>3, <2>5, <2>6, <2>7 DEF Sound
<1> QED
  BY <1>2, <1>3

(* Back from mem_free, and from mem_alloc after a miss.                    *)
LEMMA OldFreedInv ==
    ASSUME Typed, Sound, OldFreed
    PROVE  Sound'
<1>1. /\ pc = "idle" /\ frame.doing = "free" /\ UNCHANGED memory
      /\ Result(frame.new.ptr, frame.new.size)
  BY DEF OldFreed
<1>2. Reserved = held \cup {frame.new}
  BY <1>1 DEF Reserved, Granted
<1>3. PICK t \in Used : GrantOf(t) = frame.new
  BY <1>2 DEF Sound, UsedIsReserved
<1>4. frame.new.ptr # NULL /\ frame.new = [ptr |-> frame.new.ptr, size |-> frame.new.size]
  <2>1. at[t] \in Nat /\ at[t] > 0
    <3>1. /\ blocks \in [BlockIds -> Block] /\ at \in [BlockIds -> Addrs]
          /\ nbanks \in 0 .. Len(Banks) /\ HeapOK(blocks, at, nbanks)
      BY DEF Sound, Lists, Typed, MemoryTyped
    <3> QED
      BY <3>1, UsedFacts DEF Used
  <2>2. frame.new = [ptr |-> at[t], size |-> blocks[t].size]
    BY <1>3 DEF GrantOf
  <2> QED
    BY <2>1, <2>2
<1> QED
  BY <1>1, <1>2, <1>4, ResultInv

LEMMA MissedInv ==
    ASSUME Typed, Sound, Missed
    PROVE  Sound'
<1>1. /\ pc = "alloc_return" /\ frame.doing = "miss" /\ UNCHANGED memory
      /\ Result(NULL, arg.size)
  BY DEF Missed
<1>2. bptr = NULL
  BY <1>1 DEF Sound, MissOK
<1>3. Reserved = held \cup {frame.old}
  BY <1>1, <1>2 DEF Reserved, Granted
<1> QED
  BY <1>1, <1>3, ResultInv

-----------------------------------------------------------------------------
(* The invariant.                                                          *)

LEMMA InitSound ==
    ASSUME ReallocInit, Len(Banks) <= 1
    PROVE  Sound
<1>1. Inv
  BY InitInv DEF ReallocInit
<1>2. frame = NoFrame /\ frame.doing = "none" /\ pc = "idle" /\ held = {}
  BY DEF ReallocInit, Init, NoFrame
<1>3. Lists /\ Calls
  BY <1>1, <1>2 DEF Inv, Lists, Calls
<1>4. UsedIsReserved
  <2>1. Reserved = Granted
    BY <1>2 DEF Reserved
  <2> QED
    BY <2>1, <1>1 DEF Inv, UsedIsGranted, UsedIsReserved
<1>5. FrameOK /\ MissOK /\ WalkOK
  BY <1>2 DEF FrameOK, MissOK, WalkOK
<1> QED
  BY <1>2, <1>3, <1>4, <1>5 DEF Sound

LEMMA NextSound ==
    ASSUME Typed, sound => Sound, [ReallocNext]_reallocVars, sound'
    PROVE  Sound'
<1>1. sound
  <2>1. sound \in BOOLEAN
    BY DEF Typed, CallTyped
  <2>2. CASE UNCHANGED reallocVars
    BY <2>2 DEF reallocVars
  <2>3. CASE DirectCall \/ CalleeStep
    BY <2>3 DEF DirectCall, CalleeStep
  <2>4. CASE \E g \in held, s \in Sizes : Realloc(g, s)
    BY <2>4 DEF Realloc
  <2>5. CASE ReallocStep
    BY <2>1, <2>5
       DEF ReallocStep, ReallocRegion, ReallocWalk, TakeFromNext, TakeFromPrev,
           MoveElsewhere, GiveToPrev, GiveToNext, Split, SameSize, Moved, OldFreed, Missed
  <2> QED
    BY <2>2, <2>3, <2>4, <2>5 DEF ReallocNext
<1>2. Typed' /\ Sound
  BY <1>1, NextTyped
<1>3. CASE UNCHANGED reallocVars
  <2>1. UNCHANGED memory /\ UNCHANGED <<pc, i, block, prev, bptr, arg, held, frame>>
    BY <1>3 DEF reallocVars, vars, memory
  <2>2. /\ Lists' /\ Used' = Used
        /\ {GrantOf(b) : b \in Used}' = {GrantOf(b) : b \in Used}
        /\ \A b \in Used : GrantOf(b)' = GrantOf(b)
    BY <1>2, <2>1, HeapStays DEF Sound
  <2>3. UsedIsReserved'
    <3>1. Reserved' = Reserved
      BY <2>1 DEF Reserved, Granted
    <3> QED
      BY <3>1, <2>2, <1>2 DEF Sound, UsedIsReserved
  <2>4. Calls'
    BY <1>2, <2>1, <2>2
       DEF Sound, Calls, AllocOK, FreeOK, Owned, memory
  <2>5. FrameOK' /\ MissOK' /\ WalkOK'
    BY <1>2, <2>1, <2>2 DEF Sound, FrameOK, MissOK, WalkOK, Passed, memory
  <2> QED
    BY <1>2, <2>1, <2>2, <2>3, <2>4, <2>5 DEF Sound
<1>4. CASE DirectCall
  BY <1>2, <1>4, DirectInv
<1>5. CASE CalleeStep
  BY <1>2, <1>5, CalleeInv
<1>6. CASE \E g \in held, s \in Sizes : Realloc(g, s)
  BY <1>2, <1>6, ReallocCallInv
<1>7. CASE ReallocStep
  <2>1. CASE ReallocRegion
    BY <1>2, <2>1, ReallocRegionInv
  <2>2. CASE ReallocWalk
    BY <1>2, <2>2, ReallocWalkInv
  <2>3. CASE TakeFromNext
    BY <1>2, <2>3, TakeFromNextInv
  <2>4. CASE TakeFromPrev
    BY <1>2, <2>4, TakeFromPrevInv
  <2>5. CASE MoveElsewhere
    BY <1>2, <2>5, MoveElsewhereInv
  <2>6. CASE GiveToPrev
    BY <1>2, <2>6, GiveToPrevInv
  <2>7. CASE GiveToNext
    BY <2>7 DEF GiveToNext
  <2>8. CASE Split \/ SameSize
    BY <1>2, <2>8, InPlaceInv
  <2>9. CASE Moved
    BY <1>2, <2>9, MovedInv
  <2>10. CASE OldFreed
    BY <1>2, <2>10, OldFreedInv
  <2>11. CASE Missed
    BY <1>2, <2>11, MissedInv
  <2> QED
    BY <1>7, <2>1, <2>2, <2>3, <2>4, <2>5, <2>6, <2>7, <2>8, <2>9, <2>10, <2>11
       DEF ReallocStep
<1> QED
  BY <1>3, <1>4, <1>5, <1>6, <1>7 DEF ReallocNext

(* Sound is ReallocInv: of what Calls says about an activation of          *)
(* mem_realloc, OldOK is the part that FrameOK leaves possible.            *)
LEMMA SoundIsReallocInv == Typed /\ (sound => Sound) <=> ReallocInv
<1>1. Typed <=> ReallocTypeOK /\ IndexOK
  BY TypedIsTypeOK
<1>2. ASSUME Typed, Sound
      PROVE  /\ RegionsOK /\ HeapOK(blocks, at, nbanks) /\ AllocOK /\ FreeOK
             /\ FrameOK /\ OldOK /\ MissOK /\ WalkOK /\ Len(Banks) <= 1
             /\ UsedIsReserved
  <2>1. OldOK
    <3>1. frame.doing \in {"resize", "move", "miss"} => frame.old \notin held
      BY <1>2 DEF Sound
    <3>2. frame.doing \in {"move", "miss"} /\ pc = "alloc_return" /\ bptr # NULL =>
              frame.old # [ptr |-> bptr, size |-> arg.size]
      BY <1>2 DEF Sound, Calls, Owned
    <3>3. frame.doing = "free" /\ pc # "idle" => arg # frame.new
      BY <1>2 DEF Sound, Calls, FrameOK, Owned
    <3> QED
      BY <3>1, <3>2, <3>3 DEF OldOK
  <2> QED
    BY <2>1, <1>2 DEF Sound, Lists, Calls
<1>3. ASSUME Typed, Len(Banks) <= 1, RegionsOK, HeapOK(blocks, at, nbanks), AllocOK, FreeOK,
             FrameOK, OldOK, MissOK, WalkOK, UsedIsReserved
      PROVE  Sound
  <2>1. frame.doing \in {"none", "resize", "move", "free", "miss"}
    BY <1>3 DEF Typed, CallTyped, Frames
  <2>2. pc = "alloc_return" /\ bptr # NULL => [ptr |-> bptr, size |-> arg.size] \notin Owned
    BY <1>3, <2>1 DEF AllocOK, OldOK, FrameOK, Owned
  <2>3. pc \in {"free", "free_walk"} => arg \notin Owned
    BY <1>3, <2>1 DEF FreeOK, OldOK, FrameOK, Owned
  <2>4. frame.doing \in {"resize", "move", "miss"} => frame.old \notin held
    BY <1>3 DEF OldOK
  <2> QED
    BY <1>3, <2>2, <2>3, <2>4 DEF Sound, Lists, Calls
<1>4. sound => (ReservedIsUsed <=> UsedIsReserved)
  BY DEF ReservedIsUsed, UsedIsReserved
<1> QED
  BY <1>1, <1>2, <1>3, <1>4 DEF ReallocInv

(* The inductive invariant of a heap of one bank whose clients resize what *)
(* they hold.                                                              *)
THEOREM ReallocInvariance == Len(Banks) <= 1 /\ ReallocSpec => []ReallocInv
<1> DEFINE I == Typed /\ (sound => Sound)
<1>1. ASSUME Len(Banks) <= 1, ReallocInit PROVE I
  BY <1>1, InitTyped, InitSound
<1>2. I /\ [ReallocNext]_reallocVars => I'
  BY NextTyped, NextSound
<1>3. I => ReallocInv
  BY SoundIsReallocInv
<1>4. Len(Banks) <= 1 /\ ReallocInit => I
  BY <1>1
<1> QED
  BY <1>2, <1>3, <1>4, PTL DEF ReallocSpec

(* With one bank, whatever is grown, moved or shrunk into the first block, *)
(* the used blocks stay exactly what the clients, or a mem_realloc in      *)
(* progress, can name: realloc resizes and releases the block it was given *)
(* and no other, and leaks none.                                           *)
THEOREM ResizesItsOwn == Len(Banks) <= 1 /\ ReallocSpec => []ReservedIsUsed
<1>1. ReallocInv => ReservedIsUsed
  BY DEF ReallocInv, ReservedIsUsed
<1> QED
  BY <1>1, ReallocInvariance, PTL

(* As long as shrinking gave bytes to nothing but the first block of the   *)
(* bank, a resized block runs over no other client's memory, and not over  *)
(* the end of the bank.  Of the heap after another shrink nothing is said: *)
(* there the code may hand out memory twice.                               *)
THEOREM ApartWhileSound == Len(Banks) <= 1 /\ ReallocSpec => []ReservedApart
<1>1. ReallocInv => ReservedApart
  <2> SUFFICES ASSUME ReallocInv, sound, NEW g \in Reserved
               PROVE  /\ \E k \in 1 .. nbanks : Promise!Inside(g, Banks[k])
                      /\ \A h \in Reserved \ {g} : Promise!Disjoint(g, h)
    BY DEF ReservedApart
  <2>1. Reserved = {GrantOf(b) : b \in Used}
    BY DEF ReallocInv, ReservedIsUsed
  <2>2. PICK b \in Used : GrantOf(b) = g
    BY <2>1
  <2>3. /\ blocks \in [BlockIds -> Block] /\ at \in [BlockIds -> Addrs]
        /\ nbanks \in 0 .. Len(Banks) /\ HeapOK(blocks, at, nbanks)
    BY DEF ReallocInv, ReallocTypeOK
  <2>4. \A c \in Used : c \in BlockIds /\ blocks[c].type = "used"
    BY DEF Used
  <2>5. g.ptr = at[b] /\ g.size = blocks[b].size
    BY <2>2 DEF GrantOf
  <2>6. \E k \in 1 .. nbanks : Promise!Inside(g, Banks[k])
    <3>1. /\ b[1] \in 1 .. nbanks /\ b[1] \in 1 .. Len(Banks)
          /\ Banks[b[1]].addr <= at[b] /\ at[b] + blocks[b].size <= Top(b[1])
          /\ at[b] \in Nat /\ blocks[b].size \in Nat
      BY <2>3, <2>4, UsedFacts
    <3>2. /\ Top(b[1]) <= Banks[b[1]].addr + Banks[b[1]].size
          /\ Top(b[1]) \in Nat /\ Banks[b[1]].addr \in Nat /\ Banks[b[1]].size \in Nat
      BY <3>1, BankFacts
    <3>3. Promise!Inside(g, Banks[b[1]])
      BY SMTT(90), <3>1, <3>2, <2>5 DEF Promise!Inside
    <3> QED
      BY <3>1, <3>3
  <2>7. ASSUME NEW h \in Reserved \ {g} PROVE Promise!Disjoint(g, h)
    <3>1. PICK c \in Used : GrantOf(c) = h
      BY <2>1
    <3>2. b # c
      BY <3>1, <2>2
    <3>3. at[b] + blocks[b].size <= at[c] \/ at[c] + blocks[c].size <= at[b]
      BY <3>2, <2>3, <2>4, UsedFacts
    <3>4. h.ptr = at[c] /\ h.size = blocks[c].size
      BY <3>1 DEF GrantOf
    <3> QED
      BY <3>3, <3>4, <2>5 DEF Promise!Disjoint
  <2> QED
    BY <2>6, <2>7
<1> QED
  BY <1>1, ReallocInvariance, PTL

(* As long as shrinking gave bytes to nothing but the first block, what    *)
(* mem_realloc takes from free_size and gives back to it leaves no region  *)
(* promising more than its first block has: mem_alloc, which looks at      *)
(* nothing but free_size, still finds its room there.  A shrink that gives *)
(* bytes elsewhere credits free_size all the same and may break this.      *)
THEOREM CoveredWhileSound == Len(Banks) <= 1 /\ ReallocSpec => []HeadCoveredWhileSound
<1>1. ReallocInv => HeadCoveredWhileSound
  <2> SUFFICES ASSUME ReallocInv, sound, NEW r \in Slots, regions[r].addr # NULL
               PROVE  LET h == regions[r].head IN
                      /\ blocks[h].type = "free"
                      /\ at[h] = regions[r].addr
                      /\ regions[r].free_size <= blocks[h].size
    BY DEF HeadCoveredWhileSound, HeadCovers
  <2>1. RegionsOK /\ HeapOK(blocks, at, nbanks) /\ nbanks \in 0 .. Len(Banks)
    BY DEF ReallocInv, ReallocTypeOK
  <2>2. r <= nbanks
    BY <2>1 DEF RegionsOK
  <2>3. r \in 1 .. nbanks
    BY <2>1, <2>2, BanksAssumption DEF Slots
  <2>4. /\ regions[r].addr = Banks[r].addr /\ regions[r].head = <<r, 0>>
        /\ regions[r].free_size <= blocks[<<r, 0>>].size
    BY <2>1, <2>2 DEF RegionsOK
  <2> QED
    BY <2>1, <2>3, <2>4 DEF HeapOK, Heads
<1> QED
  BY <1>1, ReallocInvariance, PTL

(* What ends the runs that the theorems above speak of: a shrink whose     *)
(* bytes go to a block that is not the first one of its bank, or to a new  *)
(* one (alloc.c:358-391), or a copy that runs over the descriptors.        *)
LEMMA SoundUntil ==
    ReallocSpec => [][sound /\ ~ sound' => \/ GiveToPrev /\ prev # regions[i].head
                                           \/ GiveToNext \/ Split
                                           \/ Moved /\ pc' = "overwritten"]_reallocVars
<1> DEFINE Ends == \/ GiveToPrev /\ prev # regions[i].head
                   \/ GiveToNext \/ Split
                   \/ Moved /\ pc' = "overwritten"
<1>1. ASSUME ReallocNext, sound, ~ sound' PROVE Ends
  <2>1. CASE DirectCall \/ CalleeStep
    BY <1>1, <2>1 DEF DirectCall, CalleeStep
  <2>2. CASE \E g \in held, s \in Sizes : Realloc(g, s)
    BY <1>1, <2>2 DEF Realloc
  <2>3. CASE GiveToPrev
    BY <1>1, <2>3 DEF GiveToPrev
  <2>4. CASE Moved
    BY <1>1, <2>4 DEF Moved, Return
  <2>5. CASE \/ ReallocRegion \/ ReallocWalk \/ TakeFromNext \/ TakeFromPrev
             \/ MoveElsewhere \/ SameSize \/ OldFreed \/ Missed
    BY <1>1, <2>5
       DEF ReallocRegion, ReallocWalk, TakeFromNext, TakeFromPrev, MoveElsewhere,
           SameSize, OldFreed, Missed
  <2> QED
    BY <1>1, <2>1, <2>2, <2>3, <2>4, <2>5 DEF ReallocNext, ReallocStep
<1>2. [ReallocNext]_reallocVars => [sound /\ ~ sound' => Ends]_reallocVars
  BY <1>1
<1> QED
  BY <1>2, PTL DEF ReallocSpec
=============================================================================
