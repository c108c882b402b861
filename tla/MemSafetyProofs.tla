--------------------------- MODULE MemSafetyProofs ---------------------------
(***************************************************************************)
(* Proofs about the heap: for every number of banks, table length and word *)
(* size that BanksAssumption and SizesAssumption admit.                    *)
(***************************************************************************)
EXTENDS MemSafety, Induction, SequenceTheorems, FiniteSetTheorems, TLAPS

USE DEF NULL

-----------------------------------------------------------------------------
(* The constants.                                                          *)

(* A bank has a slot, a descriptor for its head and a payload that fits    *)
(* the address space, above the payloads of the banks before it.           *)
LEMMA BankFacts ==
    ASSUME NEW k \in 1 .. Len(Banks)
    PROVE  /\ k \in Slots /\ <<k, 0>> \in BlockIds
           /\ Banks[k].addr \in Nat /\ Banks[k].addr > 0 /\ Banks[k].size \in Nat
           /\ TableLen(Banks[k].size) \in 1 .. MaxBlocks
           /\ TableBytes(Banks[k].size) \in 1 .. Banks[k].size
           /\ Usable(k) \in Nat /\ Top(k) \in Nat
           /\ Banks[k].addr + Usable(k) = Top(k)
           /\ Top(k) <= Banks[k].addr + Banks[k].size
           /\ Banks[k].addr + Banks[k].size < Word /\ Top(k) < Word
           /\ \A j \in 1 .. k - 1 : Top(j) <= Banks[k].addr
<1>1. /\ MaxRegions \in Nat /\ MaxBlocks \in Nat /\ Len(Banks) <= MaxRegions
      /\ Len(Banks) \in Nat
  BY BanksAssumption
<1>2. \A j \in 1 .. Len(Banks) :
        /\ Banks[j].addr \in Nat /\ Banks[j].addr > 0 /\ Banks[j].size \in Nat
  <2> TAKE j \in 1 .. Len(Banks)
  <2>1. Banks[j] \in [addr : Nat \ {0}, size : Nat]
    <3>1. Banks \in Seq([addr : Nat \ {0}, size : Nat])
      BY BanksAssumption
    <3> QED
      BY <3>1, ElementOfSeq
  <2> QED
    BY <2>1
<1>3. \A j \in 1 .. Len(Banks) :
        /\ TableLen(Banks[j].size) \in 1 .. MaxBlocks
        /\ TableBytes(Banks[j].size) \in 1 .. Banks[j].size
        /\ Banks[j].addr + Banks[j].size < Word
        /\ \A l \in 1 .. j - 1 : Banks[l].addr + Banks[l].size <= Banks[j].addr
  BY BanksAssumption
<1>4. k \in Slots /\ <<k, 0>> \in BlockIds
  BY <1>1, <1>3 DEF Slots, BlockIds
<1>5. \A j \in 1 .. Len(Banks) :
        /\ Usable(j) \in Nat /\ Top(j) \in Nat
        /\ Banks[j].addr + Usable(j) = Top(j)
        /\ Top(j) <= Banks[j].addr + Banks[j].size
  <2> TAKE j \in 1 .. Len(Banks)
  <2>1. /\ Banks[j].addr \in Nat /\ Banks[j].size \in Nat
        /\ TableBytes(Banks[j].size) \in 1 .. Banks[j].size
    BY <1>2, <1>3
  <2> QED
    BY <2>1 DEF Usable, Top
<1>6. \A j \in 1 .. k - 1 : Top(j) <= Banks[k].addr
  <2> TAKE j \in 1 .. k - 1
  <2>1. j \in 1 .. Len(Banks)
    BY <1>1
  <2>2. Banks[j].addr + Banks[j].size <= Banks[k].addr
    BY <1>3
  <2>3. Top(j) \in Nat /\ Top(j) <= Banks[j].addr + Banks[j].size
    BY <2>1, <1>5
  <2>4. Banks[j].addr + Banks[j].size \in Nat /\ Banks[k].addr \in Nat
    BY <2>1, <1>2
  <2>5. \A x, y, z \in Nat : x <= y /\ y <= z => x <= z
    OBVIOUS
  <2> QED
    BY <2>2, <2>3, <2>4, <2>5
<1>7. Top(k) < Word
  <2>1. /\ Banks[k].addr \in Nat /\ Banks[k].size \in Nat /\ Top(k) \in Nat
        /\ Top(k) <= Banks[k].addr + Banks[k].size
        /\ Banks[k].addr + Banks[k].size < Word
    BY <1>2, <1>3, <1>5
  <2>2. Word \in Nat
    BY BanksAssumption
  <2> QED
    BY <2>1, <2>2
<1> QED
  BY <1>2, <1>3, <1>4, <1>5, <1>6, <1>7

(* A descriptor is its index; the index of a head is 0.                    *)
LEMMA BlockIdFacts ==
    ASSUME NEW b \in BlockIds
    PROVE  /\ b[1] \in Slots /\ b[2] \in 0 .. MaxBlocks - 1 /\ b = <<b[1], b[2]>>
           /\ b # NIL
BY BanksAssumption DEF BlockIds, Slots, NIL

(* Arithmetic below the modulus does not wrap.                             *)
LEMMA NoWrap ==
    ASSUME NEW a \in Nat, NEW b \in Nat
    PROVE  /\ a + b < Word => Add(a, b) = a + b
           /\ a >= b => Sub(a, b) = a - b
           /\ a \in Addrs /\ b \in Addrs => Add(a, b) \in Addrs /\ Sub(a, b) \in Addrs
BY BanksAssumption DEF Add, Sub, Addrs

(* What mem_new_region computes from a bank fits the registers.            *)
LEMMA NewBankFacts ==
    ASSUME NEW k \in 1 .. Len(Banks)
    PROVE  /\ k \in Slots /\ <<k, 0>> \in BlockIds
           /\ Banks[k].addr # NULL /\ Banks[k].addr \in Addrs
           /\ Banks[k].size \in Addrs /\ Usable(k) \in Addrs
           /\ TableLen(Banks[k].size) \in 0 .. MaxBlocks
           /\ Sub(Banks[k].size, TableBytes(Banks[k].size)) = Usable(k)
<1> DEFINE bank == Banks[k]
<1>1. /\ k \in Slots /\ <<k, 0>> \in BlockIds
      /\ bank.addr \in Nat /\ bank.addr > 0 /\ bank.size \in Nat
      /\ TableLen(bank.size) \in 1 .. MaxBlocks
      /\ TableBytes(bank.size) \in 1 .. bank.size
      /\ Usable(k) \in Nat /\ bank.addr + bank.size < Word
  BY BankFacts
<1>2. Word \in Nat /\ MaxBlocks \in Nat
  BY BanksAssumption
<1>3. Sub(bank.size, TableBytes(bank.size)) = Usable(k) /\ Usable(k) <= bank.size
  BY <1>1 DEF Sub, Usable
<1>4. bank.addr \in Addrs /\ bank.size \in Addrs
  BY <1>1, <1>2 DEF Addrs
<1>5. Usable(k) \in Addrs
  BY <1>1, <1>2, <1>3 DEF Addrs
<1> QED
  BY <1>1, <1>2, <1>3, <1>4, <1>5

(* In a well-formed heap a block's data lies in its bank, where arithmetic *)
(* does not wrap, and its successor is the block above it.                 *)
LEMMA LiveFacts ==
    ASSUME NEW bs \in [BlockIds -> Block], NEW ats \in [BlockIds -> Addrs],
           NEW k \in 0 .. Len(Banks), HeapOK(bs, ats, k),
           NEW b \in Live(bs)
    PROVE  /\ b \in BlockIds /\ b[1] \in 1 .. k /\ b[1] \in 1 .. Len(Banks)
           /\ b = <<b[1], b[2]>>
           /\ bs[b].size \in Nat /\ ats[b] \in Nat
           /\ Banks[b[1]].addr <= ats[b]
           /\ ats[b] + bs[b].size <= Top(b[1]) /\ Top(b[1]) < Word
           /\ bs[b].type = "used" => bs[b].size > 0
           /\ b[2] = 0 => bs[b].type = "free" /\ ats[b] = Banks[b[1]].addr
           /\ bs[b].next # NIL =>
                /\ bs[b].next \in Live(bs)
                /\ bs[b].next # b /\ bs[bs[b].next].next # b
                /\ bs[b].next[1] = b[1] /\ bs[b].next[2] # 0
                /\ ats[bs[b].next] = ats[b] + bs[b].size
           /\ bs[b].next = NIL => ats[b] + bs[b].size = Top(b[1])
<1>1. b \in BlockIds /\ bs[b] \in Block /\ ats[b] \in Addrs
  BY DEF Live
<1>2. /\ b[1] \in 1 .. k /\ Banks[b[1]].addr <= ats[b]
      /\ ats[b] + bs[b].size <= Top(b[1])
      /\ bs[b].type = "used" => bs[b].size > 0
  BY DEF HeapOK, Confined, EndOf
<1>3. b[1] \in 1 .. Len(Banks) /\ Len(Banks) \in Nat
  BY <1>2, BanksAssumption
<1>4. b = <<b[1], b[2]>>
  BY <1>1, BlockIdFacts
<1>5. bs[b].size \in Nat /\ ats[b] \in Nat
  BY <1>1, BanksAssumption DEF Block, Addrs
<1>6. Top(b[1]) < Word /\ Top(b[1]) \in Nat
  BY <1>3, BankFacts
<1>7. b[2] = 0 => bs[b].type = "free" /\ ats[b] = Banks[b[1]].addr
  BY <1>2, <1>4 DEF HeapOK, Heads
<1>8. ASSUME bs[b].next # NIL
      PROVE  /\ bs[b].next \in Live(bs)
             /\ bs[b].next # b /\ bs[bs[b].next].next # b
             /\ bs[b].next[1] = b[1] /\ bs[b].next[2] # 0
             /\ ats[bs[b].next] = ats[b] + bs[b].size
  <2>1. /\ bs[b].next \in Live(bs) /\ bs[b].next[1] = b[1] /\ bs[b].next[2] # 0
        /\ ats[bs[b].next] = ats[b] + bs[b].size
    BY <1>8 DEF HeapOK, Chained, EndOf
  <2>2. bs[b].next # b
    <3>1. {b} \in SUBSET Live(bs) /\ {b} # {}
      OBVIOUS
    <3>2. \E c \in {b} : bs[c].next \notin {b}
      BY <3>1 DEF HeapOK, Acyclic
    <3> QED
      BY <3>2
  <2>3. bs[bs[b].next].next # b
    <3> DEFINE S == {b, bs[b].next}
    <3>1. S \in SUBSET Live(bs) /\ S # {}
      BY <2>1
    <3>2. \E c \in S : bs[c].next \notin S
      BY <3>1 DEF HeapOK, Acyclic
    <3> QED
      BY <3>2
  <2> QED
    BY <2>1, <2>2, <2>3
<1>9. bs[b].next = NIL => ats[b] + bs[b].size = Top(b[1])
  BY DEF HeapOK, Chained, EndOf
<1> QED
  BY <1>1, <1>2, <1>3, <1>4, <1>5, <1>6, <1>7, <1>8, <1>9

(* Two blocks never share a byte, and no block continues in another's      *)
(* successor.                                                              *)
LEMMA ApartFacts ==
    ASSUME NEW bs \in [BlockIds -> Block], NEW ats \in [BlockIds -> Addrs],
           NEW k \in 0 .. Len(Banks), HeapOK(bs, ats, k),
           NEW b \in Live(bs), NEW c \in Live(bs), b # c
    PROVE  /\ bs[b].size > 0 /\ bs[c].size > 0 =>
                ats[b] + bs[b].size <= ats[c] \/ ats[c] + bs[c].size <= ats[b]
           /\ bs[b].next # NIL => bs[b].next # bs[c].next
<1>1. CASE b[1] = c[1]
  BY <1>1 DEF HeapOK, Apart, EndOf
<1>2. CASE b[1] # c[1]
  <2>1. \A d \in Live(bs) :
          /\ d[1] \in 1 .. Len(Banks) /\ bs[d].size \in Nat /\ ats[d] \in Nat
          /\ Banks[d[1]].addr <= ats[d] /\ ats[d] + bs[d].size <= Top(d[1])
    BY LiveFacts
  <2>2. \A r, q \in 1 .. Len(Banks) : r < q => Top(r) <= Banks[q].addr
    <3> SUFFICES ASSUME NEW r \in 1 .. Len(Banks), NEW q \in 1 .. Len(Banks), r < q
                 PROVE  Top(r) <= Banks[q].addr
      OBVIOUS
    <3>1. r \in 1 .. q - 1
      OBVIOUS
    <3> QED
      BY <3>1, BankFacts
  <2>3. \A r \in 1 .. Len(Banks) : Top(r) \in Nat /\ Banks[r].addr \in Nat
    BY BankFacts
  <2>4. /\ b[1] \in 1 .. Len(Banks) /\ bs[b].size \in Nat /\ ats[b] \in Nat
        /\ Banks[b[1]].addr <= ats[b] /\ ats[b] + bs[b].size <= Top(b[1])
        /\ c[1] \in 1 .. Len(Banks) /\ bs[c].size \in Nat /\ ats[c] \in Nat
        /\ Banks[c[1]].addr <= ats[c] /\ ats[c] + bs[c].size <= Top(c[1])
    BY <2>1
  <2>5. ats[b] + bs[b].size <= ats[c] \/ ats[c] + bs[c].size <= ats[b]
    <3>1. CASE b[1] < c[1]
      <4>1. Top(b[1]) <= Banks[c[1]].addr
        BY <3>1, <2>2, <2>4
      <4>2. Top(b[1]) \in Nat /\ Banks[c[1]].addr \in Nat
        BY <2>3, <2>4
      <4>3. ats[b] + bs[b].size <= ats[c]
        BY SMTT(90), <4>1, <4>2, <2>4
      <4> QED
        BY <4>3
    <3>2. CASE c[1] < b[1]
      <4>1. Top(c[1]) <= Banks[b[1]].addr
        BY <3>2, <2>2, <2>4
      <4>2. Top(c[1]) \in Nat /\ Banks[b[1]].addr \in Nat
        BY <2>3, <2>4
      <4>3. ats[c] + bs[c].size <= ats[b]
        BY SMTT(90), <4>1, <4>2, <2>4
      <4> QED
        BY <4>3
    <3> QED
      BY <3>1, <3>2, <2>4, <1>2
  <2> QED
    BY <2>5 DEF HeapOK, Apart
<1> QED
  BY <1>1, <1>2

(* Merging a free block with its successor leaves a well-formed heap with  *)
(* one descriptor less.                                                    *)
LEMMA MergedOK ==
    ASSUME NEW bs \in [BlockIds -> Block], NEW ats \in [BlockIds -> Addrs],
           NEW k \in 0 .. Len(Banks), HeapOK(bs, ats, k),
           NEW b \in Live(bs), NEW n, bs[b].next = n, n # NIL,
           bs[b].type = "free"
    PROVE  LET ms == Merged(bs, b, n) IN
           /\ ms \in [BlockIds -> Block]
           /\ Live(ms) = Live(bs) \ {n} /\ n \in Live(bs) /\ n # b
           /\ ms[b].type = "free" /\ ms[b].next = bs[n].next
           /\ ms[b].size = bs[b].size + bs[n].size
           /\ ms[n].type = "absent"
           /\ \A c \in BlockIds : c # b /\ c # n => ms[c] = bs[c]
           /\ HeapOK(ms, ats, k)
<1> DEFINE ms == Merged(bs, b, n)
<1>1. /\ b \in BlockIds /\ bs[b].size \in Nat /\ ats[b] \in Nat
      /\ n \in Live(bs) /\ n # b /\ n[1] = b[1] /\ n[2] # 0
      /\ ats[n] = ats[b] + bs[b].size
  BY LiveFacts
<1>2. /\ n \in BlockIds /\ bs[n].size \in Nat /\ bs[n].next # b
      /\ ats[n] + bs[n].size <= Top(b[1]) /\ Top(b[1]) \in Nat /\ Top(b[1]) < Word
  <2>1. /\ n \in BlockIds /\ bs[n].size \in Nat
        /\ n[1] \in 1 .. Len(Banks)
        /\ ats[n] + bs[n].size <= Top(n[1]) /\ Top(n[1]) < Word
    BY <1>1, LiveFacts
  <2>2. Top(n[1]) \in Nat
    BY <2>1, BankFacts
  <2>3. bs[n].next # b
    BY LiveFacts
  <2> QED
    BY <2>1, <2>2, <2>3, <1>1
<1>2a. Word \in Nat /\ bs[b].size + bs[n].size \in Nat /\ bs[b].size + bs[n].size < Word
  <2>1. Word \in Nat
    BY BanksAssumption
  <2> QED
    BY <2>1, <1>1, <1>2
<1>3. Add(bs[b].size, bs[n].size) = bs[b].size + bs[n].size
  BY <1>1, <1>2, <1>2a, NoWrap
<1>4. bs[b].size + bs[n].size \in Addrs
  BY <1>2a DEF Addrs
<1>5. /\ ms = [bs EXCEPT ![b].size = bs[b].size + bs[n].size,
                         ![b].next = bs[n].next, ![n].type = "absent"]
      /\ bs[n].next \in BlockIds \cup {NIL}
  BY <1>2, <1>3 DEF Merged, Block
<1>6. /\ ms \in [BlockIds -> Block]
      /\ ms[b].type = "free" /\ ms[b].next = bs[n].next
      /\ ms[b].size = bs[b].size + bs[n].size
      /\ ms[n].type = "absent"
      /\ \A c \in BlockIds : c # b /\ c # n => ms[c] = bs[c]
  <2>1. bs[b] \in Block /\ bs[n] \in Block
    BY <1>1, <1>2
  <2> HIDE DEF ms
  <2> QED
    BY <2>1, <1>1, <1>2, <1>4, <1>5 DEF Block
<1> HIDE DEF ms
<1>7. Live(ms) = Live(bs) \ {n}
  BY <1>1, <1>2, <1>6 DEF Live
<1>8. Confined(ms, ats, k)
  <2> SUFFICES ASSUME NEW c \in Live(ms)
               PROVE  /\ c[1] \in 1 .. k
                      /\ Banks[c[1]].addr <= ats[c]
                      /\ ats[c] + ms[c].size <= Top(c[1])
                      /\ ms[c].type = "used" => ms[c].size > 0
    BY DEF Confined, EndOf
  <2>1. CASE c = b
    <3>1. b[1] \in 1 .. k /\ Banks[b[1]].addr <= ats[b]
      BY LiveFacts
    <3>2. ms[b].size = bs[b].size + bs[n].size
      BY <1>6
    <3>3. ats[b] + ms[b].size <= Top(b[1]) /\ ms[b].type # "used"
      BY <3>2, <1>1, <1>2, <1>6
    <3> QED
      BY <2>1, <3>1, <3>3
  <2>2. CASE c # b
    <3>1. ms[c] = bs[c] /\ c \in Live(bs)
      BY <2>2, <1>6, <1>7 DEF Live
    <3> QED
      BY <3>1, LiveFacts
  <2> QED
    BY <2>1, <2>2
<1>9. Chained(ms, ats)
  <2> SUFFICES ASSUME NEW c \in Live(ms)
               PROVE  IF ms[c].next = NIL THEN ats[c] + ms[c].size = Top(c[1])
                      ELSE /\ ms[c].next \in Live(ms)
                           /\ ms[c].next[1] = c[1] /\ ms[c].next[2] # 0
                           /\ ats[ms[c].next] = ats[c] + ms[c].size
    BY DEF Chained, EndOf
  <2>1. CASE c = b
    <3>1. /\ bs[n].next # NIL =>
               /\ bs[n].next \in Live(bs) /\ bs[n].next # n
               /\ bs[n].next[1] = b[1] /\ bs[n].next[2] # 0
               /\ ats[bs[n].next] = ats[n] + bs[n].size
          /\ bs[n].next = NIL => ats[n] + bs[n].size = Top(b[1])
      BY <1>1, LiveFacts
    <3> QED
      BY <2>1, <3>1, <1>1, <1>2, <1>6, <1>7
  <2>2. CASE c # b
    <3>1. ms[c] = bs[c] /\ c \in Live(bs)
      BY <2>2, <1>6, <1>7 DEF Live
    <3>2. bs[c].next # NIL => bs[c].next # n
      BY <2>2, <3>1, ApartFacts
    <3> QED
      BY <3>1, <3>2, <1>7, LiveFacts
  <2> QED
    BY <2>1, <2>2
<1>10. Apart(ms, ats)
  <2>1. ASSUME NEW e \in Live(bs), e # b, e # n
        PROVE  /\ ms[e] = bs[e] /\ ats[e] \in Nat /\ bs[e].size \in Nat
               /\ ms[b].next # NIL => ms[b].next # bs[e].next
               /\ ms[b].size > 0 /\ bs[e].size > 0 =>
                    \/ ats[b] + ms[b].size <= ats[e]
                    \/ ats[e] + bs[e].size <= ats[b]
    <3>1. e \in BlockIds /\ ats[e] \in Nat /\ bs[e].size \in Nat
      BY LiveFacts
    <3>2. ms[e] = bs[e]
      BY <2>1, <3>1, <1>6
    <3>3. /\ bs[b].size > 0 /\ bs[e].size > 0 =>
                ats[b] + bs[b].size <= ats[e] \/ ats[e] + bs[e].size <= ats[b]
          /\ bs[n].size > 0 /\ bs[e].size > 0 =>
                ats[n] + bs[n].size <= ats[e] \/ ats[e] + bs[e].size <= ats[n]
          /\ bs[n].next # NIL => bs[n].next # bs[e].next
      BY <2>1, <1>1, ApartFacts
    <3>4. /\ ats[n] = ats[b] + bs[b].size /\ bs[b].size \in Nat /\ ats[b] \in Nat
          /\ bs[n].size \in Nat /\ ms[b].size = bs[b].size + bs[n].size
      BY <1>1, <1>2, <1>6
    <3>5. ASSUME ms[b].size > 0, bs[e].size > 0
          PROVE  \/ ats[b] + ms[b].size <= ats[e]
                 \/ ats[e] + bs[e].size <= ats[b]
      <4>1. CASE bs[b].size = 0
        BY SMTT(90), <3>1, <3>3, <3>4, <3>5, <4>1
      <4>2. CASE bs[n].size = 0
        BY SMTT(90), <3>1, <3>3, <3>4, <3>5, <4>2
      <4>3. CASE bs[b].size > 0 /\ bs[n].size > 0
        BY SMTT(90), <3>1, <3>3, <3>4, <3>5, <4>3
      <4> QED
        BY <4>1, <4>2, <4>3, <3>4
    <3> QED
      BY <3>1, <3>2, <3>3, <3>5, <1>6
  <2> SUFFICES ASSUME NEW c \in Live(ms), NEW d \in Live(ms), c # d
               PROVE  /\ ms[c].next # NIL => ms[c].next # ms[d].next
                      /\ c[1] = d[1] /\ ms[c].size > 0 /\ ms[d].size > 0 =>
                            \/ ats[c] + ms[c].size <= ats[d]
                            \/ ats[d] + ms[d].size <= ats[c]
    BY DEF Apart, EndOf
  <2>2. c \in Live(bs) /\ d \in Live(bs) /\ c # n /\ d # n
    BY <1>7
  <2>3. CASE c # b /\ d # b
    <3>1. ms[c] = bs[c] /\ ms[d] = bs[d]
      BY <2>1, <2>2, <2>3
    <3>2. /\ bs[c].size > 0 /\ bs[d].size > 0 =>
                ats[c] + bs[c].size <= ats[d] \/ ats[d] + bs[d].size <= ats[c]
          /\ bs[c].next # NIL => bs[c].next # bs[d].next
      BY <2>2, ApartFacts
    <3> QED
      BY <3>1, <3>2
  <2>4. CASE c = b
    BY <2>1, <2>2, <2>4
  <2>5. CASE d = b
    BY <2>1, <2>2, <2>5
  <2> QED
    BY <2>3, <2>4, <2>5
<1>11. Heads(ms, ats, k)
  <2>1. ASSUME NEW r \in 1 .. k PROVE <<r, 0>> # n /\ <<r, 0>> \in BlockIds
    BY <1>1, BankFacts
  <2> QED
    BY <2>1, <1>6 DEF HeapOK, Heads
<1>12. Reached(ms)
  <2> SUFFICES ASSUME NEW c \in Live(ms), c[2] # 0
               PROVE  \E d \in Live(ms) : ms[d].next = c
    BY DEF Reached
  <2>1. c \in Live(bs) /\ c # n
    BY <1>7
  <2>2. PICK d \in Live(bs) : bs[d].next = c
    BY <2>1 DEF HeapOK, Reached
  <2>3. d # b
    BY <2>1, <2>2
  <2>4. CASE d = n
    BY <2>2, <2>4, <1>1, <1>6, <1>7
  <2>5. CASE d # n
    BY <2>2, <2>3, <2>5, <1>6, <1>7 DEF Live
  <2> QED
    BY <2>4, <2>5
<1>13. Acyclic(ms)
  <2> SUFFICES ASSUME NEW S \in SUBSET Live(ms), S # {}
               PROVE  \E c \in S : ms[c].next \notin S
    BY DEF Acyclic
  <2>1. \A c \in S : c \in Live(bs) /\ c # n /\ (c # b => ms[c] = bs[c])
    BY <1>6, <1>7 DEF Live
  <2>2. CASE b \in S
    <3> DEFINE T == S \cup {n}
    <3>1. T \in SUBSET Live(bs) /\ T # {}
      BY <2>1, <1>1
    <3>2. PICK c \in T : bs[c].next \notin T
      BY <3>1 DEF HeapOK, Acyclic
    <3>3. c # b
      BY <3>2
    <3>4. CASE c = n
      BY <2>2, <3>2, <3>4, <1>6
    <3>5. CASE c # n
      BY <2>1, <3>2, <3>3, <3>5
    <3> QED
      BY <3>4, <3>5
  <2>3. CASE b \notin S
    <3>1. S \in SUBSET Live(bs)
      BY <2>1
    <3>2. PICK c \in S : bs[c].next \notin S
      BY <3>1 DEF HeapOK, Acyclic
    <3> QED
      BY <2>1, <2>3, <3>2
  <2> QED
    BY <2>2, <2>3
<1> QED
  BY <1>1, <1>6, <1>7, <1>8, <1>9, <1>10, <1>11, <1>12, <1>13 DEF HeapOK, ms

(* mem_fix_block keeps the heap well formed, its block in place, and every *)
(* used block as it was.                                                   *)
LEMMA FixedOK ==
    ASSUME NEW bs \in [BlockIds -> Block], NEW ats \in [BlockIds -> Addrs],
           NEW k \in 0 .. Len(Banks), HeapOK(bs, ats, k),
           NEW b \in Live(bs)
    PROVE  LET fs == Fixed(bs, b) IN
           /\ fs \in [BlockIds -> Block]
           /\ HeapOK(fs, ats, k)
           /\ b \in Live(fs) /\ fs[b].type = bs[b].type
           /\ fs[b].size >= bs[b].size
           /\ \A c \in BlockIds : /\ fs[c].type = "used" <=> bs[c].type = "used"
                                  /\ fs[c].type = "used" => fs[c] = bs[c]
           /\ \A c \in Live(bs) : bs[c].next = b => c \in Live(fs) /\ fs[c] = bs[c]
           /\ \A c \in Live(bs) : c[2] = 0 => c \in Live(fs) /\ fs[c].size >= bs[c].size
<1> DEFINE n == bs[b].next
           fs == Fixed(bs, b)
<1>1. CASE n # NIL /\ bs[b].type = "free" /\ bs[n].type = "free"
  <2>1. fs = Merged(bs, b, n)
    BY <1>1 DEF Fixed
  <2>2. /\ fs \in [BlockIds -> Block]
        /\ Live(fs) = Live(bs) \ {n} /\ n \in Live(bs) /\ n # b
        /\ fs[b].type = "free"
        /\ fs[b].size = bs[b].size + bs[n].size
        /\ fs[n].type = "absent"
        /\ \A c \in BlockIds : c # b /\ c # n => fs[c] = bs[c]
        /\ HeapOK(fs, ats, k)
    BY <1>1, <2>1, MergedOK
  <2> HIDE DEF fs, n
  <2>3. /\ bs[n].size \in Nat /\ bs[b].size \in Nat /\ n[2] # 0 /\ bs[n].next # b
        /\ \A c \in Live(bs) : c \in BlockIds /\ bs[c].next # c /\ bs[c].size \in Nat
    <3>1. bs[n].size \in Nat /\ bs[b].size \in Nat /\ n[2] # 0 /\ bs[n].next # b
      BY <2>2, <1>1, LiveFacts DEF n
    <3>2. b # NIL /\ \A c \in Live(bs) : c # NIL
      BY BlockIdFacts DEF Live
    <3>4. \A c \in Live(bs) : c \in BlockIds /\ bs[c].next # c /\ bs[c].size \in Nat
      BY <3>2, LiveFacts
    <3> QED
      BY <3>1, <3>4
  <2>4. b \in Live(fs) /\ fs[b].type = bs[b].type /\ fs[b].size >= bs[b].size
    BY <2>2, <2>3, <1>1
  <2>5. \A c \in BlockIds : /\ fs[c].type = "used" <=> bs[c].type = "used"
                            /\ fs[c].type = "used" => fs[c] = bs[c]
    BY <2>2, <1>1
  <2>6. \A c \in Live(bs) : bs[c].next = b => c \in Live(fs) /\ fs[c] = bs[c]
    BY <2>2, <2>3
  <2>7. \A c \in Live(bs) : c[2] = 0 => c \in Live(fs) /\ fs[c].size >= bs[c].size
    BY <2>2, <2>3
  <2> QED
    BY <2>2, <2>4, <2>5, <2>6, <2>7 DEF fs
<1>2. CASE ~ (n # NIL /\ bs[b].type = "free" /\ bs[n].type = "free")
  <2>1. fs = bs
    BY <1>2 DEF Fixed
  <2>2. \A c \in Live(bs) : bs[c].size \in Nat
    BY LiveFacts
  <2> QED
    BY <2>1, <2>2
<1> QED
  BY <1>1, <1>2

(* Carving the end of a head into a new descriptor keeps the heap well     *)
(* formed.                                                                 *)
LEMMA CarvedOK ==
    ASSUME NEW bs \in [BlockIds -> Block], NEW ats \in [BlockIds -> Addrs],
           NEW k \in 0 .. Len(Banks), HeapOK(bs, ats, k),
           NEW b \in Live(bs), b[2] = 0,
           NEW n \in BlockIds, n[1] = b[1], bs[n].type = "absent",
           NEW s \in Nat, 0 < s, s <= bs[b].size
    PROVE  HeapOK(Carved(bs, b, n, s),
                  [ats EXCEPT ![n] = ats[b] + (bs[b].size - s)], k)
<1> DEFINE cs == Carved(bs, b, n, s)
           as == [ats EXCEPT ![n] = ats[b] + (bs[b].size - s)]
<1>1. /\ b \in BlockIds /\ b[1] \in 1 .. k /\ b[1] \in 1 .. Len(Banks)
      /\ bs[b].size \in Nat /\ ats[b] \in Nat
      /\ bs[b].type = "free" /\ ats[b] = Banks[b[1]].addr
      /\ ats[b] + bs[b].size <= Top(b[1]) /\ Top(b[1]) < Word
  BY LiveFacts
<1>2. Top(b[1]) \in Nat /\ Word \in Nat /\ bs[b] \in Block
  BY <1>1, BankFacts, BanksAssumption
<1>3. n \notin Live(bs) /\ n # b
  BY <1>1 DEF Live
<1>4. n = <<n[1], n[2]>> /\ n[2] # 0 /\ n # NIL
  <2>1. b = <<b[1], b[2]>> /\ n = <<n[1], n[2]>> /\ n # NIL
    BY <1>1, BlockIdFacts
  <2> QED
    BY <2>1, <1>3
<1>5. /\ ats[b] + (bs[b].size - s) \in Addrs
      /\ bs[b].size - s \in Addrs /\ s \in Addrs
  <2>1. bs[b].size - s \in Nat /\ bs[b].size - s <= bs[b].size
    BY <1>1
  <2>2. \A a \in Nat : a <= Top(b[1]) => a \in Addrs
    BY <1>1, <1>2 DEF Addrs
  <2>3. /\ ats[b] + (bs[b].size - s) \in Nat
        /\ ats[b] + (bs[b].size - s) <= ats[b] + bs[b].size
    BY <2>1, <1>1
  <2>4. /\ ats[b] + (bs[b].size - s) <= Top(b[1])
        /\ bs[b].size - s <= Top(b[1]) /\ s <= Top(b[1])
    <3>1. bs[b].size <= ats[b] + bs[b].size /\ ats[b] + bs[b].size \in Nat
      BY <1>1
    <3>2. \A x, y \in Nat : x <= y /\ y <= Top(b[1]) => x <= Top(b[1])
      BY <1>2
    <3>3. bs[b].size <= Top(b[1])
      BY <3>1, <3>2, <1>1
    <3> QED
      BY <3>1, <3>2, <3>3, <2>1, <2>3, <1>1
  <2> QED
    BY <2>1, <2>2, <2>3, <2>4
<1>6. cs = [bs EXCEPT ![n] = [next |-> bs[b].next, size |-> s, type |-> "used"],
                      ![b].next = n, ![b].size = bs[b].size - s]
  BY <1>1, NoWrap DEF Carved
<1>7. /\ cs \in [BlockIds -> Block] /\ as \in [BlockIds -> Addrs]
      /\ cs[n].type = "used" /\ cs[n].size = s /\ cs[n].next = bs[b].next
      /\ cs[b].size = bs[b].size - s /\ cs[b].type = bs[b].type /\ cs[b].next = n
      /\ as[n] = ats[b] + (bs[b].size - s)
      /\ \A c \in BlockIds : c # n => as[c] = ats[c]
      /\ \A c \in BlockIds : c # n /\ c # b => cs[c] = bs[c]
  <2> HIDE DEF cs
  <2> QED
    BY <1>1, <1>2, <1>3, <1>5, <1>6 DEF Block
<1> HIDE DEF cs, as
<1>7a. /\ as[b] = ats[b] /\ cs[b].size \in Nat /\ as[n] \in Nat /\ as[b] <= as[n]
       /\ as[b] + cs[b].size = as[n] /\ as[b] + cs[b].size <= as[n]
       /\ as[n] + cs[n].size = ats[b] + bs[b].size
  <2>1. as[b] = ats[b]
    BY <1>1, <1>3, <1>7
  <2> QED
    BY <2>1, <1>1, <1>7
<1>8. Live(cs) = Live(bs) \cup {n}
  BY <1>1, <1>3, <1>7 DEF Live
<1>9. \A c \in Live(bs) : /\ c \in BlockIds /\ c # n /\ as[c] = ats[c]
                          /\ c # b => cs[c] = bs[c]
                          /\ bs[c].next # n
  <2> SUFFICES ASSUME NEW c \in Live(bs) PROVE bs[c].next # n
    BY <1>3, <1>7 DEF Live
  <2> QED
    BY <1>3, <1>4, LiveFacts
<1>10. Confined(cs, as, k)
  <2> SUFFICES ASSUME NEW c \in Live(cs)
               PROVE  /\ c[1] \in 1 .. k
                      /\ Banks[c[1]].addr <= as[c]
                      /\ as[c] + cs[c].size <= Top(c[1])
                      /\ cs[c].type = "used" => cs[c].size > 0
    BY DEF Confined, EndOf
  <2>1. CASE c = n
    BY <2>1, <1>1, <1>2, <1>7, <1>7a
  <2>2. CASE c = b
    BY SMTT(90), <2>2, <1>1, <1>2, <1>7, <1>7a
  <2>3. CASE c # n /\ c # b
    <3>1. c \in Live(bs) /\ cs[c] = bs[c] /\ as[c] = ats[c]
      BY <2>3, <1>8, <1>9
    <3> QED
      BY <3>1, LiveFacts
  <2> QED
    BY <2>1, <2>2, <2>3
<1>11. Chained(cs, as)
  <2> SUFFICES ASSUME NEW c \in Live(cs)
               PROVE  IF cs[c].next = NIL THEN as[c] + cs[c].size = Top(c[1])
                      ELSE /\ cs[c].next \in Live(cs)
                           /\ cs[c].next[1] = c[1] /\ cs[c].next[2] # 0
                           /\ as[cs[c].next] = as[c] + cs[c].size
    BY DEF Chained, EndOf
  <2>1. CASE c = n
    <3>1. as[c] + cs[c].size = ats[b] + bs[b].size
      BY <2>1, <1>7a
    <3>2. /\ bs[b].next = NIL => ats[b] + bs[b].size = Top(b[1])
          /\ bs[b].next # NIL => /\ bs[b].next \in Live(bs)
                                 /\ bs[b].next[1] = b[1] /\ bs[b].next[2] # 0
                                 /\ ats[bs[b].next] = ats[b] + bs[b].size
      BY LiveFacts
    <3>3. CASE bs[b].next = NIL
      BY <2>1, <3>1, <3>2, <3>3, <1>7
    <3>4. CASE bs[b].next # NIL
      <4>1. as[bs[b].next] = ats[bs[b].next] /\ bs[b].next \in Live(cs)
        BY <3>2, <3>4, <1>8, <1>9
      <4> QED
        BY <2>1, <3>1, <3>2, <3>4, <4>1, <1>7
    <3> QED
      BY <3>3, <3>4
  <2>2. CASE c = b
    BY <2>2, <1>4, <1>7, <1>7a, <1>8
  <2>3. CASE c # n /\ c # b
    <3>1. c \in Live(bs) /\ cs[c] = bs[c] /\ as[c] = ats[c]
      BY <2>3, <1>8, <1>9
    <3>2. /\ bs[c].next = NIL => ats[c] + bs[c].size = Top(c[1])
          /\ bs[c].next # NIL => /\ bs[c].next \in Live(bs)
                                 /\ bs[c].next[1] = c[1] /\ bs[c].next[2] # 0
                                 /\ ats[bs[c].next] = ats[c] + bs[c].size
      BY <3>1, LiveFacts
    <3> QED
      BY <3>1, <3>2, <1>8, <1>9
  <2> QED
    BY <2>1, <2>2, <2>3
<1>12. Apart(cs, as)
  <2>1. ASSUME NEW c \in Live(bs), c # b
        PROVE  /\ bs[b].next # NIL => bs[b].next # bs[c].next
               /\ bs[c].next # NIL => bs[c].next # bs[b].next
               /\ bs[c].next # n
               /\ c[1] = b[1] /\ bs[c].size > 0 => ats[b] + bs[b].size <= ats[c]
               /\ ats[c] \in Nat /\ bs[c].size \in Nat
               /\ cs[c] = bs[c] /\ as[c] = ats[c]
    <3>1. /\ bs[b].size > 0 /\ bs[c].size > 0 =>
                ats[b] + bs[b].size <= ats[c] \/ ats[c] + bs[c].size <= ats[b]
          /\ bs[b].next # NIL => bs[b].next # bs[c].next
          /\ bs[c].next # NIL => bs[c].next # bs[b].next
      BY <2>1, ApartFacts
    <3>2. /\ ats[c] \in Nat /\ bs[c].size \in Nat
          /\ Banks[c[1]].addr <= ats[c]
      BY LiveFacts
    <3>3. ASSUME c[1] = b[1], bs[c].size > 0 PROVE ats[b] + bs[b].size <= ats[c]
      <4>1. ats[b] <= ats[c] /\ bs[b].size > 0
        BY <3>2, <3>3, <1>1
      <4> QED
        BY <4>1, <3>1, <3>2, <3>3, <1>1
    <3> QED
      BY <2>1, <3>1, <3>2, <3>3, <1>9
  <2> SUFFICES ASSUME NEW c \in Live(cs), NEW d \in Live(cs), c # d
               PROVE  /\ cs[c].next # NIL => cs[c].next # cs[d].next
                      /\ c[1] = d[1] /\ cs[c].size > 0 /\ cs[d].size > 0 =>
                            \/ as[c] + cs[c].size <= as[d]
                            \/ as[d] + cs[d].size <= as[c]
    BY DEF Apart, EndOf
  <2>2. ASSUME NEW e \in Live(bs), e # b, e[1] = b[1], bs[e].size > 0
        PROVE  as[n] + cs[n].size <= as[e] /\ as[b] + cs[b].size <= as[e]
    <3>1. ats[b] + bs[b].size <= as[e] /\ as[e] \in Nat
      <4>1. ats[b] + bs[b].size <= ats[e] /\ ats[e] \in Nat /\ as[e] = ats[e]
        BY <2>1, <2>2
      <4> QED
        BY <4>1
    <3>2. as[n] + cs[n].size <= as[e]
      BY <3>1, <1>7a
    <3>3. as[b] + cs[b].size <= ats[b] + bs[b].size
      BY <1>1, <1>7, <1>7a
    <3>4. as[b] + cs[b].size \in Nat /\ ats[b] + bs[b].size \in Nat
      <4>1. \A x, y \in Nat : x + y \in Nat
        OBVIOUS
      <4> QED
        BY <4>1, <1>1, <1>7a
    <3>5. \A x, y, z \in Nat : x <= y /\ y <= z => x <= z
      OBVIOUS
    <3>6. as[b] + cs[b].size <= as[e]
      BY <3>1, <3>3, <3>4, <3>5
    <3> QED
      BY <3>2, <3>6
  <2>3. CASE n \in {c, d} /\ b \in {c, d}
    <3>1. cs[b].next # cs[n].next /\ cs[n].next # cs[b].next
      BY <1>1, <1>7, <1>9
    <3>2. as[b] + cs[b].size <= as[n]
      BY <1>7a
    <3>3. (c = b /\ d = n) \/ (c = n /\ d = b)
      BY <2>3, <1>3
    <3> QED
      BY <3>1, <3>2, <3>3
  <2>4. ASSUME NEW e \in Live(bs), e # b
        PROVE  /\ cs[e].next # NIL => cs[e].next # cs[n].next /\ cs[e].next # cs[b].next
               /\ cs[n].next # NIL => cs[n].next # cs[e].next
               /\ cs[b].next # NIL => cs[b].next # cs[e].next
               /\ e[1] = b[1] /\ cs[e].size > 0 =>
                    as[n] + cs[n].size <= as[e] /\ as[b] + cs[b].size <= as[e]
    <3>1. cs[e] = bs[e] /\ cs[n].next = bs[b].next /\ cs[b].next = n
      BY <2>1, <2>4, <1>7
    <3> QED
      BY <3>1, <2>1, <2>2, <2>4
  <2>5. CASE \/ n \in {c, d} /\ b \notin {c, d}
             \/ b \in {c, d} /\ n \notin {c, d}
    <3>1. CASE c \in {b, n}
      <4>1. d \in Live(bs) /\ d # b /\ c[1] = b[1]
        BY <2>5, <3>1, <1>8
      <4>2. CASE c = b
        BY <4>1, <4>2, <2>4
      <4>3. CASE c = n
        BY <4>1, <4>3, <2>4
      <4> QED
        BY <3>1, <4>2, <4>3
    <3>2. CASE d \in {b, n}
      <4>1. c \in Live(bs) /\ c # b /\ d[1] = b[1]
        BY <2>5, <3>2, <1>8
      <4>2. CASE d = b
        BY <4>1, <4>2, <2>4
      <4>3. CASE d = n
        BY <4>1, <4>3, <2>4
      <4> QED
        BY <3>2, <4>2, <4>3
    <3> QED
      BY <2>5, <3>1, <3>2
  <2>6. CASE n \notin {c, d} /\ b \notin {c, d}
    <3>1. c \in Live(bs) /\ d \in Live(bs)
      BY <2>6, <1>8
    <3>2. cs[c] = bs[c] /\ cs[d] = bs[d] /\ as[c] = ats[c] /\ as[d] = ats[d]
      BY <2>6, <3>1, <1>9
    <3>3. /\ bs[c].next # NIL => bs[c].next # bs[d].next
          /\ bs[c].size > 0 /\ bs[d].size > 0 =>
                ats[c] + bs[c].size <= ats[d] \/ ats[d] + bs[d].size <= ats[c]
      BY <3>1, ApartFacts
    <3> QED
      BY <3>2, <3>3
  <2> QED
    BY <2>3, <2>5, <2>6
<1>13. Heads(cs, as, k)
  <2>1. ASSUME NEW r \in 1 .. k
        PROVE  <<r, 0>> # n /\ <<r, 0>> \in BlockIds
    BY <1>4, BankFacts
  <2> QED
    BY <2>1, <1>1, <1>7 DEF HeapOK, Heads
<1>14. Reached(cs)
  <2> SUFFICES ASSUME NEW c \in Live(cs), c[2] # 0
               PROVE  \E d \in Live(cs) : cs[d].next = c
    BY DEF Reached
  <2>1. CASE c = n
    BY <2>1, <1>7, <1>8
  <2>2. CASE c # n
    <3>1. PICK d \in Live(bs) : bs[d].next = c
      BY <2>2, <1>8 DEF HeapOK, Reached
    <3>2. CASE d = b
      BY <3>1, <3>2, <1>7, <1>8
    <3>3. CASE d # b
      BY <3>1, <3>3, <1>8, <1>9
    <3> QED
      BY <3>2, <3>3
  <2> QED
    BY <2>1, <2>2
<1>15. Acyclic(cs)
  <2> SUFFICES ASSUME NEW S \in SUBSET Live(cs), S # {}
               PROVE  \E c \in S : cs[c].next \notin S
    BY DEF Acyclic
  <2> DEFINE T == S \ {n}
  <2>1. bs[b].next # n
    BY <1>9
  <2>2. CASE T = {}
    BY <2>1, <2>2, <1>7
  <2>3. CASE T # {}
    <3>1. T \in SUBSET Live(bs)
      BY <1>8
    <3>2. PICK c \in T : bs[c].next \notin T
      BY <2>3, <3>1 DEF HeapOK, Acyclic
    <3>3. c \in Live(bs) /\ bs[c].next # n
      BY <3>1, <3>2, <1>9
    <3>4. CASE c # b
      BY <3>2, <3>3, <3>4, <1>9
    <3>5. CASE c = b /\ n \in S
      BY <3>2, <3>3, <3>5, <1>7
    <3>6. CASE c = b /\ n \notin S
      BY <3>2, <3>6, <1>7
    <3> QED
      BY <3>4, <3>5, <3>6
  <2> QED
    BY <2>2, <2>3
<1> QED
  BY <1>10, <1>11, <1>12, <1>13, <1>14, <1>15 DEF HeapOK, cs, as

(* Marking a block that is not a head as free keeps the heap well formed.  *)
LEMMA MarkedOK ==
    ASSUME NEW bs \in [BlockIds -> Block], NEW ats \in [BlockIds -> Addrs],
           NEW k \in 0 .. Len(Banks), HeapOK(bs, ats, k), NEW b \in Live(bs)
    PROVE  HeapOK([bs EXCEPT ![b].type = "free"], ats, k)
<1> DEFINE ms == [bs EXCEPT ![b].type = "free"]
<1>1. b \in BlockIds /\ bs[b] \in Block
  BY DEF Live
<1>2. /\ ms \in [BlockIds -> Block] /\ ms[b].type = "free"
      /\ \A c \in BlockIds : c # b => ms[c] = bs[c]
      /\ \A c \in BlockIds : ms[c].size = bs[c].size /\ ms[c].next = bs[c].next
  BY <1>1 DEF Block
<1> HIDE DEF ms
<1>3. Live(ms) = Live(bs)
  BY <1>1, <1>2 DEF Live
<1>4. \A c \in Live(bs) : c \in BlockIds
  BY DEF Live
<1>5. Confined(ms, ats, k)
  BY <1>2, <1>3, <1>4 DEF HeapOK, Confined, EndOf
<1>6. Chained(ms, ats)
  BY <1>2, <1>3, <1>4 DEF HeapOK, Chained, EndOf
<1>7. Apart(ms, ats)
  <2>1. \A c \in Live(bs) : /\ EndOf(ms, ats, c) = EndOf(bs, ats, c)
                            /\ ms[c].next = bs[c].next /\ ms[c].size = bs[c].size
    BY <1>2, <1>4 DEF EndOf
  <2>2. Apart(bs, ats)
    BY DEF HeapOK
  <2> QED
    BY <2>1, <2>2, <1>3 DEF Apart
<1>8. Heads(ms, ats, k)
  <2> SUFFICES ASSUME NEW r \in 1 .. k
               PROVE  ms[<<r, 0>>].type = "free" /\ ats[<<r, 0>>] = Banks[r].addr
    BY DEF Heads
  <2>1. <<r, 0>> \in BlockIds
    BY BankFacts
  <2> QED
    BY <2>1, <1>2 DEF HeapOK, Heads
<1>9. Reached(ms) /\ Acyclic(ms)
  <2>1. \A c \in Live(bs) : ms[c].next = bs[c].next
    BY <1>2, <1>4
  <2> QED
    BY <2>1, <1>3 DEF HeapOK, Reached, Acyclic
<1> QED
  BY <1>5, <1>6, <1>7, <1>8, <1>9 DEF HeapOK, ms

(* Registering the next bank adds its genesis block to a well-formed heap. *)
LEMMA NewBankOK ==
    ASSUME NEW bs \in [BlockIds -> Block], NEW ats \in [BlockIds -> Addrs],
           NEW k \in 0 .. Len(Banks), HeapOK(bs, ats, k), k < Len(Banks)
    PROVE  LET r == k + 1
               ns == Genesis(bs, r, Usable(r))
               as == [ats EXCEPT ![<<r, 0>>] = Banks[r].addr]
           IN /\ ns \in [BlockIds -> Block] /\ as \in [BlockIds -> Addrs]
              /\ HeapOK(ns, as, r)
              /\ ns[<<r, 0>>].size = Usable(r) /\ ns[<<r, 0>>].type = "free"
              /\ Live(ns) = Live(bs) \cup {<<r, 0>>}
              /\ \A b \in Live(bs) : b # <<r, 0>> /\ ns[b] = bs[b] /\ as[b] = ats[b]
              /\ \A b \in BlockIds : b[1] # r => ns[b] = bs[b] /\ as[b] = ats[b]
<1> DEFINE r == k + 1
           g == <<r, 0>>
           ns == Genesis(bs, r, Usable(r))
           as == [ats EXCEPT ![g] = Banks[r].addr]
<1>1. Len(Banks) \in Nat /\ k \in Nat /\ r \in 1 .. Len(Banks) /\ r \notin 1 .. k
      /\ Word \in Nat
  BY BanksAssumption
<1> HIDE DEF r
<1>2. /\ g \in BlockIds /\ g[1] = r /\ g[2] = 0
      /\ Banks[r].addr \in Nat /\ Usable(r) \in Nat /\ Top(r) \in Nat
      /\ Banks[r].addr + Usable(r) = Top(r) /\ Top(r) < Word
  BY <1>1, BankFacts
<1>3. /\ Banks[r].addr \in Addrs /\ Usable(r) \in Addrs
  <2>1. Banks[r].addr <= Top(r) /\ Usable(r) <= Top(r)
    BY <1>2
  <2> QED
    BY <2>1, <1>1, <1>2 DEF Addrs
<1>4. /\ ns[g].next = NIL /\ ns[g].size = Usable(r) /\ ns[g].type = "free"
      /\ \A b \in BlockIds : b # g /\ b[1] = r => ns[b].type = "absent"
      /\ \A b \in BlockIds : b[1] # r => b # g /\ ns[b] = bs[b] /\ as[b] = ats[b]
      /\ as[g] = Banks[r].addr
      /\ ns \in [BlockIds -> Block] /\ as \in [BlockIds -> Addrs]
  <2> HIDE DEF g
  <2>1. ns = [b \in BlockIds |->
                IF b = g THEN [next |-> NIL, size |-> Usable(r), type |-> "free"]
                ELSE IF b[1] = r THEN [bs[b] EXCEPT !.type = "absent"] ELSE bs[b]]
    BY DEF Genesis, g
  <2> HIDE DEF ns
  <2> QED
    BY <2>1, <1>2, <1>3 DEF Block
<1>4a. as[g] + ns[g].size = Top(r) /\ as[g] + ns[g].size <= Top(r)
  BY <1>2, <1>4
<1>5. \A b \in Live(bs) : b \in BlockIds /\ b[1] \in 1 .. k /\ b[1] # r
  BY <1>1 DEF Live, HeapOK, Confined
<1> HIDE DEF g, ns, as
<1>6. /\ Live(ns) = Live(bs) \cup {g}
      /\ \A b \in Live(bs) : b # g /\ ns[b] = bs[b] /\ as[b] = ats[b]
  <2>1. \A b \in BlockIds : b[1] = r \/ ns[b] = bs[b]
    BY <1>4
  <2> QED
    BY <2>1, <1>2, <1>4, <1>5 DEF Live
<1>7. Confined(ns, as, r)
  <2> SUFFICES ASSUME NEW b \in Live(ns)
               PROVE  /\ b[1] \in 1 .. r
                      /\ Banks[b[1]].addr <= as[b]
                      /\ as[b] + ns[b].size <= Top(b[1])
                      /\ ns[b].type = "used" => ns[b].size > 0
    BY DEF Confined, EndOf
  <2>1. CASE b = g
    <3>1. g[1] \in 1 .. r /\ g[2] = 0
      BY <1>1, <1>2
    <3>2. Banks[r].addr <= as[g]
      BY <1>2, <1>4
    <3>3. g[1] = r /\ as[g] + ns[g].size <= Top(r)
      BY <1>2, <1>4a
    <3> QED
      BY <2>1, <3>1, <3>2, <3>3, <1>4
  <2>2. CASE b \in Live(bs)
    <3>1. b[1] \in 1 .. r
      BY <2>2, <1>5, <1>1 DEF r
    <3>2. /\ Banks[b[1]].addr <= ats[b] /\ ats[b] + bs[b].size <= Top(b[1])
          /\ bs[b].type = "used" => bs[b].size > 0
      BY <2>2, LiveFacts
    <3> QED
      BY <2>2, <3>1, <3>2, <1>6
  <2> QED
    BY <2>1, <2>2, <1>6
<1>8. Chained(ns, as)
  <2> SUFFICES ASSUME NEW b \in Live(ns)
               PROVE  IF ns[b].next = NIL THEN as[b] + ns[b].size = Top(b[1])
                      ELSE /\ ns[b].next \in Live(ns)
                           /\ ns[b].next[1] = b[1] /\ ns[b].next[2] # 0
                           /\ as[ns[b].next] = as[b] + ns[b].size
    BY DEF Chained, EndOf
  <2>1. CASE b = g
    BY <2>1, <1>2, <1>4, <1>4a
  <2>2. CASE b \in Live(bs)
    <3>1. /\ bs[b].next = NIL => ats[b] + bs[b].size = Top(b[1])
          /\ bs[b].next # NIL => /\ bs[b].next \in Live(bs)
                                 /\ bs[b].next[1] = b[1] /\ bs[b].next[2] # 0
                                 /\ ats[bs[b].next] = ats[b] + bs[b].size
      BY <2>2, LiveFacts
    <3> QED
      BY <2>2, <3>1, <1>6
  <2> QED
    BY <2>1, <2>2, <1>6
<1>9. Apart(ns, as)
  <2> SUFFICES ASSUME NEW b \in Live(ns), NEW c \in Live(ns), b # c
               PROVE  /\ ns[b].next # NIL => ns[b].next # ns[c].next
                      /\ b[1] = c[1] /\ ns[b].size > 0 /\ ns[c].size > 0 =>
                            \/ as[b] + ns[b].size <= as[c]
                            \/ as[c] + ns[c].size <= as[b]
    BY DEF Apart, EndOf
  <2>1. CASE b \in Live(bs) /\ c \in Live(bs)
    <3>1. /\ bs[b].size > 0 /\ bs[c].size > 0 =>
                ats[b] + bs[b].size <= ats[c] \/ ats[c] + bs[c].size <= ats[b]
          /\ bs[b].next # NIL => bs[b].next # bs[c].next
      BY <2>1, ApartFacts
    <3>2. ns[b] = bs[b] /\ ns[c] = bs[c] /\ as[b] = ats[b] /\ as[c] = ats[c]
      BY <2>1, <1>6
    <3> QED
      BY <3>1, <3>2
  <2>2. CASE b = g \/ c = g
    BY <2>2, <1>2, <1>4, <1>5, <1>6
  <2> QED
    BY <2>1, <2>2, <1>6
<1>10. Heads(ns, as, r)
  <2> SUFFICES ASSUME NEW q \in 1 .. r
               PROVE  ns[<<q, 0>>].type = "free" /\ as[<<q, 0>>] = Banks[q].addr
    BY DEF Heads
  <2>1. CASE q = r
    BY <2>1, <1>4 DEF g
  <2>2. CASE q # r
    <3>1. q \in 1 .. k /\ q \in 1 .. Len(Banks)
      BY <2>2, <1>1 DEF r
    <3>2. <<q, 0>> \in BlockIds
      BY <3>1, BankFacts
    <3> QED
      BY <2>2, <3>1, <3>2, <1>4 DEF HeapOK, Heads
  <2> QED
    BY <2>1, <2>2
<1>11. Reached(ns)
  <2> SUFFICES ASSUME NEW b \in Live(ns), b[2] # 0
               PROVE  \E c \in Live(ns) : ns[c].next = b
    BY DEF Reached
  <2>1. b \in Live(bs)
    BY <1>2, <1>6
  <2>2. PICK c \in Live(bs) : bs[c].next = b
    BY <2>1 DEF HeapOK, Reached
  <2> QED
    BY <2>2, <1>6
<1>12. Acyclic(ns)
  <2> SUFFICES ASSUME NEW S \in SUBSET Live(ns), S # {}
               PROVE  \E b \in S : ns[b].next \notin S
    BY DEF Acyclic
  <2> DEFINE T == S \ {g}
  <2>1. ns[g].next \notin S
    <3>1. NIL \notin Live(ns)
      BY BlockIdFacts DEF Live
    <3> QED
      BY <3>1, <1>4
  <2>2. CASE T = {}
    BY <2>1, <2>2
  <2>3. CASE T # {}
    <3>1. T \in SUBSET Live(bs)
      BY <1>6
    <3>2. PICK b \in T : bs[b].next \notin T
      BY <2>3, <3>1 DEF HeapOK, Acyclic
    <3>3. b \in Live(bs) /\ ns[b] = bs[b]
      BY <3>1, <3>2, <1>6
    <3>4. bs[b].next # g
      <4>1. bs[b].next # NIL => bs[b].next[2] # 0
        BY <3>3, LiveFacts
      <4>2. g # NIL
        BY <1>2, BlockIdFacts
      <4> QED
        BY <4>1, <4>2, <1>2
    <3> QED
      BY <3>2, <3>3, <3>4
  <2> QED
    BY <2>2, <2>3
<1> QED
  BY <1>4, <1>6, <1>7, <1>8, <1>9, <1>10, <1>11, <1>12 DEF HeapOK, r, g, ns, as

-----------------------------------------------------------------------------
(* Used blocks.                                                            *)

(* A used block is never a head, is not empty and shares no byte with      *)
(* another one.                                                            *)
LEMMA UsedFacts ==
    ASSUME NEW bs \in [BlockIds -> Block], NEW ats \in [BlockIds -> Addrs],
           NEW k \in 0 .. Len(Banks), HeapOK(bs, ats, k),
           NEW b \in BlockIds, bs[b].type = "used"
    PROVE  /\ b \in Live(bs) /\ b[2] # 0 /\ bs[b].size > 0 /\ bs[b].size \in Nat
           /\ b[1] \in 1 .. k /\ b[1] \in 1 .. Len(Banks)
           /\ ats[b] \in Nat /\ ats[b] > 0 /\ Banks[b[1]].addr <= ats[b]
           /\ ats[b] + bs[b].size <= Top(b[1])
           /\ \A c \in BlockIds : bs[c].type = "used" /\ c # b =>
                /\ ats[c] # ats[b]
                /\ ats[b] + bs[b].size <= ats[c] \/ ats[c] + bs[c].size <= ats[b]
<1>1. \A c \in BlockIds : bs[c].type = "used" => c \in Live(bs)
  BY DEF Live
<1>2. \A c \in BlockIds : bs[c].type = "used" =>
        c[2] # 0 /\ bs[c].size > 0 /\ bs[c].size \in Nat /\ ats[c] \in Nat
  <2> SUFFICES ASSUME NEW c \in BlockIds, bs[c].type = "used"
               PROVE  c[2] # 0 /\ bs[c].size > 0 /\ bs[c].size \in Nat /\ ats[c] \in Nat
    OBVIOUS
  <2>1. c \in Live(bs)
    BY <1>1
  <2> QED
    BY <2>1, LiveFacts
<1>3. /\ b[1] \in 1 .. k /\ b[1] \in 1 .. Len(Banks)
      /\ Banks[b[1]].addr <= ats[b] /\ ats[b] + bs[b].size <= Top(b[1])
  BY <1>1, LiveFacts
<1>4. Banks[b[1]].addr \in Nat /\ Banks[b[1]].addr > 0
  BY <1>3, BankFacts
<1>5. ats[b] > 0
  BY <1>2, <1>3, <1>4
<1>6. ASSUME NEW c \in BlockIds, bs[c].type = "used", c # b
      PROVE  /\ ats[c] # ats[b]
             /\ ats[b] + bs[b].size <= ats[c] \/ ats[c] + bs[c].size <= ats[b]
  <2>1. ats[b] + bs[b].size <= ats[c] \/ ats[c] + bs[c].size <= ats[b]
    BY <1>1, <1>2, <1>6, ApartFacts
  <2> QED
    BY <2>1, <1>2, <1>6
<1> QED
  BY <1>1, <1>2, <1>3, <1>5, <1>6

-----------------------------------------------------------------------------
(* The invariant.                                                          *)

LEMMA InitInv == Init => Inv
<1> SUFFICES ASSUME Init PROVE Inv
  OBVIOUS
<1> USE DEF Init
<1>1. /\ MaxRegions \in Nat /\ Word \in Nat /\ Word > 0 /\ MaxBlocks \in Nat
      /\ Len(Banks) \in Nat /\ 0 \in Addrs
  BY BanksAssumption DEF Addrs
<1>2. TypeOK
  <2>1. regions \in [Slots -> Region]
    BY <1>1 DEF Region
  <2>2. blocks \in [BlockIds -> Block]
    BY <1>1 DEF Block
  <2> QED
    BY <2>1, <2>2, <1>1 DEF TypeOK, Grant
<1>3. Live(blocks) = {} /\ Used = {}
  BY DEF Live, Used
<1>4. HeapOK(blocks, at, nbanks)
  <2>1. Reached(blocks) /\ Acyclic(blocks)
    BY <1>3 DEF Reached, Acyclic
  <2> QED
    BY <2>1, <1>3 DEF HeapOK, Confined, Chained, Apart, Heads
<1>5. RegionsOK
  BY DEF RegionsOK, Slots
<1>6. AllocOK /\ FreeOK
  BY DEF AllocOK, FreeOK
<1>7. UsedIsGranted
  BY <1>3 DEF UsedIsGranted, Granted
<1> QED
  BY <1>2, <1>4, <1>5, <1>6, <1>7 DEF Inv

(* Starting a call changes nothing in the heap.                            *)
LEMMA MallocInv ==
    ASSUME Inv, NEW s \in Sizes, Malloc(s)
    PROVE  Inv'
<1> USE DEF Malloc, Start, Ready, memory
<1>1. s \in Addrs /\ s > 0 /\ NULL \in Addrs /\ 1 \in 1 .. MaxRegions + 1
  BY SizesAssumption, BanksAssumption DEF Addrs
<1>2. TypeOK'
  BY <1>1 DEF Inv, TypeOK, Grant
<1>3. RegionsOK' /\ HeapOK(blocks, at, nbanks)'
  BY DEF Inv, RegionsOK, HeapOK, Confined, Chained, Apart, Heads, Reached, Acyclic,
         Live, EndOf
<1>4. AllocOK' /\ FreeOK'
  BY <1>1 DEF AllocOK, FreeOK
<1>5. UsedIsGranted'
  BY DEF Inv, UsedIsGranted, Granted, Used, GrantOf
<1> QED
  BY <1>2, <1>3, <1>4, <1>5 DEF Inv

LEMMA AllocRegionInv ==
    ASSUME Inv, AllocRegion
    PROVE  Inv'
<1> USE DEF AllocRegion, Passed, memory
<1>1. MaxRegions \in Nat /\ Len(Banks) \in Nat /\ Word \in Nat /\ Word > 0
  BY BanksAssumption
<1>2. i \in Slots => regions[i] \in Region
  BY DEF Inv, TypeOK
<1>3. TypeOK'
  <2>1. i > MaxRegions \/ i \in Slots
    BY <1>1 DEF Inv, TypeOK, Slots
  <2>2. 0 \in Addrs
    BY <1>1 DEF Addrs
  <2>3. i' \in 1 .. MaxRegions + 1 /\ bptr' \in Addrs /\ block' \in BlockIds \cup {NIL}
    BY <2>1, <2>2, <1>1, <1>2 DEF Inv, TypeOK, Region, Slots
  <2> QED
    BY <2>3 DEF Inv, TypeOK
<1>4. RegionsOK' /\ HeapOK(blocks, at, nbanks)'
  BY DEF Inv, RegionsOK, HeapOK, Confined, Chained, Apart, Heads, Reached, Acyclic,
         Live, EndOf
<1>5. AllocOK'
  <2>1. ASSUME pc' = "alloc_walk"
        PROVE  /\ i' <= nbanks' /\ block' = <<i', 0>> /\ bptr' = Banks[i'].addr
               /\ arg'.size <= regions'[i'].free_size
    <3>1. /\ i \in Slots /\ regions[i].addr # NULL /\ ~ (regions[i].free_size < arg.size)
          /\ i' = i /\ block' = regions[i].head /\ bptr' = regions[i].addr
      BY <2>1, <1>1 DEF Inv, TypeOK, Slots
    <3>2. i <= nbanks /\ regions[i].head = <<i, 0>> /\ regions[i].addr = Banks[i].addr
      BY <3>1 DEF Inv, RegionsOK
    <3>3. arg.size <= regions[i].free_size
      <4>1. arg.size \in Nat /\ regions[i].free_size \in Nat
        BY <3>1, <1>1, <1>2 DEF Inv, TypeOK, Grant, Region, Addrs
      <4> QED
        BY <3>1, <4>1
    <3> QED
      BY <3>1, <3>2, <3>3
  <2>2. arg'.size \in Sizes
    BY DEF Inv, AllocOK
  <2>3. ~ (pc' = "alloc_return" /\ bptr' # NULL)
    OBVIOUS
  <2> QED
    BY <2>1, <2>2, <2>3 DEF AllocOK
<1>6. FreeOK'
  BY DEF FreeOK
<1>7. UsedIsGranted'
  BY DEF Inv, UsedIsGranted, Granted, Used, GrantOf
<1> QED
  BY <1>3, <1>4, <1>5, <1>6, <1>7 DEF Inv

LEMMA MallocReturnInv ==
    ASSUME Inv, MallocReturn
    PROVE  Inv'
<1> USE DEF MallocReturn, Return, memory
<1>1. TypeOK'
  <2>1. 0 \in Addrs /\ 1 \in 1 .. MaxRegions + 1
    BY BanksAssumption DEF Addrs
  <2>2. [ptr |-> bptr, size |-> arg.size] \in Grant
    BY DEF Inv, TypeOK, Grant
  <2> QED
    BY <2>1, <2>2 DEF Inv, TypeOK, Grant
<1>2. RegionsOK' /\ HeapOK(blocks, at, nbanks)'
  BY DEF Inv, RegionsOK, HeapOK, Confined, Chained, Apart, Heads, Reached, Acyclic,
         Live, EndOf
<1>3. AllocOK' /\ FreeOK'
  BY DEF AllocOK, FreeOK
<1>4. UsedIsGranted'
  BY DEF Inv, UsedIsGranted, Granted, Used, GrantOf
<1> QED
  BY <1>1, <1>2, <1>3, <1>4 DEF Inv

(* mem_new_region uses the slot after the last registered bank.            *)
LEMMA NewRegionInv ==
    ASSUME Inv, NewRegion
    PROVE  Inv'
<1> DEFINE k == nbanks + 1
           bank == Banks[k]
<1>1. /\ Len(Banks) \in Nat /\ MaxRegions \in Nat /\ Len(Banks) <= MaxRegions
      /\ nbanks \in 0 .. Len(Banks) /\ nbanks < Len(Banks)
      /\ blocks \in [BlockIds -> Block] /\ at \in [BlockIds -> Addrs]
      /\ regions \in [Slots -> Region]
      /\ HeapOK(blocks, at, nbanks) /\ nbanks' = k
  BY BanksAssumption DEF NewRegion, Inv, TypeOK
<1>2. k \in 1 .. Len(Banks)
  BY <1>1
<1>3. /\ k \in Slots /\ <<k, 0>> \in BlockIds /\ bank.addr # NULL /\ bank.addr \in Addrs
      /\ bank.size \in Addrs /\ Usable(k) \in Addrs
      /\ TableLen(bank.size) \in 0 .. MaxBlocks
      /\ Sub(bank.size, TableBytes(bank.size)) = Usable(k)
  BY <1>2, NewBankFacts
<1>4. PICK r \in Slots :
        /\ NewSlot(r)
        /\ regions' = [regions EXCEPT ![r] =
              [addr |-> bank.addr, free_size |-> Usable(k), size |-> bank.size,
               head |-> <<r, 0>>, max_blocks |-> TableLen(bank.size)]]
        /\ blocks' = Genesis(blocks, r, Usable(k))
        /\ at' = [at EXCEPT ![<<r, 0>>] = bank.addr]
  BY <1>3 DEF NewRegion
<1>5. r = k
  <2>1. \A q \in Slots : q <= nbanks => regions[q].addr # NULL
    <3> SUFFICES ASSUME NEW q \in Slots, q <= nbanks PROVE regions[q].addr # NULL
      OBVIOUS
    <3>1. q \in 1 .. Len(Banks) /\ regions[q].addr = Banks[q].addr
      <4>1. q \in 1 .. Len(Banks)
        BY <1>1 DEF Slots
      <4> QED
        BY <4>1 DEF Inv, RegionsOK
    <3>2. Banks[q].addr \in Nat /\ Banks[q].addr > 0
      BY <3>1, BankFacts
    <3> QED
      BY <3>1, <3>2
  <2>2. regions[k].addr = NULL
    BY <1>1, <1>3 DEF Inv, RegionsOK
  <2>3. \A q \in 1 .. r - 1 : regions[q].addr # NULL
    BY <1>4 DEF NewSlot
  <2>4. regions[r].addr = NULL \/ r = MaxRegions
    BY <1>4 DEF NewSlot
  <2>5. r <= k
    BY <2>2, <2>3, <1>1, <1>3, <1>4 DEF Slots
  <2>6. r > nbanks
    BY <2>1, <2>4, <1>1, <1>4 DEF Slots
  <2> QED
    BY <2>5, <2>6, <1>1, <1>4 DEF Slots
<1>6. /\ blocks' \in [BlockIds -> Block] /\ at' \in [BlockIds -> Addrs]
      /\ HeapOK(blocks', at', nbanks')
      /\ blocks'[<<k, 0>>].size = Usable(k) /\ blocks'[<<k, 0>>].type = "free"
      /\ Live(blocks') = Live(blocks) \cup {<<k, 0>>}
      /\ \A b \in Live(blocks) :
            b # <<k, 0>> /\ blocks'[b] = blocks[b] /\ at'[b] = at[b]
      /\ \A b \in BlockIds : b[1] # k => blocks'[b] = blocks[b] /\ at'[b] = at[b]
  <2>1. blocks' = Genesis(blocks, nbanks + 1, Usable(nbanks + 1))
    BY <1>4, <1>5
  <2>2. at' = [at EXCEPT ![<<nbanks + 1, 0>>] = Banks[nbanks + 1].addr]
    BY <1>4, <1>5
  <2>3. HeapOK(Genesis(blocks, nbanks + 1, Usable(nbanks + 1)),
               [at EXCEPT ![<<nbanks + 1, 0>>] = Banks[nbanks + 1].addr], nbanks + 1)
    BY <1>1, NewBankOK
  <2> QED
    BY <1>1, <2>1, <2>2, <2>3, NewBankOK
<1> HIDE DEF k, bank
<1>7. /\ regions' \in [Slots -> Region]
      /\ \A q \in Slots : q # k => regions'[q] = regions[q]
      /\ regions'[k] = [addr |-> bank.addr, free_size |-> Usable(k), size |-> bank.size,
                        head |-> <<k, 0>>, max_blocks |-> TableLen(bank.size)]
  BY <1>1, <1>3, <1>4, <1>5 DEF Region
<1>8. TypeOK'
  <2>1. TypeOK
    BY Zenon DEF Inv
  <2>2. nbanks' \in 0 .. Len(Banks)
    BY <1>1, <1>2
  <2>3. UNCHANGED <<pc, i, block, prev, bptr, arg, held>>
    BY Zenon DEF NewRegion, call
  <2> QED
    BY <1>6, <1>7, <2>1, <2>2, <2>3 DEF TypeOK
<1>9. RegionsOK'
  <2> SUFFICES ASSUME NEW q \in Slots
               PROVE  IF q <= nbanks'
                      THEN /\ regions'[q].addr = Banks[q].addr
                           /\ regions'[q].size = Banks[q].size
                           /\ regions'[q].head = <<q, 0>>
                           /\ regions'[q].max_blocks = TableLen(Banks[q].size)
                           /\ regions'[q].free_size <= blocks'[<<q, 0>>].size
                      ELSE regions'[q].addr = NULL /\ regions'[q].head = NIL
    BY DEF RegionsOK
  <2>1. CASE q = k
    BY <2>1, <1>1, <1>2, <1>3, <1>6, <1>7 DEF bank, Addrs
  <2>2. CASE q # k /\ q <= nbanks
    <3>1. q \in 1 .. Len(Banks) /\ q <= nbanks'
      BY <2>2, <1>1 DEF Slots, k
    <3>2. <<q, 0>> \in BlockIds
      BY <3>1, BankFacts
    <3> QED
      BY <2>2, <3>1, <3>2, <1>6, <1>7 DEF Inv, RegionsOK
  <2>3. CASE q # k /\ ~ (q <= nbanks)
    <3>1. ~ (q <= nbanks')
      BY <2>3, <1>1 DEF Slots, k
    <3> QED
      BY <2>3, <3>1, <1>7 DEF Inv, RegionsOK
  <2> QED
    BY <2>1, <2>2, <2>3
<1>10. AllocOK' /\ FreeOK'
  BY DEF AllocOK, FreeOK, Inv, NewRegion, call
<1>11. UsedIsGranted'
  <2>1. /\ Used \subseteq BlockIds
        /\ \A b \in Used : b \in Live(blocks)
    BY DEF Used, Live
  <2>2. Used' = Used
    BY <1>6, <2>1 DEF Used, Live
  <2>3. \A b \in Used : GrantOf(b)' = GrantOf(b)
    BY <1>6, <2>1 DEF GrantOf
  <2>4. Granted' = Granted
    BY DEF Granted, NewRegion, call
  <2> QED
    BY <2>2, <2>3, <2>4 DEF Inv, UsedIsGranted
<1> QED
  BY <1>6, <1>8, <1>9, <1>10, <1>11 DEF Inv

LEMMA FreeInv ==
    ASSUME Inv, NEW g \in held, Free(g)
    PROVE  Inv'
<1> USE DEF Free, Start, Ready, memory
<1>1. g \in Grant /\ g = [ptr |-> g.ptr, size |-> g.size]
  BY DEF Inv, TypeOK, Grant
<1>2. TypeOK'
  <2>1. 1 \in 1 .. MaxRegions + 1
    BY BanksAssumption
  <2> QED
    BY <1>1, <2>1 DEF Inv, TypeOK, Grant
<1>3. RegionsOK' /\ HeapOK(blocks, at, nbanks)'
  BY DEF Inv, RegionsOK, HeapOK, Confined, Chained, Apart, Heads, Reached, Acyclic,
         Live, EndOf
<1>4. arg' = g /\ held = held' \cup {g} /\ g \notin held'
  BY <1>1
<1>5. PICK t \in Used : GrantOf(t) = g
  BY DEF Inv, UsedIsGranted, Granted
<1>6. t[1] >= 1
  <2>1. t[1] \in Slots
    BY BlockIdFacts DEF Used
  <2> QED
    BY <2>1, BanksAssumption DEF Slots
<1>7. FreeOK'
  BY <1>4, <1>5, <1>6 DEF FreeOK, Used, GrantOf
<1>8. AllocOK'
  BY DEF AllocOK
<1>9. UsedIsGranted'
  <2>1. Granted' = Granted
    BY <1>4 DEF Granted
  <2> QED
    BY <2>1 DEF Inv, UsedIsGranted, Used, GrantOf
<1> QED
  BY <1>2, <1>3, <1>7, <1>8, <1>9 DEF Inv

LEMMA FreeRegionInv ==
    ASSUME Inv, FreeRegion
    PROVE  Inv'
<1> USE DEF FreeRegion, memory
<1>1. /\ MaxRegions \in Nat /\ Len(Banks) \in Nat /\ Len(Banks) <= MaxRegions
      /\ nbanks \in 0 .. Len(Banks)
      /\ i \in 1 .. MaxRegions + 1
      /\ blocks \in [BlockIds -> Block] /\ at \in [BlockIds -> Addrs]
      /\ HeapOK(blocks, at, nbanks)
  BY BanksAssumption DEF Inv, TypeOK
<1>2. PICK t \in Used : GrantOf(t) = arg /\ t[1] >= i
  BY DEF Inv, FreeOK
<1>3. /\ t \in BlockIds /\ t[1] \in 1 .. nbanks /\ t[1] \in 1 .. Len(Banks)
      /\ Banks[t[1]].addr <= at[t]
  BY <1>1, UsedFacts DEF Used
<1>4. i \in Slots
  BY <1>1, <1>2, <1>3 DEF Slots
<1>5. /\ pc' = "free_walk" /\ block' = regions[i].head /\ bptr' = regions[i].addr
      /\ prev' = NIL /\ i' = i /\ arg' = arg
  BY <1>4, <1>1 DEF Slots
<1>6. i <= nbanks => /\ block' = <<i, 0>> /\ bptr' = Banks[i].addr
                     /\ block' \in Live(blocks) /\ at[block'] = bptr'
                     /\ block'[1] = i
  <2> SUFFICES ASSUME i <= nbanks
               PROVE  /\ block' = <<i, 0>> /\ bptr' = Banks[i].addr
                      /\ block' \in Live(blocks) /\ at[block'] = bptr'
                      /\ block'[1] = i
    OBVIOUS
  <2>1. i \in 1 .. nbanks /\ i \in 1 .. Len(Banks)
    BY <1>1
  <2>2. block' = <<i, 0>> /\ bptr' = Banks[i].addr
    BY <1>4, <1>5 DEF Inv, RegionsOK
  <2>3. <<i, 0>> \in BlockIds
    BY <2>1, BankFacts
  <2> QED
    BY <2>1, <2>2, <2>3, <1>1 DEF HeapOK, Heads, Live
<1>7. i > nbanks => block' = NIL /\ bptr' = NULL
  <2>1. i \in Nat /\ nbanks \in Nat
    BY <1>1
  <2>2. i > nbanks => ~ (i <= nbanks)
    BY <2>1
  <2> QED
    BY <2>2, <1>4, <1>5 DEF Inv, RegionsOK
<1>8. TypeOK'
  BY <1>4, <1>5 DEF Inv, TypeOK, Region
<1>9. RegionsOK' /\ HeapOK(blocks, at, nbanks)'
  BY DEF Inv, RegionsOK, HeapOK, Confined, Chained, Apart, Heads, Reached, Acyclic,
         Live, EndOf
<1>10. FreeOK'
  <2>1. t[1] = i => at[t] >= bptr'
    <3>1. ASSUME t[1] = i PROVE bptr' = Banks[t[1]].addr
      BY <3>1, <1>1, <1>3, <1>6
    <3>2. at[t] \in Nat /\ Banks[t[1]].addr \in Nat
      BY <1>1, <1>2, <1>3, UsedFacts, BankFacts DEF Used
    <3> QED
      BY <3>1, <3>2, <1>3
  <2>2. arg' \notin held'
    BY <1>5 DEF Inv, FreeOK
  <2>3. /\ block' = NIL => i > nbanks
        /\ block' # NIL => block' \in Live(blocks) /\ block'[1] = i /\ bptr' = at[block']
    <3>1. i \in Nat /\ nbanks \in Nat
      BY <1>1
    <3>2. CASE i <= nbanks
      BY <3>1, <3>2, <1>6, BlockIdFacts DEF Live
    <3>3. CASE i > nbanks
      BY <3>3, <1>7
    <3> QED
      BY <3>1, <3>2, <3>3
  <2> QED
    BY <2>1, <2>2, <2>3, <1>2, <1>4, <1>5 DEF FreeOK, Used, GrantOf, Slots, Live
<1>11. AllocOK'
  BY <1>5 DEF AllocOK
<1>12. UsedIsGranted'
  BY <1>5 DEF Inv, UsedIsGranted, Granted, Used, GrantOf
<1> QED
  BY <1>8, <1>9, <1>10, <1>11, <1>12 DEF Inv

(* mem_alloc finds the head free and large enough: it carves the new block *)
(* out of it, or has no descriptor left.                                   *)
LEMMA AllocBlockInv ==
    ASSUME Inv, AllocBlock
    PROVE  Inv'
<1> DEFINE fs == Fixed(blocks, block)
           s == arg.size
<1>1. /\ Len(Banks) \in Nat /\ MaxRegions \in Nat /\ Word \in Nat /\ Word > 0
      /\ nbanks \in 0 .. Len(Banks)
      /\ blocks \in [BlockIds -> Block] /\ at \in [BlockIds -> Addrs]
      /\ regions \in [Slots -> Region] /\ arg \in Grant
      /\ HeapOK(blocks, at, nbanks) /\ pc = "alloc_walk"
      /\ i \in 1 .. MaxRegions + 1 /\ held \subseteq Grant
  BY BanksAssumption DEF AllocBlock, Inv, TypeOK
<1>2. /\ i \in 1 .. nbanks /\ i \in 1 .. Len(Banks)
      /\ block = <<i, 0>> /\ bptr = Banks[i].addr
      /\ s \in Nat /\ s > 0 /\ s <= regions[i].free_size
  BY <1>1, SizesAssumption DEF Inv, AllocOK, Grant, Addrs
<1>3. /\ i \in Slots /\ block \in BlockIds /\ block # NIL
      /\ block[1] = i /\ block[2] = 0
      /\ Banks[i].addr \in Nat /\ Banks[i].addr > 0 /\ Top(i) \in Nat /\ Top(i) < Word
  BY <1>2, BankFacts, BlockIdFacts
<1>4. /\ block \in Live(blocks) /\ blocks[block].type = "free" /\ bptr = at[block]
      /\ regions[i].free_size <= blocks[block].size
      /\ regions[i].free_size \in Nat /\ blocks[block].size \in Nat
  <2>1. blocks[block].type = "free" /\ at[block] = Banks[i].addr
    BY <1>1, <1>2 DEF HeapOK, Heads
  <2>2. regions[i].free_size <= blocks[<<i, 0>>].size
    BY <1>2, <1>3 DEF Inv, RegionsOK
  <2>3. regions[i].free_size \in Nat /\ blocks[block].size \in Nat
    BY <1>1, <1>3 DEF Region, Block, Addrs
  <2> QED
    BY <2>1, <2>2, <2>3, <1>2, <1>3 DEF Live
<1>5. /\ fs \in [BlockIds -> Block]
      /\ HeapOK(fs, at, nbanks)
      /\ block \in Live(fs) /\ fs[block].type = "free"
      /\ fs[block].size >= blocks[block].size
      /\ \A c \in BlockIds : /\ fs[c].type = "used" <=> blocks[c].type = "used"
                             /\ fs[c].type = "used" => fs[c] = blocks[c]
      /\ \A c \in Live(blocks) : c[2] = 0 => c \in Live(fs) /\ fs[c].size >= blocks[c].size
  BY <1>1, <1>4, FixedOK
<1>6. /\ fs[block].size \in Nat /\ s <= fs[block].size
      /\ at[block] \in Nat /\ at[block] + fs[block].size <= Top(i)
  <2>1. fs[block].size \in Nat /\ at[block] \in Nat /\ at[block] + fs[block].size <= Top(i)
    BY <1>1, <1>3, <1>5, LiveFacts
  <2> QED
    BY <2>1, <1>2, <1>4, <1>5
<1>7. \A q \in 1 .. nbanks :
        /\ <<q, 0>> \in BlockIds /\ <<q, 0>> \in Live(blocks)
        /\ regions[q].free_size \in Nat /\ fs[<<q, 0>>].size \in Nat
        /\ regions[q].free_size <= fs[<<q, 0>>].size
  <2> TAKE q \in 1 .. nbanks
  <2>1. q \in 1 .. Len(Banks) /\ q \in Slots /\ <<q, 0>> \in BlockIds
    BY <1>1, BankFacts
  <2>2. <<q, 0>> \in Live(blocks) /\ fs[<<q, 0>>].size >= blocks[<<q, 0>>].size
    BY <2>1, <1>1, <1>5 DEF HeapOK, Heads, Live
  <2>3. regions[q].free_size <= blocks[<<q, 0>>].size
    BY <2>1, <1>1 DEF Inv, RegionsOK
  <2>4. regions[q].free_size \in Nat /\ fs[<<q, 0>>].size \in Nat
        /\ blocks[<<q, 0>>].size \in Nat
    BY <2>1, <1>1, <1>5 DEF Region, Block, Addrs
  <2> QED
    BY <2>1, <2>2, <2>3, <2>4
<1> HIDE DEF fs
<1>7a. /\ \A b \in Used : b \in BlockIds /\ fs[b].type = "used" /\ fs[b] = blocks[b]
       /\ \A b \in BlockIds : fs[b].type = "used" => b \in Used
  <2>1. \A b \in BlockIds : fs[b].type = "used" => blocks[b].type = "used"
    BY <1>5
  <2>2. \A b \in BlockIds : blocks[b].type = "used" => fs[b].type = "used" /\ fs[b] = blocks[b]
    BY <1>5
  <2> QED
    BY <2>1, <2>2 DEF Used
<1>8. nbanks' = nbanks /\ prev' = prev /\ arg' = arg /\ held' = held
  BY DEF AllocBlock
<1>9. CASE NewBlocks(fs, i) = {}
  <2>1. /\ blocks' = fs /\ pc' = "alloc_return" /\ bptr' = NULL
        /\ regions' = regions /\ at' = at /\ i' = i /\ block' = block
    BY <1>1, <1>3, <1>5, <1>9 DEF AllocBlock, fs
  <2>2. TypeOK'
    BY <2>1, <1>1, <1>5, <1>8 DEF Inv, TypeOK, Addrs
  <2>3. RegionsOK'
    <3>1. ASSUME NEW q \in Slots, q <= nbanks PROVE q \in 1 .. nbanks
      BY <3>1, <1>1 DEF Slots
    <3> QED
      BY <3>1, <2>1, <1>7, <1>8 DEF Inv, RegionsOK
  <2>4. AllocOK' /\ FreeOK'
    BY <2>1, <1>1, <1>8 DEF Inv, AllocOK, FreeOK
  <2>5. UsedIsGranted'
    <3>1. Used' = Used /\ \A b \in Used : GrantOf(b)' = GrantOf(b)
      BY <2>1, <1>7a DEF Used, GrantOf
    <3>2. Granted' = Granted
      BY <2>1, <1>1, <1>8 DEF Granted
    <3> QED
      BY <3>1, <3>2 DEF Inv, UsedIsGranted
  <2> QED
    BY <2>1, <2>2, <2>3, <2>4, <2>5, <1>5, <1>8 DEF Inv
<1>10. CASE NewBlocks(fs, i) # {}
  <2> DEFINE a == at[block] + (fs[block].size - s)
  <2>1. /\ Sub(fs[block].size, s) = fs[block].size - s
        /\ Add(bptr, Sub(fs[block].size, s)) = a
        /\ a \in Addrs /\ a > 0
        /\ Sub(regions[i].free_size, s) = regions[i].free_size - s
        /\ regions[i].free_size - s \in Addrs
        /\ regions[i].free_size - s <= fs[block].size - s
    <3>1. Sub(fs[block].size, s) = fs[block].size - s /\ fs[block].size - s \in Nat
      BY <1>2, <1>6 DEF Sub
    <3>2. a \in Nat /\ a <= at[block] + fs[block].size
      BY <3>1, <1>2, <1>6
    <3>3. a < Word
      BY <3>2, <1>1, <1>3, <1>6
    <3>4. a > 0
      BY <3>1, <1>2, <1>3, <1>4, <1>6
    <3>5. Add(bptr, Sub(fs[block].size, s)) = a
      BY <3>1, <3>3, <1>4 DEF Add
    <3>6. Sub(regions[i].free_size, s) = regions[i].free_size - s
      BY <1>2, <1>4 DEF Sub
    <3>7. regions[i].free_size \in Addrs
      BY <1>1, <1>3 DEF Region
    <3>8. regions[i].free_size - s \in Addrs
      BY <3>7, <1>1, <1>2, <1>4 DEF Addrs
    <3>9. regions[i].free_size - s <= fs[block].size - s
      BY <1>2, <1>4, <1>5, <1>6
    <3> QED
      BY <3>1, <3>2, <3>3, <3>4, <3>5, <3>6, <3>8, <3>9, <1>1 DEF Addrs
  <2>2. PICK n \in NewBlocks(fs, i) :
          /\ blocks' = Carved(fs, block, n, s)
          /\ regions' = [regions EXCEPT ![i].free_size = regions[i].free_size - s]
          /\ bptr' = a
          /\ at' = [at EXCEPT ![n] = a]
          /\ pc' = "alloc_return" /\ i' = i /\ block' = block
    <3>1. ~ (fs[block].type # "free" /\ ~ (fs[block].size >= s))
      BY <1>5
    <3> QED
      BY <3>1, <2>1, <1>1, <1>3, <1>10 DEF AllocBlock, fs
  <2>3. n \in BlockIds /\ n[1] = i /\ fs[n].type = "absent"
    <3>1. n \in Table(i) /\ fs[n].type = "absent"
      BY DEF NewBlocks
    <3>2. regions[i].max_blocks \in 0 .. MaxBlocks
      BY <1>1, <1>3 DEF Region
    <3> QED
      BY SMTT(90), <3>1, <3>2, <1>3, BanksAssumption DEF Table, BlockIds
  <2>4. /\ blocks' \in [BlockIds -> Block] /\ at' \in [BlockIds -> Addrs]
        /\ HeapOK(blocks', at', nbanks)
        /\ n # block
        /\ blocks'[n].type = "used" /\ blocks'[n].size = s
        /\ at'[n] = a
        /\ blocks'[block].size = fs[block].size - s /\ blocks'[block].type = "free"
        /\ \A c \in BlockIds : c # n => at'[c] = at[c]
        /\ \A c \in BlockIds : c # n /\ c # block => blocks'[c] = fs[c]
    <3>0. /\ fs \in [BlockIds -> Block] /\ at \in [BlockIds -> Addrs]
          /\ nbanks \in 0 .. Len(Banks) /\ HeapOK(fs, at, nbanks)
          /\ block \in Live(fs) /\ block[2] = 0
          /\ n \in BlockIds /\ n[1] = block[1] /\ fs[n].type = "absent"
          /\ s \in Nat /\ 0 < s /\ s <= fs[block].size
      BY <2>3, <1>1, <1>2, <1>3, <1>5, <1>6
    <3>1. HeapOK(Carved(fs, block, n, s),
                 [at EXCEPT ![n] = at[block] + (fs[block].size - s)], nbanks)
      BY <3>0, CarvedOK
    <3>2. HeapOK(blocks', at', nbanks)
      BY <3>1, <2>2
    <3>3. n # block /\ block \in BlockIds
      BY <3>0, <1>3, <1>5
    <3>4. blocks' = [fs EXCEPT ![n] = [next |-> fs[block].next, size |-> s, type |-> "used"],
                               ![block].next = n, ![block].size = fs[block].size - s]
      BY <2>1, <2>2 DEF Carved
    <3>5. s \in Addrs /\ fs[block].size - s \in Addrs
      <4>1. fs[block].size \in Addrs
        BY <3>0, <3>3 DEF Block
      <4> QED
        BY <4>1, <3>0, <1>1 DEF Addrs
    <3>6. fs[block] \in Block
      BY <3>0, <3>3
    <3>7. /\ blocks' \in [BlockIds -> Block]
          /\ blocks'[n].type = "used" /\ blocks'[n].size = s
          /\ blocks'[block].size = fs[block].size - s
          /\ blocks'[block].type = fs[block].type
          /\ \A c \in BlockIds : c # n /\ c # block => blocks'[c] = fs[c]
      BY <3>0, <3>3, <3>4, <3>5, <3>6 DEF Block
    <3>8. /\ at' \in [BlockIds -> Addrs] /\ at'[n] = a
          /\ \A c \in BlockIds : c # n => at'[c] = at[c]
      BY <2>1, <2>2, <3>0
    <3> QED
      BY <3>2, <3>3, <3>7, <3>8, <1>5
  <2> HIDE DEF a
  <2>5. TypeOK'
    <3>1. regions' \in [Slots -> Region]
      BY <2>1, <2>2, <1>1 DEF Region
    <3> QED
      BY <3>1, <2>1, <2>2, <2>4, <1>1, <1>8 DEF Inv, TypeOK
  <2>6. RegionsOK'
    <3> SUFFICES ASSUME NEW q \in Slots
                 PROVE  IF q <= nbanks
                        THEN /\ regions'[q].addr = Banks[q].addr
                             /\ regions'[q].size = Banks[q].size
                             /\ regions'[q].head = <<q, 0>>
                             /\ regions'[q].max_blocks = TableLen(Banks[q].size)
                             /\ regions'[q].free_size <= blocks'[<<q, 0>>].size
                        ELSE regions'[q].addr = NULL /\ regions'[q].head = NIL
      BY <1>8 DEF RegionsOK
    <3>1. /\ regions'[q].addr = regions[q].addr /\ regions'[q].size = regions[q].size
          /\ regions'[q].head = regions[q].head
          /\ regions'[q].max_blocks = regions[q].max_blocks
          /\ q # i => regions'[q].free_size = regions[q].free_size
          /\ q = i => regions'[q].free_size = regions[i].free_size - s
      BY <2>2, <1>1, <1>3 DEF Region
    <3>2. ASSUME q <= nbanks PROVE regions'[q].free_size <= blocks'[<<q, 0>>].size
      <4>1. q \in 1 .. nbanks
        BY <3>2, <1>1 DEF Slots
      <4>2. CASE q = i
        BY <4>2, <3>1, <2>1, <2>4, <1>2
      <4>3. CASE q # i
        <5>1. blocks'[<<q, 0>>] = fs[<<q, 0>>]
          BY <4>1, <4>3, <2>3, <2>4, <1>2, <1>7
        <5> QED
          BY <5>1, <4>1, <4>3, <3>1, <1>7
      <4> QED
        BY <4>2, <4>3
    <3> QED
      BY <3>1, <3>2 DEF Inv, RegionsOK
  <2>7. [ptr |-> a, size |-> s] \notin held
    <3>1. ASSUME NEW b \in Used PROVE GrantOf(b) # [ptr |-> a, size |-> s]
      <4>1. /\ b \in BlockIds /\ b # n /\ b # block
            /\ blocks'[b].type = "used" /\ at'[b] = at[b]
        BY <2>3, <2>4, <1>4, <1>5, <1>7a
      <4>2. at'[b] # at'[n]
        BY <4>1, <2>3, <2>4, <1>1, UsedFacts
      <4> QED
        BY <4>1, <4>2, <2>4 DEF GrantOf
    <3>2. held = {GrantOf(b) : b \in Used}
      BY <1>1 DEF Inv, UsedIsGranted, Granted
    <3> QED
      BY <3>1, <3>2
  <2>8. AllocOK' /\ FreeOK'
    BY <2>2, <2>7, <1>1, <1>8 DEF Inv, AllocOK, FreeOK
  <2>9. UsedIsGranted'
    <3>1. Used' = Used \cup {n}
      <4>1. \A b \in BlockIds : b # n /\ b # block => blocks'[b] = fs[b]
        BY <2>4
      <4> QED
        BY <4>1, <2>3, <2>4, <1>3, <1>5, <1>7a DEF Used
    <3>2. /\ GrantOf(n)' = [ptr |-> a, size |-> s]
          /\ \A b \in Used : GrantOf(b)' = GrantOf(b)
      <4>1. \A b \in Used : b \in BlockIds /\ b # n /\ b # block /\ fs[b] = blocks[b]
        BY <2>3, <1>5, <1>7a
      <4> QED
        BY <4>1, <2>4 DEF GrantOf
    <3>3. Granted' = held \cup {[ptr |-> a, size |-> s]} /\ Granted = held
      BY <2>1, <2>2, <1>1, <1>8 DEF Granted
    <3>4. Granted' = {GrantOf(b)' : b \in Used'}
      BY <3>1, <3>2, <3>3 DEF Inv, UsedIsGranted
    <3>5. \A b, c \in Used' : GrantOf(b)' = GrantOf(c)' => b = c
      BY <2>4, <1>1, UsedFacts DEF Used, GrantOf
    <3> QED
      BY <3>4, <3>5 DEF UsedIsGranted
  <2> QED
    BY <2>4, <2>5, <2>6, <2>8, <2>9, <1>8 DEF Inv
<1> QED
  BY <1>9, <1>10

(* mem_free matches the used block at the address it was given and no      *)
(* other, and passes everything before it.                                 *)
LEMMA FreeBlockInv ==
    ASSUME Inv, FreeBlock
    PROVE  Inv'
<1> DEFINE fs == Fixed(blocks, block)
<1>1. /\ Len(Banks) \in Nat /\ MaxRegions \in Nat /\ Word \in Nat /\ Word > 0
      /\ Len(Banks) <= MaxRegions
      /\ nbanks \in 0 .. Len(Banks)
      /\ blocks \in [BlockIds -> Block] /\ at \in [BlockIds -> Addrs]
      /\ regions \in [Slots -> Region] /\ arg \in Grant
      /\ HeapOK(blocks, at, nbanks) /\ pc = "free_walk"
      /\ i \in 1 .. MaxRegions /\ bptr \in Addrs
      /\ prev \in BlockIds \cup {NIL} /\ block \in BlockIds \cup {NIL}
  BY BanksAssumption DEF FreeBlock, Inv, TypeOK, FreeOK
<1>2. PICK t \in Used : GrantOf(t) = arg /\ t[1] >= i /\ (t[1] = i => at[t] >= bptr)
  BY <1>1 DEF Inv, FreeOK
<1>3. /\ t \in BlockIds /\ blocks[t].type = "used" /\ t \in Live(blocks)
      /\ t[1] \in 1 .. nbanks /\ t[1] \in 1 .. Len(Banks)
      /\ blocks[t].size \in Nat /\ blocks[t].size > 0 /\ at[t] \in Nat
      /\ Banks[t[1]].addr <= at[t] /\ at[t] + blocks[t].size <= Top(t[1])
      /\ arg.ptr = at[t]
  BY <1>1, <1>2, UsedFacts DEF Used, GrantOf
<1>4. arg \notin held /\ nbanks' = nbanks /\ regions' = regions /\ held' = held /\ at' = at
  BY <1>1 DEF Inv, FreeOK, FreeBlock
<1>5. CASE block = NIL
  <2>1. /\ pc' = "free" /\ i' = i + 1 /\ blocks' = blocks /\ block' = block
        /\ prev' = prev /\ bptr' = bptr /\ arg' = arg
    BY <1>5 DEF FreeBlock
  <2>2. t[1] # i
    <3>1. SUFFICES ASSUME t[1] = i PROVE FALSE
      OBVIOUS
    <3>2. bptr = Top(i)
      BY <3>1, <1>1, <1>3, <1>5 DEF Inv, FreeOK
    <3>3. Top(i) \in Nat
      BY <3>1, <1>3, BankFacts
    <3> QED
      BY <3>1, <3>2, <3>3, <1>2, <1>3
  <2>3. t[1] >= i + 1
    BY <2>2, <1>1, <1>2, <1>3
  <2>4. TypeOK'
    BY <2>1, <1>1, <1>4 DEF Inv, TypeOK
  <2>5. RegionsOK' /\ HeapOK(blocks', at', nbanks')
    BY <2>1, <1>1, <1>4 DEF Inv, RegionsOK
  <2>6. AllocOK' /\ FreeOK'
    BY <2>1, <2>3, <1>2, <1>4 DEF AllocOK, FreeOK, Used, GrantOf
  <2>7. UsedIsGranted'
    BY <2>1, <1>1, <1>4 DEF Inv, UsedIsGranted, Used, GrantOf, Granted
  <2> QED
    BY <2>4, <2>5, <2>6, <2>7 DEF Inv
<1>6. CASE block # NIL
  <2>1. /\ block \in Live(blocks) /\ block[1] = i /\ bptr = at[block]
        /\ block \in BlockIds
        /\ prev # NIL => prev \in Live(blocks) /\ blocks[prev].next = block
    BY <1>1, <1>6 DEF Inv, FreeOK
  <2>2. /\ fs \in [BlockIds -> Block]
        /\ HeapOK(fs, at, nbanks)
        /\ block \in Live(fs)
        /\ \A c \in BlockIds : fs[c].type = "used" <=> blocks[c].type = "used"
        /\ \A c \in BlockIds : fs[c].type = "used" => fs[c] = blocks[c]
        /\ \A c \in Live(blocks) : blocks[c].next = block => c \in Live(fs) /\ fs[c] = blocks[c]
        /\ \A c \in Live(blocks) : c[2] = 0 => c \in Live(fs) /\ fs[c].size >= blocks[c].size
    BY <2>1, <1>1, FixedOK
  <2> HIDE DEF fs
  <2>3. \A q \in 1 .. nbanks :
          /\ <<q, 0>> \in BlockIds /\ <<q, 0>> \in Live(fs)
          /\ regions[q].free_size \in Nat /\ fs[<<q, 0>>].size \in Nat
          /\ regions[q].free_size <= fs[<<q, 0>>].size
    <3> TAKE q \in 1 .. nbanks
    <3>1. q \in 1 .. Len(Banks) /\ q \in Slots /\ <<q, 0>> \in BlockIds
      BY <1>1, BankFacts
    <3>2. <<q, 0>> \in Live(blocks)
      BY <3>1, <1>1 DEF HeapOK, Heads, Live
    <3>3. <<q, 0>> \in Live(fs) /\ fs[<<q, 0>>].size >= blocks[<<q, 0>>].size
      BY <3>2, <2>2
    <3>4. regions[q].free_size <= blocks[<<q, 0>>].size
      BY <3>1, <1>1 DEF Inv, RegionsOK
    <3>5. regions[q].free_size \in Nat /\ fs[<<q, 0>>].size \in Nat
          /\ blocks[<<q, 0>>].size \in Nat
      BY SMTT(90), <3>1, <1>1, <2>2 DEF Region, Block, Addrs
    <3> QED
      BY SMTT(90), <3>1, <3>3, <3>4, <3>5
  <2>4. ASSUME NEW q \in Slots, q <= nbanks PROVE q \in 1 .. nbanks
    BY <2>4, <1>1 DEF Slots
  <2>5. /\ \A b \in Used : b \in BlockIds /\ fs[b].type = "used" /\ fs[b] = blocks[b]
        /\ \A b \in BlockIds : fs[b].type = "used" => b \in Used
    BY <2>2 DEF Used
  <2>6. /\ fs[t].type = "used" /\ fs[t] = blocks[t]
        /\ fs[block].size \in Nat /\ at[block] \in Nat
        /\ at[block] + fs[block].size <= Top(i)
        /\ Top(i) \in Nat /\ Top(i) < Word
        /\ Add(bptr, fs[block].size) = at[block] + fs[block].size
        /\ Add(bptr, fs[block].size) \in Addrs
    <3>1. /\ fs[block].size \in Nat /\ at[block] \in Nat
          /\ at[block] + fs[block].size <= Top(i) /\ i \in 1 .. Len(Banks)
      BY <2>1, <2>2, <1>1, LiveFacts
    <3>2. Top(i) \in Nat /\ Top(i) < Word
      BY <3>1, BankFacts
    <3>3. at[block] + fs[block].size < Word /\ at[block] + fs[block].size \in Nat
      BY <3>1, <3>2, <1>1
    <3>4. Add(bptr, fs[block].size) = at[block] + fs[block].size
      BY <3>1, <3>3, <2>1 DEF Add
    <3>5. at[block] + fs[block].size \in Addrs
      BY <3>3, <1>1 DEF Addrs
    <3> QED
      BY <3>1, <3>2, <3>4, <3>5, <2>5
  <2>7. CASE Matches(fs[block], bptr, arg.ptr)
    <3>1. fs[block].type = "used" /\ at[block] >= at[t]
      BY <2>1, <2>7, <1>3 DEF Matches
    <3>2. block = t
      <4>1. CASE t[1] = i
        <5>1. at[t] = at[block]
          BY <4>1, <3>1, <2>1, <2>6, <1>2, <1>3
        <5> QED
          BY <5>1, <3>1, <2>1, <2>2, <2>6, <1>1, <1>3, UsedFacts
      <4>2. CASE t[1] # i
        <5>1. i \in 1 .. t[1] - 1
          BY <4>2, <1>1, <1>2, <1>3
        <5>2. Top(i) <= Banks[t[1]].addr /\ Banks[t[1]].addr \in Nat
          BY <5>1, <1>3, BankFacts
        <5>3. fs[block].size > 0
          BY <3>1, <2>1, <2>2, <1>1, UsedFacts
        <5>4. at[block] < Top(i)
          BY <5>3, <2>6
        <5>5. at[block] < at[t]
          BY <5>2, <5>4, <2>6, <1>3
        <5> QED
          BY <5>5, <3>1, <2>6, <1>3
      <4> QED
        BY <4>1, <4>2
    <3>3. /\ pc' = "idle" /\ i' = 1 /\ block' = NIL /\ prev' = NIL /\ bptr' = NULL
          /\ arg' = [ptr |-> NULL, size |-> 0]
          /\ blocks' = Released(fs, block, prev)
      BY <2>7, <1>6 DEF FreeBlock, Return, fs
    <3>4. block[2] # 0
      BY <3>1, <2>1, <2>2, <1>1, UsedFacts
    <3>5. /\ blocks' \in [BlockIds -> Block] /\ HeapOK(blocks', at, nbanks)
          /\ blocks'[block].type # "used"
          /\ \A c \in BlockIds : c # block =>
                /\ blocks'[c].type = "used" <=> fs[c].type = "used"
                /\ fs[c].type = "used" => blocks'[c] = fs[c]
                /\ c[2] = 0 => blocks'[c].size >= fs[c].size
      <4>1. \A c \in BlockIds : fs[c].size \in Nat
        BY <2>2, <1>1 DEF Block, Addrs
      <4>2. CASE prev # NIL /\ fs[prev].type = "free"
        <5>1. prev \in Live(fs) /\ fs[prev].next = block
          BY <4>2, <2>1, <2>2
        <5>2. blocks' = Merged(fs, prev, block)
          BY <4>2, <3>3 DEF Released
        <5>3. /\ blocks' \in [BlockIds -> Block]
              /\ blocks'[prev].type = "free"
              /\ blocks'[prev].size = fs[prev].size + fs[block].size
              /\ blocks'[block].type = "absent"
              /\ \A c \in BlockIds : c # prev /\ c # block => blocks'[c] = fs[c]
              /\ HeapOK(blocks', at, nbanks)
          <6> DEFINE ms == Merged(fs, prev, block)
          <6>1. /\ ms \in [BlockIds -> Block]
                /\ ms[prev].type = "free"
                /\ ms[prev].size = fs[prev].size + fs[block].size
                /\ ms[block].type = "absent"
                /\ \A c \in BlockIds : c # prev /\ c # block => ms[c] = fs[c]
                /\ HeapOK(ms, at, nbanks)
            <7>1. /\ fs \in [BlockIds -> Block] /\ at \in [BlockIds -> Addrs]
                  /\ nbanks \in 0 .. Len(Banks) /\ HeapOK(fs, at, nbanks)
                  /\ prev \in Live(fs) /\ fs[prev].next = block
                  /\ block # NIL /\ fs[prev].type = "free"
              BY <5>1, <4>2, <2>2, <1>1, <1>6
            <7> QED
              BY <7>1, MergedOK
          <6> HIDE DEF ms
          <6>2. blocks' = ms
            BY <5>2 DEF ms
          <6> QED
            BY <6>1, <6>2
        <5>4. prev \in BlockIds
          BY <5>1 DEF Live
        <5>5. blocks'[prev].size >= fs[prev].size
          BY <5>3, <5>4, <4>1, <2>1
        <5> QED
          BY <5>3, <5>4, <5>5, <4>1, <4>2
      <4>3. CASE ~ (prev # NIL /\ fs[prev].type = "free")
        <5>1. blocks' = [fs EXCEPT ![block].type = "free"]
          BY <4>3, <3>3 DEF Released
        <5>2. /\ blocks' \in [BlockIds -> Block] /\ HeapOK(blocks', at, nbanks)
              /\ blocks'[block].type = "free"
              /\ \A c \in BlockIds : c # block => blocks'[c] = fs[c]
          <6> DEFINE ms == [fs EXCEPT ![block].type = "free"]
          <6>1. HeapOK(ms, at, nbanks)
            BY <2>2, <1>1, MarkedOK
          <6>2. fs[block] \in Block
            BY <2>1, <2>2
          <6>3. /\ ms \in [BlockIds -> Block] /\ ms[block].type = "free"
                /\ \A c \in BlockIds : c # block => ms[c] = fs[c]
            BY <6>2, <2>1, <2>2 DEF Block
          <6> HIDE DEF ms
          <6>4. blocks' = ms
            BY <5>1 DEF ms
          <6> QED
            BY <6>1, <6>3, <6>4
        <5> QED
          BY <5>2, <4>1
      <4> QED
        BY <4>2, <4>3
    <3>6. TypeOK'
      <4>1. NULL \in Addrs /\ 1 \in 1 .. MaxRegions + 1 /\ [ptr |-> NULL, size |-> 0] \in Grant
        BY <1>1 DEF Addrs, Grant
      <4> QED
        BY <4>1, <3>3, <3>5, <1>4 DEF Inv, TypeOK
    <3>7. RegionsOK'
      <4>1. ASSUME NEW q \in 1 .. nbanks
            PROVE  regions[q].free_size <= blocks'[<<q, 0>>].size
        <5>1. <<q, 0>> # block
          BY <3>4
        <5>2. blocks'[<<q, 0>>].size >= fs[<<q, 0>>].size
          BY <5>1, <3>5, <2>3
        <5>3. blocks'[<<q, 0>>].size \in Nat
          BY <3>5, <2>3, <1>1 DEF Block, Addrs
        <5> QED
          BY <5>2, <5>3, <2>3
      <4> QED
        BY <4>1, <2>4, <1>4 DEF Inv, RegionsOK
    <3>8. AllocOK' /\ FreeOK'
      BY <3>3 DEF AllocOK, FreeOK
    <3>9. UsedIsGranted'
      <4>1. Used' = Used \ {t}
        BY <3>2, <3>5, <2>5 DEF Used
      <4>2. \A b \in Used' : GrantOf(b)' = GrantOf(b) /\ b \in Used /\ b # t
        BY <4>1, <3>2, <3>5, <2>5, <1>4 DEF GrantOf
      <4>3. Granted' = held /\ Granted = held \cup {arg}
        BY <3>3, <1>1, <1>4 DEF Granted
      <4>4. \A b \in Used : b # t => GrantOf(b) # arg
        BY <1>2 DEF Inv, UsedIsGranted
      <4>5. Granted' = {GrantOf(b)' : b \in Used'}
        <5>1. Granted' = {GrantOf(b) : b \in Used} \ {arg}
          BY <4>3, <1>4 DEF Inv, UsedIsGranted
        <5>2. {GrantOf(b) : b \in Used} \ {arg} = {GrantOf(b) : b \in Used'}
          BY <4>1, <4>4, <1>2
        <5> QED
          BY <5>1, <5>2, <4>2
      <4>6. \A b, c \in Used' : GrantOf(b)' = GrantOf(c)' => b = c
        BY <4>2 DEF Inv, UsedIsGranted
      <4> QED
        BY <4>5, <4>6 DEF UsedIsGranted
    <3> QED
      BY <3>5, <3>6, <3>7, <3>8, <3>9, <1>4 DEF Inv
  <2>8. CASE ~ Matches(fs[block], bptr, arg.ptr)
    <3>1. /\ blocks' = fs /\ bptr' = at[block] + fs[block].size
          /\ prev' = block /\ block' = fs[block].next
          /\ pc' = pc /\ i' = i /\ arg' = arg
      BY <2>6, <2>8, <1>6 DEF FreeBlock, fs
    <3>2. t[1] = i => at[t] >= bptr'
      <4>1. SUFFICES ASSUME t[1] = i PROVE at[t] >= bptr'
        OBVIOUS
      <4>2. t # block
        <5>1. SUFFICES ASSUME t = block PROVE FALSE
          OBVIOUS
        <5>2. at[block] >= arg.ptr /\ arg.ptr <= at[block] + fs[block].size
          BY <5>1, <2>6, <1>3
        <5> QED
          BY <5>1, <5>2, <2>1, <2>6, <2>8 DEF Matches
      <4>3. t \in Live(fs)
        BY <2>6, <1>3 DEF Live
      <4>4. \/ fs[block].size = 0
            \/ at[t] + fs[t].size <= at[block] \/ at[block] + fs[block].size <= at[t]
        <5>1. fs[t].size > 0 /\ fs[block].size \in Nat
          BY <2>6, <1>3
        <5>2. fs[t].size > 0 /\ fs[block].size > 0 =>
                \/ at[t] + fs[t].size <= at[block]
                \/ at[block] + fs[block].size <= at[t]
          BY <4>2, <4>3, <2>2, <1>1, ApartFacts
        <5> QED
          BY <5>1, <5>2
      <4>5. at[t] >= at[block]
        BY <4>1, <2>1, <1>2
      <4> QED
        BY <4>4, <4>5, <3>1, <2>6, <1>3
    <3>3. /\ fs[block].next \in BlockIds \cup {NIL}
          /\ fs[block].next # NIL =>
                /\ fs[block].next \in Live(fs)
                /\ fs[block].next[1] = i
                /\ at[fs[block].next] = at[block] + fs[block].size
          /\ fs[block].next = NIL => at[block] + fs[block].size = Top(i)
      <4>1. fs[block] \in Block
        BY <2>1, <2>2
      <4> QED
        BY <4>1, <2>1, <2>2, <1>1, LiveFacts DEF Block
    <3>4. TypeOK'
      BY <3>1, <3>3, <2>1, <2>2, <2>6, <1>1, <1>4 DEF Inv, TypeOK
    <3>5. RegionsOK'
      BY <3>1, <2>3, <2>4, <1>4 DEF Inv, RegionsOK
    <3>6. AllocOK'
      BY <3>1, <1>1 DEF AllocOK
    <3>7. FreeOK'
      <4>1. t \in Used' /\ GrantOf(t)' = arg'
        BY <3>1, <2>6, <1>2, <1>3, <1>4 DEF Used, GrantOf
      <4>2. /\ block' = NIL => bptr' = Top(i')
            /\ block' # NIL => block' \in Live(blocks') /\ block'[1] = i' /\ bptr' = at'[block']
            /\ prev' \in Live(blocks') /\ blocks'[prev'].next = block'
        BY <3>1, <3>3, <2>2, <1>4
      <4>3. i' <= MaxRegions
        BY <3>1, <1>1
      <4> QED
        BY <4>1, <4>2, <4>3, <3>1, <3>2, <1>2, <1>4 DEF FreeOK, Live
    <3>8. UsedIsGranted'
      <4>1. Used' = Used /\ \A b \in Used : GrantOf(b)' = GrantOf(b)
        BY <3>1, <2>5, <1>4 DEF Used, GrantOf
      <4>2. Granted' = Granted
        BY <3>1, <1>1, <1>4 DEF Granted
      <4> QED
        BY <4>1, <4>2 DEF Inv, UsedIsGranted
    <3> QED
      BY <3>1, <3>4, <3>5, <3>6, <3>7, <3>8, <2>2, <1>4 DEF Inv
  <2> QED
    BY <2>7, <2>8
<1> QED
  BY <1>5, <1>6

-----------------------------------------------------------------------------
(* The theorems.                                                           *)

(* No step leads out of the invariant.                                     *)
LEMMA StepInv ==
    ASSUME Inv, [Next]_vars
    PROVE  Inv'
<1>1. ASSUME NewRegion PROVE Inv'
  BY <1>1, NewRegionInv
<1>2. ASSUME NEW s \in Sizes, Malloc(s) PROVE Inv'
  BY <1>2, MallocInv
<1>3. ASSUME NEW g \in held, Free(g) PROVE Inv'
  BY <1>3, FreeInv
<1>4. ASSUME CallStep PROVE Inv'
  BY <1>4, AllocRegionInv, AllocBlockInv, MallocReturnInv, FreeRegionInv, FreeBlockInv
     DEF CallStep
<1>5. ASSUME UNCHANGED vars PROVE Inv'
  BY <1>5 DEF vars, Inv, TypeOK, RegionsOK, HeapOK, Confined, Chained, Apart, Heads, Reached,
              Acyclic, Live,
              EndOf, AllocOK, FreeOK, UsedIsGranted, Granted, Used, GrantOf
<1> QED
  BY <1>1, <1>2, <1>3, <1>4, <1>5 DEF Next

(* Between any two steps the lists tile the banks, the call in progress is *)
(* where it believes to be, and the used blocks are the granted memory.    *)
THEOREM Invariance == Spec => []Inv
<1>1. Init => Inv
  BY InitInv
<1>2. Inv /\ [Next]_vars => Inv'
  BY StepInv
<1> QED
  BY <1>1, <1>2, PTL DEF Spec

(* Every variable keeps its type: no size, address or counter wraps.       *)
THEOREM TypeCorrect == Spec => []TypeOK
<1>1. Inv => TypeOK
  BY DEF Inv
<1> QED
  BY <1>1, Invariance, PTL

(* mem_free releases the block of the pointer it is given and no other.    *)
THEOREM FreesItsOwn == Spec => []UsedIsGranted
<1>1. Inv => UsedIsGranted
  BY DEF Inv
<1> QED
  BY <1>1, Invariance, PTL

(* mem_alloc always hits a free head block with the room it subtracts.     *)
THEOREM HeadAlwaysCovers == Spec => []HeadCovers
<1>1. Inv => HeadCovers
  <2> SUFFICES ASSUME Inv, NEW r \in Slots, regions[r].addr # NULL
               PROVE  LET h == regions[r].head IN
                      /\ blocks[h].type = "free"
                      /\ at[h] = regions[r].addr
                      /\ regions[r].free_size <= blocks[h].size
    BY DEF HeadCovers
  <2>1. r <= nbanks
    BY DEF Inv, RegionsOK
  <2>2. r \in 1 .. nbanks
    BY <2>1, BanksAssumption DEF Inv, TypeOK, Slots
  <2>3. /\ regions[r].addr = Banks[r].addr /\ regions[r].head = <<r, 0>>
        /\ regions[r].free_size <= blocks[<<r, 0>>].size
    BY <2>1 DEF Inv, RegionsOK
  <2> QED
    BY <2>2, <2>3 DEF Inv, HeapOK, Heads
<1> QED
  BY <1>1, Invariance, PTL

(* No descriptor is lost, and none is on a list twice: whatever is merged, *)
(* carved or given back, every block but the first of a bank has exactly   *)
(* one block before it.                                                    *)
THEOREM StaysLinked == Spec => []Linked
<1>1. Inv => Linked
  <2> SUFFICES ASSUME Inv, NEW b \in BlockIds, blocks[b].type # "absent"
               PROVE  Cardinality({c \in BlockIds :
                                     blocks[c].type # "absent" /\ blocks[c].next = b})
                        = IF b = regions[b[1]].head THEN 0 ELSE 1
    BY DEF Linked
  <2> DEFINE preds == {c \in BlockIds : blocks[c].type # "absent" /\ blocks[c].next = b}
  <2>1. /\ blocks \in [BlockIds -> Block] /\ at \in [BlockIds -> Addrs]
        /\ nbanks \in 0 .. Len(Banks) /\ HeapOK(blocks, at, nbanks)
    BY DEF Inv, TypeOK
  <2>2. b \in Live(blocks) /\ preds = {c \in Live(blocks) : blocks[c].next = b}
    BY DEF Live
  <2>3. b = regions[b[1]].head <=> b[2] = 0
    <3>1. b[1] \in 1 .. nbanks /\ b[1] \in 1 .. Len(Banks) /\ b = <<b[1], b[2]>>
      BY <2>1, <2>2, LiveFacts
    <3>2. b[1] \in Slots /\ b[1] <= nbanks
      <4>1. Len(Banks) \in Nat
        BY BanksAssumption
      <4>2. b[1] <= nbanks
        BY <4>1, <2>1, <3>1
      <4>3. b[1] \in Slots
        BY <3>1, BankFacts
      <4> QED
        BY <4>2, <4>3
    <3>3. regions[b[1]].head = <<b[1], 0>>
      BY <3>1, <3>2 DEF Inv, RegionsOK
    <3>4. ASSUME b[2] = 0 PROVE b = regions[b[1]].head
      BY <3>1, <3>3, <3>4
    <3>5. ASSUME b = regions[b[1]].head PROVE b[2] = 0
      <4>1. <<b[1], 0>>[2] = 0
        OBVIOUS
      <4> QED
        BY <4>1, <3>3, <3>5
    <3> QED
      BY <3>4, <3>5
  <2>4. CASE b[2] = 0
    <3>1. \A c \in Live(blocks) : blocks[c].next # b
      <4>1. b # NIL
        BY BlockIdFacts
      <4>2. \A c \in Live(blocks) : blocks[c].next # NIL => blocks[c].next[2] # 0
        BY <2>1, LiveFacts
      <4> QED
        BY <4>1, <4>2, <2>4
    <3>2. preds = {}
      BY <2>2, <3>1
    <3> QED
      BY <2>3, <2>4, <3>2, FS_EmptySet
  <2>5. CASE b[2] # 0
    <3>1. PICK c \in Live(blocks) : blocks[c].next = b
      BY <2>1, <2>2, <2>5 DEF HeapOK, Reached
    <3>2. b # NIL
      BY BlockIdFacts
    <3>3. \A d \in Live(blocks) : blocks[d].next = b => d = c
      BY <2>1, <3>1, <3>2, ApartFacts
    <3>4. preds = {c}
      BY <2>2, <3>1, <3>3
    <3> QED
      BY <2>3, <2>5, <3>4, FS_Singleton
  <2> QED
    BY <2>4, <2>5
<1> QED
  BY <1>1, Invariance, PTL

(* A step of the heap is a step of the contract of malloc and free.        *)
LEMMA StepKeepsPromise ==
    ASSUME Inv, [Next]_vars
    PROVE  [Promise!Next]_Promise!vars
<1> DEFINE ram == {Banks[k] : k \in 1 .. nbanks}
<1> USE DEF Promise!vars
<1>1. ASSUME NewRegion PROVE Promise!Hotplug
  <2>1. /\ nbanks \in 0 .. Len(Banks) /\ Len(Banks) \in Nat /\ nbanks < Len(Banks)
        /\ nbanks' = nbanks + 1 /\ pc = "idle" /\ pc' = "idle" /\ held' = held
    BY <1>1, BanksAssumption DEF NewRegion, call, Inv, TypeOK
  <2>2. ram' = ram \cup {Banks[nbanks + 1]}
    BY <2>1
  <2>3. Banks[nbanks + 1] \in {Banks[k] : k \in 1 .. Len(Banks)}
    BY <2>1
  <2> QED
    BY <2>1, <2>2, <2>3 DEF Promise!Hotplug
<1>2. ASSUME NEW s \in Sizes, Malloc(s) PROVE UNCHANGED Promise!vars
  BY <1>2 DEF Malloc, Start, Ready, memory
<1>3. ASSUME NEW g \in held, Free(g) PROVE Promise!Free
  BY <1>3 DEF Free, Start, Ready, memory, Promise!Free
<1>4. ASSUME AllocRegion \/ AllocBlock \/ FreeRegion \/ FreeBlock
      PROVE  UNCHANGED Promise!vars
  <2>1. pc # "halted" /\ pc' # "halted" /\ nbanks' = nbanks /\ held' = held
    BY <1>4 DEF AllocRegion, Passed, AllocBlock, FreeRegion, FreeBlock, Return, memory
  <2> QED
    BY <2>1
<1>5. ASSUME MallocReturn, bptr = NULL PROVE Promise!Fail
  BY <1>5 DEF MallocReturn, Return, memory, Promise!Fail
<1>6. ASSUME MallocReturn, bptr # NULL PROVE Promise!Alloc
  <2> DEFINE g == [ptr |-> bptr, size |-> arg.size]
  <2>1. /\ pc = "alloc_return" /\ pc' = "idle" /\ nbanks' = nbanks /\ held' = held \cup {g}
    BY <1>6 DEF MallocReturn, Return, memory
  <2>2. /\ arg.size \in Sizes /\ g \notin held /\ bptr \in 1 .. Word - 1
    BY <2>1, <1>6, BanksAssumption DEF Inv, TypeOK, AllocOK, Addrs
  <2>3. Granted = held \cup {g}
    BY <2>1, <1>6 DEF Granted
  <2>4. PICK b \in Used : GrantOf(b) = g
    BY <2>3 DEF Inv, UsedIsGranted
  <2>5. /\ blocks \in [BlockIds -> Block] /\ at \in [BlockIds -> Addrs]
        /\ nbanks \in 0 .. Len(Banks) /\ HeapOK(blocks, at, nbanks)
    BY DEF Inv, TypeOK
  <2>6. \A c \in Used : c \in BlockIds /\ blocks[c].type = "used"
    BY DEF Used
  <2>7. \E bank \in ram : Promise!Inside(g, bank)
    <3>1. /\ b[1] \in 1 .. nbanks /\ b[1] \in 1 .. Len(Banks)
          /\ Banks[b[1]].addr <= at[b] /\ at[b] + blocks[b].size <= Top(b[1])
          /\ at[b] \in Nat /\ blocks[b].size \in Nat
      BY <2>5, <2>6, UsedFacts
    <3>2. /\ Top(b[1]) <= Banks[b[1]].addr + Banks[b[1]].size
          /\ Top(b[1]) \in Nat /\ Banks[b[1]].addr \in Nat /\ Banks[b[1]].size \in Nat
      BY <3>1, BankFacts
    <3>3. g.ptr = at[b] /\ g.size = blocks[b].size
      BY <2>4 DEF GrantOf
    <3>4. Promise!Inside(g, Banks[b[1]])
      BY SMTT(90), <3>1, <3>2, <3>3 DEF Promise!Inside
    <3> QED
      BY <3>1, <3>4
  <2>8. ASSUME NEW h \in held PROVE Promise!Disjoint(g, h)
    <3>1. PICK c \in Used : GrantOf(c) = h
      BY <2>3 DEF Inv, UsedIsGranted
    <3>2. b # c
      BY <3>1, <2>2, <2>4
    <3>3. at[b] + blocks[b].size <= at[c] \/ at[c] + blocks[c].size <= at[b]
      BY <3>2, <2>5, <2>6, UsedFacts
    <3>4. /\ g.ptr = at[b] /\ g.size = blocks[b].size
          /\ h.ptr = at[c] /\ h.size = blocks[c].size
      BY <3>1, <2>4 DEF GrantOf
    <3> QED
      BY <3>3, <3>4 DEF Promise!Disjoint
  <2> QED
    BY <2>1, <2>2, <2>7, <2>8 DEF Promise!Alloc
<1>7. ASSUME UNCHANGED vars PROVE UNCHANGED Promise!vars
  BY <1>7 DEF vars
<1> QED
  BY <1>1, <1>2, <1>3, <1>4, <1>5, <1>6, <1>7 DEF Next, CallStep, Promise!Next

(* The heap implements the contract: every block handed out lies inside a  *)
(* registered bank and overlaps nothing that is held.                      *)
THEOREM Implements == Spec => KeepsPromise
<1>1. Init => Promise!Init
  <2>1. 1 .. 0 = {}
    OBVIOUS
  <2> QED
    BY <2>1 DEF Init, Promise!Init
<1>2. Inv /\ [Next]_vars => [Promise!Next]_Promise!vars
  BY StepKeepsPromise
<1> QED
  BY <1>1, <1>2, Invariance, PTL DEF Spec, KeepsPromise, Promise!Spec

-----------------------------------------------------------------------------
(* No byte of the heap is lost or counted twice.  From a block on, a list  *)
(* covers the bank up to its end; whatever of that is not granted is free. *)
(* What mem_total_free adds up, along a list and then from region to       *)
(* region, is what remains.                                                *)
LEMMA BytesFacts ==
    ASSUME NEW a \in Nat, NEW e \in Nat, a <= e
    PROVE  IsFiniteSet(Bytes(a, e)) /\ Cardinality(Bytes(a, e)) = e - a
<1>1. e - 1 \in Int /\ (a > e - 1 => e - a = 0) /\ (e - 1) - a + 1 = e - a
  OBVIOUS
<1>2. IsFiniteSet(a .. e - 1)
  BY <1>1, FS_Interval
<1>3. Cardinality(a .. e - 1) = IF a > e - 1 THEN 0 ELSE (e - 1) - a + 1
  BY <1>1, FS_Interval
<1> QED
  BY <1>1, <1>2, <1>3 DEF Bytes

(* The granted bytes from address a up to address e: they are counted      *)
(* piece by piece.                                                         *)
Count(a, e) == Cardinality(GrantedBytes \cap Bytes(a, e))

LEMMA CountSplits ==
    ASSUME NEW a \in Nat, NEW m \in Nat, NEW e \in Nat, a <= m, m <= e
    PROVE  /\ Count(a, m) \in Nat /\ Count(m, e) \in Nat
           /\ Count(a, e) = Count(a, m) + Count(m, e)
<1> DEFINE S == GrantedBytes \cap Bytes(a, m)
           T == GrantedBytes \cap Bytes(m, e)
<1>1. IsFiniteSet(S) /\ IsFiniteSet(T)
  BY BytesFacts, FS_Intersection
<1>2. S \cap T = {} /\ GrantedBytes \cap Bytes(a, e) = S \cup T
  BY DEF Bytes
<1>3. Cardinality(S) \in Nat /\ Cardinality(T) \in Nat
  BY <1>1, FS_CardinalityType
<1>4. Cardinality(S \cup T) = Cardinality(S) + Cardinality(T) - Cardinality(S \cap T)
  BY <1>1, FS_Union
<1>5. Cardinality(S \cap T) = 0
  BY <1>2, FS_EmptySet
<1>6. /\ Count(a, m) = Cardinality(S) /\ Count(m, e) = Cardinality(T)
      /\ Count(a, e) = Cardinality(S \cup T)
  BY <1>2 DEF Count
<1> HIDE DEF S, T
<1> QED
  BY <1>3, <1>4, <1>5, <1>6

-----------------------------------------------------------------------------
(* One list.                                                               *)

(* The bytes of a used block are granted, those of a free one are not.     *)
LEMMA OwnBytes ==
    ASSUME Inv, NEW b \in Live(blocks)
    PROVE  LET own == Bytes(at[b], at[b] + blocks[b].size)
           IN /\ blocks[b].type = "used" => own \subseteq GrantedBytes
              /\ blocks[b].type = "free" => GrantedBytes \cap own = {}
<1> DEFINE own == Bytes(at[b], at[b] + blocks[b].size)
<1>1. /\ blocks \in [BlockIds -> Block] /\ at \in [BlockIds -> Addrs]
      /\ nbanks \in 0 .. Len(Banks) /\ HeapOK(blocks, at, nbanks)
      /\ Granted = {GrantOf(c) : c \in Used}
  BY DEF Inv, TypeOK, UsedIsGranted
<1>2. ASSUME blocks[b].type = "used" PROVE own \subseteq GrantedBytes
  <2>1. GrantOf(b) \in Granted
    BY <1>1, <1>2 DEF Used, Live
  <2> QED
    BY <2>1 DEF GrantedBytes, GrantOf
<1>3. ASSUME blocks[b].type = "free", NEW x \in GrantedBytes \cap own PROVE FALSE
  <2>1. PICK c \in Used : x \in Bytes(at[c], at[c] + blocks[c].size)
    BY <1>1, <1>3 DEF GrantedBytes, GrantOf
  <2>2. c \in Live(blocks) /\ c # b
    BY <1>3 DEF Used, Live
  <2>3. /\ blocks[b].size \in Nat /\ at[b] \in Nat /\ blocks[c].size \in Nat /\ at[c] \in Nat
        /\ blocks[b].size > 0 /\ blocks[c].size > 0 =>
              at[b] + blocks[b].size <= at[c] \/ at[c] + blocks[c].size <= at[b]
    BY <1>1, <2>2, LiveFacts, ApartFacts
  <2>4. x \in Bytes(at[b], at[b] + blocks[b].size)
    BY <1>3
  <2> QED
    BY <2>1, <2>3, <2>4 DEF Bytes
<1> QED
  BY <1>2, <1>3

(* The bytes from a block to the end of its bank that are not granted.     *)
Rest(b) == Top(b[1]) - at[b] - Count(at[b], Top(b[1]))

Own(b) == IF blocks[b].type = "free" THEN blocks[b].size ELSE 0

LEMMA RestStep ==
    ASSUME Inv, NEW b \in Live(blocks)
    PROVE  /\ Rest(b) \in Int /\ Own(b) \in Int
           /\ blocks[b].next = NIL => Rest(b) = Own(b)
           /\ blocks[b].next # NIL => /\ blocks[b].next \in Live(blocks)
                                      /\ Rest(b) = Own(b) + Rest(blocks[b].next)
<1> DEFINE n == blocks[b].next
           a == at[b]
           s == blocks[b].size
           m == at[b] + blocks[b].size
           e == Top(b[1])
<1>1. /\ blocks \in [BlockIds -> Block] /\ at \in [BlockIds -> Addrs]
      /\ nbanks \in 0 .. Len(Banks) /\ HeapOK(blocks, at, nbanks)
  BY DEF Inv, TypeOK
<1>0. blocks[b].type = "used" \/ blocks[b].type = "free"
  <2>1. b \in BlockIds /\ blocks[b].type # "absent"
    BY DEF Live
  <2>2. blocks[b].type \in {"free", "used", "absent"}
    BY <1>1, <2>1 DEF Block
  <2> QED
    BY <2>1, <2>2
<1>2. /\ a \in Nat /\ s \in Nat /\ m <= e /\ b[1] \in 1 .. Len(Banks)
      /\ n # NIL => n \in Live(blocks) /\ n[1] = b[1] /\ at[n] = m
      /\ n = NIL => m = e
  BY <1>1, LiveFacts
<1>3. e \in Nat
  BY <1>2, BankFacts
<1>4. m \in Nat /\ a <= m
  BY <1>2
<1>5. Cardinality(Bytes(a, m)) = s
  BY <1>2, <1>4, BytesFacts
<1>6. Count(a, m) = s - Own(b) /\ Own(b) \in Int
  <2>1. CASE blocks[b].type = "used"
    <3>1. GrantedBytes \cap Bytes(a, m) = Bytes(a, m)
      BY <2>1, OwnBytes
    <3>2. Own(b) = 0 /\ s \in Int /\ s - 0 = s
      BY <2>1, <1>2 DEF Own
    <3>3. Count(a, m) = s
      BY <3>1, <1>5 DEF Count
    <3> HIDE DEF a, m, s
    <3> QED
      BY <3>2, <3>3
  <2>2. CASE blocks[b].type = "free"
    <3>1. GrantedBytes \cap Bytes(a, m) = {}
      BY <2>2, OwnBytes
    <3>2. Own(b) = s /\ s - s = 0 /\ s \in Int
      BY <2>2, <1>2 DEF Own
    <3>3. Count(a, m) = 0
      BY <3>1, FS_EmptySet DEF Count
    <3> QED
      BY <3>2, <3>3
  <2> QED
    BY <1>0, <2>1, <2>2
<1>7. /\ Count(m, e) \in Nat
      /\ Count(a, e) = s - Own(b) + Count(m, e)
  <2>1. a \in Nat /\ m \in Nat /\ e \in Nat /\ a <= m /\ m <= e
    BY <1>2, <1>3, <1>4
  <2> HIDE DEF a, m, e
  <2>2. Count(m, e) \in Nat /\ Count(a, e) = Count(a, m) + Count(m, e)
    BY <2>1, CountSplits
  <2> QED
    BY <2>2, <1>6
<1>8. Rest(b) \in Int /\ Rest(b) = Own(b) + (e - m - Count(m, e))
  <2> DEFINE x == Count(m, e)
             y == Count(a, e)
             o == Own(b)
  <2>1. x \in Nat /\ y = s - o + x /\ o \in Int /\ m = a + s
    BY <1>6, <1>7
  <2>2. Rest(b) = e - a - y
    BY DEF Rest
  <2> HIDE DEF x, y, o, m, a, e, s
  <2>3. e - a - y \in Int /\ e - a - y = o + (e - m - x)
    BY <2>1, <1>2, <1>3
  <2> QED
    BY <2>2, <2>3 DEF x, o
<1>9. ASSUME n = NIL PROVE Rest(b) = Own(b)
  <2>1. Bytes(m, e) = {} /\ e - m = 0
    BY <1>9, <1>2, <1>3, <1>4 DEF Bytes
  <2>2. Count(m, e) = 0
    BY <2>1, FS_EmptySet DEF Count
  <2> QED
    BY <2>1, <2>2, <1>6, <1>8
<1>10. ASSUME n # NIL PROVE n \in Live(blocks) /\ Rest(b) = Own(b) + Rest(n)
  <2>1. Rest(n) = e - m - Count(m, e)
    BY <1>10, <1>2 DEF Rest
  <2> QED
    BY <2>1, <1>8, <1>10, <1>2
<1> QED
  BY <1>6, <1>8, <1>9, <1>10

(* Along a list mem_total_free adds up what is not granted: it is the one  *)
(* way to keep the account, for the list has an end.                       *)
LEMMA ListFree ==
    ASSUME Inv
    PROVE  FreeInList[NIL] = 0 /\ \A b \in Live(blocks) : FreeInList[b] = Rest(b)
<1> DEFINE L == Live(blocks) \cup {NIL}
           Eq(F) == F = [b \in L |-> IF b = NIL THEN 0 ELSE Own(b) + F[blocks[b].next]]
           D == [b \in L |-> IF b = NIL THEN 0 ELSE Rest(b)]
<1>1. NIL \notin Live(blocks)
  BY BlockIdFacts DEF Live
<1>2. \A b \in Live(blocks) : D[b] = Own(b) + D[blocks[b].next]
  <2> TAKE b \in Live(blocks)
  <2>1. D[b] = Rest(b) /\ D[NIL] = 0 /\ Own(b) \in Int
    BY <1>1, RestStep
  <2>2. CASE blocks[b].next = NIL
    BY <2>1, <2>2, RestStep
  <2>3. CASE blocks[b].next # NIL
    BY <2>1, <2>3, <1>1, RestStep
  <2> QED
    BY <2>2, <2>3
<1>3. \E F : Eq(F)
  <2>1. D = [b \in L |-> IF b = NIL THEN 0 ELSE Own(b) + D[blocks[b].next]]
    BY <1>2
  <2> QED
    BY <2>1
<1>4. Eq(FreeInList)
  BY <1>3, Zenon DEF FreeInList, Own
<1> DEFINE S == {b \in Live(blocks) : FreeInList[b] # Rest(b)}
<1>5. FreeInList[NIL] = 0
  BY <1>4
<1>6. ASSUME S # {} PROVE FALSE
  <2>1. PICK b \in S : blocks[b].next \notin S
    BY <1>6 DEF Inv, HeapOK, Acyclic
  <2>2. FreeInList[b] = Own(b) + FreeInList[blocks[b].next]
    BY <1>1, <1>4, <2>1
  <2>3. /\ blocks[b].next = NIL => Rest(b) = Own(b) /\ Own(b) \in Int
        /\ blocks[b].next # NIL => /\ FreeInList[blocks[b].next] = Rest(blocks[b].next)
                                   /\ Rest(b) = Own(b) + Rest(blocks[b].next)
    BY <2>1, RestStep
  <2> QED
    BY <2>1, <2>2, <2>3, <1>5
<1> QED
  BY <1>5, <1>6

-----------------------------------------------------------------------------
(* All regions.                                                            *)

(* The usable bytes of the first r banks, and how many are not granted.    *)
Covered(r) == UNION {Bytes(Banks[k].addr, Top(k)) : k \in (1 .. nbanks) \cap (1 .. r)}

Left(r) == Cardinality(Covered(r)) - Cardinality(GrantedBytes \cap Covered(r))

InRegion(r) == IF regions[r].addr = NULL THEN 0 ELSE FreeInList[regions[r].head]

(* Two sets of bytes without a common one are counted one after the other. *)
Sums(G, C, P) ==
    /\ Cardinality(C) \in Nat /\ Cardinality(P) \in Nat
    /\ Cardinality(G \cap C) \in Nat /\ Cardinality(G \cap P) \in Nat
    /\ Cardinality(C \cup P) = Cardinality(C) + Cardinality(P)
    /\ Cardinality(G \cap (C \cup P)) = Cardinality(G \cap C) + Cardinality(G \cap P)

LEMMA Counted ==
    ASSUME NEW G, NEW C, NEW P, IsFiniteSet(C), IsFiniteSet(P), C \cap P = {}
    PROVE  Sums(G, C, P)
<1> DEFINE D == G \cap C
           Q == G \cap P
<1>1. IsFiniteSet(D) /\ IsFiniteSet(Q)
  BY FS_Intersection
<1>2. D \cap Q = {} /\ G \cap (C \cup P) = D \cup Q
  OBVIOUS
<1> HIDE DEF D, Q
<1>3. /\ Cardinality(C) \in Nat /\ Cardinality(P) \in Nat
      /\ Cardinality(D) \in Nat /\ Cardinality(Q) \in Nat
  BY <1>1, FS_CardinalityType
<1>4. /\ Cardinality(C \cup P) = Cardinality(C) + Cardinality(P) - Cardinality({})
      /\ Cardinality(D \cup Q) = Cardinality(D) + Cardinality(Q) - Cardinality({})
  BY <1>1, <1>2, FS_Union
<1>5. Cardinality({}) = 0
  BY FS_EmptySet
<1>6. /\ Cardinality(C \cup P) = Cardinality(C) + Cardinality(P)
      /\ Cardinality(D \cup Q) = Cardinality(D) + Cardinality(Q)
  BY <1>3, <1>4, <1>5
<1> QED
  BY <1>2, <1>3, <1>6 DEF D, Q, Sums

LEMMA CoveredFinite ==
    ASSUME Inv, NEW r
    PROVE  IsFiniteSet(Covered(r))
<1>1. \A k \in 1 .. nbanks :
        Banks[k].addr \in Nat /\ Top(k) \in Nat /\ Top(k) < Word
  <2>1. nbanks \in 0 .. Len(Banks) /\ Len(Banks) \in Nat
    BY BanksAssumption DEF Inv, TypeOK
  <2> TAKE k \in 1 .. nbanks
  <2>2. k \in 1 .. Len(Banks)
    BY <2>1
  <2> QED
    BY <2>2, BankFacts
<1>2. Word \in Nat
  BY BanksAssumption
<1>3. Covered(r) \subseteq 0 .. Word
  BY <1>1, <1>2 DEF Covered, Bytes
<1>4. IsFiniteSet(0 .. Word)
  BY <1>2, FS_Interval
<1> QED
  BY <1>3, <1>4, FS_Subset

LEMMA LeftStep ==
    ASSUME Inv, NEW r \in 1 .. MaxRegions
    PROVE  /\ Left(r) \in Int /\ Left(r - 1) \in Int
           /\ Left(r) = Left(r - 1) + InRegion(r)
<1> DEFINE C == Covered(r - 1)
           P == Bytes(Banks[r].addr, Top(r))
<1>1. /\ nbanks \in 0 .. Len(Banks) /\ Len(Banks) \in Nat /\ MaxRegions \in Nat
      /\ r \in Nat /\ r \in Slots
  BY BanksAssumption DEF Inv, TypeOK, Slots
<1>2. IsFiniteSet(C) /\ IsFiniteSet(GrantedBytes \cap C)
  BY CoveredFinite, FS_Intersection
<1>3. Left(r - 1) \in Int
  <2>1. Cardinality(C) \in Nat /\ Cardinality(GrantedBytes \cap C) \in Nat
    BY <1>2, FS_CardinalityType
  <2> QED
    BY <2>1 DEF Left
<1>4. CASE r > nbanks
  <2>1. (1 .. nbanks) \cap (1 .. r) = (1 .. nbanks) \cap (1 .. r - 1)
    BY <1>1, <1>4
  <2>2. Covered(r) = Covered(r - 1)
    BY <2>1 DEF Covered
  <2>3. regions[r].addr = NULL
    <3>1. ~ (r <= nbanks)
      BY <1>1, <1>4
    <3> QED
      BY <1>1, <3>1 DEF Inv, RegionsOK
  <2>4. InRegion(r) = 0 /\ Left(r) = Left(r - 1)
    BY <2>2, <2>3 DEF InRegion, Left
  <2> QED
    BY <2>4, <1>3
<1>5. CASE r <= nbanks
  <2>1. /\ r \in 1 .. Len(Banks) /\ r \in 1 .. nbanks
        /\ (1 .. nbanks) \cap (1 .. r) = ((1 .. nbanks) \cap (1 .. r - 1)) \cup {r}
    BY <1>1, <1>5
  <2>2. /\ Banks[r].addr \in Nat /\ Banks[r].addr > 0 /\ Top(r) \in Nat
        /\ Banks[r].addr <= Top(r)
        /\ \A j \in 1 .. r - 1 : Top(j) <= Banks[r].addr
    <3>1. /\ Banks[r].addr \in Nat /\ Banks[r].addr > 0 /\ Top(r) \in Nat
          /\ Usable(r) \in Nat /\ Banks[r].addr + Usable(r) = Top(r)
          /\ \A j \in 1 .. r - 1 : Top(j) <= Banks[r].addr
      BY <2>1, BankFacts
    <3> QED
      BY <3>1
  <2>3. Covered(r) = C \cup P
    BY <2>1 DEF Covered
  <2>4. C \cap P = {}
    <3>1. \A j \in (1 .. nbanks) \cap (1 .. r - 1) :
            j \in 1 .. r - 1 /\ Top(j) \in Nat /\ Banks[j].addr \in Nat
      <4> TAKE j \in (1 .. nbanks) \cap (1 .. r - 1)
      <4>1. j \in 1 .. Len(Banks) /\ j \in 1 .. r - 1
        BY <1>1
      <4> QED
        BY <4>1, BankFacts
    <3>2. ASSUME NEW x \in C \cap P PROVE FALSE
      <4>1. PICK j \in (1 .. nbanks) \cap (1 .. r - 1) : x \in Bytes(Banks[j].addr, Top(j))
        BY <3>2 DEF Covered
      <4>2. Top(j) <= Banks[r].addr /\ Top(j) \in Nat /\ Banks[j].addr \in Nat
        BY <3>1, <2>2
      <4>3. x \in Bytes(Banks[r].addr, Top(r))
        BY <3>2
      <4> QED
        BY <4>1, <4>2, <4>3, <2>2 DEF Bytes
    <3> QED
      BY <3>2
  <2>5. IsFiniteSet(P) /\ Cardinality(P) = Top(r) - Banks[r].addr
    BY <2>2, BytesFacts
  <2>6. InRegion(r) = Top(r) - Banks[r].addr - Cardinality(GrantedBytes \cap P)
    <3>1. regions[r].addr # NULL /\ regions[r].head = <<r, 0>>
      <4>1. regions[r].addr = Banks[r].addr /\ regions[r].head = <<r, 0>>
        BY <1>1, <1>5 DEF Inv, RegionsOK
      <4> QED
        BY <4>1, <2>2 DEF NULL
    <3>2. <<r, 0>> \in Live(blocks) /\ at[<<r, 0>>] = Banks[r].addr
      BY <2>1, BankFacts DEF Inv, HeapOK, Heads, Live
    <3>3. InRegion(r) = Rest(<<r, 0>>)
      BY <3>1, <3>2, ListFree DEF InRegion
    <3> QED
      BY <3>2, <3>3 DEF Rest, Count
  <2>7. /\ Cardinality(C) \in Nat /\ Cardinality(P) \in Nat
        /\ Cardinality(GrantedBytes \cap C) \in Nat
        /\ Cardinality(GrantedBytes \cap P) \in Nat
        /\ Cardinality(C \cup P) = Cardinality(C) + Cardinality(P)
        /\ Cardinality(GrantedBytes \cap (C \cup P))
             = Cardinality(GrantedBytes \cap C) + Cardinality(GrantedBytes \cap P)
    <3>1. IsFiniteSet(C) /\ IsFiniteSet(P) /\ C \cap P = {}
      BY <1>2, <2>4, <2>5
    <3>2. Sums(GrantedBytes, C, P)
      <4> HIDE DEF C, P
      <4> QED
        BY <3>1, Counted
    <3> QED
      BY <3>2 DEF Sums
  <2> DEFINE c == Cardinality(C)
             g == Cardinality(GrantedBytes \cap C)
             p == Cardinality(P)
             q == Cardinality(GrantedBytes \cap P)
  <2>8. /\ c \in Nat /\ g \in Nat /\ p \in Nat /\ q \in Nat
        /\ Cardinality(C \cup P) = c + p
        /\ Cardinality(GrantedBytes \cap (C \cup P)) = g + q
    BY <2>7
  <2>9. Left(r) = (c + p) - (g + q) /\ Left(r - 1) = c - g /\ InRegion(r) = p - q
    BY <2>3, <2>5, <2>6, <2>8 DEF Left
  <2> HIDE DEF c, g, p, q
  <2> QED
    BY <2>8, <2>9
<1> QED
  BY <1>1, <1>4, <1>5

(* mem_total_free goes from region to region.                              *)
LEMMA RegionsFree ==
    ASSUME Inv
    PROVE  \A r \in 0 .. MaxRegions : FreeInRegions[r] = Left(r)
<1> DEFINE R == 0 .. MaxRegions
           Eq(F) == F = [r \in R |-> IF r = 0 THEN 0 ELSE F[r - 1] + InRegion(r)]
           D == [r \in R |-> Left(r)]
<1>1. MaxRegions \in Nat
  BY BanksAssumption
<1>2. Left(0) = 0
  <2>1. Covered(0) = {} /\ GrantedBytes \cap Covered(0) = {}
    BY DEF Covered
  <2>2. Cardinality(Covered(0)) = 0 /\ Cardinality(GrantedBytes \cap Covered(0)) = 0
    BY <2>1, FS_EmptySet
  <2> QED
    BY <2>2 DEF Left
<1>3. Eq(D)
  <2>1. \A r \in R : D[r] = IF r = 0 THEN 0 ELSE D[r - 1] + InRegion(r)
    <3> TAKE r \in R
    <3>1. CASE r = 0
      BY <1>2, <3>1
    <3>2. CASE r # 0
      <4>1. r \in 1 .. MaxRegions /\ r - 1 \in R
        BY <1>1, <3>2
      <4> QED
        BY <4>1, <3>2, LeftStep
    <3> QED
      BY <3>1, <3>2
  <2> QED
    BY <2>1
<1>4. Eq(FreeInRegions)
  BY <1>3, Zenon DEF FreeInRegions, InRegion
<1> DEFINE S == {r \in R : FreeInRegions[r] # Left(r)}
<1>5. ASSUME S # {} PROVE FALSE
  <2>1. S \in SUBSET Nat
    OBVIOUS
  <2>2. PICK r \in S : \A q \in S : r <= q
    BY <1>5, <2>1, Least
  <2>3. r # 0
    BY <1>2, <1>4, <2>2
  <2>4. r \in 1 .. MaxRegions /\ r - 1 \in R /\ r - 1 \notin S
    BY <1>1, <2>2, <2>3
  <2>5. FreeInRegions[r] = FreeInRegions[r - 1] + InRegion(r)
    BY <1>4, <2>2, <2>3
  <2>6. Left(r) = Left(r - 1) + InRegion(r)
    BY <2>4, LeftStep
  <2> QED
    BY <2>2, <2>4, <2>5, <2>6
<1> QED
  BY <1>5

(* Every granted byte is a usable byte of a bank.                          *)
LEMMA GrantedUsable ==
    ASSUME Inv
    PROVE  GrantedBytes \subseteq UsableBytes
<1>1. /\ blocks \in [BlockIds -> Block] /\ at \in [BlockIds -> Addrs]
      /\ nbanks \in 0 .. Len(Banks) /\ HeapOK(blocks, at, nbanks)
      /\ Granted = {GrantOf(c) : c \in Used}
  BY DEF Inv, TypeOK, UsedIsGranted
<1>2. SUFFICES ASSUME NEW x \in GrantedBytes PROVE x \in UsableBytes
  OBVIOUS
<1>3. PICK c \in Used : x \in Bytes(at[c], at[c] + blocks[c].size)
  BY <1>1, <1>2 DEF GrantedBytes, GrantOf
<1>4. c \in BlockIds /\ blocks[c].type = "used"
  BY DEF Used
<1>5. /\ c[1] \in 1 .. nbanks /\ c[1] \in 1 .. Len(Banks)
      /\ at[c] \in Nat /\ blocks[c].size \in Nat
      /\ Banks[c[1]].addr <= at[c] /\ at[c] + blocks[c].size <= Top(c[1])
  BY <1>1, <1>4, UsedFacts
<1>6. Banks[c[1]].addr \in Nat /\ Top(c[1]) \in Nat
  BY <1>5, BankFacts
<1>7. x \in Bytes(Banks[c[1]].addr, Top(c[1]))
  BY <1>3, <1>5, <1>6 DEF Bytes
<1> QED
  BY <1>5, <1>7 DEF UsableBytes, Top

(* No byte is lost or counted twice, over any number of banks: what        *)
(* mem_total_free reports and what is granted add up to what the banks     *)
(* have, whatever was merged, carved, released or looked at meanwhile.     *)
THEOREM BytesStay == Spec => []BytesConserved
<1>1. ASSUME Inv PROVE BytesConserved
  <2>1. /\ MaxRegions \in Nat /\ nbanks \in 0 .. Len(Banks) /\ Len(Banks) <= MaxRegions
        /\ Len(Banks) \in Nat
    BY <1>1, BanksAssumption DEF Inv, TypeOK
  <2>2. (1 .. nbanks) \cap (1 .. MaxRegions) = 1 .. nbanks
    BY <2>1
  <2>3. Covered(MaxRegions) = UsableBytes
    BY <2>2 DEF Covered, UsableBytes, Top
  <2>4. GrantedBytes \cap Covered(MaxRegions) = GrantedBytes
    BY <1>1, <2>3, GrantedUsable
  <2>5. mem_total_free = Cardinality(UsableBytes) - Cardinality(GrantedBytes)
    BY <1>1, <2>1, <2>3, <2>4, RegionsFree DEF mem_total_free, Left
  <2>6. IsFiniteSet(UsableBytes)
    BY <1>1, <2>3, CoveredFinite
  <2>7. IsFiniteSet(GrantedBytes)
    BY <1>1, <2>6, GrantedUsable, FS_Subset
  <2>8. Cardinality(UsableBytes) \in Nat /\ Cardinality(GrantedBytes) \in Nat
    BY <2>6, <2>7, FS_CardinalityType
  <2> QED
    BY <2>5, <2>8 DEF BytesConserved
<1> QED
  BY <1>1, Invariance, PTL
=============================================================================
