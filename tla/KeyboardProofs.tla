---------------------------- MODULE KeyboardProofs ----------------------------
(***************************************************************************)
(* Proofs about Keyboard: for every set of keys, any number of strokes and *)
(* any length of the queue, getch returns the keys that come up, each      *)
(* once, in that order, in the case CapsLock had set.                      *)
(***************************************************************************)
EXTENDS Keyboard, TLAPS, SequenceTheorems

(* The code the port shows and, behind it, those that have not been read.  *)
wire == [n \in 0 .. Len(queue) |-> IF n = 0 THEN port ELSE queue[n]]

IsUp(n)      == wire[n].kind = "break" /\ wire[n].key \in Plain
Makes(n, k)  == wire[n].kind = "make" /\ wire[n].key = k
Breaks(n, k) == wire[n].kind = "break" /\ wire[n].key = k

(* A code is not the second byte of a key behind 0xE0.                     *)
Proper(n) == wire[n - 1].kind # "E0"

(* A break code of k at position n will count: after the last break code   *)
(* of k before n there is a make code of its own, or it has been read.     *)
Armed(k, n) ==
    \/ \E m \in 1 .. n - 1 :
          /\ Makes(m, k) /\ Proper(m)
          /\ \A l \in m + 1 .. n - 1 : ~ Breaks(l, k)
    \/ /\ ~ is_press[k]
       /\ \A l \in 0 .. n - 1 : ~ Breaks(l, k)

(* The break codes that must count.                                        *)
MustCount(n, k) ==
    Breaks(n, k) /\ (k = CapsLock \/ (k \in Plain /\ typed[wire[n].nth].sure))

-----------------------------------------------------------------------------
(* The strokes that have not been read are those of the codes in the       *)
(* queue, one by one.                                                      *)
NthOK ==
    /\ \A n \in 0 .. Len(queue) : wire[n].nth <= Len(typed)
    /\ \A m, n \in 0 .. Len(queue) :
          m < n => /\ wire[m].nth <= wire[n].nth
                   /\ IsUp(n) => wire[m].nth < wire[n].nth

StrokesOK ==
    \A n \in 0 .. Len(queue) :
       IsUp(n) => /\ wire[n].nth >= 1
                  /\ typed[wire[n].nth].key = wire[n].key
                  /\ typed[wire[n].nth].lower = wire[n].lower

PendingOK ==
    \A s \in port.nth + 1 .. Len(typed) :
       \E n \in 1 .. Len(queue) : IsUp(n) /\ wire[n].nth = s

(* The case changes with the break codes of CapsLock.                      *)
CaseOK ==
    /\ \A n \in 1 .. Len(queue) :
          wire[n].lower = (wire[n - 1].lower # Breaks(n, CapsLock))
    /\ caps = wire[Len(queue)].lower

(* No key is torn from its 0xE0.                                           *)
WholeOK == wire[Len(queue)].kind # "E0"

(* Every break code that must count will count.                            *)
ArmedOK ==
    /\ pc = "extended" => port.kind = "E0"
    /\ \A n \in 1 .. Len(queue), k \in InArray :
          MustCount(n, k) => Proper(n) /\ Armed(k, n)
    /\ \A k \in down, n \in {Len(queue) + 1} :
          k = CapsLock \/ k \in Plain \ mixed => Armed(k, n)
    /\ Breaks(0, CapsLock) => is_press[CapsLock]

(* at says which stroke each char that was returned is; the stroke the     *)
(* port shows can be returned only once.                                   *)
Returned(at) ==
    /\ \A m, n \in DOMAIN got : m < n => at[m] < at[n]
    /\ \A n \in DOMAIN got :
          /\ got[n].key = typed[at[n]].key
          /\ ~ flushed /\ ~ stray => got[n].lower = typed[at[n]].lower
          /\ at[n] = port.nth /\ IsUp(0) => is_press[port.key]
    /\ ~ flushed => Sure \cap Read \subseteq {at[n] : n \in DOMAIN got}

GotOK == \E at \in [DOMAIN got -> Read] : Returned(at)

ShiftOK == ~ flushed /\ ~ stray => kb_shift = port.lower

Inv ==
    /\ TypeOK
    /\ NthOK /\ StrokesOK /\ PendingOK /\ CaseOK /\ WholeOK
    /\ ~ flushed => ArmedOK
    /\ ShiftOK /\ GotOK

-----------------------------------------------------------------------------
(* Codes.                                                                  *)
LEMMA ByteFacts ==
    ASSUME NEW b \in Byte
    PROVE  /\ b.nth \in Nat /\ b.lower \in BOOLEAN
           /\ b.kind \in {"make", "break", "none", "E0", "other"}
           /\ b.key \in InArray \cup Wild
           /\ b.kind \notin {"make", "break"} => b.key = CapsLock
  BY DEF Byte, InArray, Wild

LEMMA SentIsByte ==
    ASSUME NEW kind, NEW key, NEW nth \in Nat, NEW lower \in BOOLEAN,
           \/ kind \in {"make", "break"} /\ key \in InArray \cup Wild
           \/ kind \in {"none", "E0", "other"} /\ key = CapsLock
    PROVE  /\ Sent(kind, key, nth, lower) \in Byte
           /\ Sent(kind, key, nth, lower).kind = kind
           /\ Sent(kind, key, nth, lower).key = key
           /\ Sent(kind, key, nth, lower).nth = nth
           /\ Sent(kind, key, nth, lower).lower = lower
  BY DEF Sent, Byte

LEMMA WireFacts ==
    ASSUME TypeOK
    PROVE  /\ Len(queue) \in Nat
           /\ DOMAIN typed = 1 .. Len(typed) /\ Len(typed) \in Nat
           /\ DOMAIN got = 1 .. Len(got) /\ Len(got) \in Nat
           /\ \A n \in 0 .. Len(queue) : wire[n] \in Byte
           /\ wire[0] = port
           /\ \A n \in 1 .. Len(queue) : wire[n] = queue[n]
  <1>1. Len(queue) \in Nat /\ \A n \in 1 .. Len(queue) : queue[n] \in Byte
        BY ElementOfSeq, LenProperties DEF TypeOK
  <1>2. DOMAIN typed = 1 .. Len(typed) /\ Len(typed) \in Nat
        BY LenProperties DEF TypeOK
  <1>3. DOMAIN got = 1 .. Len(got) /\ Len(got) \in Nat
        BY LenProperties DEF TypeOK
  <1>4. port \in Byte  BY DEF TypeOK
  <1> QED  BY <1>1, <1>2, <1>3, <1>4 DEF wire

(* The codes of the queue after some have been sent, and after one has     *)
(* been read.                                                              *)
LEMMA SendWire ==
    ASSUME TypeOK, TypeOK', NEW bytes \in Seq(Byte), Send(bytes)
    PROVE  /\ Len(queue') = Len(queue) + Len(bytes)
           /\ \A n \in 0 .. Len(queue) : wire'[n] = wire[n]
           /\ \A n \in 1 .. Len(bytes) : wire'[Len(queue) + n] = bytes[n]
  <1>1. queue \in Seq(Byte)  BY DEF TypeOK
  <1>2. queue' = queue \o bytes /\ port' = port  BY DEF Send
  <1>3. Len(bytes) \in Nat /\ Len(queue) \in Nat  BY <1>1, LenProperties
  <1>4. /\ Len(queue') = Len(queue) + Len(bytes)
        /\ \A n \in 1 .. Len(queue) + Len(bytes) :
              queue'[n] = IF n <= Len(queue) THEN queue[n] ELSE bytes[n - Len(queue)]
        BY <1>1, <1>2, ConcatProperties
  <1>5. wire' = [n \in 0 .. Len(queue') |-> IF n = 0 THEN port' ELSE queue'[n]]
        BY DEF wire
  <1>6. \A n \in 0 .. Len(queue) : wire'[n] = wire[n]
        BY <1>2, <1>3, <1>4, <1>5 DEF wire
  <1>7. \A n \in 1 .. Len(bytes) : wire'[Len(queue) + n] = bytes[n]
    <2>1. TAKE n \in 1 .. Len(bytes)
    <2>2. /\ Len(queue) + n \in 1 .. Len(queue) + Len(bytes)
          /\ ~ Len(queue) + n <= Len(queue) /\ Len(queue) + n - Len(queue) = n
          BY <1>3
    <2> QED  BY <1>3, <1>4, <1>5, <2>2
  <1> QED  BY <1>4, <1>6, <1>7

LEMMA ReadWire ==
    ASSUME TypeOK, Arrives
    PROVE  /\ Len(queue) >= 1 /\ Len(queue') = Len(queue) - 1
           /\ queue' \in Seq(Byte)
           /\ Head(queue) = wire[1] /\ port' = wire[1]
           /\ \A n \in 0 .. Len(queue) - 1 : wire'[n] = wire[n + 1]
  <1>1. queue \in Seq(Byte) /\ queue # <<>>  BY DEF TypeOK, Arrives
  <1>2. queue' = Tail(queue) /\ port' = Head(queue)  BY DEF Arrives
  <1>3. Len(queue) \in Nat /\ Len(queue) >= 1  BY <1>1, EmptySeq, LenProperties
  <1>4. /\ queue' \in Seq(Byte) /\ Len(queue') = Len(queue) - 1
        /\ \A n \in 1 .. Len(queue) - 1 : queue'[n] = queue[n + 1]
        BY <1>1, <1>2, HeadTailProperties
  <1>5. Head(queue) = queue[1]  BY <1>1, HeadTailProperties
  <1>6. wire[1] = queue[1]  BY <1>3 DEF wire
  <1>7. wire' = [n \in 0 .. Len(queue') |-> IF n = 0 THEN port' ELSE queue'[n]]
        BY DEF wire
  <1>8. \A n \in 0 .. Len(queue) - 1 : wire'[n] = wire[n + 1]
    <2>1. TAKE n \in 0 .. Len(queue) - 1
    <2>2. n \in 0 .. Len(queue') /\ n + 1 \in 1 .. Len(queue) /\ n + 1 # 0
          BY <1>3, <1>4
    <2>3. wire[n + 1] = queue[n + 1]  BY <2>2, <1>3 DEF wire
    <2>4. CASE n = 0  BY <2>2, <2>3, <2>4, <1>2, <1>5, <1>7
    <2>5. CASE n # 0
      <3>1. n \in 1 .. Len(queue) - 1  BY <2>1, <2>5, <1>3
      <3> QED  BY <2>2, <2>3, <2>5, <3>1, <1>4, <1>7
    <2> QED  BY <2>4, <2>5
  <1> QED  BY <1>2, <1>3, <1>4, <1>5, <1>6, <1>8

-----------------------------------------------------------------------------
(* What the actions of the keyboard have in common: z is sent, perhaps     *)
(* behind an 0xE0, and if it is the break code of a plain key a stroke is  *)
(* recorded.                                                               *)
Sends(z) ==
    /\ Len(queue') \in {Len(queue) + 1, Len(queue) + 2}
    /\ \A n \in 0 .. Len(queue) : wire'[n] = wire[n]
    /\ wire'[Len(queue')] = z
    /\ Len(queue') = Len(queue) + 2 =>
          wire'[Len(queue) + 1] = Sent("E0", CapsLock, Len(typed), caps)
    /\ z \in Byte /\ z.kind # "E0"
    /\ z.nth = Len(typed') /\ z.lower = caps'
    /\ caps' = (caps # (z.kind = "break" /\ z.key = CapsLock))
    /\ UNCHANGED <<port, pc, state, flushed>>

Records(z) ==
    IF z.kind = "break" /\ z.key \in Plain
    THEN /\ Len(typed') = Len(typed) + 1
         /\ \A n \in 1 .. Len(typed) : typed'[n] = typed[n]
         /\ typed'[Len(typed')].key = z.key
         /\ typed'[Len(typed')].lower = z.lower
    ELSE typed' = typed

(* The keys whose break code must count: a key that stays down is not      *)
(* broken, one that comes up was down and sends no 0xE0, and one that goes *)
(* down makes it count.                                                    *)
Presses(z) ==
    /\ z.kind = "break"
          /\ (z.key = CapsLock \/ (z.key \in Plain /\ typed'[Len(typed')].sure))
          => /\ Len(queue') = Len(queue) + 1
             /\ z.key \in down /\ (z.key = CapsLock \/ z.key \in Plain \ mixed)
    /\ \A k \in down' :
          k = CapsLock \/ k \in Plain \ mixed' =>
             /\ ~ (z.kind = "break" /\ z.key = k)
             /\ \/ k \in down /\ (k = CapsLock \/ k \in Plain \ mixed)
                \/ z.kind = "make" /\ z.key = k /\ Len(queue') = Len(queue) + 1

(* Where a code is after z has been sent.                                  *)
LEMMA SendPlaces ==
    ASSUME TypeOK, NEW z, Sends(z)
    PROVE  /\ Len(queue') \in Nat /\ Len(queue) \in Nat /\ Len(queue) < Len(queue')
           /\ \A n \in 0 .. Len(queue') :
                 \/ n \in 0 .. Len(queue) /\ wire'[n] = wire[n]
                 \/ n = Len(queue') /\ wire'[n] = z
                 \/ /\ n = Len(queue) + 1 /\ n = Len(queue') - 1
                    /\ wire'[n] = Sent("E0", CapsLock, Len(typed), caps)
  <1>1. Len(queue) \in Nat  BY WireFacts
  <1> QED  BY <1>1 DEF Sends

LEMMA E0Facts ==
    ASSUME TypeOK
    PROVE  LET e == Sent("E0", CapsLock, Len(typed), caps)
           IN  e.kind = "E0" /\ e.key = CapsLock /\ e.nth = Len(typed) /\ e.lower = caps
  BY DEF Sent

LEMMA RecordsFacts ==
    ASSUME TypeOK, NEW z, Records(z)
    PROVE  /\ Len(typed') \in Nat /\ Len(typed) <= Len(typed')
           /\ \A n \in 1 .. Len(typed) : typed'[n] = typed[n]
           /\ ~ (z.kind = "break" /\ z.key \in Plain) => Len(typed') = Len(typed)
  <1>1. Len(typed) \in Nat  BY WireFacts
  <1> QED  BY <1>1 DEF Records

LEMMA SendNthOK ==
    ASSUME TypeOK, NthOK, NEW z, Sends(z), Records(z)
    PROVE  NthOK'
  <1>1. /\ Len(typed') \in Nat /\ Len(typed) \in Nat /\ Len(typed) <= Len(typed')
        /\ z.kind = "break" /\ z.key \in Plain => Len(typed') = Len(typed) + 1
        BY RecordsFacts, WireFacts DEF Records
  <1>2. \A n \in 0 .. Len(queue) : wire[n].nth \in Nat /\ wire[n].nth <= Len(typed)
        BY WireFacts, ByteFacts DEF NthOK
  <1>3. z.nth = Len(typed')  BY DEF Sends
  <1>4. ASSUME NEW n \in 0 .. Len(queue')
        PROVE  wire'[n].nth \in Nat /\ wire'[n].nth <= Len(typed')
        BY <1>1, <1>2, <1>3, SendPlaces, E0Facts
  <1>5. ASSUME NEW m \in 0 .. Len(queue'), NEW n \in 0 .. Len(queue'), m < n
        PROVE  /\ wire'[m].nth <= wire'[n].nth
               /\ IsUp(n)' => wire'[m].nth < wire'[n].nth
    <2>1. CASE n \in 0 .. Len(queue) /\ wire'[n] = wire[n]
      <3>1. m \in 0 .. Len(queue) /\ wire'[m] = wire[m]
            BY <1>5, <2>1, SendPlaces
      <3>2. IsUp(n)' <=> IsUp(n)  BY <2>1 DEF IsUp
      <3> QED  BY <1>5, <2>1, <3>1, <3>2 DEF NthOK
    <2>2. CASE n = Len(queue') /\ wire'[n] = z
      <3>1. wire'[m].nth <= Len(typed)
        <4>1. m # Len(queue')  BY <1>5, <2>2
        <4> QED  BY <4>1, <1>2, <1>1, SendPlaces, E0Facts
      <3>2. wire'[m].nth \in Nat  BY <1>4
      <3> QED  BY <3>1, <3>2, <2>2, <1>1, <1>3 DEF IsUp
    <2>3. CASE /\ n = Len(queue) + 1 /\ n = Len(queue') - 1
               /\ wire'[n] = Sent("E0", CapsLock, Len(typed), caps)
      <3>1. m \in 0 .. Len(queue) /\ wire'[m] = wire[m]
            BY <1>5, <2>3, SendPlaces
      <3>2. wire'[n].kind = "E0" /\ wire'[n].nth = Len(typed)  BY <2>3, E0Facts
      <3> QED  BY <3>1, <3>2, <1>2 DEF IsUp
    <2> QED  BY <2>1, <2>2, <2>3, SendPlaces
  <1> QED  BY <1>4, <1>5 DEF NthOK

LEMMA SendStrokesOK ==
    ASSUME TypeOK, NthOK, StrokesOK, NEW z, Sends(z), Records(z)
    PROVE  StrokesOK'
  <1>1. SUFFICES ASSUME NEW n \in 0 .. Len(queue'), IsUp(n)'
                 PROVE  /\ wire'[n].nth >= 1
                        /\ typed'[wire'[n].nth].key = wire'[n].key
                        /\ typed'[wire'[n].nth].lower = wire'[n].lower
        BY DEF StrokesOK
  <1>2. CASE n \in 0 .. Len(queue) /\ wire'[n] = wire[n]
    <2>1. IsUp(n)  BY <1>1, <1>2 DEF IsUp
    <2>2. wire[n].nth \in 1 .. Len(typed)
          BY <1>2, <2>1, WireFacts, ByteFacts DEF NthOK, StrokesOK
    <2>3. typed'[wire[n].nth] = typed[wire[n].nth]  BY <2>2, RecordsFacts
    <2> QED  BY <1>2, <2>1, <2>2, <2>3 DEF StrokesOK
  <1>3. CASE n = Len(queue') /\ wire'[n] = z
    <2>1. z.kind = "break" /\ z.key \in Plain  BY <1>1, <1>3 DEF IsUp
    <2> QED  BY <1>3, <2>1, WireFacts DEF Sends, Records
  <1>4. CASE wire'[n] = Sent("E0", CapsLock, Len(typed), caps)
        BY <1>1, <1>4, E0Facts DEF IsUp
  <1> QED  BY <1>2, <1>3, <1>4, SendPlaces

LEMMA SendPendingOK ==
    ASSUME TypeOK, PendingOK, NEW z, Sends(z), Records(z)
    PROVE  PendingOK'
  <1>1. SUFFICES ASSUME NEW s \in port.nth + 1 .. Len(typed')
                 PROVE  \E n \in 1 .. Len(queue') : IsUp(n)' /\ wire'[n].nth = s
        BY DEF PendingOK, Sends
  <1>2. port.nth \in Nat  BY ByteFacts DEF TypeOK
  <1>3. CASE s <= Len(typed)
    <2> Len(typed) \in Nat  BY WireFacts
    <2> s \in port.nth + 1 .. Len(typed)  BY <1>1, <1>2, <1>3
    <2>1. PICK n \in 1 .. Len(queue) : IsUp(n) /\ wire[n].nth = s
          BY DEF PendingOK
    <2>2. n \in 0 .. Len(queue) /\ n \in 1 .. Len(queue')  BY <2>1, SendPlaces
    <2>3. wire'[n] = wire[n]  BY <2>2 DEF Sends
    <2>4. IsUp(n)' /\ wire'[n].nth = s  BY <2>1, <2>3 DEF IsUp
    <2> QED  BY <2>2, <2>4
  <1>4. CASE ~ s <= Len(typed)
    <2>1. z.kind = "break" /\ z.key \in Plain /\ s = Len(typed')
          BY <1>1, <1>2, <1>4, WireFacts, RecordsFacts DEF Records
    <2>2. Len(queue') \in 1 .. Len(queue')  BY SendPlaces
    <2>3. IsUp(Len(queue))' /\ wire'[Len(queue')].nth = s  BY <2>1 DEF Sends, IsUp
    <2> QED  BY <2>2, <2>3 DEF IsUp
  <1> QED  BY <1>3, <1>4

LEMMA SendCaseOK ==
    ASSUME TypeOK, CaseOK, NEW z, Sends(z)
    PROVE  CaseOK' /\ WholeOK'
  <1>1. ASSUME NEW n \in 1 .. Len(queue')
        PROVE  wire'[n].lower = (wire'[n - 1].lower # Breaks(n, CapsLock)')
    <2>1. CASE n \in 0 .. Len(queue) /\ wire'[n] = wire[n]
      <3>1. n \in 1 .. Len(queue) /\ wire'[n - 1] = wire[n - 1]
            BY <1>1, <2>1, SendPlaces DEF Sends
      <3> QED  BY <2>1, <3>1 DEF CaseOK, Breaks
    <2>2. CASE n = Len(queue') /\ wire'[n] = z
      <3>1. wire'[n - 1].lower = caps
        <4>1. CASE Len(queue') = Len(queue) + 1
              BY <4>1, <2>2, WireFacts DEF Sends, CaseOK
        <4>2. CASE Len(queue') = Len(queue) + 2
          <5>1. n - 1 = Len(queue) + 1  BY <4>2, <2>2, WireFacts
          <5> QED  BY <4>2, <5>1, E0Facts DEF Sends
        <4> QED  BY <4>1, <4>2 DEF Sends
      <3>2. z.lower = (caps # (z.kind = "break" /\ z.key = CapsLock))  BY DEF Sends
      <3> QED  BY <2>2, <3>1, <3>2 DEF Breaks
    <2>3. CASE /\ n = Len(queue) + 1 /\ n = Len(queue') - 1
               /\ wire'[n] = Sent("E0", CapsLock, Len(typed), caps)
      <3>1. n - 1 = Len(queue) /\ Len(queue) \in 0 .. Len(queue)  BY <2>3, WireFacts
      <3>2. wire'[n - 1].lower = caps  BY <3>1 DEF Sends, CaseOK
      <3>3. wire'[n].lower = caps /\ Breaks(n, CapsLock)' = FALSE
            BY <2>3, E0Facts DEF Breaks
      <3>4. caps \in BOOLEAN  BY DEF TypeOK
      <3> QED  BY <3>2, <3>3, <3>4
    <2> QED  BY <2>1, <2>2, <2>3, <1>1, SendPlaces
  <1>2. caps' = wire'[Len(queue')].lower /\ wire'[Len(queue')].kind # "E0"  BY DEF Sends
  <1> QED  BY <1>1, <1>2 DEF CaseOK, WholeOK

(* A key that is armed stays so when it is not broken.                     *)
LEMMA SendArmed ==
    ASSUME TypeOK, NEW z, Sends(z), NEW k, NEW n \in 1 .. Len(queue) + 1, Armed(k, n)
    PROVE  Armed(k, n)'
  <1>1. Len(queue) \in Nat /\ is_press' = is_press  BY SendPlaces DEF Sends, state
  <1>2. \A l \in 0 .. Len(queue) : wire'[l] = wire[l]  BY DEF Sends
  <1>3. \A l \in 0 .. Len(queue) :
           /\ Makes(l, k)' <=> Makes(l, k)
           /\ Breaks(l, k)' <=> Breaks(l, k)
        BY <1>2 DEF Makes, Breaks
  <1>4. \A m \in 1 .. Len(queue) : Proper(m)' <=> Proper(m)
        BY <1>1, <1>2 DEF Proper
  <1>5. ASSUME NEW m \in 1 .. n - 1, Makes(m, k), Proper(m),
               \A l \in m + 1 .. n - 1 : ~ Breaks(l, k)
        PROVE  Armed(k, n)'
    <2>1. Makes(m, k)' /\ Proper(m)'  BY <1>5, <1>1, <1>3, <1>4
    <2>2. \A l \in m + 1 .. n - 1 : ~ Breaks(l, k)'  BY <1>5, <1>1, <1>3
    <2> QED  BY <2>1, <2>2 DEF Armed
  <1>6. ASSUME ~ is_press[k], \A l \in 0 .. n - 1 : ~ Breaks(l, k)
        PROVE  Armed(k, n)'
    <2>1. \A l \in 0 .. n - 1 : ~ Breaks(l, k)'  BY <1>6, <1>1, <1>3
    <2> QED  BY <1>6, <2>1, <1>1 DEF Armed
  <1> QED  BY <1>5, <1>6 DEF Armed

LEMMA ArmedOnwards ==
    ASSUME NEW k, NEW m \in Nat, NEW n \in Nat, m <= n, Armed(k, m)',
           \A l \in m .. n - 1 : ~ Breaks(l, k)'
    PROVE  Armed(k, n)'
  <1>1. ASSUME NEW i \in 1 .. m - 1, Makes(i, k)', Proper(i)',
               \A l \in i + 1 .. m - 1 : ~ Breaks(l, k)'
        PROVE  Armed(k, n)'
    <2>1. i \in 1 .. n - 1 /\ \A l \in i + 1 .. n - 1 : ~ Breaks(l, k)'  BY <1>1
    <2> QED  BY <1>1, <2>1 DEF Armed
  <1>2. ASSUME ~ is_press'[k], \A l \in 0 .. m - 1 : ~ Breaks(l, k)'
        PROVE  Armed(k, n)'
    <2>1. \A l \in 0 .. n - 1 : ~ Breaks(l, k)'  BY <1>2
    <2> QED  BY <1>2, <2>1 DEF Armed
  <1> QED  BY <1>1, <1>2 DEF Armed

LEMMA SendArmedOK ==
    ASSUME TypeOK, NthOK, WholeOK, ArmedOK,
           NEW z, Sends(z), Records(z), Presses(z)
    PROVE  ArmedOK'
  <1>1. /\ Len(queue) \in Nat /\ Len(queue') \in Nat /\ Len(queue) < Len(queue')
        /\ is_press' = is_press /\ pc' = pc /\ port' = port
        BY SendPlaces DEF Sends, state
  <1>2. wire'[0] = wire[0] /\ wire'[Len(queue')] = z  BY <1>1 DEF Sends
  <1>3. ASSUME NEW n \in 1 .. Len(queue'), NEW k \in InArray, MustCount(n, k)'
        PROVE  Proper(n)' /\ Armed(k, n)'
    <2>1. CASE n \in 0 .. Len(queue) /\ wire'[n] = wire[n]
      <3>1. n \in 1 .. Len(queue)  BY <1>3, <2>1
      <3>2. k \in Plain => wire[n].nth \in 1 .. Len(typed)
        <4>1. ASSUME k \in Plain  PROVE wire[n].nth \in 1 .. Len(typed)
          <5>1. IsUp(n)  BY <1>3, <2>1, <4>1 DEF MustCount, Breaks, IsUp
          <5>2. wire[n].nth \in Nat /\ wire[0].nth \in Nat /\ wire[n].nth <= Len(typed)
                BY <2>1, WireFacts, ByteFacts DEF NthOK
          <5>3. wire[0].nth < wire[n].nth  BY <3>1, <5>1, <1>1 DEF NthOK
          <5> QED  BY <5>2, <5>3, WireFacts
        <4> QED  BY <4>1
      <3>3. MustCount(n, k)
            BY <1>3, <2>1, <3>2, RecordsFacts DEF MustCount, Breaks
      <3>4. Proper(n) /\ Armed(k, n)  BY <3>1, <3>3 DEF ArmedOK
      <3>5. Armed(k, n)'  BY <3>1, <3>4, <1>1, SendArmed
      <3>6. n - 1 \in 0 .. Len(queue)  BY <3>1, <1>1
      <3>7. Proper(n)'  BY <3>4, <3>6 DEF Proper, Sends
      <3> QED  BY <3>5, <3>7
    <2>2. CASE n = Len(queue') /\ wire'[n] = z
      <3>1. z.kind = "break" /\ z.key = k  BY <1>3, <2>2 DEF MustCount, Breaks
      <3>2. /\ n = Len(queue) + 1 /\ k \in down
            /\ k = CapsLock \/ k \in Plain \ mixed
            BY <1>3, <2>2, <3>1 DEF MustCount, Presses, Sends
      <3>3. Armed(k, n)'  BY <3>2, <1>1, SendArmed DEF ArmedOK
      <3>4. Proper(n)'
        <4>1. n - 1 = Len(queue) /\ Len(queue) \in 0 .. Len(queue)  BY <1>1, <3>2
        <4> QED  BY <4>1 DEF Proper, Sends, WholeOK
      <3> QED  BY <3>3, <3>4
    <2>3. CASE wire'[n] = Sent("E0", CapsLock, Len(typed), caps)
          BY <1>3, <2>3, E0Facts DEF MustCount, Breaks
    <2> QED  BY <1>3, <2>1, <2>2, <2>3, SendPlaces
  <1>4. ASSUME NEW k \in down', k = CapsLock \/ k \in Plain \ mixed',
               NEW n \in {Len(queue') + 1}
        PROVE  Armed(k, n)'
    <2>1. ~ (z.kind = "break" /\ z.key = k)  BY <1>4 DEF Presses
    <2>2. CASE k \in down /\ (k = CapsLock \/ k \in Plain \ mixed)
      <3>1. PICK m \in {Len(queue) + 1} : Armed(k, m)  BY <2>2 DEF ArmedOK
      <3>2. Armed(k, m)'  BY <3>1, <1>1, SendArmed
      <3>3. m \in Nat /\ n \in Nat /\ m <= n /\ m = Len(queue) + 1 /\ n - 1 = Len(queue')
            BY <1>1, <1>4, <3>1
      <3>4. \A l \in m .. n - 1 : ~ Breaks(l, k)'
            BY <1>1, <2>1, <3>3, SendPlaces, E0Facts DEF Breaks
      <3> QED  BY <3>2, <3>3, <3>4, ArmedOnwards
    <2>3. CASE z.kind = "make" /\ z.key = k /\ Len(queue') = Len(queue) + 1
      <3>1. PICK m \in {Len(queue')} : TRUE  OBVIOUS
      <3>2. Makes(m, k)'  BY <1>2, <2>3, <3>1 DEF Makes
      <3>3. Proper(m)'
        <4>1. m - 1 = Len(queue) /\ Len(queue) \in 0 .. Len(queue)
              BY <1>1, <2>3, <3>1
        <4> QED  BY <4>1 DEF Proper, Sends, WholeOK
      <3>4. m \in 1 .. n - 1 /\ m + 1 .. n - 1 = {}  BY <1>1, <1>4, <3>1
      <3> QED  BY <3>2, <3>3, <3>4 DEF Armed
    <2> QED  BY <1>4, <2>2, <2>3 DEF Presses
  <1>5. Breaks(0, CapsLock)' => is_press'[CapsLock]
        BY <1>1, <1>2 DEF ArmedOK, Breaks
  <1>6. pc' = "extended" => port'.kind = "E0"  BY <1>1 DEF ArmedOK
  <1> QED  BY <1>3, <1>4, <1>5, <1>6 DEF ArmedOK

LEMMA SendGotOK ==
    ASSUME TypeOK, NthOK, GotOK, NEW z, Sends(z), Records(z)
    PROVE  GotOK'
  <1>1. /\ got' = got /\ port' = port /\ flushed' = flushed /\ stray' = stray
        /\ is_press' = is_press /\ wire'[0] = wire[0]
        BY WireFacts DEF Sends, state
  <1>2. PICK at \in [DOMAIN got -> Read] : Returned(at)  BY DEF GotOK
  <1>3. port.nth \in Nat /\ port.nth <= Len(typed) /\ Len(typed) \in Nat
        BY WireFacts, ByteFacts DEF NthOK
  <1>4. \A n \in Read : n \in DOMAIN typed /\ typed'[n] = typed[n]
        BY <1>3, WireFacts, RecordsFacts DEF Read
  <1>5. Read' = Read  BY <1>1 DEF Read
  <1>6. Sure' \cap Read' \subseteq Sure \cap Read  BY <1>4, <1>5 DEF Sure
  <1>7. IsUp(0)' <=> IsUp(0)  BY <1>1 DEF IsUp
  <1>8. Returned(at)'
    <2>1. \A m, n \in DOMAIN got' : m < n => at[m] < at[n]  BY <1>1, <1>2 DEF Returned
    <2>2. \A n \in DOMAIN got' :
             /\ got'[n].key = typed'[at[n]].key
             /\ ~ flushed' /\ ~ stray' => got'[n].lower = typed'[at[n]].lower
             /\ at[n] = port'.nth /\ IsUp(0)' => is_press'[port'.key]
          BY <1>1, <1>2, <1>4, <1>7 DEF Returned
    <2>3. ~ flushed' => Sure' \cap Read' \subseteq {at[n] : n \in DOMAIN got'}
          BY <1>1, <1>2, <1>6 DEF Returned
    <2> QED  BY <2>1, <2>2, <2>3 DEF Returned
  <1>9. at \in [DOMAIN got' -> Read']  BY <1>1, <1>2, <1>5
  <1> QED  BY <1>8, <1>9 DEF GotOK

LEMMA SendInv ==
    ASSUME Inv, TypeOK', NEW z, Sends(z), Records(z), Presses(z)
    PROVE  Inv'
  <1>1. flushed' = flushed /\ stray' = stray /\ kb_shift' = kb_shift /\ port' = port
        BY DEF Sends, state
  <1>2. ShiftOK'  BY <1>1 DEF Inv, ShiftOK
  <1>3. ~ flushed' => ArmedOK'  BY <1>1, SendArmedOK DEF Inv
  <1> QED  BY <1>2, <1>3, SendNthOK, SendStrokesOK, SendPendingOK, SendCaseOK, SendGotOK
           DEF Inv

-----------------------------------------------------------------------------
(* The key a code of k says it is.                                         *)
KeyOf(k) == IF k \in Extended THEN PlainCode[k] ELSE k

LEMMA KeyOfFacts ==
    ASSUME NEW k \in Keys
    PROVE  /\ KeyOf(k) \in InArray \cup Wild
           /\ KeyOf(k) = CapsLock <=> k = CapsLock
           /\ k \in Extended => k \notin Plain /\ k # CapsLock
           /\ k \notin Extended => KeyOf(k) = k
           /\ k \in Extended => KeyOf(k) = PlainCode[k]
           /\ Twin(k) \subseteq Plain
           /\ k \notin Extended => Twin(k) = {}
           /\ k \in Extended /\ KeyOf(k) \in Plain \cap down => KeyOf(k) \in Twin(k)
  BY KeysAssumption DEF Keys, InArray, Wild, KeyOf, Twin

LEMMA CodesFacts ==
    ASSUME TypeOK, NEW k \in Keys, NEW kind \in {"make", "break"},
           NEW nth \in Nat, NEW lower \in BOOLEAN
    PROVE  /\ Codes(kind, k, nth, lower) \in Seq(Byte)
           /\ LET c == Codes(kind, k, nth, lower)
                  z == Sent(kind, KeyOf(k), nth, lower)
              IN  IF k \in Extended
                  THEN Len(c) = 2 /\ c[1] = Sent("E0", CapsLock, Len(typed), caps) /\ c[2] = z
                  ELSE Len(c) = 1 /\ c[1] = z
  <1>1. Sent(kind, KeyOf(k), nth, lower) \in Byte  BY KeyOfFacts, SentIsByte
  <1>2. Sent("E0", CapsLock, Len(typed), caps) \in Byte
        BY WireFacts, SentIsByte DEF TypeOK
  <1>3. CASE k \in Extended
    <2>1. Codes(kind, k, nth, lower)
             = <<Sent("E0", CapsLock, Len(typed), caps), Sent(kind, KeyOf(k), nth, lower)>>
          BY <1>3 DEF Codes, KeyOf
    <2> QED  BY <1>1, <1>2, <1>3, <2>1
  <1>4. CASE k \notin Extended
    <2>1. Codes(kind, k, nth, lower) = <<Sent(kind, KeyOf(k), nth, lower)>>
          BY <1>4 DEF Codes, KeyOf
    <2> QED  BY <1>1, <1>4, <2>1
  <1> QED  BY <1>3, <1>4

LEMMA KeySends ==
    ASSUME TypeOK, TypeOK', NEW k \in Keys, NEW kind \in {"make", "break"},
           NEW nth \in Nat, nth = Len(typed'), NEW lower \in BOOLEAN, lower = caps',
           Send(Codes(kind, k, nth, lower)),
           caps' = (caps # (kind = "break" /\ k = CapsLock)),
           NEW z, z = Sent(kind, KeyOf(k), nth, lower)
    PROVE  /\ Sends(z)
           /\ Len(queue') = Len(queue) + 1 <=> k \notin Extended
  <1>1. PICK c \in Seq(Byte) : c = Codes(kind, k, nth, lower)
        BY CodesFacts
  <1>2. IF k \in Extended
        THEN Len(c) = 2 /\ c[1] = Sent("E0", CapsLock, Len(typed), caps) /\ c[2] = z
        ELSE Len(c) = 1 /\ c[1] = z
    <2>1. CASE k \in Extended  BY <1>1, <2>1, CodesFacts
    <2>2. CASE k \notin Extended  BY <1>1, <2>2, CodesFacts
    <2> QED  BY <2>1, <2>2
  <1>3. /\ Len(queue') = Len(queue) + Len(c)
        /\ \A n \in 0 .. Len(queue) : wire'[n] = wire[n]
        /\ \A n \in 1 .. Len(c) : wire'[Len(queue) + n] = c[n]
        BY <1>1, SendWire
  <1>4. KeyOf(k) \in InArray \cup Wild /\ (KeyOf(k) = CapsLock <=> k = CapsLock)
        BY KeyOfFacts
  <1>5. /\ z \in Byte /\ z.kind = kind /\ z.key = KeyOf(k)
        /\ z.nth = nth /\ z.lower = lower
        BY <1>4 DEF Sent, Byte
  <1>6. UNCHANGED <<port, pc, state, flushed>>  BY DEF Send
  <1>7. Len(queue) \in Nat  BY WireFacts
  <1>8. CASE k \in Extended
    <2>1. /\ wire'[Len(queue) + 1] = Sent("E0", CapsLock, Len(typed), caps)
          /\ wire'[Len(queue) + 2] = z /\ Len(queue') = Len(queue) + 2
      <3>1. Len(c) = 2 /\ 1 \in 1 .. Len(c) /\ 2 \in 1 .. Len(c)  BY <1>2, <1>8
      <3> QED  BY <1>2, <1>3, <1>8, <3>1
    <2> QED  BY <1>3, <1>4, <1>5, <1>6, <1>7, <1>8, <2>1 DEF Sends
  <1>9. CASE k \notin Extended
    <2>1. wire'[Len(queue) + 1] = z /\ Len(queue') = Len(queue) + 1
      <3>1. Len(c) = 1 /\ 1 \in 1 .. Len(c)  BY <1>2, <1>9
      <3> QED  BY <1>2, <1>3, <1>9, <3>1
    <2> QED  BY <1>3, <1>4, <1>5, <1>6, <1>7, <1>9, <2>1 DEF Sends
  <1> QED  BY <1>8, <1>9

LEMMA DownInv ==
    ASSUME Inv, TypeOK', NEW k \in Keys, Down(k)
    PROVE  Inv'
  <1>1. /\ typed' = typed /\ caps' = caps /\ caps \in BOOLEAN
        /\ down' = down \cup {k} /\ mixed' = mixed \cup Twin(k)
        /\ TypeOK
        BY DEF Down, Inv, TypeOK
  <1>2. PICK nth, lower, z :
           /\ nth \in Nat /\ lower \in BOOLEAN /\ nth = Len(typed')
           /\ lower = caps' /\ z = Sent("make", KeyOf(k), nth, lower)
        BY LenProperties DEF TypeOK
  <1>3. z.kind = "make" /\ z.key = KeyOf(k)  BY <1>2 DEF Sent
  <1>4. Sends(z) /\ (Len(queue') = Len(queue) + 1 <=> k \notin Extended)
        BY <1>1, <1>2, KeySends DEF Down
  <1>5. Records(z)  BY <1>1, <1>3 DEF Records
  <1>6. Presses(z)  BY <1>1, <1>3, <1>4, KeyOfFacts DEF Presses
  <1> QED  BY <1>4, <1>5, <1>6, SendInv

LEMMA RepeatInv ==
    ASSUME Inv, TypeOK', NEW k \in Keys, Repeat(k)
    PROVE  Inv'
  <1>1. /\ typed' = typed /\ caps' = caps /\ caps \in BOOLEAN
        /\ down' = down /\ mixed' = mixed \cup Twin(k)
        /\ TypeOK
        BY DEF Repeat, Inv, TypeOK
  <1>2. PICK nth, lower, z :
           /\ nth \in Nat /\ lower \in BOOLEAN /\ nth = Len(typed')
           /\ lower = caps' /\ z = Sent("make", KeyOf(k), nth, lower)
        BY LenProperties DEF TypeOK
  <1>3. z.kind = "make" /\ z.key = KeyOf(k)  BY <1>2 DEF Sent
  <1>4. Sends(z)  BY <1>1, <1>2, KeySends DEF Repeat
  <1>5. Records(z)  BY <1>1, <1>3 DEF Records
  <1>6. Presses(z)  BY <1>1, <1>3 DEF Presses
  <1> QED  BY <1>4, <1>5, <1>6, SendInv

LEMMA UpInv ==
    ASSUME Inv, TypeOK', NEW k \in Keys, Up(k)
    PROVE  Inv'
  <1>1. /\ caps' = (IF k = CapsLock THEN ~ caps ELSE caps) /\ caps \in BOOLEAN
        /\ k \in down /\ down' = down \ {k} /\ mixed' = (mixed \cup Twin(k)) \ {k}
        /\ TypeOK
        BY DEF Up, Inv, TypeOK
  <1>2. PICK nth, lower, z :
           /\ nth \in Nat /\ lower \in BOOLEAN /\ nth = Len(typed')
           /\ lower = caps' /\ z = Sent("break", KeyOf(k), nth, lower)
        BY LenProperties DEF TypeOK
  <1>3. z.kind = "break" /\ z.key = KeyOf(k) /\ z.lower = caps'  BY <1>2 DEF Sent
  <1>4. Sends(z) /\ (Len(queue') = Len(queue) + 1 <=> k \notin Extended)
    <2>1. caps' = (caps # ("break" = "break" /\ k = CapsLock))  BY <1>1
    <2> QED  BY <1>1, <1>2, <2>1, KeySends DEF Up
  <1>5. typed' = IF KeyOf(k) \in Plain
                 THEN Append(typed, [key |-> KeyOf(k), lower |-> caps,
                                     sure |-> k \in Plain \ mixed])
                 ELSE typed
        BY DEF Up, KeyOf
  <1>6. /\ typed \in Seq(Stroke) /\ Len(typed) \in Nat
        /\ KeyOf(k) \in Plain => [key |-> KeyOf(k), lower |-> caps,
                                  sure |-> k \in Plain \ mixed] \in Stroke
        BY <1>1, WireFacts DEF TypeOK, Stroke
  <1>7. Records(z) /\ (KeyOf(k) \in Plain => typed'[Len(typed')].sure = (k \in Plain \ mixed))
    <2>1. CASE KeyOf(k) \in Plain
      <3>1. k # CapsLock  BY <2>1, KeyOfFacts, KeysAssumption
      <3> QED  BY <1>1, <1>3, <1>5, <1>6, <2>1, <3>1, AppendProperties DEF Records
    <2>2. CASE KeyOf(k) \notin Plain  BY <1>3, <1>5, <2>2 DEF Records
    <2> QED  BY <2>1, <2>2
  <1>8. Presses(z)
    <2>1. ASSUME z.key = CapsLock \/ (z.key \in Plain /\ typed'[Len(typed')].sure)
          PROVE  /\ Len(queue') = Len(queue) + 1
                 /\ z.key \in down /\ (z.key = CapsLock \/ z.key \in Plain \ mixed)
          BY <1>1, <1>3, <1>4, <1>7, <2>1, KeyOfFacts
    <2>2. ASSUME NEW j \in down', j = CapsLock \/ j \in Plain \ mixed'
          PROVE  /\ z.key # j
                 /\ j \in down /\ (j = CapsLock \/ j \in Plain \ mixed)
      <3>1. j \in down /\ j # k  BY <1>1, <2>2
      <3>2. j = CapsLock \/ j \in Plain \ (mixed \cup Twin(k))  BY <1>1, <2>2, <3>1
      <3>3. KeyOf(k) # j  BY <3>1, <3>2, KeyOfFacts
      <3> QED  BY <1>3, <3>1, <3>2, <3>3
    <2> QED  BY <2>1, <2>2 DEF Presses
  <1> QED  BY <1>4, <1>7, <1>8, SendInv

LEMMA AnswerInv ==
    ASSUME Inv, TypeOK', Answer
    PROVE  Inv'
  <1>1. /\ typed' = typed /\ caps' = caps /\ caps \in BOOLEAN
        /\ down' = down /\ mixed' = mixed /\ TypeOK
        BY DEF Answer, human, Inv, TypeOK
  <1>2. PICK z : z = Sent("other", CapsLock, Len(typed), caps)  OBVIOUS
  <1>3. /\ z \in Byte /\ z.kind = "other" /\ z.key = CapsLock
        /\ z.nth = Len(typed) /\ z.lower = caps
        BY <1>1, <1>2, WireFacts, SentIsByte
  <1>4. PICK c \in Seq(Byte) : c = <<z>> /\ Len(c) = 1 /\ c[1] = z
    <2>1. <<z>> \in Seq(Byte) /\ Len(<<z>>) = 1 /\ <<z>>[1] = z  BY <1>3
    <2> QED  BY <2>1
  <1>5. Send(c)  BY <1>2, <1>4 DEF Answer
  <1>6. /\ Len(queue') = Len(queue) + 1 /\ wire'[Len(queue) + 1] = z
        /\ \A n \in 0 .. Len(queue) : wire'[n] = wire[n]
    <2>1. 1 \in 1 .. Len(c)  BY <1>4
    <2> QED  BY <1>1, <1>4, <1>5, <2>1, SendWire
  <1>7. UNCHANGED <<port, pc, state, flushed>>  BY <1>5 DEF Send
  <1>8. Sends(z)  BY <1>1, <1>3, <1>6, <1>7, WireFacts DEF Sends
  <1>9. Records(z)  BY <1>1, <1>3 DEF Records
  <1>10. Presses(z)  BY <1>1, <1>3 DEF Presses
  <1> QED  BY <1>8, <1>9, <1>10, SendInv

-----------------------------------------------------------------------------
(* What getch makes of a code b.                                           *)
Breaking(b, k) == b.kind = "break" /\ b.key = k

Returns(b) ==
    /\ b.kind = "break" /\ b.key \in Plain /\ ~ is_press[b.key]
    /\ got' = Append(got, [key |-> b.key, lower |-> kb_shift])

LEMMA HandleType ==
    ASSUME TypeOK, NEW b \in Byte, Handle(b)
    PROVE  /\ pc' \in {"idle", "poll", "extended"}
           /\ is_press' \in [InArray -> BOOLEAN]
           /\ kb_shift' \in BOOLEAN /\ saved' \in BOOLEAN /\ stray' \in BOOLEAN
           /\ got' \in Seq(Char)
  <1>1. /\ pc \in {"idle", "poll", "extended"}
        /\ is_press \in [InArray -> BOOLEAN]
        /\ kb_shift \in BOOLEAN /\ saved \in BOOLEAN /\ stray \in BOOLEAN
        /\ got \in Seq(Char)
        BY DEF TypeOK
  <1>2. CASE AfterE0(b)  BY <1>1, <1>2 DEF AfterE0, state
  <1>3. CASE Prefix(b)  BY <1>1, <1>3 DEF Prefix, state
  <1>4. CASE KeyInArray(b)
    <2>1. b.key \in InArray /\ saved' = saved /\ stray' = stray
          BY <1>4 DEF KeyInArray
    <2>2. is_press' \in [InArray -> BOOLEAN]  BY <1>1, <1>4 DEF KeyInArray
    <2>3. pc' \in {"idle", "poll", "extended"} /\ kb_shift' \in BOOLEAN
          BY <1>1, <1>4 DEF KeyInArray
    <2>4. got' \in Seq(Char)
      <3>1. CASE got' = got  BY <1>1, <3>1
      <3>2. CASE got' # got
        <4>1. b.key \in Plain /\ got' = Append(got, [key |-> b.key, lower |-> kb_shift])
              BY <1>4, <3>2 DEF KeyInArray, InArray
        <4>2. [key |-> b.key, lower |-> kb_shift] \in Char  BY <1>1, <4>1 DEF Char
        <4> QED  BY <1>1, <4>1, <4>2, AppendProperties
      <3> QED  BY <3>1, <3>2
    <2> QED  BY <1>1, <2>1, <2>2, <2>3, <2>4
  <1>5. CASE KeyOutside(b)
    <2>1. CASE UNCHANGED <<pc, state>>  BY <1>1, <2>1 DEF state
    <2>2. CASE stray' # stray \/ ~ UNCHANGED <<pc, state>>
      <3>1. stray' = TRUE /\ is_press' = is_press /\ got' = got
            BY <1>5, <2>2 DEF KeyOutside, state
      <3>2. PICK hit \in {"nothing", "_kb_shift", "_last_saved_ch"} :
               LET up == b.kind = "break"
                   case == IF hit = "_kb_shift" THEN up ELSE kb_shift
               IN /\ saved' = IF hit = "_last_saved_ch" THEN up ELSE saved
                  /\ kb_shift' = IF up /\ b.key \in Shifts THEN ~ case ELSE case
                  /\ pc' = IF up /\ b.key \in Functions THEN "idle" ELSE "poll"
            BY <1>5, <2>2 DEF KeyOutside, state
      <3>3. saved' \in BOOLEAN  BY <1>1, <3>2
      <3>4. kb_shift' \in BOOLEAN  BY <1>1, <3>2
      <3>5. pc' \in {"idle", "poll", "extended"}  BY <3>2
      <3> QED  BY <1>1, <3>1, <3>3, <3>4, <3>5
    <2> QED  BY <2>1, <2>2
  <1> QED  BY <1>2, <1>3, <1>4, <1>5 DEF Handle

(* is_press says which key is released: a make code that is a key of its   *)
(* own clears it, a break code sets it, and nothing else touches it.       *)
LEMMA HandlePress ==
    ASSUME TypeOK, NEW b \in Byte, Handle(b), NEW k \in InArray
    PROVE  /\ ~ is_press[k] /\ ~ Breaking(b, k) => ~ is_press'[k]
           /\ pc # "extended" /\ b.kind = "make" /\ b.key = k => ~ is_press'[k]
           /\ pc # "extended" /\ Breaking(b, k) => is_press'[k]
           /\ is_press[k] /\ Breaking(b, k) => is_press'[k]
           /\ is_press[k] /\ b.key # k => is_press'[k]
  <1>1. is_press \in [InArray -> BOOLEAN]  BY DEF TypeOK
  <1>2. CASE AfterE0(b)  BY <1>2 DEF AfterE0, state
  <1>3. CASE Prefix(b)  BY <1>3 DEF Prefix, state, Breaking
  <1>4. CASE KeyInArray(b)  BY <1>1, <1>4 DEF KeyInArray, Changes, Breaking
  <1>5. CASE KeyOutside(b)
    <2>1. b.key # k  BY <1>5, KeysAssumption DEF KeyOutside, InArray, Wild
    <2>2. is_press' = is_press  BY <1>5 DEF KeyOutside, state
    <2>3. b.kind = "make" \/ b.kind = "break"  BY <1>5 DEF KeyOutside
    <2> QED  BY <2>1, <2>2, <2>3 DEF Breaking
  <1> QED  BY <1>2, <1>3, <1>4, <1>5 DEF Handle

(* A char is returned, and the case changes, when a break code of its own  *)
(* finds the key pressed.                                                  *)
LEMMA HandleReturns ==
    ASSUME TypeOK, NEW b \in Byte, Handle(b)
    PROVE  /\ got' = got \/ (pc # "extended" /\ Returns(b))
           /\ pc # "extended" /\ b.kind = "break" /\ b.key \in Plain /\ ~ is_press[b.key]
                 => Returns(b)
           /\ pc' = "extended" => b.kind = "E0"
           /\ stray => stray'
           /\ ~ stray' =>
                 kb_shift' = IF /\ pc # "extended" /\ Breaking(b, CapsLock)
                                /\ ~ is_press[CapsLock]
                             THEN ~ kb_shift ELSE kb_shift
  <1>1. is_press \in [InArray -> BOOLEAN] /\ pc \in {"idle", "poll", "extended"}
        BY DEF TypeOK
  <1>2. CapsLock \notin Plain /\ CapsLock \notin Wild /\ Plain \cap Wild = {}
        /\ CapsLock \in InArray
        BY KeysAssumption DEF Wild, InArray
  <1>3. CASE AfterE0(b)  BY <1>3 DEF AfterE0, state
  <1>4. CASE Prefix(b)  BY <1>4 DEF Prefix, state, Breaking
  <1>5. CASE KeyInArray(b)
    <2>1. /\ pc = "poll" /\ b.kind \in {"make", "break"} /\ b.key \in InArray
          /\ saved' = saved /\ stray' = stray
          BY <1>5 DEF KeyInArray
    <2>2. CASE ~ Changes(b)
      <3>1. pc' = pc /\ kb_shift' = kb_shift /\ got' = got  BY <1>5, <2>2 DEF KeyInArray
      <3>2. b.kind = "break" => is_press[b.key]  BY <1>1, <2>1, <2>2 DEF Changes
      <3> QED  BY <2>1, <3>1, <3>2 DEF Breaking
    <2>3. CASE Changes(b) /\ b.kind = "make"
          BY <1>5, <2>1, <2>3 DEF KeyInArray, Breaking
    <2>4. CASE Changes(b) /\ b.kind = "break" /\ b.key = CapsLock
      <3>1. ~ is_press[CapsLock]  BY <1>1, <1>2, <2>4 DEF Changes
      <3>2. kb_shift' = ~ kb_shift /\ pc' = pc /\ got' = got
            BY <1>5, <2>4 DEF KeyInArray
      <3> QED  BY <1>2, <2>1, <2>4, <3>1, <3>2 DEF Breaking
    <2>5. CASE Changes(b) /\ b.kind = "break" /\ b.key # CapsLock
      <3>1. ~ is_press[b.key] /\ b.key \in Plain
            BY <1>1, <2>1, <2>5 DEF Changes, InArray
      <3>2. /\ pc' = "idle" /\ kb_shift' = kb_shift
            /\ got' = Append(got, [key |-> b.key, lower |-> kb_shift])
            BY <1>5, <2>5 DEF KeyInArray
      <3> QED  BY <2>1, <2>5, <3>1, <3>2 DEF Breaking, Returns
    <2> QED  BY <2>1, <2>2, <2>3, <2>4, <2>5
  <1>6. CASE KeyOutside(b)
    <2>1. b.key \in Wild /\ got' = got  BY <1>6 DEF KeyOutside, state
    <2>2. ~ stray' => UNCHANGED <<pc, state>>  BY <1>6 DEF KeyOutside
    <2>3. stray => stray'  BY <1>6 DEF KeyOutside, state
    <2>4. pc = "poll" /\ pc' # "extended"  BY <1>6 DEF KeyOutside
    <2> QED  BY <1>2, <2>1, <2>2, <2>3, <2>4 DEF Breaking, state
  <1> QED  BY <1>3, <1>4, <1>5, <1>6 DEF Handle

-----------------------------------------------------------------------------
(* Reading the next code moves the others up by one.                       *)
LEMMA ReadShift ==
    ASSUME TypeOK, Arrives, UNCHANGED human
    PROVE  /\ Len(queue) \in Nat /\ Len(queue) >= 1 /\ Len(queue') = Len(queue) - 1
           /\ typed' = typed /\ caps' = caps /\ down' = down /\ mixed' = mixed
           /\ port' = wire[1] /\ wire[1] \in Byte
           /\ \A n \in 0 .. Len(queue') :
                 /\ n + 1 \in 1 .. Len(queue) /\ wire'[n] = wire[n + 1]
                 /\ IsUp(n)' <=> IsUp(n + 1)
                 /\ \A k : (Breaks(n, k)' <=> Breaks(n + 1, k))
                           /\ (Makes(n, k)' <=> Makes(n + 1, k))
           /\ \A n \in 1 .. Len(queue') : Proper(n)' <=> Proper(n + 1)
  <1>1. /\ Len(queue) \in Nat /\ Len(queue) >= 1 /\ Len(queue') = Len(queue) - 1
        /\ port' = wire[1] /\ wire[1] \in Byte
        BY ReadWire, WireFacts
  <1>2. \A n \in 0 .. Len(queue') : n + 1 \in 1 .. Len(queue) /\ wire'[n] = wire[n + 1]
        BY <1>1, ReadWire
  <1>3. \A n \in 0 .. Len(queue') :
           /\ IsUp(n)' <=> IsUp(n + 1)
           /\ \A k : (Breaks(n, k)' <=> Breaks(n + 1, k))
                     /\ (Makes(n, k)' <=> Makes(n + 1, k))
        BY <1>2 DEF IsUp, Breaks, Makes
  <1>4. ASSUME NEW n \in 1 .. Len(queue')  PROVE Proper(n)' <=> Proper(n + 1)
    <2>1. n - 1 \in 0 .. Len(queue') /\ (n - 1) + 1 = n /\ (n + 1) - 1 = n  BY <1>1
    <2>2. wire'[n - 1] = wire[n]  BY <1>2, <2>1
    <2> QED  BY <2>1, <2>2 DEF Proper
  <1> QED  BY <1>1, <1>2, <1>3, <1>4 DEF human

LEMMA ReadQueueOK ==
    ASSUME TypeOK, NthOK, StrokesOK, PendingOK, CaseOK, WholeOK,
           Arrives, UNCHANGED human
    PROVE  NthOK' /\ StrokesOK' /\ PendingOK' /\ CaseOK' /\ WholeOK'
  <1>1. NthOK'
    <2>1. \A n \in 0 .. Len(queue') : wire'[n].nth <= Len(typed')
          BY ReadShift DEF NthOK
    <2>2. ASSUME NEW m \in 0 .. Len(queue'), NEW n \in 0 .. Len(queue'), m < n
          PROVE  /\ wire'[m].nth <= wire'[n].nth
                 /\ IsUp(n)' => wire'[m].nth < wire'[n].nth
      <3>1. m + 1 \in 0 .. Len(queue) /\ n + 1 \in 0 .. Len(queue) /\ m + 1 < n + 1
            BY <2>2, ReadShift
      <3>2. /\ wire'[m] = wire[m + 1] /\ wire'[n] = wire[n + 1]
            /\ IsUp(n)' <=> IsUp(n + 1)
            BY <2>2, ReadShift
      <3> QED  BY <3>1, <3>2 DEF NthOK
    <2> QED  BY <2>1, <2>2 DEF NthOK
  <1>2. StrokesOK'
    <2>1. ASSUME NEW n \in 0 .. Len(queue'), IsUp(n)'
          PROVE  /\ wire'[n].nth >= 1
                 /\ typed'[wire'[n].nth].key = wire'[n].key
                 /\ typed'[wire'[n].nth].lower = wire'[n].lower
          BY <2>1, ReadShift DEF StrokesOK
    <2> QED  BY <2>1 DEF StrokesOK
  <1>3. PendingOK'
    <2>1. SUFFICES ASSUME NEW s \in port'.nth + 1 .. Len(typed')
                   PROVE  \E n \in 1 .. Len(queue') : IsUp(n)' /\ wire'[n].nth = s
          BY DEF PendingOK
    <2>2. /\ wire[1].nth \in Nat /\ wire[0].nth \in Nat /\ port = wire[0]
          /\ port' = wire[1] /\ typed' = typed /\ Len(typed) \in Nat
          /\ 1 \in 1 .. Len(queue)
          BY WireFacts, ByteFacts, ReadShift
    <2>3. port.nth <= wire[1].nth  BY <2>2, ReadShift DEF NthOK
    <2>4. PICK n \in 1 .. Len(queue) : IsUp(n) /\ wire[n].nth = s
          BY <2>1, <2>2, <2>3 DEF PendingOK
    <2>5. n # 1  BY <2>1, <2>2, <2>4
    <2>6. n - 1 \in 1 .. Len(queue') /\ (n - 1) + 1 = n /\ n - 1 \in 0 .. Len(queue')
          BY <2>4, <2>5, ReadShift
    <2>7. IsUp(n - 1)' /\ wire'[n - 1].nth = s
      <3>1. PICK m \in 0 .. Len(queue') : m = n - 1 /\ m + 1 = n  BY <2>6
      <3>2. wire'[m] = wire[n] /\ (IsUp(m)' <=> IsUp(n))  BY <3>1, ReadShift
      <3> QED  BY <2>4, <3>1, <3>2
    <2> QED  BY <2>6, <2>7
  <1>4. CaseOK'
    <2>1. ASSUME NEW n \in 1 .. Len(queue')
          PROVE  wire'[n].lower = (wire'[n - 1].lower # Breaks(n, CapsLock)')
      <3>1. n \in 0 .. Len(queue') /\ n - 1 \in 0 .. Len(queue') /\ (n - 1) + 1 = n
            BY <2>1, ReadShift
      <3>2. /\ wire'[n] = wire[n + 1] /\ wire'[n - 1] = wire[n]
            /\ n + 1 \in 1 .. Len(queue) /\ (n + 1) - 1 = n
            BY <3>1, ReadShift
      <3>3. wire[n + 1].lower = (wire[n].lower # Breaks(n + 1, CapsLock))
            BY <3>2 DEF CaseOK
      <3> QED  BY <3>2, <3>3 DEF Breaks
    <2>2. caps' = wire'[Len(queue')].lower
      <3>1. Len(queue') \in 0 .. Len(queue') /\ Len(queue') + 1 = Len(queue)
            BY ReadShift
      <3> QED  BY <3>1, ReadShift DEF CaseOK
    <2> QED  BY <2>1, <2>2 DEF CaseOK
  <1>5. WholeOK'
    <2>1. Len(queue') \in 0 .. Len(queue') /\ Len(queue') + 1 = Len(queue)
          BY ReadShift
    <2> QED  BY <2>1, ReadShift DEF WholeOK
  <1> QED  BY <1>1, <1>2, <1>3, <1>4, <1>5

-----------------------------------------------------------------------------
(* A code that must count finds getch outside of an 0xE0 and its key       *)
(* pressed.                                                                *)
LEMMA CountsWhenRead ==
    ASSUME TypeOK, ArmedOK, Len(queue) >= 1, NEW k \in InArray, MustCount(1, k)
    PROVE  pc # "extended" /\ ~ is_press[k] /\ Breaking(wire[1], k)
  <1>1. Len(queue) \in Nat /\ wire[0] = port  BY WireFacts
  <1>2. Proper(1) /\ Armed(k, 1)  BY <1>1 DEF ArmedOK
  <1>3. pc # "extended"  BY <1>1, <1>2 DEF Proper, ArmedOK
  <1>4. ~ is_press[k]  BY <1>2 DEF Armed
  <1> QED  BY <1>3, <1>4 DEF MustCount, Breaks, Breaking

LEMMA PollNextArmed ==
    ASSUME TypeOK, ArmedOK, PollNext,
           NEW k \in InArray, NEW n \in 1 .. Len(queue), Armed(k, n + 1)
    PROVE  Armed(k, n)'
  <1>1. Arrives /\ UNCHANGED human /\ Handle(wire[1])  BY ReadWire DEF PollNext
  <1>2. /\ Len(queue) \in Nat /\ Len(queue) >= 1 /\ Len(queue') = Len(queue) - 1
        /\ wire[1] \in Byte /\ wire[0] = port
        BY <1>1, ReadShift, WireFacts
  <1>3. \A l \in 0 .. n - 1 : Breaks(l, k)' <=> Breaks(l + 1, k)
        BY <1>1, <1>2, ReadShift
  <1>4. ASSUME NEW m \in 1 .. n, Makes(m, k), Proper(m),
               \A l \in m + 1 .. n : ~ Breaks(l, k), m > 1
        PROVE  Armed(k, n)'
    <2>1. PICK i \in 1 .. n - 1 : i + 1 = m /\ i \in 0 .. Len(queue') /\ i \in 1 .. Len(queue')
      <3>1. m - 1 \in 1 .. n - 1 /\ (m - 1) + 1 = m /\ m - 1 \in 1 .. Len(queue')
            BY <1>2, <1>4
      <3> QED  BY <3>1
    <2>2. Makes(i, k)' /\ Proper(i)'  BY <1>1, <1>4, <2>1, ReadShift
    <2>3. \A l \in i + 1 .. n - 1 : ~ Breaks(l, k)'  BY <1>3, <1>4, <2>1
    <2> QED  BY <2>2, <2>3 DEF Armed
  <1>5. ASSUME Makes(1, k), Proper(1), \A l \in 2 .. n : ~ Breaks(l, k)
        PROVE  Armed(k, n)'
    <2>1. pc # "extended"  BY <1>2, <1>5 DEF Proper, ArmedOK
    <2>2. ~ is_press'[k]  BY <1>1, <1>2, <1>5, <2>1, HandlePress DEF Makes
    <2>3. ~ Breaks(1, k)  BY <1>5 DEF Makes, Breaks
    <2>4. \A l \in 0 .. n - 1 : ~ Breaks(l, k)'
      <3>1. TAKE l \in 0 .. n - 1
      <3>2. l + 1 = 1 \/ l + 1 \in 2 .. n  BY <3>1
      <3> QED  BY <1>3, <1>5, <2>3, <3>1, <3>2
    <2> QED  BY <2>2, <2>4 DEF Armed
  <1>6. ASSUME ~ is_press[k], \A l \in 0 .. n : ~ Breaks(l, k)
        PROVE  Armed(k, n)'
    <2>1. ~ Breaking(wire[1], k)  BY <1>6 DEF Breaks, Breaking
    <2>2. ~ is_press'[k]  BY <1>1, <1>2, <1>6, <2>1, HandlePress
    <2>3. \A l \in 0 .. n - 1 : ~ Breaks(l, k)'  BY <1>3, <1>6
    <2> QED  BY <2>2, <2>3 DEF Armed
  <1>7. (n + 1) - 1 = n  OBVIOUS
  <1>8. \/ \E m \in 1 .. n :
              /\ Makes(m, k) /\ Proper(m)
              /\ \A l \in m + 1 .. n : ~ Breaks(l, k)
        \/ ~ is_press[k] /\ \A l \in 0 .. n : ~ Breaks(l, k)
        BY <1>7 DEF Armed
  <1> QED  BY <1>4, <1>5, <1>6, <1>8

LEMMA PollNextArmedOK ==
    ASSUME TypeOK, ArmedOK, PollNext
    PROVE  ArmedOK'
  <1>1. Arrives /\ UNCHANGED human /\ Handle(wire[1])  BY ReadWire DEF PollNext
  <1>2. /\ Len(queue) \in Nat /\ Len(queue) >= 1 /\ Len(queue') = Len(queue) - 1
        /\ wire[1] \in Byte /\ port' = wire[1]
        /\ typed' = typed /\ down' = down /\ mixed' = mixed
        BY <1>1, ReadShift
  <1>3. pc' = "extended" => port'.kind = "E0"  BY <1>1, <1>2, HandleReturns
  <1>4. ASSUME NEW n \in 1 .. Len(queue'), NEW k \in InArray, MustCount(n, k)'
        PROVE  Proper(n)' /\ Armed(k, n)'
    <2>1. n \in 0 .. Len(queue') /\ n + 1 \in 1 .. Len(queue) /\ n \in 1 .. Len(queue)
          BY <1>2
    <2>2. wire'[n] = wire[n + 1] /\ (Breaks(n, k)' <=> Breaks(n + 1, k))
          BY <1>1, <2>1, ReadShift
    <2>3. MustCount(n + 1, k)  BY <1>2, <1>4, <2>2 DEF MustCount
    <2>4. Proper(n + 1) /\ Armed(k, n + 1)  BY <2>1, <2>3 DEF ArmedOK
    <2> QED  BY <1>1, <2>1, <2>4, ReadShift, PollNextArmed
  <1>5. ASSUME NEW k \in down', k = CapsLock \/ k \in Plain \ mixed',
               NEW n \in {Len(queue') + 1}
        PROVE  Armed(k, n)'
    <2>1. n \in 1 .. Len(queue) /\ n + 1 = Len(queue) + 1  BY <1>2, <1>5
    <2>2. Armed(k, n + 1)  BY <1>2, <1>5, <2>1 DEF ArmedOK
    <2> QED  BY <1>5, <2>1, <2>2, PollNextArmed DEF InArray
  <1>6. ASSUME Breaks(0, CapsLock)'  PROVE is_press'[CapsLock]
    <2>1. 0 \in 0 .. Len(queue') /\ 0 + 1 = 1  BY <1>2
    <2>2. Breaks(1, CapsLock)  BY <1>1, <1>6, <2>1, ReadShift
    <2>3. MustCount(1, CapsLock) /\ CapsLock \in InArray  BY <2>2 DEF MustCount, InArray
    <2>4. pc # "extended" /\ Breaking(wire[1], CapsLock)  BY <1>2, <2>3, CountsWhenRead
    <2> QED  BY <1>1, <1>2, <2>3, <2>4, HandlePress
  <1> QED  BY <1>3, <1>4, <1>5, <1>6 DEF ArmedOK

LEMMA PollNextShiftOK ==
    ASSUME TypeOK, CaseOK, ~ flushed => ArmedOK, ShiftOK, PollNext
    PROVE  ShiftOK'
  <1>1. Arrives /\ UNCHANGED human /\ Handle(wire[1]) /\ flushed' = flushed
        BY ReadWire DEF PollNext
  <1>2. /\ Len(queue) \in Nat /\ Len(queue) >= 1 /\ wire[0] = port
        /\ wire[1] \in Byte /\ port' = wire[1] /\ port \in Byte
        BY <1>1, ReadShift, WireFacts DEF TypeOK
  <1>3. SUFFICES ASSUME ~ flushed', ~ stray'  PROVE kb_shift' = port'.lower
        BY DEF ShiftOK
  <1>4. ~ flushed /\ ~ stray /\ ArmedOK  BY <1>1, <1>2, <1>3, HandleReturns
  <1>5. kb_shift = port.lower  BY <1>4 DEF ShiftOK
  <1>6. 1 \in 1 .. Len(queue) /\ 1 - 1 = 0  BY <1>2
  <1>7. wire[1].lower = (port.lower # Breaks(1, CapsLock))  BY <1>2, <1>6 DEF CaseOK
  <1>8. port.lower \in BOOLEAN /\ kb_shift \in BOOLEAN  BY <1>2, ByteFacts DEF TypeOK
  <1>9. CASE Breaks(1, CapsLock)
    <2>1. MustCount(1, CapsLock) /\ CapsLock \in InArray  BY <1>9 DEF MustCount, InArray
    <2>2. pc # "extended" /\ ~ is_press[CapsLock] /\ Breaking(wire[1], CapsLock)
          BY <1>2, <1>4, <2>1, CountsWhenRead
    <2>3. kb_shift' = ~ kb_shift  BY <1>1, <1>2, <1>3, <2>2, HandleReturns
    <2>4. wire[1].lower = ~ port.lower  BY <1>7, <1>8, <1>9
    <2> QED  BY <1>2, <1>5, <2>3, <2>4
  <1>10. CASE ~ Breaks(1, CapsLock)
    <2>1. ~ Breaking(wire[1], CapsLock)  BY <1>10 DEF Breaks, Breaking
    <2>2. kb_shift' = kb_shift  BY <1>1, <1>2, <1>3, <2>1, HandleReturns
    <2>3. wire[1].lower = port.lower  BY <1>7, <1>8, <1>10 DEF Breaks
    <2> QED  BY <1>2, <1>5, <2>2, <2>3
  <1> QED  BY <1>9, <1>10

-----------------------------------------------------------------------------
(* The next code is of a later stroke than every char that was returned.   *)
LEMMA NextStroke ==
    ASSUME TypeOK, NthOK, PendingOK, Arrives, UNCHANGED human
    PROVE  /\ wire[1] \in Byte /\ port' = wire[1] /\ typed' = typed
           /\ port.nth \in Nat /\ wire[1].nth \in Nat /\ port.nth <= wire[1].nth
           /\ Len(typed) \in Nat /\ wire[1].nth <= Len(typed)
           /\ Read \subseteq Read'
           /\ IsUp(0)' <=> IsUp(1)
           /\ IsUp(1) => port.nth < wire[1].nth
           /\ \A s \in Read' : s \in Read \/ (s = wire[1].nth /\ IsUp(1))
  <1>1. /\ wire[1] \in Byte /\ port' = wire[1] /\ typed' = typed /\ wire[0] = port
        /\ Len(queue) \in Nat /\ Len(queue) >= 1 /\ Len(typed) \in Nat
        BY ReadShift, WireFacts
  <1>2. port.nth \in Nat /\ wire[1].nth \in Nat  BY <1>1, ByteFacts DEF TypeOK
  <1>3. /\ port.nth <= wire[1].nth /\ wire[1].nth <= Len(typed)
        /\ IsUp(1) => port.nth < wire[1].nth
        BY <1>1 DEF NthOK
  <1>4. Read \subseteq Read'  BY <1>1, <1>2, <1>3 DEF Read
  <1>5. IsUp(0)' <=> IsUp(1)
    <2>1. 0 \in 0 .. Len(queue') /\ 0 + 1 = 1  BY <1>1, ReadShift
    <2> QED  BY <2>1, ReadShift
  <1>6. ASSUME NEW s \in Read', s \notin Read
        PROVE  s = wire[1].nth /\ IsUp(1)
    <2>1. s \in port.nth + 1 .. Len(typed) /\ s <= wire[1].nth
          BY <1>1, <1>2, <1>3, <1>6 DEF Read
    <2>2. PICK n \in 1 .. Len(queue) : IsUp(n) /\ wire[n].nth = s
          BY <2>1 DEF PendingOK
    <2>3. n = 1
      <3>1. SUFFICES ASSUME 1 < n  PROVE FALSE  BY <2>2
      <3>2. wire[1].nth < wire[n].nth  BY <1>1, <2>2, <3>1 DEF NthOK
      <3> QED  BY <1>2, <2>1, <2>2, <3>2
    <2> QED  BY <2>2, <2>3
  <1> QED  BY <1>1, <1>2, <1>3, <1>4, <1>5, <1>6

(* One more char has been returned, of stroke s.                           *)
LEMMA OneMore ==
    ASSUME TypeOK, NEW at \in [DOMAIN got -> Read], Returned(at),
           NEW c \in Char, got' = Append(got, c),
           NEW s \in Read', Read \subseteq Read',
           \A n \in DOMAIN got : at[n] < s
    PROVE  \E next \in [DOMAIN got' -> Read'] :
              /\ DOMAIN got' = DOMAIN got \cup {Len(got) + 1}
              /\ \A n \in DOMAIN got : next[n] = at[n] /\ got'[n] = got[n]
              /\ next[Len(got) + 1] = s /\ got'[Len(got) + 1] = c
              /\ \A m, n \in DOMAIN got' : m < n => next[m] < next[n]
  <1>1. got \in Seq(Char) /\ Len(got) \in Nat /\ DOMAIN got = 1 .. Len(got)
        BY WireFacts DEF TypeOK
  <1>2. /\ got' \in Seq(Char) /\ Len(got') = Len(got) + 1
        /\ \A n \in 1 .. Len(got) : got'[n] = got[n]
        /\ got'[Len(got) + 1] = c
        BY <1>1, AppendProperties
  <1>3. DOMAIN got' = 1 .. Len(got) + 1  BY <1>2, LenProperties
  <1>4. DOMAIN got' = DOMAIN got \cup {Len(got) + 1} /\ Len(got) + 1 \notin DOMAIN got
        BY <1>1, <1>3
  <1> DEFINE next == [n \in DOMAIN got' |-> IF n = Len(got) + 1 THEN s ELSE at[n]]
  <1>5. next \in [DOMAIN got' -> Read']  BY <1>4
  <1>6. (\A n \in DOMAIN got : next[n] = at[n]) /\ next[Len(got) + 1] = s  BY <1>4
  <1>7. ASSUME NEW m \in DOMAIN got', NEW n \in DOMAIN got', m < n
        PROVE  next[m] < next[n]
    <2>1. m \in DOMAIN got  BY <1>1, <1>3, <1>7
    <2>2. CASE n \in DOMAIN got  BY <1>6, <1>7, <2>1, <2>2 DEF Returned
    <2>3. CASE n = Len(got) + 1  BY <1>6, <2>1, <2>3
    <2> QED  BY <1>4, <2>2, <2>3
  <1> HIDE DEF next
  <1> QED  BY <1>1, <1>2, <1>4, <1>5, <1>6, <1>7

LEMMA PollNextGotOK ==
    ASSUME TypeOK, NthOK, StrokesOK, PendingOK, CaseOK, ShiftOK, ShiftOK',
           ~ flushed => ArmedOK, GotOK, PollNext
    PROVE  GotOK'
  <1>1. Arrives /\ UNCHANGED human /\ Handle(wire[1]) /\ flushed' = flushed
        BY ReadWire DEF PollNext
  <1>2. PICK at \in [DOMAIN got -> Read] : Returned(at)  BY DEF GotOK
  <1>3. /\ wire[1] \in Byte /\ port' = wire[1] /\ typed' = typed
        /\ port.nth \in Nat /\ wire[1].nth \in Nat /\ port.nth <= wire[1].nth
        /\ Read \subseteq Read' /\ (IsUp(0)' <=> IsUp(1))
        /\ IsUp(1) => port.nth < wire[1].nth
        /\ \A s \in Read' : s \in Read \/ (s = wire[1].nth /\ IsUp(1))
        BY <1>1, NextStroke
  <1>4. \A n \in DOMAIN got : at[n] \in Nat /\ at[n] <= port.nth
        BY <1>2, <1>3 DEF Read
  <1>5. IsUp(1) <=> wire[1].kind = "break" /\ wire[1].key \in Plain  BY DEF IsUp
  <1>6. Len(queue) \in Nat /\ Len(queue) >= 1  BY <1>1, ReadShift
  <1>7. ~ stray' => ~ stray  BY <1>1, <1>3, HandleReturns
  <1>8. Sure' = Sure  BY <1>3 DEF Sure
  <1>9. CASE got' = got
    <2>1. \A n \in DOMAIN got' : IsUp(1) => at[n] # wire[1].nth  BY <1>3, <1>4, <1>9
    <2>2. \A n \in DOMAIN got' :
             /\ got'[n].key = typed'[at[n]].key
             /\ ~ flushed' /\ ~ stray' => got'[n].lower = typed'[at[n]].lower
             /\ at[n] = port'.nth /\ IsUp(0)' => is_press'[port'.key]
          BY <1>1, <1>2, <1>3, <1>7, <1>9, <2>1 DEF Returned
    <2>3. ASSUME ~ flushed', NEW s \in Sure' \cap Read'
          PROVE  s \in {at[n] : n \in DOMAIN got'}
      <3>1. s \in Read
        <4>1. SUFFICES ASSUME s = wire[1].nth, IsUp(1)  PROVE FALSE  BY <1>3, <2>3
        <4>2. MustCount(1, wire[1].key) /\ wire[1].key \in InArray
              BY <1>5, <1>8, <2>3, <4>1 DEF MustCount, Breaks, Sure, InArray
        <4>3. pc # "extended" /\ ~ is_press[wire[1].key]
              BY <1>1, <1>6, <2>3, <4>2, CountsWhenRead
        <4>4. Returns(wire[1])  BY <1>1, <1>3, <1>5, <4>1, <4>3, HandleReturns
        <4>5. got' # got
          <5>1. got \in Seq(Char)  BY DEF TypeOK
          <5>2. [key |-> wire[1].key, lower |-> kb_shift] \in Char
                BY <4>4 DEF Returns, Char, TypeOK
          <5>3. Len(got') = Len(got) + 1 /\ Len(got) \in Nat
                BY <4>4, <5>1, <5>2, AppendProperties, LenProperties DEF Returns
          <5> QED  BY <5>3
        <4> QED  BY <1>9, <4>5
      <3> QED  BY <1>1, <1>2, <1>8, <1>9, <2>3, <3>1 DEF Returned
    <2>4. Returned(at)'  BY <1>2, <1>9, <2>2, <2>3 DEF Returned
    <2>5. at \in [DOMAIN got' -> Read']  BY <1>2, <1>3, <1>9
    <2> QED  BY <2>4, <2>5 DEF GotOK
  <1>10. CASE got' # got
    <2>1. pc # "extended" /\ Returns(wire[1])  BY <1>1, <1>3, <1>10, HandleReturns
    <2>2. PICK c \in Char : /\ got' = Append(got, c) /\ c.key = wire[1].key
                            /\ c.lower = kb_shift
      <3>1. [key |-> wire[1].key, lower |-> kb_shift] \in Char
            BY <2>1 DEF Returns, Char, TypeOK
      <3> QED  BY <2>1, <3>1 DEF Returns
    <2>3. IsUp(1) /\ wire[1].key \in InArray  BY <2>1 DEF IsUp, Returns, InArray
    <2>4. wire[1].nth \in Read'  BY <1>3, <2>3 DEF Read
    <2>5. PICK next \in [DOMAIN got' -> Read'] :
             /\ DOMAIN got' = DOMAIN got \cup {Len(got) + 1}
             /\ \A n \in DOMAIN got : next[n] = at[n] /\ got'[n] = got[n]
             /\ next[Len(got) + 1] = wire[1].nth /\ got'[Len(got) + 1] = c
             /\ \A m, n \in DOMAIN got' : m < n => next[m] < next[n]
      <3>1. PICK s \in Read' : s = wire[1].nth  BY <2>4
      <3>2. \A n \in DOMAIN got : at[n] < s  BY <1>3, <1>4, <2>3, <3>1
      <3>3. Read \subseteq Read' /\ got' = Append(got, c)  BY <1>3, <2>2
      <3>4. Returned(at)  BY <1>2
      <3>5. \E next \in [DOMAIN got' -> Read'] :
               /\ DOMAIN got' = DOMAIN got \cup {Len(got) + 1}
               /\ \A n \in DOMAIN got : next[n] = at[n] /\ got'[n] = got[n]
               /\ next[Len(got) + 1] = s /\ got'[Len(got) + 1] = c
               /\ \A m, n \in DOMAIN got' : m < n => next[m] < next[n]
            BY <3>2, <3>3, <3>4, OneMore
      <3> QED  BY <3>1, <3>5
    <2>6. /\ typed[wire[1].nth].key = wire[1].key
          /\ typed[wire[1].nth].lower = wire[1].lower
          BY <1>6, <2>3 DEF StrokesOK
    <2>7. ~ flushed' /\ ~ stray' => kb_shift = wire[1].lower
      <3>1. SUFFICES ASSUME ~ flushed', ~ stray'  PROVE kb_shift = wire[1].lower
            OBVIOUS
      <3>2. kb_shift = port.lower  BY <1>1, <1>7, <3>1 DEF ShiftOK
      <3>3. ~ Breaks(1, CapsLock)  BY <2>3, KeysAssumption DEF Breaks, IsUp
      <3>4. wire[1].lower = (wire[0].lower # Breaks(1, CapsLock)) /\ wire[0] = port
            BY <1>6, WireFacts DEF CaseOK
      <3>5. port.lower \in BOOLEAN  BY ByteFacts DEF TypeOK
      <3> QED  BY <3>2, <3>3, <3>4, <3>5 DEF Breaks
    <2>8. is_press'[wire[1].key]
      <3>1. Breaking(wire[1], wire[1].key)  BY <2>1 DEF Breaking, Returns
      <3> QED  BY <1>1, <1>3, <2>1, <2>3, <3>1, HandlePress
    <2>9. \A n \in DOMAIN got' :
             /\ got'[n].key = typed'[next[n]].key
             /\ ~ flushed' /\ ~ stray' => got'[n].lower = typed'[next[n]].lower
             /\ next[n] = port'.nth /\ IsUp(0)' => is_press'[port'.key]
          BY <1>1, <1>2, <1>3, <1>7, <2>2, <2>5, <2>6, <2>7, <2>8 DEF Returned
    <2>10. ASSUME ~ flushed', NEW s \in Sure' \cap Read'
           PROVE  s \in {next[n] : n \in DOMAIN got'}
      <3>1. CASE s \in Read  BY <1>1, <1>2, <1>8, <2>5, <2>10, <3>1 DEF Returned
      <3>2. CASE s = wire[1].nth  BY <2>5, <3>2
      <3> QED  BY <1>3, <2>10, <3>1, <3>2
    <2>11. Returned(next)'  BY <2>5, <2>9, <2>10 DEF Returned
    <2> QED  BY <2>11 DEF GotOK
  <1> QED  BY <1>9, <1>10

-----------------------------------------------------------------------------
(* Reading the port once more: a break code in it has counted before.      *)
LEMMA PollAgainArmed ==
    ASSUME TypeOK, PollAgain, NEW k \in InArray,
           NEW n \in 1 .. Len(queue) + 1, Armed(k, n)
    PROVE  Armed(k, n)'
  <1>1. /\ Handle(port) /\ queue' = queue /\ port' = port /\ port \in Byte
        /\ wire[0] = port
        BY WireFacts DEF PollAgain, TypeOK
  <1>2. wire' = wire  BY <1>1 DEF wire
  <1>3. ASSUME ~ is_press[k], \A l \in 0 .. n - 1 : ~ Breaks(l, k)
        PROVE  ~ is_press'[k]
    <2>1. 0 \in 0 .. n - 1  BY WireFacts
    <2>2. ~ Breaking(port, k)  BY <1>1, <1>3, <2>1 DEF Breaks, Breaking
    <2> QED  BY <1>1, <1>3, <2>2, HandlePress
  <1> QED  BY <1>2, <1>3 DEF Armed, Makes, Breaks, Proper

LEMMA PollAgainArmedOK ==
    ASSUME TypeOK, ArmedOK, PollAgain
    PROVE  ArmedOK'
  <1>1. /\ Handle(port) /\ queue' = queue /\ port' = port /\ port \in Byte
        /\ typed' = typed /\ down' = down /\ mixed' = mixed
        /\ wire[0] = port
        BY WireFacts DEF PollAgain, TypeOK, human
  <1>2. wire' = wire  BY <1>1 DEF wire
  <1>3. pc' = "extended" => port'.kind = "E0"  BY <1>1, HandleReturns
  <1>4. Len(queue) \in Nat  BY WireFacts
  <1>5. ASSUME NEW n \in 1 .. Len(queue'), NEW k \in InArray, MustCount(n, k)'
        PROVE  Proper(n)' /\ Armed(k, n)'
    <2>1. MustCount(n, k)  BY <1>1, <1>2, <1>5 DEF MustCount, Breaks
    <2>2. Proper(n) /\ Armed(k, n)  BY <1>1, <1>5, <2>1 DEF ArmedOK
    <2>3. Proper(n)'  BY <1>2, <2>2 DEF Proper
    <2> QED  BY <1>1, <1>4, <1>5, <2>2, <2>3, PollAgainArmed
  <1>6. ASSUME NEW k \in down', k = CapsLock \/ k \in Plain \ mixed',
               NEW n \in {Len(queue') + 1}
        PROVE  Armed(k, n)'
    <2>1. /\ k \in down /\ (k = CapsLock \/ k \in Plain \ mixed) /\ k \in InArray
          /\ n \in {Len(queue) + 1} /\ n \in 1 .. Len(queue) + 1
          BY <1>1, <1>4, <1>6 DEF InArray
    <2>2. Armed(k, n)  BY <2>1 DEF ArmedOK
    <2> QED  BY <2>1, <2>2, PollAgainArmed
  <1>7. ASSUME Breaks(0, CapsLock)'  PROVE is_press'[CapsLock]
    <2>1. Breaks(0, CapsLock)  BY <1>2, <1>7 DEF Breaks
    <2>2. is_press[CapsLock] /\ Breaking(port, CapsLock)
          BY <1>1, <2>1 DEF ArmedOK, Breaks, Breaking
    <2> QED  BY <1>1, <2>2, HandlePress DEF InArray
  <1> QED  BY <1>3, <1>5, <1>6, <1>7 DEF ArmedOK

LEMMA PollAgainShiftOK ==
    ASSUME TypeOK, ~ flushed => ArmedOK, ShiftOK, PollAgain
    PROVE  ShiftOK'
  <1>1. /\ Handle(port) /\ port' = port /\ flushed' = flushed /\ port \in Byte
        /\ wire[0] = port
        BY WireFacts DEF PollAgain, TypeOK
  <1>2. SUFFICES ASSUME ~ flushed', ~ stray'  PROVE kb_shift' = port'.lower
        BY DEF ShiftOK
  <1>3. ~ stray /\ kb_shift = port.lower  BY <1>1, <1>2, HandleReturns DEF ShiftOK
  <1>4. Breaking(port, CapsLock) => is_press[CapsLock]
        BY <1>1, <1>2 DEF ArmedOK, Breaks, Breaking
  <1>5. kb_shift' = kb_shift  BY <1>1, <1>2, <1>4, HandleReturns
  <1> QED  BY <1>1, <1>3, <1>5

LEMMA PollAgainGotOK ==
    ASSUME TypeOK, NthOK, StrokesOK, ShiftOK, GotOK, PollAgain
    PROVE  GotOK'
  <1>1. /\ Handle(port) /\ flushed' = flushed /\ queue' = queue /\ port' = port
        /\ typed' = typed /\ port \in Byte /\ wire[0] = port /\ Len(queue) \in Nat
        BY WireFacts DEF PollAgain, TypeOK, human
  <1>2. PICK at \in [DOMAIN got -> Read] : Returned(at)  BY DEF GotOK
  <1>3. wire' = wire /\ Read' = Read /\ Sure' = Sure  BY <1>1 DEF wire, Read, Sure
  <1>4. IsUp(0)' <=> IsUp(0)  BY <1>3 DEF IsUp
  <1>5. IsUp(0) <=> port.kind = "break" /\ port.key \in Plain  BY <1>1 DEF IsUp
  <1>6. port.nth \in Nat  BY <1>1, ByteFacts
  <1>7. \A n \in DOMAIN got : at[n] \in Nat /\ at[n] <= port.nth
        BY <1>2, <1>6 DEF Read
  <1>8. ~ stray' => ~ stray  BY <1>1, HandleReturns
  <1>9. IsUp(0) /\ is_press[port.key] => is_press'[port.key]
    <2>1. SUFFICES ASSUME IsUp(0), is_press[port.key]  PROVE is_press'[port.key]
          OBVIOUS
    <2>2. port.key \in InArray /\ Breaking(port, port.key)
          BY <1>5, <2>1 DEF InArray, Breaking
    <2> QED  BY <1>1, <2>1, <2>2, HandlePress
  <1>10. CASE got' = got
    <2>1. \A n \in DOMAIN got' :
             /\ got'[n].key = typed'[at[n]].key
             /\ ~ flushed' /\ ~ stray' => got'[n].lower = typed'[at[n]].lower
             /\ at[n] = port'.nth /\ IsUp(0)' => is_press'[port'.key]
          BY <1>1, <1>2, <1>4, <1>8, <1>9, <1>10 DEF Returned
    <2>2. ~ flushed' => Sure' \cap Read' \subseteq {at[n] : n \in DOMAIN got'}
          BY <1>1, <1>2, <1>3, <1>10 DEF Returned
    <2>3. Returned(at)'  BY <1>2, <1>10, <2>1, <2>2 DEF Returned
    <2>4. at \in [DOMAIN got' -> Read']  BY <1>2, <1>3, <1>10
    <2> QED  BY <2>3, <2>4 DEF GotOK
  <1>11. CASE got' # got
    <2>1. pc # "extended" /\ Returns(port)  BY <1>1, <1>11, HandleReturns
    <2>2. PICK c \in Char : got' = Append(got, c) /\ c.key = port.key /\ c.lower = kb_shift
      <3>1. [key |-> port.key, lower |-> kb_shift] \in Char
            BY <2>1 DEF Returns, Char, TypeOK
      <3> QED  BY <2>1, <3>1 DEF Returns
    <2>3. IsUp(0) /\ ~ is_press[port.key] /\ port.key \in InArray
          BY <1>5, <2>1 DEF Returns, InArray
    <2>4. /\ port.nth >= 1 /\ typed[port.nth].key = port.key
          /\ typed[port.nth].lower = port.lower
          BY <1>1, <2>3 DEF StrokesOK
    <2>5. port.nth \in Read' /\ Read \subseteq Read'
      <3>1. port.nth \in Read  BY <1>6, <2>4 DEF Read
      <3> QED  BY <1>3, <3>1
    <2>6. \A n \in DOMAIN got : at[n] < port.nth
          BY <1>2, <1>6, <1>7, <2>3 DEF Returned
    <2>7. PICK next \in [DOMAIN got' -> Read'] :
             /\ DOMAIN got' = DOMAIN got \cup {Len(got) + 1}
             /\ \A n \in DOMAIN got : next[n] = at[n] /\ got'[n] = got[n]
             /\ next[Len(got) + 1] = port.nth /\ got'[Len(got) + 1] = c
             /\ \A m, n \in DOMAIN got' : m < n => next[m] < next[n]
          BY SMTT(60), <1>2, <2>2, <2>5, <2>6, OneMore
    <2>8. is_press'[port.key]
      <3>1. Breaking(port, port.key)  BY <2>1 DEF Breaking, Returns
      <3> QED  BY <1>1, <2>1, <2>3, <3>1, HandlePress
    <2>9. \A n \in DOMAIN got' :
             /\ got'[n].key = typed'[next[n]].key
             /\ ~ flushed' /\ ~ stray' => got'[n].lower = typed'[next[n]].lower
             /\ next[n] = port'.nth /\ IsUp(0)' => is_press'[port'.key]
          BY <1>1, <1>2, <1>8, <2>2, <2>4, <2>7, <2>8 DEF Returned, ShiftOK
    <2>10. ~ flushed' => Sure' \cap Read' \subseteq {next[n] : n \in DOMAIN got'}
          BY <1>1, <1>2, <1>3, <2>7 DEF Returned
    <2>11. Returned(next)'  BY <2>7, <2>9, <2>10 DEF Returned
    <2> QED  BY <2>11 DEF GotOK
  <1> QED  BY <1>10, <1>11

-----------------------------------------------------------------------------
(* The other calls.                                                        *)
LEMMA CallInv ==
    ASSUME Inv, TypeOK', Getch \/ Ungetch
    PROVE  Inv'
  <1>1. /\ UNCHANGED <<human, queue, port, is_press, kb_shift, got, stray, flushed>>
        /\ pc' = "extended" => pc = "extended"
        BY DEF Getch, Ungetch
  <1>2. /\ wire' = wire /\ Read' = Read /\ Sure' = Sure
        BY <1>1 DEF wire, Read, Sure, human
  <1>3. NthOK' /\ StrokesOK' /\ PendingOK' /\ CaseOK' /\ WholeOK' /\ ShiftOK'
        BY <1>1, <1>2 DEF Inv, NthOK, StrokesOK, PendingOK, CaseOK, WholeOK, ShiftOK,
                          IsUp, Breaks, human
  <1>4. ASSUME ArmedOK  PROVE ArmedOK'
        BY <1>1, <1>2, <1>4 DEF ArmedOK, MustCount, Breaks, Makes, Proper, Armed, human
  <1>5. GotOK'
    <2>1. PICK at \in [DOMAIN got -> Read] : Returned(at)  BY DEF Inv, GotOK
    <2>2. Returned(at)'  BY <1>1, <1>2, <2>1 DEF Returned, IsUp, human
    <2> QED  BY <1>1, <1>2, <2>1, <2>2 DEF GotOK
  <1> QED  BY <1>1, <1>3, <1>4, <1>5 DEF Inv

LEMMA FlushinpInv ==
    ASSUME Inv, TypeOK', Flushinp
    PROVE  Inv'
  <1>1. Arrives /\ flushed' = TRUE /\ UNCHANGED human /\ UNCHANGED state
        BY DEF Flushinp
  <1>2. NthOK' /\ StrokesOK' /\ PendingOK' /\ CaseOK' /\ WholeOK'
        BY <1>1, ReadQueueOK DEF Inv
  <1>3. GotOK'
    <2>1. PICK at \in [DOMAIN got -> Read] : Returned(at)  BY DEF Inv, GotOK
    <2>2. /\ port' = wire[1] /\ typed' = typed /\ got' = got /\ is_press' = is_press
          /\ port.nth \in Nat /\ wire[1].nth \in Nat
          /\ Read \subseteq Read' /\ (IsUp(0)' <=> IsUp(1))
          /\ IsUp(1) => port.nth < wire[1].nth
          BY <1>1, NextStroke DEF Inv, state
    <2>3. \A n \in DOMAIN got : at[n] \in Nat /\ at[n] <= port.nth
          BY <2>1, <2>2 DEF Read
    <2>4. \A n \in DOMAIN got' : IsUp(1) => at[n] # wire[1].nth  BY <2>2, <2>3
    <2>5. Returned(at)'  BY <1>1, <2>1, <2>2, <2>4 DEF Returned
    <2>6. at \in [DOMAIN got' -> Read']  BY <2>1, <2>2
    <2> QED  BY <2>5, <2>6 DEF GotOK
  <1> QED  BY <1>1, <1>2, <1>3 DEF Inv, ShiftOK

LEMMA PollNextInv ==
    ASSUME Inv, TypeOK', PollNext
    PROVE  Inv'
  <1>1. Arrives /\ UNCHANGED human /\ flushed' = flushed  BY DEF PollNext
  <1>2. NthOK' /\ StrokesOK' /\ PendingOK' /\ CaseOK' /\ WholeOK'
        BY <1>1, ReadQueueOK DEF Inv
  <1>3. ShiftOK'  BY PollNextShiftOK DEF Inv
  <1>4. GotOK'  BY <1>3, PollNextGotOK DEF Inv
  <1>5. ~ flushed' => ArmedOK'  BY <1>1, PollNextArmedOK DEF Inv
  <1> QED  BY <1>2, <1>3, <1>4, <1>5 DEF Inv

LEMMA PollAgainInv ==
    ASSUME Inv, TypeOK', PollAgain
    PROVE  Inv'
  <1>1. /\ queue' = queue /\ port' = port /\ typed' = typed /\ caps' = caps
        /\ flushed' = flushed
        BY DEF PollAgain, human
  <1>2. wire' = wire  BY <1>1 DEF wire
  <1>3. NthOK' /\ StrokesOK' /\ PendingOK' /\ CaseOK' /\ WholeOK'
        BY <1>1, <1>2 DEF Inv, NthOK, StrokesOK, PendingOK, CaseOK, WholeOK, IsUp, Breaks
  <1>4. ShiftOK'  BY PollAgainShiftOK DEF Inv
  <1>5. GotOK'  BY PollAgainGotOK DEF Inv
  <1>6. ~ flushed' => ArmedOK'  BY <1>1, PollAgainArmedOK DEF Inv
  <1> QED  BY <1>3, <1>4, <1>5, <1>6 DEF Inv

-----------------------------------------------------------------------------
(* Types.                                                                  *)
LEMMA KeyType ==
    ASSUME TypeOK, NEW k \in Keys, Down(k) \/ Repeat(k) \/ Up(k)
    PROVE  TypeOK'
  <1>1. /\ down \subseteq Keys /\ strokes \in 0 .. MaxStrokes /\ MaxStrokes \in Nat
        /\ caps \in BOOLEAN /\ typed \in Seq(Stroke) /\ mixed \subseteq Plain
        /\ queue \in Seq(Byte)
        BY KeysAssumption DEF TypeOK
  <1>2. caps' \in BOOLEAN  BY <1>1 DEF Down, Repeat, Up
  <1>3. typed' \in Seq(Stroke)
    <2>1. CASE typed' = typed  BY <1>1, <2>1
    <2>2. CASE Up(k) /\ typed' # typed
      <3>1. /\ KeyOf(k) \in Plain
            /\ typed' = Append(typed, [key |-> KeyOf(k), lower |-> caps,
                                       sure |-> k \in Plain \ mixed])
            BY <2>2 DEF Up, KeyOf
      <3>2. [key |-> KeyOf(k), lower |-> caps, sure |-> k \in Plain \ mixed] \in Stroke
            BY <1>1, <3>1 DEF Stroke
      <3> QED  BY <1>1, <3>1, <3>2, AppendProperties
    <2> QED  BY <2>1, <2>2 DEF Down, Repeat
  <1>4. mixed' \subseteq Plain  BY <1>1, KeyOfFacts DEF Down, Repeat, Up
  <1>5. down' \subseteq Keys /\ strokes' \in 0 .. MaxStrokes
        BY <1>1 DEF Down, Repeat, Up
  <1>6. PICK kind \in {"make", "break"}, nth \in Nat, lower \in BOOLEAN :
           Send(Codes(kind, k, nth, lower))
    <2>1. Len(typed) \in Nat /\ Len(typed') \in Nat  BY <1>1, <1>3, LenProperties
    <2> QED  BY <1>1, <1>2, <2>1 DEF Down, Repeat, Up
  <1>7. PICK c \in Seq(Byte) : c = Codes(kind, k, nth, lower)  BY CodesFacts
  <1>8. queue' \in Seq(Byte) /\ Len(queue') <= MaxQueue
        BY <1>1, <1>6, <1>7, ConcatProperties DEF Send
  <1>9. UNCHANGED <<port, pc, state, flushed>>  BY <1>6 DEF Send
  <1> QED  BY <1>2, <1>3, <1>4, <1>5, <1>8, <1>9 DEF TypeOK, state

LEMMA AnswerType ==
    ASSUME TypeOK, Answer
    PROVE  TypeOK'
  <1>1. Sent("other", CapsLock, Len(typed), caps) \in Byte
        BY WireFacts, SentIsByte DEF TypeOK
  <1>2. PICK c \in Seq(Byte) : c = <<Sent("other", CapsLock, Len(typed), caps)>>
    <2>1. <<Sent("other", CapsLock, Len(typed), caps)>> \in Seq(Byte)  BY <1>1
    <2> QED  BY <2>1
  <1>3. Send(c) /\ UNCHANGED human  BY <1>2 DEF Answer
  <1>4. queue \in Seq(Byte)  BY DEF TypeOK
  <1>5. queue' \in Seq(Byte) /\ Len(queue') <= MaxQueue
        BY <1>3, <1>4, ConcatProperties DEF Send
  <1>6. UNCHANGED <<port, pc, state, flushed>>  BY <1>3 DEF Send
  <1> QED  BY <1>3, <1>5, <1>6 DEF TypeOK, human, state

LEMMA ReadType ==
    ASSUME TypeOK, Arrives
    PROVE  /\ queue' \in Seq(Byte) /\ Len(queue') <= MaxQueue /\ port' \in Byte
           /\ wire[1] \in Byte
  <1>1. /\ Len(queue) \in Nat /\ Len(queue) >= 1 /\ Len(queue) <= MaxQueue
        /\ \A n \in 0 .. Len(queue) : wire[n] \in Byte
        BY ReadWire, WireFacts DEF TypeOK
  <1> QED  BY <1>1, ReadWire, KeysAssumption

LEMMA TypeStep ==
    ASSUME TypeOK, [Next]_vars
    PROVE  TypeOK'
  <1>1. ASSUME NEW k \in Keys, Down(k) \/ Repeat(k) \/ Up(k)  PROVE TypeOK'
        BY <1>1, KeyType
  <1>2. CASE Answer  BY <1>2, AnswerType
  <1>3. CASE Getch \/ Ungetch  BY <1>3 DEF TypeOK, Getch, Ungetch, human
  <1>4. CASE Flushinp
        BY <1>4, ReadType DEF TypeOK, Flushinp, human, state
  <1>5. CASE PollNext
    <2>1. Arrives /\ Handle(wire[1])  BY <1>5, ReadWire DEF PollNext
    <2> QED  BY <1>5, <2>1, ReadType, HandleType DEF TypeOK, PollNext, human
  <1>6. CASE PollAgain
    <2>1. Handle(port) /\ port \in Byte  BY <1>6 DEF PollAgain, TypeOK
    <2> QED  BY <1>6, <2>1, HandleType DEF TypeOK, PollAgain, human
  <1>7. CASE UNCHANGED vars  BY <1>7 DEF TypeOK, vars, human, state
  <1> QED  BY <1>1, <1>2, <1>3, <1>4, <1>5, <1>6, <1>7 DEF Next

-----------------------------------------------------------------------------
LEMMA InitInv == Init => Inv
  <1>1. SUFFICES ASSUME Init  PROVE Inv  OBVIOUS
  <1>2. /\ queue = <<>> /\ Len(queue) = 0 /\ typed = <<>> /\ Len(typed) = 0
        /\ got = <<>> /\ DOMAIN got = {} /\ down = {} /\ DOMAIN typed = {}
        /\ port = None /\ port.kind = "none" /\ port.nth = 0 /\ port.lower = FALSE
        /\ ~ caps /\ ~ kb_shift /\ caps = FALSE /\ kb_shift = FALSE /\ pc = "idle"
        BY <1>1 DEF Init, None
  <1>3. None \in Byte  BY DEF None, Byte
  <1>4. TypeOK
    <2>1. queue \in Seq(Byte) /\ typed \in Seq(Stroke) /\ got \in Seq(Char)
          BY <1>2, EmptySeq
    <2>2. is_press \in [InArray -> BOOLEAN] /\ port \in Byte  BY <1>1, <1>3 DEF Init
    <2>3. {kb_shift, saved, caps, flushed, stray} \subseteq BOOLEAN  BY <1>1 DEF Init
    <2>4. strokes \in 0 .. MaxStrokes /\ Len(queue) <= MaxQueue
          BY <1>1, <1>2, KeysAssumption DEF Init
    <2> QED  BY <1>1, <1>2, <2>1, <2>2, <2>3, <2>4 DEF Init, TypeOK
  <1>5. wire[0] = port /\ 0 .. Len(queue) = {0} /\ 1 .. Len(queue) = {}
        BY <1>2, <1>4, WireFacts
  <1>6. NthOK /\ StrokesOK /\ PendingOK
        BY <1>2, <1>5 DEF NthOK, StrokesOK, PendingOK, IsUp
  <1>7. CaseOK /\ WholeOK /\ ShiftOK
        BY <1>2, <1>5 DEF CaseOK, WholeOK, ShiftOK
  <1>8. ArmedOK  BY <1>2, <1>5 DEF ArmedOK, Breaks
  <1>9. GotOK
    <2>1. PICK at \in [DOMAIN got -> Read] : TRUE
      <3>1. [n \in DOMAIN got |-> 0] \in [DOMAIN got -> Read]  BY <1>2
      <3> QED  BY <3>1
    <2>2. Returned(at)  BY <1>2 DEF Returned, Sure
    <2> QED  BY <2>2 DEF GotOK
  <1> QED  BY <1>4, <1>6, <1>7, <1>8, <1>9 DEF Inv

LEMMA StepInv == Inv /\ [Next]_vars => Inv'
  <1>1. SUFFICES ASSUME Inv, [Next]_vars  PROVE Inv'  OBVIOUS
  <1>2. TypeOK'  BY <1>1, TypeStep DEF Inv
  <1>3. ASSUME NEW k \in Keys, Down(k)  PROVE Inv'  BY <1>1, <1>2, <1>3, DownInv
  <1>4. ASSUME NEW k \in Keys, Repeat(k)  PROVE Inv'  BY <1>1, <1>2, <1>4, RepeatInv
  <1>5. ASSUME NEW k \in Keys, Up(k)  PROVE Inv'  BY <1>1, <1>2, <1>5, UpInv
  <1>6. CASE Answer  BY <1>1, <1>2, <1>6, AnswerInv
  <1>7. CASE Getch \/ Ungetch  BY <1>1, <1>2, <1>7, CallInv
  <1>8. CASE Flushinp  BY <1>1, <1>2, <1>8, FlushinpInv
  <1>9. CASE PollNext  BY <1>1, <1>2, <1>9, PollNextInv
  <1>10. CASE PollAgain  BY <1>1, <1>2, <1>10, PollAgainInv
  <1>11. CASE UNCHANGED vars
    <2>1. UNCHANGED <<human, queue, port, pc, state, flushed>>  BY <1>11 DEF vars
    <2>2. wire' = wire /\ Read' = Read /\ Sure' = Sure
          BY <2>1 DEF wire, Read, Sure, human
    <2>3. NthOK' /\ StrokesOK' /\ PendingOK' /\ CaseOK' /\ WholeOK' /\ ShiftOK'
          BY <1>1, <2>1, <2>2 DEF Inv, NthOK, StrokesOK, PendingOK, CaseOK, WholeOK,
                                  ShiftOK, IsUp, Breaks, human, state
    <2>4. ASSUME ArmedOK  PROVE ArmedOK'
          BY <2>1, <2>2, <2>4 DEF ArmedOK, MustCount, Breaks, Makes, Proper, Armed,
                                  human, state
    <2>5. GotOK'
      <3>1. PICK at \in [DOMAIN got -> Read] : Returned(at)  BY <1>1 DEF Inv, GotOK
      <3>2. Returned(at)'  BY <2>1, <2>2, <3>1 DEF Returned, IsUp, human, state
      <3> QED  BY <2>1, <2>2, <3>1, <3>2 DEF GotOK, state
    <2> QED  BY <1>1, <1>2, <2>1, <2>3, <2>4, <2>5 DEF Inv
  <1> QED  BY <1>1, <1>3, <1>4, <1>5, <1>6, <1>7, <1>8, <1>9, <1>10, <1>11 DEF Next

(* The inductive invariant holds in every reachable state: what waits in   *)
(* the queue tells which strokes are still to be returned and that each of *)
(* them will count.                                                        *)
THEOREM Invariant == Spec => []Inv
  <1> QED  BY InitInv, StepInv, PTL DEF Spec

(* getch keeps its state within its types: is_press has one place for each *)
(* key with a char of its own, and every char it returns is one of them.   *)
THEOREM Types == Spec => []TypeOK
  <1>1. Inv => TypeOK  BY DEF Inv
  <1> QED  BY <1>1, Invariant, PTL

(* getch returns the keys that come up, each once and in that order, and   *)
(* loses none, however often the port shows a code and whatever is held or *)
(* repeated meanwhile.                                                     *)
THEOREM InOrder == Spec => []KeysInOrder
  <1>1. Inv => KeysInOrder
    <2>1. SUFFICES ASSUME Inv, ~ flushed
                   PROVE  Matched(Read, SameKey, Sure \cap Read)
          BY DEF KeysInOrder
    <2>2. PICK at \in [DOMAIN got -> Read] : Returned(at)  BY <2>1 DEF Inv, GotOK
    <2> QED  BY <2>1, <2>2 DEF Matched, Returned, SameKey
  <1> QED  BY <1>1, Invariant, PTL

(* The case of a char is the one CapsLock had set when the key came up,    *)
(* although getch changes _kb_shift only when it reads the code.           *)
THEOREM CaseWhenTyped == Spec => []CaseOfCapsLock
  <1>1. Inv => CaseOfCapsLock
    <2>1. SUFFICES ASSUME Inv, ~ flushed, ~ stray
                   PROVE  Matched(Read, SameChar, Sure \cap Read)
          BY DEF CaseOfCapsLock
    <2>2. PICK at \in [DOMAIN got -> Read] : Returned(at)  BY <2>1 DEF Inv, GotOK
    <2> QED  BY <2>1, <2>2 DEF Matched, Returned, SameChar, SameKey
  <1> QED  BY <1>1, Invariant, PTL

(* Whatever flushinp drops, getch returns no key twice and none that has   *)
(* not come up.                                                            *)
THEOREM NoneTwice == Spec => []NeverTwice
  <1>1. Inv => NeverTwice
    <2>1. SUFFICES ASSUME Inv  PROVE Matched(DOMAIN typed, SameKey, {})
          BY DEF NeverTwice
    <2>2. PICK at \in [DOMAIN got -> Read] : Returned(at)  BY <2>1 DEF Inv, GotOK
    <2>3. Read \subseteq DOMAIN typed
      <3>1. /\ Len(typed) \in Nat /\ DOMAIN typed = 1 .. Len(typed)
            /\ wire[0] = port /\ Len(queue) \in Nat
            BY <2>1, WireFacts DEF Inv
      <3>2. port.nth \in Nat  BY <2>1, ByteFacts DEF Inv, TypeOK
      <3>3. port.nth <= Len(typed)  BY <2>1, <3>1 DEF Inv, NthOK
      <3> QED  BY <3>1, <3>2, <3>3 DEF Read
    <2>4. at \in [DOMAIN got -> DOMAIN typed]  BY <2>2, <2>3
    <2> QED  BY <2>2, <2>4 DEF Matched, Returned, SameKey
  <1> QED  BY <1>1, Invariant, PTL
=============================================================================
