------------------------------ MODULE KernelProofs ------------------------------
(***************************************************************************)
(* However often a wait asks and however long the packet is, the start-up  *)
(* leaves the serial port set up, says the same of every device, and takes *)
(* its own commands for the answers of the PS/2 controller.                *)
(***************************************************************************)
EXTENDS Kernel, Induction, TLAPS

-----------------------------------------------------------------------------
(* BITWISE-AND.  That a function satisfies the recursion: the first n of   *)
(* its rows are right after n rounds, from whatever one starts with.       *)
Bit(a, b, rest) == IF a = 0 \/ b = 0 THEN 0 ELSE (a % 2) * (b % 2) + 2 * rest

LEMMA Halves ==
    ASSUME NEW a \in Nat
    PROVE  a \div 2 \in Nat /\ (a # 0 => a \div 2 <= a - 1) /\ a % 2 \in 0 .. 1
OBVIOUS

LEMMA BitIsNat ==
    ASSUME NEW a \in Nat, NEW b \in Nat, NEW rest \in Nat
    PROVE  Bit(a, b, rest) \in Nat
<1>1. a % 2 = 0 \/ a % 2 = 1
  BY Halves
<1>2. b % 2 = 0 \/ b % 2 = 1
  BY Halves
<1>3. (a % 2) * (b % 2) \in Nat
  BY <1>1, <1>2
<1> HIDE DEF Bit
<1> QED
  BY <1>3 DEF Bit

LEMMA BitAndExists ==
    \E f \in [Nat -> [Nat -> Nat]] :
        f = [a \in Nat |-> [b \in Nat |-> Bit(a, b, f[a \div 2][b \div 2])]]
<1> DEFINE S == [Nat -> [Nat -> Nat]]
           round(f) == [a \in Nat |-> [b \in Nat |-> Bit(a, b, f[a \div 2][b \div 2])]]
           g == [p \in Nat \X S |-> round(p[2])]
           zero == [a \in Nat |-> [b \in Nat |-> 0]]
<1>1. ASSUME NEW f \in S PROVE round(f) \in S
  <2>1. ASSUME NEW a \in Nat, NEW b \in Nat PROVE Bit(a, b, f[a \div 2][b \div 2]) \in Nat
    <3>1. f[a \div 2][b \div 2] \in Nat
      BY Halves
    <3> QED
      BY <3>1, BitIsNat
  <2> QED
    BY <2>1
<1>2. zero \in S /\ g \in [Nat \X S -> S]
  BY <1>1
<1>3. PICK F \in [Nat -> S] : Recursive(F, zero, g)
  <2> HIDE DEF zero, g, S
  <2> QED
    BY <1>2, Recursion
<1>4. F[0] = zero /\ \A k \in Nat : F[k + 1] = round(F[k])
  <2>1. \A k \in Nat : <<k, F[k]>> \in Nat \X S /\ <<k, F[k]>>[2] = F[k]
    OBVIOUS
  <2>2. \A p \in Nat \X S : g[p] = round(p[2])
    OBVIOUS
  <2> HIDE DEF g, S, round, zero
  <2> QED
    BY <1>3, <2>1, <2>2 DEF Recursive
<1> HIDE DEF g
<1>5. \A n \in Nat : F[n] \in S
  BY <1>3
<1> DEFINE Stable == {n \in Nat : \A a \in 0 .. n, k \in Nat : a <= k => F[k][a] = F[a][a]}
<1>6. \A k \in Nat : F[k][0] = [b \in Nat |-> 0]
  <2> TAKE k \in Nat
  <2>1. CASE k = 0
    BY <1>4, <2>1
  <2>2. CASE k # 0
    <3>1. k - 1 \in Nat /\ (k - 1) + 1 = k
      BY <2>2
    <3>2. F[k] = round(F[k - 1])
      BY <1>4, <3>1
    <3> QED
      BY <3>2 DEF Bit
  <2> QED
    BY <2>1, <2>2
<1>7. ASSUME NEW n \in Stable PROVE n + 1 \in Stable
  <2>1. ASSUME NEW a \in 0 .. n + 1, NEW k \in Nat, a <= k PROVE F[k][a] = F[a][a]
    <3>1. CASE a = 0
      BY <1>6, <3>1
    <3>2. CASE a # 0
      <4>1. /\ n \in Nat /\ a \in Nat /\ k - 1 \in Nat /\ (k - 1) + 1 = k
            /\ a - 1 \in Nat /\ (a - 1) + 1 = a /\ a \div 2 \in Nat
            /\ a \div 2 \in 0 .. n /\ a \div 2 <= a - 1 /\ a \div 2 <= k - 1
        BY <2>1, <3>2, Halves
      <4>2. F[k - 1][a \div 2] = F[a - 1][a \div 2]
        BY <4>1
      <4>3. F[k] = round(F[k - 1]) /\ F[a] = round(F[a - 1])
        BY <1>4, <4>1
      <4>4. /\ F[k][a] = [b \in Nat |-> Bit(a, b, F[k - 1][a \div 2][b \div 2])]
            /\ F[a][a] = [b \in Nat |-> Bit(a, b, F[a - 1][a \div 2][b \div 2])]
        BY <4>1, <4>3
      <4> QED
        BY <4>2, <4>4
    <3> QED
      BY <3>1, <3>2
  <2>2. n + 1 \in Nat
    OBVIOUS
  <2> QED
    BY <2>1, <2>2
<1>8. Stable = Nat
  <2>1. Stable \in SUBSET Nat /\ \A n \in Stable : n + 1 \in Stable
    BY <1>7
  <2>2. 0 \in Stable
    <3>1. \A a \in 0 .. 0 : a = 0
      OBVIOUS
    <3>2. \A k \in Nat : F[k][0] = F[0][0]
      BY <1>6
    <3> QED
      BY <3>1, <3>2
  <2> HIDE DEF Stable
  <2> QED
    BY <2>1, <2>2, AllNaturals
<1> DEFINE f == [a \in Nat |-> F[a][a]]
<1>9. f \in S
  BY <1>5
<1>10. ASSUME NEW a \in Nat
       PROVE  f[a] = [b \in Nat |-> Bit(a, b, f[a \div 2][b \div 2])]
  <2>1. CASE a = 0
    BY <1>6, <2>1 DEF Bit
  <2>2. CASE a # 0
    <3>1. /\ a - 1 \in Nat /\ (a - 1) + 1 = a /\ a \div 2 \in Nat
          /\ a \div 2 <= a - 1 /\ a \div 2 \in 0 .. a
      BY <2>2, Halves
    <3>2. F[a] = round(F[a - 1])
      BY <1>4, <3>1
    <3>3. F[a - 1][a \div 2] = F[a \div 2][a \div 2]
      BY <1>8, <3>1
    <3>4. f[a] = F[a][a] /\ f[a \div 2] = F[a \div 2][a \div 2]
      BY <3>1
    <3>5. F[a][a] = [b \in Nat |-> Bit(a, b, F[a - 1][a \div 2][b \div 2])]
      BY <3>2
    <3> QED
      BY <3>3, <3>4, <3>5
  <2> QED
    BY <2>1, <2>2
<1>11. f = [a \in Nat |-> f[a]]
  OBVIOUS
<1> HIDE DEF f
<1> QED
  BY <1>9, <1>10, <1>11

LEMMA BitAndBits ==
    \A a, b \in Nat : BitAnd[a][b] = Bit(a, b, BitAnd[a \div 2][b \div 2])
<1> DEFINE Eq(f) == f = [a \in Nat |-> [b \in Nat |->
                          IF a = 0 \/ b = 0 THEN 0
                          ELSE (a % 2) * (b % 2) + 2 * f[a \div 2][b \div 2]]]
<1>1. \E f : Eq(f)
  BY BitAndExists DEF Bit
<1>2. Eq(BitAnd)
  BY <1>1, Zenon DEF BitAnd
<1> QED
  BY <1>2 DEF Bit

(* What is masked is no more than its mask.                                *)
LEMMA BitAndBounded ==
    \A a, b \in Nat : BitAnd[a][b] \in Nat /\ BitAnd[a][b] <= b
<1> DEFINE N == {n \in Nat : \A a \in 0 .. n, b \in Nat :
                               BitAnd[a][b] \in Nat /\ BitAnd[a][b] <= b}
<1>1. 0 \in N
  BY BitAndBits DEF Bit
<1>2. ASSUME NEW n \in N PROVE n + 1 \in N
  <2>1. ASSUME NEW a \in 0 .. n + 1, NEW b \in Nat
        PROVE  BitAnd[a][b] \in Nat /\ BitAnd[a][b] <= b
    <3>1. a \in Nat /\ n \in Nat
      OBVIOUS
    <3>2. CASE a = 0 \/ b = 0
      BY <3>1, <3>2, BitAndBits DEF Bit
    <3>3. CASE a # 0 /\ b # 0
      <4> DEFINE r == BitAnd[a \div 2][b \div 2]
                 x == (a % 2) * (b % 2)
      <4>1. a \div 2 \in 0 .. n /\ b \div 2 \in Nat
        BY <3>1, <3>3, Halves
      <4>2. r \in Nat /\ r <= b \div 2
        BY <4>1
      <4>3. x \in Nat /\ x <= b % 2
        <5>1. (a % 2 = 0 \/ a % 2 = 1) /\ (b % 2 = 0 \/ b % 2 = 1)
          BY <3>1, Halves
        <5> QED
          BY <5>1
      <4>4. BitAnd[a][b] = x + 2 * r
        BY <3>1, <3>3, BitAndBits DEF Bit
      <4>5. b = (2 * (b \div 2)) + (b % 2)
        OBVIOUS
      <4>6. b \div 2 \in Nat /\ b % 2 \in Nat
        BY Halves
      <4> HIDE DEF r, x
      <4> QED
        BY <4>2, <4>3, <4>4, <4>5, <4>6
    <3> QED
      BY <3>2, <3>3
  <2>2. n + 1 \in Nat
    OBVIOUS
  <2> QED
    BY <2>1, <2>2
<1>3. N = Nat
  <2>1. N \in SUBSET Nat /\ \A n \in N : n + 1 \in N
    BY <1>2
  <2> HIDE DEF N
  <2> QED
    BY <1>1, <2>1, AllNaturals
<1> QED
  <2> TAKE a \in Nat, b \in Nat
  <2>1. a \in N /\ a \in 0 .. a
    BY <1>3
  <2> QED
    BY <2>1

(* The masks of the PS/2 driver let bit 5 through.                         *)
LEMMA MasksOf32 == BitAnd[32][240] = 32 /\ BitAnd[32][32] = 32
<1>1. \A b \in Nat : BitAnd[0][b] = 0
  BY BitAndBits DEF Bit
<1>2. BitAnd[1][7] = 1 /\ BitAnd[1][1] = 1
  BY <1>1, BitAndBits DEF Bit
<1>3. BitAnd[2][15] = 2 /\ BitAnd[2][2] = 2
  BY <1>2, BitAndBits DEF Bit
<1>4. BitAnd[4][30] = 4 /\ BitAnd[4][4] = 4
  BY <1>3, BitAndBits DEF Bit
<1>5. BitAnd[8][60] = 8 /\ BitAnd[8][8] = 8
  BY <1>4, BitAndBits DEF Bit
<1>6. BitAnd[16][120] = 16 /\ BitAnd[16][16] = 16
  BY <1>5, BitAndBits DEF Bit
<1> QED
  BY <1>6, BitAndBits DEF Bit

-----------------------------------------------------------------------------
(* The start-up, operation by operation: where it stands at what.          *)
IsSeq(s) == \E S : s \in Seq(S)

Lists(s, n) == IsSeq(s) /\ Len(s) = n

(* The start-up has these operations from behind a place on.               *)
Holds(ops, at) == \A k \in 1 .. Len(ops) : StartUp[at + k] = ops[k]

LEMMA Joined ==
    ASSUME NEW n \in Nat, NEW m \in Nat, NEW s, NEW t, Lists(s, n), Lists(t, m)
    PROVE  /\ Lists(s \o t, n + m)
           /\ \A at \in Nat : Holds(s \o t, at) => Holds(s, at) /\ Holds(t, at + n)
<1>1. PICK S : s \in Seq(S)
  BY DEF Lists, IsSeq
<1>2. PICK T : t \in Seq(T)
  BY DEF Lists, IsSeq
<1>3. s \in Seq(S \cup T) /\ t \in Seq(S \cup T)
  BY <1>1, <1>2
<1>4. Len(s) = n /\ Len(t) = m
  BY DEF Lists
<1>5. s \o t \in Seq(S \cup T) /\ Len(s \o t) = n + m
  BY <1>3, <1>4
<1>6. /\ \A k \in 1 .. n : (s \o t)[k] = s[k]
      /\ \A k \in 1 .. m : (s \o t)[n + k] = t[k]
  BY <1>3, <1>4
<1>7. ASSUME NEW at \in Nat, Holds(s \o t, at)
      PROVE  Holds(s, at) /\ Holds(t, at + n)
  <2>1. \A k \in 1 .. n + m : StartUp[at + k] = (s \o t)[k]
    BY <1>5, <1>7 DEF Holds
  <2>2. ASSUME NEW k \in 1 .. n PROVE StartUp[at + k] = s[k]
    <3>1. k \in 1 .. n + m
      OBVIOUS
    <3> QED
      BY <1>6, <2>1, <3>1
  <2>3. ASSUME NEW k \in 1 .. m PROVE StartUp[(at + n) + k] = t[k]
    <3>1. n + k \in 1 .. n + m /\ (at + n) + k = at + (n + k)
      OBVIOUS
    <3> QED
      BY <1>6, <2>1, <3>1
  <2> QED
    BY <1>4, <2>2, <2>3 DEF Holds
<1> QED
  BY <1>5, <1>7 DEF Lists, IsSeq


-----------------------------------------------------------------------------
(* The pieces of the start-up, and the places behind which they are.       *)
DriveCommand == <<Out8(Ata(1), 0), Out8(Ata(4), 0), Out8(Ata(5), 0), Out8(Ata(7), 160)>>
DriveCheck   == Check(255, TRUE, "drive not present")
BusyWait     == WaitUntil(TRUE, 128)
ReadyWait    == WaitUntil(FALSE, 9)
ErrorCheck   == <<[do |-> "error bit?"]>>
Packet       == [word \in 1 .. PacketSize |-> Out8(Ata(0), 0)]
DriveAnswer  == <<In8(Ata(5)), In8(Ata(4))>>

UartCheck   == Check(174, FALSE, "UART test failure")
UartBegin ==
    <<Out8(Com(1), 0), Out8(Com(3), 128), Out8(Com(0), 3), Out8(Com(1), 0),
      Out8(Com(3), 3), Out8(Com(2), 199),
      Out8(Com(4), 11), Out8(Com(4), 30)>>
UartEnd == <<Out8(Com(4), 15)>>

Ps2Begin ==
    <<Command(173), Command(167), Read,
      Command(32), Wait, Read, Ps2("configure"),
      Command(96), Config,
      Command(170), Wait, Read, Fails("PS2 controller test", 85),
      Command(96), Config>>
Second ==
    <<Command(168), Command(32), Wait, Read, Ps2("second started?"), Command(167)>>
FirstPort  == <<Wait, Command(171), Read, Fails("First port test", 0)>>
SecondPort == <<Wait, Command(169), Read, Fails("Second port test", 0)>>
Ps2End     == <<Wait, Command(174)>>
SecondEnd  == <<Wait, Command(168)>>

AtUart     == 22 + PacketSize
AtPs2      == 36 + PacketSize
AtKeyboard == 69 + PacketSize
AtMenu     == 98 + PacketSize

(* What is written out is a list of as many operations as it says.         *)
LEMMA Written1 == \A a : Lists(<<a>>, 1)
<1> TAKE a
<1>1. <<a>> \in Seq({a}) /\ Len(<<a>>) = 1
  OBVIOUS
<1> QED
  BY <1>1, Zenon DEF Lists, IsSeq

LEMMA Written2 == \A a, b : Lists(<<a, b>>, 2)
<1> TAKE a, b
<1>1. <<a, b>> \in Seq({a, b}) /\ Len(<<a, b>>) = 2
  OBVIOUS
<1> QED
  BY <1>1, Zenon DEF Lists, IsSeq

LEMMA Written4 == \A a, b, c, d : Lists(<<a, b, c, d>>, 4)
<1> TAKE a, b, c, d
<1>1. <<a, b, c, d>> \in Seq({a, b, c, d}) /\ Len(<<a, b, c, d>>) = 4
  OBVIOUS
<1> QED
  BY <1>1, Zenon DEF Lists, IsSeq

LEMMA Written5 == \A a, b, c, d, e : Lists(<<a, b, c, d, e>>, 5)
<1> TAKE a, b, c, d, e
<1>1. <<a, b, c, d, e>> \in Seq({a, b, c, d, e}) /\ Len(<<a, b, c, d, e>>) = 5
  OBVIOUS
<1> QED
  BY <1>1, Zenon DEF Lists, IsSeq

LEMMA Written6 == \A a, b, c, d, e, f : Lists(<<a, b, c, d, e, f>>, 6)
<1> TAKE a, b, c, d, e, f
<1>1. <<a, b, c, d, e, f>> \in Seq({a, b, c, d, e, f}) /\ Len(<<a, b, c, d, e, f>>) = 6
  OBVIOUS
<1> QED
  BY <1>1, Zenon DEF Lists, IsSeq

LEMMA Written7 == \A a, b, c, d, e, f, g : Lists(<<a, b, c, d, e, f, g>>, 7)
<1> TAKE a, b, c, d, e, f, g
<1>1. <<a, b, c, d, e, f, g>> \in Seq({a, b, c, d, e, f, g}) /\ Len(<<a, b, c, d, e, f, g>>) = 7
  OBVIOUS
<1> QED
  BY <1>1, Zenon DEF Lists, IsSeq

LEMMA Written8 == \A a, b, c, d, e, f, g, h : Lists(<<a, b, c, d, e, f, g, h>>, 8)
<1> TAKE a, b, c, d, e, f, g, h
<1>1. /\ <<a, b, c, d, e, f, g, h>> \in Seq({a, b, c, d, e, f, g, h})
      /\ Len(<<a, b, c, d, e, f, g, h>>) = 8
  OBVIOUS
<1> QED
  BY <1>1, Zenon DEF Lists, IsSeq

LEMMA DriveLists ==
    /\ Lists(AtapiDrivesel, 7) /\ Lists(DriveCommand, 4)
    /\ Lists(BusyWait, 4) /\ Lists(ReadyWait, 4)
    /\ Lists(ErrorCheck, 1) /\ Lists(Packet, PacketSize) /\ Lists(DriveAnswer, 2)
<1>1. Lists(Packet, PacketSize)
  <2>1. Packet \in Seq({Out8(Ata(0), 0)}) /\ Len(Packet) = PacketSize
    BY KernelAssumption DEF Packet
  <2> QED
    BY <2>1 DEF Lists, IsSeq
<1>2. Lists(AtapiDrivesel, 7)
  <2>1. AtapiDrivesel = <<In8(Ata(7)), DriveCheck, Out8(Ata(6), 160),
                          In8(Control), In8(Control), In8(Control), In8(Control)>>
    BY Zenon DEF AtapiDrivesel, DriveCheck
  <2> QED
    BY <2>1, Written7
<1>3. Lists(DriveCommand, 4)
  BY Written4 DEF DriveCommand
<1>4. Lists(BusyWait, 4) /\ Lists(ReadyWait, 4)
  BY Written4 DEF BusyWait, ReadyWait, WaitUntil
<1>5. Lists(ErrorCheck, 1)
  BY Written1 DEF ErrorCheck
<1>6. Lists(DriveAnswer, 2)
  BY Written2 DEF DriveAnswer
<1> QED
  BY <1>1, <1>2, <1>3, <1>4, <1>5, <1>6

LEMMA UartLists == Lists(UartBegin, 8) /\ Lists(UartTest, 5) /\ Lists(UartEnd, 1)
<1>1. Lists(UartBegin, 8)
  BY Written8 DEF UartBegin
<1>2. Lists(UartTest, 5)
  <2>1. UartTest = <<Out8(Com(0), 174), [do |-> "display"],
                     In8(Com(0)), [do |-> "display"], UartCheck>>
    BY Zenon DEF UartTest, UartCheck
  <2> QED
    BY <2>1, Written5
<1>3. Lists(UartEnd, 1)
  BY Written1 DEF UartEnd
<1> QED
  BY <1>1, <1>2, <1>3

LEMMA Ps2Lists ==
    /\ Lists(Ps2Begin, 15) /\ Lists(Second, 6) /\ Lists(FirstPort, 4)
    /\ Lists(SecondPort, 4) /\ Lists(Ps2End, 2) /\ Lists(SecondEnd, 2)
    /\ Lists(Ps2InitKeyboard, 29)
<1>1. Lists(Ps2Begin, 15)
  <2> DEFINE Ops == {Command(c) : c \in {173, 167, 32, 96, 170}}
                    \cup {Read, Wait, Config, Ps2("configure"),
                          Fails("PS2 controller test", 85)}
  <2>1. Ps2Begin \in Seq(Ops) /\ Len(Ps2Begin) = 15
    BY DEF Ps2Begin
  <2> HIDE DEF Ops
  <2> QED
    BY <2>1, Zenon DEF Lists, IsSeq
<1>2. Lists(Second, 6)
  BY Written6 DEF Second
<1>3. Lists(FirstPort, 4) /\ Lists(SecondPort, 4)
  BY Written4 DEF FirstPort, SecondPort
<1>4. Lists(Ps2End, 2) /\ Lists(SecondEnd, 2)
  BY Written2 DEF Ps2End, SecondEnd
<1>5. Lists(Ps2InitKeyboard, 29)
  <2> DEFINE Ops == {WriteFirst(d) : d \in {255, 246, 243, 127, 244, 240, 1}}
                    \cup {Data(d) : d \in {255, 246, 243, 127, 244, 240, 1}}
                    \cup {Wait, Read, Config, Command(32), Command(96),
                          Ps2("read configuration")}
  <2>1. Ps2InitKeyboard \in Seq(Ops) /\ Len(Ps2InitKeyboard) = 29
    BY DEF Ps2InitKeyboard
  <2> HIDE DEF Ops
  <2> QED
    BY <2>1, Zenon DEF Lists, IsSeq
<1> QED
  BY <1>1, <1>2, <1>3, <1>4, <1>5

(* What IfDual makes of an operation.                                      *)
Dual(op) == [op EXCEPT !.dual = TRUE]

LEMMA IfDualLists ==
    ASSUME NEW n \in Nat, NEW s, Lists(s, n)
    PROVE  /\ Lists(IfDual(s), n)
           /\ \A k \in 1 .. n : IfDual(s)[k] = Dual(s[k])
<1>1. PICK S : s \in Seq(S)
  BY DEF Lists, IsSeq
<1>2. DOMAIN s = 1 .. n
  BY <1>1 DEF Lists
<1>3. IfDual(s) = [k \in 1 .. n |-> Dual(s[k])]
  BY <1>2 DEF IfDual, Dual
<1> DEFINE T == {Dual(s[k]) : k \in 1 .. n}
<1>4. IfDual(s) \in [1 .. n -> T]
  BY <1>3
<1>5. IfDual(s) \in Seq(T) /\ Len(IfDual(s)) = n
  <2> HIDE DEF T
  <2>1. \A f \in [1 .. n -> T] : f \in Seq(T) /\ Len(f) = n
    OBVIOUS
  <2> QED
    BY <1>4, <2>1, Zenon
<1> QED
  BY <1>3, <1>5, Zenon DEF Lists, IsSeq

(* Each piece is where the lengths of those before it put it.              *)
LEMMA DrivePlaces ==
    /\ Lists(AtapiRead, 22 + PacketSize)
    /\ Holds(AtapiRead, 0) =>
          /\ Holds(AtapiDrivesel, 0) /\ Holds(DriveCommand, 7)
          /\ Holds(BusyWait, 11) /\ Holds(ReadyWait, 15) /\ Holds(ErrorCheck, 19)
          /\ Holds(Packet, 20) /\ Holds(DriveAnswer, 20 + PacketSize)
<1> DEFINE a == DriveCommand \o BusyWait
           b == a \o ReadyWait
           c == b \o ErrorCheck
           d == c \o Packet
           e == AtapiDrivesel \o d
           f == e \o DriveAnswer
<1>1. AtapiRead = f
  BY DEF a, b, c, d, e, f, AtapiRead, AtapiSendCommand, DriveCommand, BusyWait, ReadyWait,
         ErrorCheck, Packet, DriveAnswer
<1>2. /\ Lists(a, 4 + 4)
      /\ \A at \in Nat : Holds(a, at) => Holds(DriveCommand, at) /\ Holds(BusyWait, at + 4)
  BY DriveLists, Joined
<1> HIDE DEF a
<1>3. /\ Lists(b, 8 + 4)
      /\ \A at \in Nat : Holds(b, at) => Holds(a, at) /\ Holds(ReadyWait, at + 8)
  BY <1>2, DriveLists, Joined
<1> HIDE DEF b
<1>4. /\ Lists(c, 12 + 1)
      /\ \A at \in Nat : Holds(c, at) => Holds(b, at) /\ Holds(ErrorCheck, at + 12)
  BY <1>3, DriveLists, Joined
<1> HIDE DEF c
<1>5. /\ Lists(d, 13 + PacketSize)
      /\ \A at \in Nat : Holds(d, at) => Holds(c, at) /\ Holds(Packet, at + 13)
  BY <1>4, DriveLists, KernelAssumption, Joined
<1> HIDE DEF d
<1>6. /\ Lists(e, 7 + (13 + PacketSize))
      /\ \A at \in Nat : Holds(e, at) => Holds(AtapiDrivesel, at) /\ Holds(d, at + 7)
  <2>1. 13 + PacketSize \in Nat
    BY KernelAssumption
  <2> QED
    BY <1>5, <2>1, DriveLists, Joined
<1> HIDE DEF e
<1>7. /\ Lists(f, (20 + PacketSize) + 2)
      /\ \A at \in Nat :
            Holds(f, at) => Holds(e, at) /\ Holds(DriveAnswer, at + (20 + PacketSize))
  <2>1. 20 + PacketSize \in Nat /\ 7 + (13 + PacketSize) = 20 + PacketSize
    BY KernelAssumption
  <2> QED
    BY <1>6, <2>1, DriveLists, Joined
<1> HIDE DEF f
<1>8. /\ (20 + PacketSize) + 2 = 22 + PacketSize
      /\ 0 + (20 + PacketSize) = 20 + PacketSize
  BY KernelAssumption
<1>9. ASSUME Holds(f, 0)
      PROVE  /\ Holds(AtapiDrivesel, 0) /\ Holds(DriveCommand, 7)
             /\ Holds(BusyWait, 11) /\ Holds(ReadyWait, 15) /\ Holds(ErrorCheck, 19)
             /\ Holds(Packet, 20) /\ Holds(DriveAnswer, 20 + PacketSize)
  <2>1. Holds(e, 0) /\ Holds(DriveAnswer, 20 + PacketSize)
    BY <1>7, <1>8, <1>9
  <2>2. Holds(AtapiDrivesel, 0) /\ Holds(d, 7)
    BY <1>6, <2>1
  <2>3. Holds(c, 7) /\ Holds(Packet, 20)
    BY <1>5, <2>2
  <2>4. Holds(b, 7) /\ Holds(ErrorCheck, 19)
    BY <1>4, <2>3
  <2>5. Holds(a, 7) /\ Holds(ReadyWait, 15)
    BY <1>3, <2>4
  <2>6. Holds(DriveCommand, 7) /\ Holds(BusyWait, 11)
    BY <1>2, <2>5
  <2> QED
    BY <2>1, <2>2, <2>3, <2>4, <2>5, <2>6
<1> QED
  BY <1>1, <1>7, <1>8, <1>9

LEMMA UartPlaces ==
    /\ Lists(UartInit, 14)
    /\ \A at \in Nat : Holds(UartInit, at) =>
          Holds(UartBegin, at) /\ Holds(UartTest, at + 8) /\ Holds(UartEnd, at + 13)
<1> DEFINE a == UartBegin \o UartTest
           b == a \o UartEnd
<1>1. UartInit = b
  BY DEF a, b, UartInit, UartBegin, UartEnd
<1>2. /\ Lists(a, 8 + 5)
      /\ \A at \in Nat : Holds(a, at) => Holds(UartBegin, at) /\ Holds(UartTest, at + 8)
  BY UartLists, Joined
<1> HIDE DEF a
<1>3. /\ Lists(b, 13 + 1)
      /\ \A at \in Nat : Holds(b, at) => Holds(a, at) /\ Holds(UartEnd, at + 13)
  BY <1>2, UartLists, Joined
<1> HIDE DEF b
<1> QED
  BY <1>1, <1>2, <1>3

LEMMA Ps2Places ==
    /\ Lists(Ps2Init, 33)
    /\ \A at \in Nat : Holds(Ps2Init, at) =>
          /\ Holds(Ps2Begin, at) /\ Holds(IfDual(Second), at + 15)
          /\ Holds(FirstPort, at + 21) /\ Holds(IfDual(SecondPort), at + 25)
          /\ Holds(Ps2End, at + 29) /\ Holds(IfDual(SecondEnd), at + 31)
<1> DEFINE a == Ps2Begin \o IfDual(Second)
           b == a \o FirstPort
           c == b \o IfDual(SecondPort)
           d == c \o Ps2End
           e == d \o IfDual(SecondEnd)
<1>1. Ps2Init = e
  BY DEF a, b, c, d, e, Ps2Init, Ps2Begin, Second, FirstPort, SecondPort, Ps2End, SecondEnd
<1>2. Lists(IfDual(Second), 6) /\ Lists(IfDual(SecondPort), 4) /\ Lists(IfDual(SecondEnd), 2)
  BY Ps2Lists, IfDualLists
<1>3. /\ Lists(a, 15 + 6)
      /\ \A at \in Nat : Holds(a, at) => Holds(Ps2Begin, at) /\ Holds(IfDual(Second), at + 15)
  BY <1>2, Ps2Lists, Joined
<1> HIDE DEF a
<1>4. /\ Lists(b, 21 + 4)
      /\ \A at \in Nat : Holds(b, at) => Holds(a, at) /\ Holds(FirstPort, at + 21)
  BY <1>3, Ps2Lists, Joined
<1> HIDE DEF b
<1>5. /\ Lists(c, 25 + 4)
      /\ \A at \in Nat : Holds(c, at) => Holds(b, at) /\ Holds(IfDual(SecondPort), at + 25)
  BY <1>2, <1>4, Joined
<1> HIDE DEF c
<1>6. /\ Lists(d, 29 + 2)
      /\ \A at \in Nat : Holds(d, at) => Holds(c, at) /\ Holds(Ps2End, at + 29)
  BY <1>5, Ps2Lists, Joined
<1> HIDE DEF d
<1>7. /\ Lists(e, 31 + 2)
      /\ \A at \in Nat : Holds(e, at) => Holds(d, at) /\ Holds(IfDual(SecondEnd), at + 31)
  BY <1>2, <1>6, Joined
<1> HIDE DEF e
<1> QED
  BY <1>1, <1>3, <1>4, <1>5, <1>6, <1>7

LEMMA Spots ==
    /\ AtUart \in Nat /\ AtPs2 \in Nat /\ AtKeyboard \in Nat /\ AtMenu \in Nat
    /\ AtUart >= 22 /\ AtPs2 = AtUart + 14 /\ AtKeyboard = AtPs2 + 33
    /\ AtMenu = AtKeyboard + 29
BY KernelAssumption DEF AtUart, AtPs2, AtKeyboard, AtMenu

LEMMA DriveSpots == AtUart = 22 + PacketSize /\ PacketSize \in Nat
BY KernelAssumption DEF AtUart

LEMMA StartUpPlaces ==
    /\ Len(StartUp) = AtMenu
    /\ AtUart \in Nat /\ AtUart >= 22 /\ AtUart = 22 + PacketSize
    /\ AtPs2 = AtUart + 14 /\ AtKeyboard = AtPs2 + 33 /\ AtMenu = AtKeyboard + 29
    /\ Holds(AtapiRead, 0) /\ Holds(UartInit, AtUart)
    /\ Holds(Ps2Init, AtPs2) /\ Holds(Ps2InitKeyboard, AtKeyboard)
<1> DEFINE a == AtapiRead \o UartInit
           b == a \o Ps2Init
           c == b \o Ps2InitKeyboard
<1>1. StartUp = c
  BY DEF a, b, c, StartUp
<1>2. /\ AtUart \in Nat /\ AtPs2 \in Nat /\ AtKeyboard \in Nat /\ AtMenu \in Nat
      /\ AtUart >= 22 /\ AtUart = 22 + PacketSize
      /\ AtPs2 = AtUart + 14 /\ AtKeyboard = AtPs2 + 33 /\ AtMenu = AtKeyboard + 29
  BY Spots, DriveSpots
<1>3. Lists(AtapiRead, AtUart)
  BY <1>2, DrivePlaces
<1>4. /\ Lists(a, AtUart + 14)
      /\ \A at \in Nat : Holds(a, at) => Holds(AtapiRead, at) /\ Holds(UartInit, at + AtUart)
  BY <1>2, <1>3, UartPlaces, Joined
<1> HIDE DEF a
<1>5. /\ Lists(b, AtPs2 + 33)
      /\ \A at \in Nat : Holds(b, at) => Holds(a, at) /\ Holds(Ps2Init, at + AtPs2)
  BY <1>2, <1>4, Ps2Places, Joined
<1> HIDE DEF b
<1>6. /\ Lists(c, AtKeyboard + 29)
      /\ \A at \in Nat : Holds(c, at) => Holds(b, at) /\ Holds(Ps2InitKeyboard, at + AtKeyboard)
  BY <1>2, <1>5, Ps2Lists, Joined
<1> HIDE DEF c
<1>7. Holds(StartUp, 0)
  BY DEF Holds
<1>8. Holds(b, 0) /\ Holds(Ps2InitKeyboard, AtKeyboard) /\ Len(StartUp) = AtMenu
  BY <1>1, <1>2, <1>6, <1>7 DEF Lists
<1>9. Holds(a, 0) /\ Holds(Ps2Init, AtPs2)
  BY <1>2, <1>5, <1>8
<1>10. Holds(AtapiRead, 0) /\ Holds(UartInit, AtUart)
  BY <1>2, <1>4, <1>9
<1> QED
  BY <1>2, <1>8, <1>9, <1>10

-----------------------------------------------------------------------------
(* What is done where.                                                     *)
LEMMA StartUpLength == Len(StartUp) = AtMenu
BY StartUpPlaces

BeginOp     == [do |-> "begin wait"]
UntilSet    == [do |-> "until", set |-> TRUE]
UntilClear  == [do |-> "until", set |-> FALSE]
TakeOp(mask) == [do |-> "take status", mask |-> mask]
ErrorBitOp  == [do |-> "error bit?"]
DisplayOp   == [do |-> "display"]

LEMMA Here ==
    ASSUME NEW n \in Nat, NEW s, Lists(s, n), NEW at \in Nat, Holds(s, at)
    PROVE  \A k \in 1 .. n : StartUp[at + k] = s[k]
BY DEF Lists, Holds

LEMMA DriveOps ==
    /\ StartUp[1] = In8(503) /\ StartUp[2] = DriveCheck
    /\ StartUp[3] = Out8(502, 160)
    /\ \A p \in 4 .. 7 : StartUp[p] = In8(1014)
    /\ StartUp[8] = Out8(497, 0) /\ StartUp[9] = Out8(500, 0)
    /\ StartUp[10] = Out8(501, 0) /\ StartUp[11] = Out8(503, 160)
    /\ StartUp[12] = BeginOp /\ StartUp[13] = UntilSet
    /\ StartUp[14] = In8(503)
    /\ StartUp[15] = TakeOp(128)
    /\ StartUp[16] = BeginOp /\ StartUp[17] = UntilClear
    /\ StartUp[18] = In8(503)
    /\ StartUp[19] = TakeOp(9)
    /\ StartUp[20] = ErrorBitOp
    /\ \A p \in 21 .. 20 + PacketSize : StartUp[p] = Out8(496, 0)
    /\ StartUp[21 + PacketSize] = In8(501) /\ StartUp[22 + PacketSize] = In8(500)
<1>1. /\ Holds(AtapiDrivesel, 0) /\ Holds(DriveCommand, 7)
      /\ Holds(BusyWait, 11) /\ Holds(ReadyWait, 15) /\ Holds(ErrorCheck, 19)
      /\ Holds(Packet, 20) /\ Holds(DriveAnswer, 20 + PacketSize)
  BY StartUpPlaces, DrivePlaces
<1>2. \A k \in 1 .. 7 : StartUp[k] = AtapiDrivesel[k]
  <2>1. \A k \in 1 .. 7 : StartUp[0 + k] = AtapiDrivesel[k]
    BY <1>1, DriveLists, Here
  <2> QED
    BY <2>1
<1>3. /\ StartUp[1] = In8(503) /\ StartUp[2] = DriveCheck
      /\ StartUp[3] = Out8(502, 160) /\ \A p \in 4 .. 7 : StartUp[p] = In8(1014)
  <2>1. AtapiDrivesel = <<In8(Ata(7)), DriveCheck, Out8(Ata(6), 160),
                          In8(Control), In8(Control), In8(Control), In8(Control)>>
    BY Zenon DEF AtapiDrivesel, DriveCheck
  <2> QED
    BY <1>2, <2>1 DEF Control, Ata
<1>4. \A k \in 1 .. 4 : StartUp[7 + k] = DriveCommand[k]
  BY <1>1, DriveLists DEF Holds, Lists
<1>5. /\ StartUp[8] = Out8(497, 0) /\ StartUp[9] = Out8(500, 0)
      /\ StartUp[10] = Out8(501, 0) /\ StartUp[11] = Out8(503, 160)
  <2>1. /\ StartUp[7 + 1] = DriveCommand[1] /\ StartUp[7 + 2] = DriveCommand[2]
        /\ StartUp[7 + 3] = DriveCommand[3] /\ StartUp[7 + 4] = DriveCommand[4]
    BY <1>4
  <2> QED
    BY <2>1 DEF DriveCommand, Ata
<1>6. /\ StartUp[12] = BeginOp /\ StartUp[13] = UntilSet
      /\ StartUp[14] = In8(503)
      /\ StartUp[15] = TakeOp(128)
  <2>1. \A k \in 1 .. 4 : StartUp[11 + k] = BusyWait[k]
    BY <1>1, DriveLists DEF Holds, Lists
  <2>2. /\ StartUp[11 + 1] = BusyWait[1] /\ StartUp[11 + 2] = BusyWait[2]
        /\ StartUp[11 + 3] = BusyWait[3] /\ StartUp[11 + 4] = BusyWait[4]
    BY <2>1
  <2>3. BusyWait = <<BeginOp, UntilSet, In8(Ata(7)), TakeOp(128)>>
    BY Zenon DEF BusyWait, WaitUntil, BeginOp, UntilSet, TakeOp
  <2> QED
    BY <2>2, <2>3 DEF Ata
<1>7. /\ StartUp[16] = BeginOp /\ StartUp[17] = UntilClear
      /\ StartUp[18] = In8(503)
      /\ StartUp[19] = TakeOp(9)
  <2>1. \A k \in 1 .. 4 : StartUp[15 + k] = ReadyWait[k]
    BY <1>1, DriveLists DEF Holds, Lists
  <2>2. /\ StartUp[15 + 1] = ReadyWait[1] /\ StartUp[15 + 2] = ReadyWait[2]
        /\ StartUp[15 + 3] = ReadyWait[3] /\ StartUp[15 + 4] = ReadyWait[4]
    BY <2>1
  <2>3. ReadyWait = <<BeginOp, UntilClear, In8(Ata(7)), TakeOp(9)>>
    BY Zenon DEF ReadyWait, WaitUntil, BeginOp, UntilClear, TakeOp
  <2> QED
    BY <2>2, <2>3 DEF Ata
<1>8. StartUp[20] = ErrorBitOp
  <2>1. StartUp[19 + 1] = ErrorCheck[1]
    BY <1>1, DriveLists DEF Holds, Lists
  <2>2. ErrorCheck = <<ErrorBitOp>>
    BY Zenon DEF ErrorCheck, ErrorBitOp
  <2> QED
    BY <2>1, <2>2
<1>9. \A p \in 21 .. 20 + PacketSize : StartUp[p] = Out8(496, 0)
  <2>1. \A k \in 1 .. PacketSize : StartUp[20 + k] = Packet[k]
    BY <1>1, DriveLists DEF Holds, Lists
  <2>2. \A k \in 1 .. PacketSize : Packet[k] = Out8(496, 0)
    BY DEF Packet, Ata
  <2>3. \A p \in 21 .. 20 + PacketSize : p - 20 \in 1 .. PacketSize /\ 20 + (p - 20) = p
    BY KernelAssumption
  <2> QED
    BY <2>1, <2>2, <2>3
<1>10. StartUp[21 + PacketSize] = In8(501) /\ StartUp[22 + PacketSize] = In8(500)
  <2>1. /\ StartUp[(20 + PacketSize) + 1] = DriveAnswer[1]
        /\ StartUp[(20 + PacketSize) + 2] = DriveAnswer[2]
    BY <1>1, DriveLists DEF Holds, Lists
  <2>2. (20 + PacketSize) + 1 = 21 + PacketSize /\ (20 + PacketSize) + 2 = 22 + PacketSize
    BY KernelAssumption
  <2> QED
    BY <2>1, <2>2 DEF DriveAnswer, Ata
<1> QED
  BY <1>3, <1>5, <1>6, <1>7, <1>8, <1>9, <1>10

LEMMA UartOps ==
    /\ StartUp[AtUart + 1] = Out8(1017, 0)   /\ StartUp[AtUart + 2] = Out8(1019, 128)
    /\ StartUp[AtUart + 3] = Out8(1016, 3)   /\ StartUp[AtUart + 4] = Out8(1017, 0)
    /\ StartUp[AtUart + 5] = Out8(1019, 3)   /\ StartUp[AtUart + 6] = Out8(1018, 199)
    /\ StartUp[AtUart + 7] = Out8(1020, 11)  /\ StartUp[AtUart + 8] = Out8(1020, 30)
    /\ StartUp[AtUart + 9] = Out8(1016, 174) /\ StartUp[AtUart + 10] = DisplayOp
    /\ StartUp[AtUart + 11] = In8(1016)      /\ StartUp[AtUart + 12] = DisplayOp
    /\ StartUp[AtUart + 13] = UartCheck
    /\ StartUp[AtUart + 14] = Out8(1020, 15)
<1>1. AtUart \in Nat
  BY Spots
<1>2. Holds(UartBegin, AtUart) /\ Holds(UartTest, AtUart + 8) /\ Holds(UartEnd, AtUart + 13)
  BY <1>1, StartUpPlaces, UartPlaces
<1> HIDE DEF AtUart
<1>3. /\ \A k \in 1 .. 8 : StartUp[AtUart + k] = UartBegin[k]
      /\ \A k \in 1 .. 5 : StartUp[(AtUart + 8) + k] = UartTest[k]
      /\ StartUp[(AtUart + 13) + 1] = UartEnd[1]
  BY <1>2, UartLists DEF Holds, Lists
<1>4. /\ StartUp[AtUart + 1] = UartBegin[1] /\ StartUp[AtUart + 2] = UartBegin[2]
      /\ StartUp[AtUart + 3] = UartBegin[3] /\ StartUp[AtUart + 4] = UartBegin[4]
      /\ StartUp[AtUart + 5] = UartBegin[5] /\ StartUp[AtUart + 6] = UartBegin[6]
      /\ StartUp[AtUart + 7] = UartBegin[7] /\ StartUp[AtUart + 8] = UartBegin[8]
  BY <1>3
<1>5. /\ StartUp[AtUart + 9] = UartTest[1] /\ StartUp[AtUart + 10] = UartTest[2]
      /\ StartUp[AtUart + 11] = UartTest[3] /\ StartUp[AtUart + 12] = UartTest[4]
      /\ StartUp[AtUart + 13] = UartTest[5]
  <2>1. /\ (AtUart + 8) + 1 = AtUart + 9 /\ (AtUart + 8) + 2 = AtUart + 10
        /\ (AtUart + 8) + 3 = AtUart + 11 /\ (AtUart + 8) + 4 = AtUart + 12
        /\ (AtUart + 8) + 5 = AtUart + 13
    BY <1>1
  <2> QED
    BY <1>3, <2>1
<1>6. StartUp[AtUart + 14] = UartEnd[1]
  <2>1. (AtUart + 13) + 1 = AtUart + 14
    BY <1>1
  <2> QED
    BY <1>3, <2>1
<1> QED
  <2>1. UartTest = <<Out8(Com(0), 174), DisplayOp, In8(Com(0)), DisplayOp, UartCheck>>
    BY Zenon DEF UartTest, DisplayOp, UartCheck
  <2>2. /\ StartUp[AtUart + 1] = Out8(1017, 0)   /\ StartUp[AtUart + 2] = Out8(1019, 128)
        /\ StartUp[AtUart + 3] = Out8(1016, 3)   /\ StartUp[AtUart + 4] = Out8(1017, 0)
        /\ StartUp[AtUart + 5] = Out8(1019, 3)   /\ StartUp[AtUart + 6] = Out8(1018, 199)
        /\ StartUp[AtUart + 7] = Out8(1020, 11)  /\ StartUp[AtUart + 8] = Out8(1020, 30)
    BY <1>4 DEF UartBegin, Com
  <2>3. /\ StartUp[AtUart + 9] = Out8(1016, 174) /\ StartUp[AtUart + 10] = DisplayOp
        /\ StartUp[AtUart + 11] = In8(1016)      /\ StartUp[AtUart + 12] = DisplayOp
        /\ StartUp[AtUart + 13] = UartCheck
    BY <1>5, <2>1 DEF Com
  <2>4. StartUp[AtUart + 14] = Out8(1020, 15)
    BY <1>6 DEF UartEnd, Com
  <2> QED
    BY <2>2, <2>3, <2>4

LEMMA Ps2Ops ==
    /\ StartUp[AtPs2 + 1] = Command(173) /\ StartUp[AtPs2 + 2] = Command(167)
    /\ StartUp[AtPs2 + 3] = Read /\ StartUp[AtPs2 + 4] = Command(32)
    /\ StartUp[AtPs2 + 5] = Wait /\ StartUp[AtPs2 + 6] = Read
    /\ StartUp[AtPs2 + 7] = Ps2("configure") /\ StartUp[AtPs2 + 8] = Command(96)
    /\ StartUp[AtPs2 + 9] = Config /\ StartUp[AtPs2 + 10] = Command(170)
    /\ StartUp[AtPs2 + 11] = Wait /\ StartUp[AtPs2 + 12] = Read
    /\ StartUp[AtPs2 + 13] = Fails("PS2 controller test", 85)
    /\ StartUp[AtPs2 + 14] = Command(96) /\ StartUp[AtPs2 + 15] = Config
    /\ StartUp[AtPs2 + 16] = Dual(Command(168))
    /\ StartUp[AtPs2 + 17] = Dual(Command(32)) /\ StartUp[AtPs2 + 18] = Dual(Wait)
    /\ StartUp[AtPs2 + 19] = Dual(Read)
    /\ StartUp[AtPs2 + 20] = Dual(Ps2("second started?"))
    /\ StartUp[AtPs2 + 21] = Dual(Command(167)) /\ StartUp[AtPs2 + 22] = Wait
    /\ StartUp[AtPs2 + 23] = Command(171) /\ StartUp[AtPs2 + 24] = Read
    /\ StartUp[AtPs2 + 25] = Fails("First port test", 0)
    /\ StartUp[AtPs2 + 26] = Dual(Wait) /\ StartUp[AtPs2 + 27] = Dual(Command(169))
    /\ StartUp[AtPs2 + 28] = Dual(Read)
    /\ StartUp[AtPs2 + 29] = Dual(Fails("Second port test", 0))
    /\ StartUp[AtPs2 + 30] = Wait /\ StartUp[AtPs2 + 31] = Command(174)
    /\ StartUp[AtPs2 + 32] = Dual(Wait) /\ StartUp[AtPs2 + 33] = Dual(Command(168))
<1>1. AtPs2 \in Nat
  BY Spots
<1>2. /\ Holds(Ps2Begin, AtPs2) /\ Holds(IfDual(Second), AtPs2 + 15)
      /\ Holds(FirstPort, AtPs2 + 21) /\ Holds(IfDual(SecondPort), AtPs2 + 25)
      /\ Holds(Ps2End, AtPs2 + 29) /\ Holds(IfDual(SecondEnd), AtPs2 + 31)
  BY <1>1, StartUpPlaces, Ps2Places
<1> HIDE DEF AtPs2
<1>3. /\ StartUp[AtPs2 + 1] = Command(173) /\ StartUp[AtPs2 + 2] = Command(167)
      /\ StartUp[AtPs2 + 3] = Read /\ StartUp[AtPs2 + 4] = Command(32)
      /\ StartUp[AtPs2 + 5] = Wait /\ StartUp[AtPs2 + 6] = Read
      /\ StartUp[AtPs2 + 7] = Ps2("configure") /\ StartUp[AtPs2 + 8] = Command(96)
      /\ StartUp[AtPs2 + 9] = Config /\ StartUp[AtPs2 + 10] = Command(170)
      /\ StartUp[AtPs2 + 11] = Wait /\ StartUp[AtPs2 + 12] = Read
      /\ StartUp[AtPs2 + 13] = Fails("PS2 controller test", 85)
      /\ StartUp[AtPs2 + 14] = Command(96) /\ StartUp[AtPs2 + 15] = Config
  <2>1. Lists(Ps2Begin, 15)
    BY Ps2Lists
  <2>2. \A k \in 1 .. 15 : StartUp[AtPs2 + k] = Ps2Begin[k]
    BY <1>1, <1>2, <2>1, Here
  <2>3. /\ StartUp[AtPs2 + 1] = Ps2Begin[1] /\ StartUp[AtPs2 + 2] = Ps2Begin[2]
        /\ StartUp[AtPs2 + 3] = Ps2Begin[3] /\ StartUp[AtPs2 + 4] = Ps2Begin[4]
        /\ StartUp[AtPs2 + 5] = Ps2Begin[5] /\ StartUp[AtPs2 + 6] = Ps2Begin[6]
        /\ StartUp[AtPs2 + 7] = Ps2Begin[7] /\ StartUp[AtPs2 + 8] = Ps2Begin[8]
        /\ StartUp[AtPs2 + 9] = Ps2Begin[9] /\ StartUp[AtPs2 + 10] = Ps2Begin[10]
        /\ StartUp[AtPs2 + 11] = Ps2Begin[11] /\ StartUp[AtPs2 + 12] = Ps2Begin[12]
        /\ StartUp[AtPs2 + 13] = Ps2Begin[13] /\ StartUp[AtPs2 + 14] = Ps2Begin[14]
        /\ StartUp[AtPs2 + 15] = Ps2Begin[15]
    BY <2>2
  <2> QED
    BY <2>3 DEF Ps2Begin
<1>4. /\ StartUp[AtPs2 + 16] = Dual(Command(168))
      /\ StartUp[AtPs2 + 17] = Dual(Command(32)) /\ StartUp[AtPs2 + 18] = Dual(Wait)
      /\ StartUp[AtPs2 + 19] = Dual(Read)
      /\ StartUp[AtPs2 + 20] = Dual(Ps2("second started?"))
      /\ StartUp[AtPs2 + 21] = Dual(Command(167))
  <2>1. Lists(Second, 6)
    BY Ps2Lists
  <2>2. \A k \in 1 .. 6 : StartUp[(AtPs2 + 15) + k] = Dual(Second[k])
    BY <1>1, <1>2, <2>1, IfDualLists, Here
  <2>3. /\ StartUp[AtPs2 + 16] = Dual(Second[1])
        /\ StartUp[AtPs2 + 17] = Dual(Second[2])
        /\ StartUp[AtPs2 + 18] = Dual(Second[3])
        /\ StartUp[AtPs2 + 19] = Dual(Second[4])
        /\ StartUp[AtPs2 + 20] = Dual(Second[5])
        /\ StartUp[AtPs2 + 21] = Dual(Second[6])
    <3>1. /\ (AtPs2 + 15) + 1 = AtPs2 + 16
          /\ (AtPs2 + 15) + 2 = AtPs2 + 17
          /\ (AtPs2 + 15) + 3 = AtPs2 + 18
          /\ (AtPs2 + 15) + 4 = AtPs2 + 19
          /\ (AtPs2 + 15) + 5 = AtPs2 + 20
          /\ (AtPs2 + 15) + 6 = AtPs2 + 21
      BY <1>1
    <3> QED
      BY <2>2, <3>1
  <2> QED
    BY <2>3 DEF Second
<1>5. /\ StartUp[AtPs2 + 22] = Wait /\ StartUp[AtPs2 + 23] = Command(171)
      /\ StartUp[AtPs2 + 24] = Read
      /\ StartUp[AtPs2 + 25] = Fails("First port test", 0)
  <2>1. Lists(FirstPort, 4)
    BY Ps2Lists
  <2>2. \A k \in 1 .. 4 : StartUp[(AtPs2 + 21) + k] = FirstPort[k]
    BY <1>1, <1>2, <2>1, Here
  <2>3. /\ StartUp[AtPs2 + 22] = FirstPort[1] /\ StartUp[AtPs2 + 23] = FirstPort[2]
        /\ StartUp[AtPs2 + 24] = FirstPort[3] /\ StartUp[AtPs2 + 25] = FirstPort[4]
    <3>1. /\ (AtPs2 + 21) + 1 = AtPs2 + 22
          /\ (AtPs2 + 21) + 2 = AtPs2 + 23
          /\ (AtPs2 + 21) + 3 = AtPs2 + 24
          /\ (AtPs2 + 21) + 4 = AtPs2 + 25
      BY <1>1
    <3> QED
      BY <2>2, <3>1
  <2> QED
    BY <2>3 DEF FirstPort
<1>6. /\ StartUp[AtPs2 + 26] = Dual(Wait) /\ StartUp[AtPs2 + 27] = Dual(Command(169))
      /\ StartUp[AtPs2 + 28] = Dual(Read)
      /\ StartUp[AtPs2 + 29] = Dual(Fails("Second port test", 0))
  <2>1. Lists(SecondPort, 4)
    BY Ps2Lists
  <2>2. \A k \in 1 .. 4 : StartUp[(AtPs2 + 25) + k] = Dual(SecondPort[k])
    BY <1>1, <1>2, <2>1, IfDualLists, Here
  <2>3. /\ StartUp[AtPs2 + 26] = Dual(SecondPort[1])
        /\ StartUp[AtPs2 + 27] = Dual(SecondPort[2])
        /\ StartUp[AtPs2 + 28] = Dual(SecondPort[3])
        /\ StartUp[AtPs2 + 29] = Dual(SecondPort[4])
    <3>1. /\ (AtPs2 + 25) + 1 = AtPs2 + 26
          /\ (AtPs2 + 25) + 2 = AtPs2 + 27
          /\ (AtPs2 + 25) + 3 = AtPs2 + 28
          /\ (AtPs2 + 25) + 4 = AtPs2 + 29
      BY <1>1
    <3> QED
      BY <2>2, <3>1
  <2> QED
    BY <2>3 DEF SecondPort
<1>7. /\ StartUp[AtPs2 + 30] = Wait /\ StartUp[AtPs2 + 31] = Command(174)
  <2>1. Lists(Ps2End, 2)
    BY Ps2Lists
  <2>2. \A k \in 1 .. 2 : StartUp[(AtPs2 + 29) + k] = Ps2End[k]
    BY <1>1, <1>2, <2>1, Here
  <2>3. /\ StartUp[AtPs2 + 30] = Ps2End[1] /\ StartUp[AtPs2 + 31] = Ps2End[2]
    <3>1. /\ (AtPs2 + 29) + 1 = AtPs2 + 30
          /\ (AtPs2 + 29) + 2 = AtPs2 + 31
      BY <1>1
    <3> QED
      BY <2>2, <3>1
  <2> QED
    BY <2>3 DEF Ps2End
<1>8. /\ StartUp[AtPs2 + 32] = Dual(Wait) /\ StartUp[AtPs2 + 33] = Dual(Command(168))
  <2>1. Lists(SecondEnd, 2)
    BY Ps2Lists
  <2>2. \A k \in 1 .. 2 : StartUp[(AtPs2 + 31) + k] = Dual(SecondEnd[k])
    BY <1>1, <1>2, <2>1, IfDualLists, Here
  <2>3. /\ StartUp[AtPs2 + 32] = Dual(SecondEnd[1])
        /\ StartUp[AtPs2 + 33] = Dual(SecondEnd[2])
    <3>1. /\ (AtPs2 + 31) + 1 = AtPs2 + 32
          /\ (AtPs2 + 31) + 2 = AtPs2 + 33
      BY <1>1
    <3> QED
      BY <2>2, <3>1
  <2> QED
    BY <2>3 DEF SecondEnd
<1> QED
  BY <1>3, <1>4, <1>5, <1>6, <1>7, <1>8

LEMMA KeyboardOps ==
    /\ StartUp[AtKeyboard + 1] = WriteFirst(255)
    /\ StartUp[AtKeyboard + 2] = Data(255) /\ StartUp[AtKeyboard + 3] = Wait
    /\ StartUp[AtKeyboard + 4] = Read /\ StartUp[AtKeyboard + 5] = WriteFirst(246)
    /\ StartUp[AtKeyboard + 6] = Data(246) /\ StartUp[AtKeyboard + 7] = Wait
    /\ StartUp[AtKeyboard + 8] = Read /\ StartUp[AtKeyboard + 9] = WriteFirst(243)
    /\ StartUp[AtKeyboard + 10] = Data(243)
    /\ StartUp[AtKeyboard + 11] = WriteFirst(127)
    /\ StartUp[AtKeyboard + 12] = Data(127) /\ StartUp[AtKeyboard + 13] = Wait
    /\ StartUp[AtKeyboard + 14] = Read /\ StartUp[AtKeyboard + 15] = WriteFirst(244)
    /\ StartUp[AtKeyboard + 16] = Data(244) /\ StartUp[AtKeyboard + 17] = Wait
    /\ StartUp[AtKeyboard + 18] = Read /\ StartUp[AtKeyboard + 19] = Command(32)
    /\ StartUp[AtKeyboard + 20] = Wait /\ StartUp[AtKeyboard + 21] = Read
    /\ StartUp[AtKeyboard + 22] = Ps2("read configuration")
    /\ StartUp[AtKeyboard + 23] = Command(96) /\ StartUp[AtKeyboard + 24] = Wait
    /\ StartUp[AtKeyboard + 25] = Config /\ StartUp[AtKeyboard + 26] = WriteFirst(240)
    /\ StartUp[AtKeyboard + 27] = Data(240)
    /\ StartUp[AtKeyboard + 28] = WriteFirst(1) /\ StartUp[AtKeyboard + 29] = Data(1)
<1>1. AtKeyboard \in Nat /\ Holds(Ps2InitKeyboard, AtKeyboard) /\ Lists(Ps2InitKeyboard, 29)
  <2>1. AtKeyboard \in Nat
    BY Spots
  <2>2. Holds(Ps2InitKeyboard, AtKeyboard)
    BY StartUpPlaces, Zenon
  <2>3. Lists(Ps2InitKeyboard, 29)
    BY Ps2Lists, Zenon
  <2> QED
    BY <2>1, <2>2, <2>3
<1> HIDE DEF AtKeyboard
<1>2. \A k \in 1 .. 29 : StartUp[AtKeyboard + k] = Ps2InitKeyboard[k]
  BY <1>1, Here
<1>3. /\ StartUp[AtKeyboard + 1] = WriteFirst(255)
      /\ StartUp[AtKeyboard + 2] = Data(255) /\ StartUp[AtKeyboard + 3] = Wait
      /\ StartUp[AtKeyboard + 4] = Read /\ StartUp[AtKeyboard + 5] = WriteFirst(246)
      /\ StartUp[AtKeyboard + 6] = Data(246) /\ StartUp[AtKeyboard + 7] = Wait
      /\ StartUp[AtKeyboard + 8] = Read
  <2>1. /\ StartUp[AtKeyboard + 1] = Ps2InitKeyboard[1]
        /\ StartUp[AtKeyboard + 2] = Ps2InitKeyboard[2]
        /\ StartUp[AtKeyboard + 3] = Ps2InitKeyboard[3]
        /\ StartUp[AtKeyboard + 4] = Ps2InitKeyboard[4]
        /\ StartUp[AtKeyboard + 5] = Ps2InitKeyboard[5]
        /\ StartUp[AtKeyboard + 6] = Ps2InitKeyboard[6]
        /\ StartUp[AtKeyboard + 7] = Ps2InitKeyboard[7]
        /\ StartUp[AtKeyboard + 8] = Ps2InitKeyboard[8]
    BY <1>2
  <2>2. /\ Ps2InitKeyboard[1] = WriteFirst(255) /\ Ps2InitKeyboard[2] = Data(255)
        /\ Ps2InitKeyboard[3] = Wait /\ Ps2InitKeyboard[4] = Read
        /\ Ps2InitKeyboard[5] = WriteFirst(246) /\ Ps2InitKeyboard[6] = Data(246)
        /\ Ps2InitKeyboard[7] = Wait /\ Ps2InitKeyboard[8] = Read
    BY DEF Ps2InitKeyboard
  <2> QED
    BY <2>1, <2>2
<1>4. /\ StartUp[AtKeyboard + 9] = WriteFirst(243)
      /\ StartUp[AtKeyboard + 10] = Data(243)
      /\ StartUp[AtKeyboard + 11] = WriteFirst(127)
      /\ StartUp[AtKeyboard + 12] = Data(127) /\ StartUp[AtKeyboard + 13] = Wait
      /\ StartUp[AtKeyboard + 14] = Read
  <2>1. /\ StartUp[AtKeyboard + 9] = Ps2InitKeyboard[9]
        /\ StartUp[AtKeyboard + 10] = Ps2InitKeyboard[10]
        /\ StartUp[AtKeyboard + 11] = Ps2InitKeyboard[11]
        /\ StartUp[AtKeyboard + 12] = Ps2InitKeyboard[12]
        /\ StartUp[AtKeyboard + 13] = Ps2InitKeyboard[13]
        /\ StartUp[AtKeyboard + 14] = Ps2InitKeyboard[14]
    BY <1>2
  <2>2. /\ Ps2InitKeyboard[9] = WriteFirst(243) /\ Ps2InitKeyboard[10] = Data(243)
        /\ Ps2InitKeyboard[11] = WriteFirst(127) /\ Ps2InitKeyboard[12] = Data(127)
        /\ Ps2InitKeyboard[13] = Wait /\ Ps2InitKeyboard[14] = Read
    BY DEF Ps2InitKeyboard
  <2> QED
    BY <2>1, <2>2
<1>5. /\ StartUp[AtKeyboard + 15] = WriteFirst(244)
      /\ StartUp[AtKeyboard + 16] = Data(244) /\ StartUp[AtKeyboard + 17] = Wait
      /\ StartUp[AtKeyboard + 18] = Read /\ StartUp[AtKeyboard + 19] = Command(32)
      /\ StartUp[AtKeyboard + 20] = Wait /\ StartUp[AtKeyboard + 21] = Read
      /\ StartUp[AtKeyboard + 22] = Ps2("read configuration")
  <2>1. /\ StartUp[AtKeyboard + 15] = Ps2InitKeyboard[15]
        /\ StartUp[AtKeyboard + 16] = Ps2InitKeyboard[16]
        /\ StartUp[AtKeyboard + 17] = Ps2InitKeyboard[17]
        /\ StartUp[AtKeyboard + 18] = Ps2InitKeyboard[18]
        /\ StartUp[AtKeyboard + 19] = Ps2InitKeyboard[19]
        /\ StartUp[AtKeyboard + 20] = Ps2InitKeyboard[20]
        /\ StartUp[AtKeyboard + 21] = Ps2InitKeyboard[21]
        /\ StartUp[AtKeyboard + 22] = Ps2InitKeyboard[22]
    BY <1>2
  <2>2. /\ Ps2InitKeyboard[15] = WriteFirst(244) /\ Ps2InitKeyboard[16] = Data(244)
        /\ Ps2InitKeyboard[17] = Wait /\ Ps2InitKeyboard[18] = Read
        /\ Ps2InitKeyboard[19] = Command(32) /\ Ps2InitKeyboard[20] = Wait
        /\ Ps2InitKeyboard[21] = Read /\ Ps2InitKeyboard[22] = Ps2("read configuration")
    BY DEF Ps2InitKeyboard
  <2> QED
    BY <2>1, <2>2
<1>6. /\ StartUp[AtKeyboard + 23] = Command(96) /\ StartUp[AtKeyboard + 24] = Wait
      /\ StartUp[AtKeyboard + 25] = Config /\ StartUp[AtKeyboard + 26] = WriteFirst(240)
      /\ StartUp[AtKeyboard + 27] = Data(240)
      /\ StartUp[AtKeyboard + 28] = WriteFirst(1) /\ StartUp[AtKeyboard + 29] = Data(1)
  <2>1. /\ StartUp[AtKeyboard + 23] = Ps2InitKeyboard[23]
        /\ StartUp[AtKeyboard + 24] = Ps2InitKeyboard[24]
        /\ StartUp[AtKeyboard + 25] = Ps2InitKeyboard[25]
        /\ StartUp[AtKeyboard + 26] = Ps2InitKeyboard[26]
        /\ StartUp[AtKeyboard + 27] = Ps2InitKeyboard[27]
        /\ StartUp[AtKeyboard + 28] = Ps2InitKeyboard[28]
        /\ StartUp[AtKeyboard + 29] = Ps2InitKeyboard[29]
    BY <1>2
  <2>2. /\ Ps2InitKeyboard[23] = Command(96) /\ Ps2InitKeyboard[24] = Wait
        /\ Ps2InitKeyboard[25] = Config /\ Ps2InitKeyboard[26] = WriteFirst(240)
        /\ Ps2InitKeyboard[27] = Data(240) /\ Ps2InitKeyboard[28] = WriteFirst(1)
        /\ Ps2InitKeyboard[29] = Data(1)
    BY DEF Ps2InitKeyboard
  <2> QED
    BY <2>1, <2>2
<1> QED
  BY <1>3, <1>4, <1>5, <1>6

(* What an operation does, of each kind.                                   *)
Does(op)   == op.do
PortOf(op) == op.port
DataOf(op) == op.data
FromOf(op) == op.from
MaskOf(op) == op.mask
TextOf(op) == op.text
ByteOf(op) == op.byte
IsDual(op) == op.dual

Calls(op) ==
    Does(op) = "hwio" /\ DataOf(op) \in Bytes /\ FromOf(op) \in {"value", "config", "before"}

Sends(op, byte) == Calls(op) /\ FromOf(op) = "value" /\ DataOf(op) = byte
Keeps(op)       == Calls(op) /\ FromOf(op) = "before"

LEMMA DriveKinds ==
    /\ \A x : Does(In8(x)) = "in" /\ PortOf(In8(x)) = x
    /\ \A x, y : /\ Does(Out8(x, y)) = "out" /\ PortOf(Out8(x, y)) = x
                 /\ DataOf(Out8(x, y)) = y
    /\ Does(DriveCheck) = "check" /\ Does(UartCheck) = "check"
    /\ Does(BeginOp) = "begin wait" /\ Does(UntilSet) = "until" /\ Does(UntilClear) = "until"
    /\ \A x : Does(TakeOp(x)) = "take status" /\ MaskOf(TakeOp(x)) = x
    /\ Does(ErrorBitOp) = "error bit?" /\ Does(DisplayOp) = "display"
<1>1. \A x : Does(In8(x)) = "in" /\ PortOf(In8(x)) = x
  BY DEF In8, Does, PortOf
<1>2. \A x, y : /\ Does(Out8(x, y)) = "out" /\ PortOf(Out8(x, y)) = x
                /\ DataOf(Out8(x, y)) = y
  BY DEF Out8, Does, PortOf, DataOf
<1>4. Does(DriveCheck) = "check" /\ Does(UartCheck) = "check"
  BY DEF DriveCheck, UartCheck, Check, Does
<1>5. Does(BeginOp) = "begin wait" /\ Does(UntilSet) = "until" /\ Does(UntilClear) = "until"
  BY DEF BeginOp, UntilSet, UntilClear, Does
<1>6. \A x : Does(TakeOp(x)) = "take status" /\ MaskOf(TakeOp(x)) = x
  BY DEF TakeOp, Does, MaskOf
<1>7. Does(ErrorBitOp) = "error bit?" /\ Does(DisplayOp) = "display"
  BY DEF ErrorBitOp, DisplayOp, Does
<1> QED
  BY <1>1, <1>2, <1>4, <1>5, <1>6, <1>7

LEMMA Ps2Kinds ==
    /\ \A c \in Bytes :
          /\ Sends(Command(c), c) /\ ~ IsDual(Command(c))
          /\ Sends(Data(c), c) /\ ~ IsDual(Data(c))
          /\ Sends(WriteFirst(c), c) /\ ~ IsDual(WriteFirst(c))
          /\ Sends(Dual(Command(c)), c) /\ IsDual(Dual(Command(c)))
    /\ Calls(Config) /\ ~ IsDual(Config)
    /\ Keeps(Wait) /\ ~ IsDual(Wait) /\ Keeps(Read) /\ ~ IsDual(Read)
    /\ Keeps(Dual(Wait)) /\ IsDual(Dual(Wait)) /\ Keeps(Dual(Read)) /\ IsDual(Dual(Read))
<1>1. ASSUME NEW mode, NEW port, NEW from \in {"value", "config", "before"}, NEW data \in Bytes
      PROVE  LET op == Hw(mode, port, from, data)
             IN /\ Calls(op) /\ FromOf(op) = from /\ DataOf(op) = data /\ ~ IsDual(op)
                /\ Calls(Dual(op)) /\ FromOf(Dual(op)) = from /\ DataOf(Dual(op)) = data
                /\ IsDual(Dual(op))
  BY DEF Hw, Calls, Dual, Does, FromOf, DataOf, IsDual
<1>2. 0 \in Bytes
  BY DEF Bytes
<1> QED
  BY <1>1, <1>2 DEF Command, Data, WriteFirst, Config, Wait, Read, Sends, Keeps

LEMMA OtherKinds ==
    /\ \A x : Does(Ps2(x)) = x /\ Does(Dual(Ps2(x))) = x /\ IsDual(Dual(Ps2(x)))
    /\ \A x, y :
          /\ Does(Fails(x, y)) = "fails?" /\ Does(Dual(Fails(x, y))) = "fails?"
          /\ TextOf(Fails(x, y)) = x /\ TextOf(Dual(Fails(x, y))) = x
          /\ ByteOf(Fails(x, y)) = y /\ ByteOf(Dual(Fails(x, y))) = y
          /\ ~ IsDual(Fails(x, y)) /\ IsDual(Dual(Fails(x, y)))
BY DEF Ps2, Fails, Dual, Does, TextOf, ByteOf, IsDual

(* Where the driver of the drive writes to a port, and where it reads one. *)
DriveOut(p) ==
    /\ p \in {3, 8, 9, 10, 11} \cup (21 .. 20 + PacketSize)
    /\ PortOf(StartUp[p]) \in 496 .. 503 /\ DataOf(StartUp[p]) \in Bytes
DriveIn(p) ==
    /\ p \in {1, 4, 5, 6, 7, 14, 18, 21 + PacketSize, 22 + PacketSize}
    /\ PortOf(StartUp[p]) \in {500, 501, 503, 1014}
    /\ p = 1 => PortOf(StartUp[p]) = 503
DriveTake(p) ==
    \/ p = 15 /\ MaskOf(StartUp[p]) = 128
    \/ p = 19 /\ MaskOf(StartUp[p]) = 9

LEMMA DriveDoes ==
    ASSUME NEW p \in 1 .. AtUart
    PROVE  \/ DriveOut(p) /\ Does(StartUp[p]) = "out"
           \/ DriveIn(p) /\ Does(StartUp[p]) = "in"
           \/ p = 2 /\ StartUp[p] = DriveCheck /\ Does(StartUp[p]) = "check"
           \/ p \in {12, 16} /\ Does(StartUp[p]) = "begin wait"
           \/ p = 13 /\ Does(StartUp[p]) = "until"
           \/ p = 17 /\ StartUp[p] = UntilClear /\ Does(StartUp[p]) = "until"
           \/ DriveTake(p) /\ Does(StartUp[p]) = "take status"
           \/ p = 20 /\ Does(StartUp[p]) = "error bit?"
<1>1. AtUart = 22 + PacketSize /\ PacketSize \in Nat
  BY DriveSpots
<1>2. \/ p \in {1, 4, 5, 6, 7} \/ p \in {3, 8, 9, 10, 11} \/ p \in {2, 12, 16, 13, 17, 20}
      \/ p \in {14, 18} \/ p \in {15, 19} \/ p \in 21 .. 20 + PacketSize
      \/ p \in {21 + PacketSize, 22 + PacketSize}
  BY <1>1
<1>3. CASE p \in {1, 4, 5, 6, 7}
  <2>1. /\ StartUp[1] = In8(503) /\ StartUp[4] = In8(1014) /\ StartUp[5] = In8(1014)
        /\ StartUp[6] = In8(1014) /\ StartUp[7] = In8(1014)
    BY DriveOps
  <2>2. \A x : Does(In8(x)) = "in" /\ PortOf(In8(x)) = x
    BY DriveKinds
  <2>3. /\ Does(StartUp[p]) = "in" /\ PortOf(StartUp[p]) \in {500, 501, 503, 1014}
        /\ p = 1 => PortOf(StartUp[p]) = 503
    BY <1>3, <2>1, <2>2
  <2>4. DriveIn(p)
    BY <1>3, <2>3 DEF DriveIn
  <2> QED
    BY <2>3, <2>4
<1>4. CASE p \in {3, 8, 9, 10, 11}
  <2>1. /\ StartUp[3] = Out8(502, 160) /\ StartUp[8] = Out8(497, 0)
        /\ StartUp[9] = Out8(500, 0) /\ StartUp[10] = Out8(501, 0)
        /\ StartUp[11] = Out8(503, 160)
    BY DriveOps
  <2>2. \A x, y : /\ Does(Out8(x, y)) = "out" /\ PortOf(Out8(x, y)) = x
                     /\ DataOf(Out8(x, y)) = y
    BY DriveKinds
  <2>3. /\ Does(StartUp[p]) = "out"
        /\ PortOf(StartUp[p]) \in 496 .. 503 /\ DataOf(StartUp[p]) \in Bytes
    BY <1>4, <2>1, <2>2 DEF Bytes
  <2>4. DriveOut(p)
    BY <1>4, <2>3 DEF DriveOut
  <2> QED
    BY <2>3, <2>4
<1>5. CASE p \in {2, 12, 16, 13, 17, 20}
  <2>1. /\ StartUp[2] = DriveCheck /\ StartUp[12] = BeginOp /\ StartUp[16] = BeginOp
        /\ StartUp[13] = UntilSet /\ StartUp[17] = UntilClear /\ StartUp[20] = ErrorBitOp
    BY DriveOps
  <2>2. /\ Does(DriveCheck) = "check" /\ Does(BeginOp) = "begin wait"
        /\ Does(UntilSet) = "until" /\ Does(UntilClear) = "until"
        /\ Does(ErrorBitOp) = "error bit?"
    BY DriveKinds
  <2>3. \/ p = 2 /\ StartUp[p] = DriveCheck /\ Does(StartUp[p]) = "check"
        \/ p \in {12, 16} /\ Does(StartUp[p]) = "begin wait"
        \/ p = 13 /\ Does(StartUp[p]) = "until"
        \/ p = 17 /\ StartUp[p] = UntilClear /\ Does(StartUp[p]) = "until"
        \/ p = 20 /\ Does(StartUp[p]) = "error bit?"
    BY <1>5, <2>1, <2>2
  <2> QED
    BY <2>3
<1>6. CASE p \in {14, 18}
  <2>1. StartUp[14] = In8(503) /\ StartUp[18] = In8(503)
    BY DriveOps
  <2>2. \A x : Does(In8(x)) = "in" /\ PortOf(In8(x)) = x
    BY DriveKinds
  <2>3. /\ Does(StartUp[p]) = "in" /\ PortOf(StartUp[p]) \in {500, 501, 503, 1014}
        /\ p # 1
    BY <1>6, <2>1, <2>2
  <2>4. DriveIn(p)
    BY <1>6, <2>3 DEF DriveIn
  <2> QED
    BY <2>3, <2>4
<1>7. CASE p \in {15, 19}
  <2>1. StartUp[15] = TakeOp(128) /\ StartUp[19] = TakeOp(9)
    BY DriveOps
  <2>2. /\ Does(TakeOp(128)) = "take status" /\ MaskOf(TakeOp(128)) = 128
        /\ Does(TakeOp(9)) = "take status" /\ MaskOf(TakeOp(9)) = 9
    BY DriveKinds
  <2>3. CASE p = 15
    <3>1. StartUp[p] = TakeOp(128)
      BY <2>1, <2>3
    <3>2. Does(StartUp[p]) = "take status" /\ MaskOf(StartUp[p]) = 128
      BY <2>2, <3>1
    <3>3. DriveTake(p)
      BY <2>3, <3>2 DEF DriveTake
    <3> QED
      BY <3>2, <3>3
  <2>4. CASE p = 19
    <3>1. StartUp[p] = TakeOp(9)
      BY <2>1, <2>4
    <3>2. Does(StartUp[p]) = "take status" /\ MaskOf(StartUp[p]) = 9
      BY <2>2, <3>1
    <3>3. DriveTake(p)
      BY <2>4, <3>2 DEF DriveTake
    <3> QED
      BY <3>2, <3>3
  <2> QED
    BY <1>7, <2>3, <2>4
<1>8. CASE p \in 21 .. 20 + PacketSize
  <2>1. \A k \in 21 .. 20 + PacketSize : StartUp[k] = Out8(496, 0)
    BY DriveOps
  <2>2. \A x, y : /\ Does(Out8(x, y)) = "out" /\ PortOf(Out8(x, y)) = x
                     /\ DataOf(Out8(x, y)) = y
    BY DriveKinds
  <2>3. /\ Does(StartUp[p]) = "out"
        /\ PortOf(StartUp[p]) \in 496 .. 503 /\ DataOf(StartUp[p]) \in Bytes
    <3>1. StartUp[p] = Out8(496, 0)
      BY <1>8, <2>1, Zenon
    <3>2. 496 \in 496 .. 503 /\ 0 \in Bytes
      BY DEF Bytes
    <3>3. /\ Does(Out8(496, 0)) = "out" /\ PortOf(Out8(496, 0)) = 496
          /\ DataOf(Out8(496, 0)) = 0
      BY <2>2
    <3> QED
      BY <3>1, <3>2, <3>3
  <2>4. DriveOut(p)
    BY <1>8, <2>3 DEF DriveOut
  <2> QED
    BY <2>3, <2>4
<1>9. CASE p \in {21 + PacketSize, 22 + PacketSize}
  <2>1. p # 1
    BY <1>1, <1>9
  <2>2. StartUp[21 + PacketSize] = In8(501) /\ StartUp[22 + PacketSize] = In8(500)
    BY DriveOps
  <2>3. \A x : Does(In8(x)) = "in" /\ PortOf(In8(x)) = x
    BY DriveKinds
  <2>4. /\ Does(StartUp[p]) = "in" /\ PortOf(StartUp[p]) \in {500, 501, 503, 1014}
    BY <1>9, <2>1, <2>2, <2>3
  <2>5. DriveIn(p)
    BY <1>9, <2>1, <2>4 DEF DriveIn
  <2> QED
    BY <2>4, <2>5
<1> QED
  BY <1>2, <1>3, <1>4, <1>5, <1>6, <1>7, <1>8, <1>9

(* Where UART-INIT and UART-TEST write to a port.                          *)
UartOut(p) == p \in (AtUart + 1 .. AtUart + 9) \cup {AtUart + 14}
UartIn(p)  == p = AtUart + 11 /\ PortOf(StartUp[p]) = 1016

LEMMA UartDoes ==
    ASSUME NEW p \in AtUart + 1 .. AtUart + 14
    PROVE  \/ UartOut(p) /\ Does(StartUp[p]) = "out"
           \/ UartIn(p) /\ Does(StartUp[p]) = "in"
           \/ p = AtUart + 13 /\ StartUp[p] = UartCheck /\ Does(StartUp[p]) = "check"
           \/ p \in {AtUart + 10, AtUart + 12} /\ Does(StartUp[p]) = "display"
<1>1. AtUart \in Nat
  BY Spots
<1> HIDE DEF AtUart
<1>2. \/ p \in {AtUart + 1, AtUart + 2, AtUart + 3, AtUart + 4, AtUart + 5, AtUart + 6,
                AtUart + 7, AtUart + 8, AtUart + 9, AtUart + 14}
      \/ p \in {AtUart + 10, AtUart + 12} \/ p = AtUart + 11 \/ p = AtUart + 13
  BY <1>1
<1>3. CASE p \in {AtUart + 1, AtUart + 2, AtUart + 3, AtUart + 4, AtUart + 5, AtUart + 6,
                AtUart + 7, AtUart + 8, AtUart + 9, AtUart + 14}
  <2>1. StartUp[p] \in {Out8(1017, 0), Out8(1019, 128), Out8(1016, 3), Out8(1019, 3),
                        Out8(1018, 199), Out8(1020, 11), Out8(1020, 30),
                        Out8(1016, 174), Out8(1020, 15)}
    BY <1>3, UartOps
  <2>2. \A x, y : Does(Out8(x, y)) = "out"
    BY DriveKinds
  <2>3. Does(StartUp[p]) = "out"
    BY <2>1, <2>2
  <2>4. UartOut(p)
    BY <1>1, <1>3 DEF UartOut
  <2> QED
    BY <2>3, <2>4
<1>4. CASE p \in {AtUart + 10, AtUart + 12}
  <2>1. StartUp[AtUart + 10] = DisplayOp /\ StartUp[AtUart + 12] = DisplayOp
    BY UartOps
  <2>2. Does(DisplayOp) = "display"
    BY DriveKinds
  <2> QED
    BY <1>4, <2>1, <2>2
<1>5. CASE p = AtUart + 11
  <2>1. StartUp[p] = In8(1016)
    BY <1>5, UartOps
  <2>2. \A x : Does(In8(x)) = "in" /\ PortOf(In8(x)) = x
    BY DriveKinds
  <2>3. Does(StartUp[p]) = "in" /\ PortOf(StartUp[p]) = 1016
    BY <2>1, <2>2
  <2> QED
    BY <1>5, <2>3 DEF UartIn
<1>6. CASE p = AtUart + 13
  <2>1. StartUp[p] = UartCheck
    BY <1>6, UartOps
  <2>2. Does(UartCheck) = "check"
    BY DriveKinds
  <2> QED
    BY <1>6, <2>1, <2>2, Zenon
<1> QED
  BY <1>2, <1>3, <1>4, <1>5, <1>6

LEMMA FailsKinds ==
    ASSUME NEW x, NEW y
    PROVE  /\ Does(Fails(x, y)) = "fails?" /\ TextOf(Fails(x, y)) = x
           /\ ByteOf(Fails(x, y)) = y
BY DEF Fails, Does, TextOf, ByteOf

LEMMA Ps2Does ==
    ASSUME NEW p \in AtPs2 + 1 .. AtPs2 + 33
    PROVE  \/ Calls(StartUp[p]) /\ p \notin {AtPs2 + 7, AtPs2 + 13, AtPs2 + 20, AtPs2 + 25,
                                             AtPs2 + 29}
           \/ p = AtPs2 + 7 /\ Does(StartUp[p]) = "configure"
           \/ p = AtPs2 + 20 /\ Does(StartUp[p]) = "second started?"
           \/ /\ p = AtPs2 + 13 /\ Does(StartUp[p]) = "fails?"
              /\ TextOf(StartUp[p]) = "PS2 controller test" /\ ByteOf(StartUp[p]) = 85
           \/ /\ p = AtPs2 + 25 /\ Does(StartUp[p]) = "fails?"
              /\ TextOf(StartUp[p]) = "First port test" /\ ByteOf(StartUp[p]) = 0
           \/ /\ p = AtPs2 + 29 /\ Does(StartUp[p]) = "fails?"
              /\ TextOf(StartUp[p]) = "Second port test" /\ ByteOf(StartUp[p]) = 0
<1>1. AtPs2 \in Nat
  BY Spots
<1>2. PICK k \in 1 .. 33 : p = AtPs2 + k
  <2>1. p - AtPs2 \in 1 .. 33 /\ p = AtPs2 + (p - AtPs2)
    BY <1>1
  <2> QED
    BY <2>1
<1>3. CASE k \notin {7, 13, 20, 25, 29}
  <2>1. /\ \A c \in Bytes : Calls(Command(c)) /\ Calls(Dual(Command(c)))
        /\ Calls(Config) /\ Calls(Wait) /\ Calls(Read) /\ Calls(Dual(Wait)) /\ Calls(Dual(Read))
    BY Ps2Kinds DEF Sends, Keeps
  <2>2. {173, 167, 32, 96, 170, 168, 171, 169, 174} \subseteq Bytes
    BY DEF Bytes
  <2>3. \/ k \in {1, 2, 3, 4, 5, 6, 8, 9, 10, 11, 12, 14, 15}
        \/ k \in {16, 17, 18, 19, 21, 22, 23, 24, 26, 27, 28, 30, 31, 32, 33}
    BY <1>3
  <2>4. Calls(StartUp[p])
    <3>1. CASE k \in {1, 2, 3, 4, 5, 6, 8, 9, 10, 11, 12, 14, 15}
      <4>1. /\ StartUp[AtPs2 + 1] = Command(173) /\ StartUp[AtPs2 + 2] = Command(167)
            /\ StartUp[AtPs2 + 3] = Read /\ StartUp[AtPs2 + 4] = Command(32)
            /\ StartUp[AtPs2 + 5] = Wait /\ StartUp[AtPs2 + 6] = Read
            /\ StartUp[AtPs2 + 8] = Command(96) /\ StartUp[AtPs2 + 9] = Config
            /\ StartUp[AtPs2 + 10] = Command(170) /\ StartUp[AtPs2 + 11] = Wait
            /\ StartUp[AtPs2 + 12] = Read /\ StartUp[AtPs2 + 14] = Command(96)
            /\ StartUp[AtPs2 + 15] = Config
        BY Ps2Ops
      <4>2. /\ Calls(StartUp[AtPs2 + 1]) /\ Calls(StartUp[AtPs2 + 2])
            /\ Calls(StartUp[AtPs2 + 3]) /\ Calls(StartUp[AtPs2 + 4])
            /\ Calls(StartUp[AtPs2 + 5]) /\ Calls(StartUp[AtPs2 + 6])
            /\ Calls(StartUp[AtPs2 + 8]) /\ Calls(StartUp[AtPs2 + 9])
            /\ Calls(StartUp[AtPs2 + 10]) /\ Calls(StartUp[AtPs2 + 11])
            /\ Calls(StartUp[AtPs2 + 12]) /\ Calls(StartUp[AtPs2 + 14])
            /\ Calls(StartUp[AtPs2 + 15])
        BY <2>1, <2>2, <4>1
      <4> QED
        BY <1>2, <3>1, <4>2
    <3>2. CASE k \in {16, 17, 18, 19, 21, 22, 23, 24, 26, 27, 28, 30, 31, 32, 33}
      <4>1. /\ StartUp[AtPs2 + 16] = Dual(Command(168))
            /\ StartUp[AtPs2 + 17] = Dual(Command(32))
            /\ StartUp[AtPs2 + 18] = Dual(Wait) /\ StartUp[AtPs2 + 19] = Dual(Read)
            /\ StartUp[AtPs2 + 21] = Dual(Command(167)) /\ StartUp[AtPs2 + 22] = Wait
            /\ StartUp[AtPs2 + 23] = Command(171) /\ StartUp[AtPs2 + 24] = Read
            /\ StartUp[AtPs2 + 26] = Dual(Wait)
            /\ StartUp[AtPs2 + 27] = Dual(Command(169))
            /\ StartUp[AtPs2 + 28] = Dual(Read) /\ StartUp[AtPs2 + 30] = Wait
            /\ StartUp[AtPs2 + 31] = Command(174) /\ StartUp[AtPs2 + 32] = Dual(Wait)
            /\ StartUp[AtPs2 + 33] = Dual(Command(168))
        BY Ps2Ops
      <4>2. /\ Calls(StartUp[AtPs2 + 16]) /\ Calls(StartUp[AtPs2 + 17])
            /\ Calls(StartUp[AtPs2 + 18]) /\ Calls(StartUp[AtPs2 + 19])
            /\ Calls(StartUp[AtPs2 + 21]) /\ Calls(StartUp[AtPs2 + 22])
            /\ Calls(StartUp[AtPs2 + 23]) /\ Calls(StartUp[AtPs2 + 24])
            /\ Calls(StartUp[AtPs2 + 26]) /\ Calls(StartUp[AtPs2 + 27])
            /\ Calls(StartUp[AtPs2 + 28]) /\ Calls(StartUp[AtPs2 + 30])
            /\ Calls(StartUp[AtPs2 + 31]) /\ Calls(StartUp[AtPs2 + 32])
            /\ Calls(StartUp[AtPs2 + 33])
        BY <2>1, <2>2, <4>1
      <4> QED
        BY <1>2, <3>2, <4>2
    <3> QED
      BY <2>3, <3>1, <3>2
  <2>5. p \notin {AtPs2 + 7, AtPs2 + 13, AtPs2 + 20, AtPs2 + 25, AtPs2 + 29}
    BY <1>1, <1>2, <1>3
  <2> QED
    BY <2>4, <2>5
<1>4. CASE k = 7
  <2>1. StartUp[p] = Ps2("configure")
    BY <1>2, <1>4, Ps2Ops
  <2> QED
    BY <1>2, <1>4, <2>1, OtherKinds
<1>5. CASE k = 20
  <2>1. StartUp[p] = Dual(Ps2("second started?"))
    BY <1>2, <1>5, Ps2Ops
  <2> QED
    BY <1>2, <1>5, <2>1, OtherKinds
<1>6. CASE k = 13
  <2>1. StartUp[p] = Fails("PS2 controller test", 85)
    BY <1>2, <1>6, Ps2Ops
  <2>2. /\ Does(StartUp[p]) = "fails?"
        /\ TextOf(StartUp[p]) = "PS2 controller test" /\ ByteOf(StartUp[p]) = 85
    <3>1. /\ Does(Fails("PS2 controller test", 85)) = "fails?"
          /\ TextOf(Fails("PS2 controller test", 85)) = "PS2 controller test"
          /\ ByteOf(Fails("PS2 controller test", 85)) = 85
      BY FailsKinds
    <3> QED
      BY <2>1, <3>1
  <2>3. p = AtPs2 + 13
    BY <1>2, <1>6
  <2> QED
    BY <2>2, <2>3, Zenon
<1>7. CASE k = 25
  <2>1. StartUp[p] = Fails("First port test", 0)
    BY <1>2, <1>7, Ps2Ops
  <2>2. /\ Does(StartUp[p]) = "fails?"
        /\ TextOf(StartUp[p]) = "First port test" /\ ByteOf(StartUp[p]) = 0
    <3>1. /\ Does(Fails("First port test", 0)) = "fails?"
          /\ TextOf(Fails("First port test", 0)) = "First port test"
          /\ ByteOf(Fails("First port test", 0)) = 0
      BY FailsKinds
    <3> QED
      BY <2>1, <3>1
  <2>3. p = AtPs2 + 25
    BY <1>2, <1>7
  <2> QED
    BY <2>2, <2>3, Zenon
<1>8. CASE k = 29
  <2>1. StartUp[p] = Dual(Fails("Second port test", 0))
    BY <1>2, <1>8, Ps2Ops
  <2>2. /\ Does(StartUp[p]) = "fails?"
        /\ TextOf(StartUp[p]) = "Second port test" /\ ByteOf(StartUp[p]) = 0
    <3>1. /\ Does(Dual(Fails("Second port test", 0))) = "fails?"
          /\ TextOf(Dual(Fails("Second port test", 0))) = "Second port test"
          /\ ByteOf(Dual(Fails("Second port test", 0))) = 0
      BY OtherKinds
    <3> QED
      BY <2>1, <3>1
  <2>3. p = AtPs2 + 29
    BY <1>2, <1>8
  <2> QED
    BY <2>2, <2>3, Zenon
<1> QED
  BY <1>3, <1>4, <1>5, <1>6, <1>7, <1>8

(* What is in the record of KRNLHWIO at a test is the command before it.   *)
LEMMA Ps2Data ==
    /\ Sends(StartUp[AtPs2 + 4], 32) /\ Keeps(StartUp[AtPs2 + 5]) /\ Keeps(StartUp[AtPs2 + 6])
    /\ Sends(StartUp[AtPs2 + 10], 170) /\ Keeps(StartUp[AtPs2 + 11])
    /\ Keeps(StartUp[AtPs2 + 12])
    /\ Sends(StartUp[AtPs2 + 17], 32) /\ Keeps(StartUp[AtPs2 + 18])
    /\ Keeps(StartUp[AtPs2 + 19])
    /\ Sends(StartUp[AtPs2 + 23], 171) /\ Keeps(StartUp[AtPs2 + 24])
    /\ Sends(StartUp[AtKeyboard + 19], 32) /\ Keeps(StartUp[AtKeyboard + 20])
    /\ Keeps(StartUp[AtKeyboard + 21])
<1>1. {32, 170, 171} \subseteq Bytes
  BY DEF Bytes
<1>2. /\ Sends(Command(32), 32) /\ Sends(Command(170), 170) /\ Sends(Command(171), 171)
      /\ Sends(Dual(Command(32)), 32) /\ Keeps(Wait) /\ Keeps(Read) /\ Keeps(Dual(Wait))
      /\ Keeps(Dual(Read))
  BY <1>1, Ps2Kinds
<1>3. /\ StartUp[AtPs2 + 4] = Command(32) /\ StartUp[AtPs2 + 5] = Wait
      /\ StartUp[AtPs2 + 6] = Read /\ StartUp[AtPs2 + 10] = Command(170)
      /\ StartUp[AtPs2 + 11] = Wait /\ StartUp[AtPs2 + 12] = Read
      /\ StartUp[AtPs2 + 17] = Dual(Command(32)) /\ StartUp[AtPs2 + 18] = Dual(Wait)
      /\ StartUp[AtPs2 + 19] = Dual(Read)
      /\ StartUp[AtPs2 + 23] = Command(171) /\ StartUp[AtPs2 + 24] = Read
  BY Ps2Ops
<1>4. /\ StartUp[AtKeyboard + 19] = Command(32)
      /\ StartUp[AtKeyboard + 20] = Wait /\ StartUp[AtKeyboard + 21] = Read
  BY KeyboardOps
<1> QED
  BY <1>2, <1>3, <1>4

(* These are made with one device, too.                                    *)
LEMMA Ps2Single ==
    /\ ~ IsDual(StartUp[AtPs2 + 4]) /\ ~ IsDual(StartUp[AtPs2 + 5])
    /\ ~ IsDual(StartUp[AtPs2 + 6])
    /\ ~ IsDual(StartUp[AtPs2 + 23]) /\ ~ IsDual(StartUp[AtPs2 + 24])
    /\ ~ IsDual(StartUp[AtPs2 + 25])
    /\ ~ IsDual(StartUp[AtKeyboard + 19]) /\ ~ IsDual(StartUp[AtKeyboard + 20])
    /\ ~ IsDual(StartUp[AtKeyboard + 21])
<1>1. {32, 171} \subseteq Bytes
  BY DEF Bytes
<1>2. /\ ~ IsDual(Command(32)) /\ ~ IsDual(Command(171)) /\ ~ IsDual(Wait) /\ ~ IsDual(Read)
      /\ ~ IsDual(Fails("First port test", 0))
  BY <1>1, Ps2Kinds, OtherKinds
<1>3. /\ StartUp[AtPs2 + 4] = Command(32) /\ StartUp[AtPs2 + 5] = Wait
      /\ StartUp[AtPs2 + 6] = Read
      /\ StartUp[AtPs2 + 23] = Command(171) /\ StartUp[AtPs2 + 24] = Read
      /\ StartUp[AtPs2 + 25] = Fails("First port test", 0)
  BY Ps2Ops
<1>4. /\ StartUp[AtKeyboard + 19] = Command(32)
      /\ StartUp[AtKeyboard + 20] = Wait /\ StartUp[AtKeyboard + 21] = Read
  BY KeyboardOps
<1>5. /\ ~ IsDual(StartUp[AtPs2 + 4]) /\ ~ IsDual(StartUp[AtPs2 + 5])
      /\ ~ IsDual(StartUp[AtPs2 + 6])
  BY <1>2, <1>3
<1>6. /\ ~ IsDual(StartUp[AtPs2 + 23]) /\ ~ IsDual(StartUp[AtPs2 + 24])
      /\ ~ IsDual(StartUp[AtPs2 + 25])
  BY <1>2, <1>3
<1>7. /\ ~ IsDual(StartUp[AtKeyboard + 19]) /\ ~ IsDual(StartUp[AtKeyboard + 20])
      /\ ~ IsDual(StartUp[AtKeyboard + 21])
  BY <1>2, <1>4
<1> QED
  BY <1>5, <1>6, <1>7

LEMMA KeyboardDoes ==
    ASSUME NEW p \in AtKeyboard + 1 .. AtKeyboard + 29
    PROVE  \/ Calls(StartUp[p]) /\ p # AtKeyboard + 22
           \/ p = AtKeyboard + 22 /\ Does(StartUp[p]) = "read configuration"
<1>1. AtKeyboard \in Nat
  BY Spots
<1>2. PICK k \in 1 .. 29 : p = AtKeyboard + k
  <2>1. p - AtKeyboard \in 1 .. 29 /\ p = AtKeyboard + (p - AtKeyboard)
    BY <1>1
  <2> QED
    BY <2>1
<1>3. CASE k # 22
  <2>1. /\ \A c \in Bytes : Calls(Command(c)) /\ Calls(Data(c)) /\ Calls(WriteFirst(c))
        /\ Calls(Config) /\ Calls(Wait) /\ Calls(Read)
    BY Ps2Kinds DEF Sends, Keeps
  <2>2. {255, 246, 243, 127, 244, 32, 96, 240, 1} \subseteq Bytes
    BY DEF Bytes
  <2>3. \/ k \in {1, 2, 3, 4, 5, 6, 7, 8, 9, 10, 11, 12, 13, 14}
        \/ k \in {15, 16, 17, 18, 19, 20, 21, 23, 24, 25, 26, 27, 28, 29}
    BY <1>3
  <2>4. Calls(StartUp[p])
    <3>1. CASE k \in {1, 2, 3, 4, 5, 6, 7, 8, 9, 10, 11, 12, 13, 14}
      <4>1. /\ StartUp[AtKeyboard + 1] = WriteFirst(255)
            /\ StartUp[AtKeyboard + 2] = Data(255) /\ StartUp[AtKeyboard + 3] = Wait
            /\ StartUp[AtKeyboard + 4] = Read
            /\ StartUp[AtKeyboard + 5] = WriteFirst(246)
            /\ StartUp[AtKeyboard + 6] = Data(246) /\ StartUp[AtKeyboard + 7] = Wait
            /\ StartUp[AtKeyboard + 8] = Read
            /\ StartUp[AtKeyboard + 9] = WriteFirst(243)
            /\ StartUp[AtKeyboard + 10] = Data(243)
            /\ StartUp[AtKeyboard + 11] = WriteFirst(127)
            /\ StartUp[AtKeyboard + 12] = Data(127) /\ StartUp[AtKeyboard + 13] = Wait
            /\ StartUp[AtKeyboard + 14] = Read
        BY KeyboardOps
      <4>2. /\ Calls(StartUp[AtKeyboard + 1]) /\ Calls(StartUp[AtKeyboard + 2])
            /\ Calls(StartUp[AtKeyboard + 3]) /\ Calls(StartUp[AtKeyboard + 4])
            /\ Calls(StartUp[AtKeyboard + 5]) /\ Calls(StartUp[AtKeyboard + 6])
            /\ Calls(StartUp[AtKeyboard + 7]) /\ Calls(StartUp[AtKeyboard + 8])
            /\ Calls(StartUp[AtKeyboard + 9]) /\ Calls(StartUp[AtKeyboard + 10])
            /\ Calls(StartUp[AtKeyboard + 11]) /\ Calls(StartUp[AtKeyboard + 12])
            /\ Calls(StartUp[AtKeyboard + 13]) /\ Calls(StartUp[AtKeyboard + 14])
        BY <2>1, <2>2, <4>1
      <4> QED
        BY <1>2, <3>1, <4>2
    <3>2. CASE k \in {15, 16, 17, 18, 19, 20, 21, 23, 24, 25, 26, 27, 28, 29}
      <4>1. /\ StartUp[AtKeyboard + 15] = WriteFirst(244)
            /\ StartUp[AtKeyboard + 16] = Data(244) /\ StartUp[AtKeyboard + 17] = Wait
            /\ StartUp[AtKeyboard + 18] = Read
            /\ StartUp[AtKeyboard + 19] = Command(32)
            /\ StartUp[AtKeyboard + 20] = Wait /\ StartUp[AtKeyboard + 21] = Read
            /\ StartUp[AtKeyboard + 23] = Command(96)
            /\ StartUp[AtKeyboard + 24] = Wait /\ StartUp[AtKeyboard + 25] = Config
            /\ StartUp[AtKeyboard + 26] = WriteFirst(240)
            /\ StartUp[AtKeyboard + 27] = Data(240)
            /\ StartUp[AtKeyboard + 28] = WriteFirst(1)
            /\ StartUp[AtKeyboard + 29] = Data(1)
        BY KeyboardOps
      <4>2. /\ Calls(StartUp[AtKeyboard + 15]) /\ Calls(StartUp[AtKeyboard + 16])
            /\ Calls(StartUp[AtKeyboard + 17]) /\ Calls(StartUp[AtKeyboard + 18])
            /\ Calls(StartUp[AtKeyboard + 19]) /\ Calls(StartUp[AtKeyboard + 20])
            /\ Calls(StartUp[AtKeyboard + 21]) /\ Calls(StartUp[AtKeyboard + 23])
            /\ Calls(StartUp[AtKeyboard + 24]) /\ Calls(StartUp[AtKeyboard + 25])
            /\ Calls(StartUp[AtKeyboard + 26]) /\ Calls(StartUp[AtKeyboard + 27])
            /\ Calls(StartUp[AtKeyboard + 28]) /\ Calls(StartUp[AtKeyboard + 29])
        BY <2>1, <2>2, <4>1
      <4> QED
        BY <1>2, <3>2, <4>2
    <3> QED
      BY <2>3, <3>1, <3>2
  <2>5. p # AtKeyboard + 22
    BY <1>1, <1>2, <1>3
  <2> QED
    BY <2>4, <2>5
<1>4. CASE k = 22
  <2>1. StartUp[p] = Ps2("read configuration")
    BY <1>2, <1>4, KeyboardOps
  <2> QED
    BY <1>2, <1>4, <2>1, OtherKinds
<1> QED
  BY <1>3, <1>4

-----------------------------------------------------------------------------
(* The invariant.  What it says of a place holds when the start-up is to   *)
(* do what is there, and it says of everything behind the start-up what it *)
(* says of the menu.                                                       *)
Uarts == [kind : {"good", "broken", "absent"}, ier : Bytes, lcr : Bytes, dll : Bytes,
          dlm : Bytes, fcr : Bytes, mcr : Bytes, rbr : Bytes]

Typed ==
    /\ TypeOK /\ uart \in Uarts /\ frames \in Seq(1 .. 4)
    /\ place # "start-up" => pc = AtMenu + 1

(* The first wait ends at the latest when its tries are used up, and the   *)
(* second before its first: so the status is 0 when its lowest bit is      *)
(* looked at.  A byte of the drive is 32 bits wide, and so is one of the   *)
(* serial port, whose third register is never 0.                           *)
Waiting ==
    /\ pc \in {14, 15} => timeout > 0
    /\ pc \in {17, 20} => status = 0
    /\ pc \notin {18, 19}
    /\ pc = 2 => ioData[2] # 0
    /\ pc \in {AtUart + 12, AtUart + 13} => ioData[3] # 0

(* Every check that fails says so, and only that.                          *)
Failures == {"UART test failure", "PS2 controller test", "First port test"}
CheckAt(text) == IF text = "UART test failure" THEN AtUart + 13
                 ELSE IF text = "PS2 controller test" THEN AtPs2 + 13 ELSE AtPs2 + 25

Complained == complaints = {text \in Failures : CheckAt(text) < pc}

(* The command that was sent last lies in the record until it is tested.   *)
Answered ==
    /\ hwioPorts \subseteq {0}
    /\ pc \in {AtPs2 + 5, AtPs2 + 6, AtPs2 + 7, AtPs2 + 18, AtPs2 + 19, AtPs2 + 20,
               AtKeyboard + 20, AtKeyboard + 21, AtKeyboard + 22} => hwioData = 32
    /\ pc \in {AtPs2 + 11, AtPs2 + 12, AtPs2 + 13} => hwioData = 170
    /\ pc \in {AtPs2 + 24, AtPs2 + 25} => hwioData = 171
    /\ pc > AtPs2 + 7 => config = 32
    /\ pc \in AtPs2 + 8 .. AtPs2 + 20 => devices = 2
    /\ pc > AtPs2 + 20 => devices = 1

(* The registers of the serial port, one after the other.                  *)
Registers(u, p) ==
    u.kind # "absent" =>
        /\ u.lcr = IF p \in AtUart + 3 .. AtUart + 5 THEN 128 ELSE 3
        /\ p > AtUart + 1 => u.ier = 0
        /\ p > AtUart + 4 => u.dll = 32 /\ u.dlm = 0
        /\ p > AtUart + 6 => u.fcr = 199
        /\ p > AtUart + 14 => u.mcr = 15

KInv == Typed /\ Waiting /\ Complained /\ Answered /\ Registers(uart, pc)

-----------------------------------------------------------------------------
(* Where the start-up is when it does something.                           *)
LEMMA DoingIs ==
    ASSUME pc \in 1 .. AtMenu + 1, NEW what, Doing(what)
    PROVE  place = "start-up" /\ pc \in 1 .. AtMenu /\ Does(Op) = what /\ Op = StartUp[pc]
<1>1. place = "start-up" /\ pc <= Len(StartUp)
  BY Zenon DEF Doing
<1>2. Does(Op) = what
  BY Zenon DEF Doing, Does
<1>3. pc <= AtMenu
  BY <1>1, StartUpLength
<1>4. AtMenu \in Nat
  BY Spots
<1>5. pc \in 1 .. AtMenu
  BY <1>3, <1>4
<1> QED
  BY <1>1, <1>2, <1>5, Zenon DEF Op

LEMMA Parts ==
    ASSUME NEW p \in 1 .. AtMenu
    PROVE  \/ p \in 1 .. AtUart \/ p \in AtUart + 1 .. AtUart + 14
           \/ p \in AtPs2 + 1 .. AtPs2 + 33 \/ p \in AtKeyboard + 1 .. AtKeyboard + 29
BY Spots

(* What each part of the start-up does, and does not.                      *)
LEMMA DriveDoesOnly ==
    ASSUME NEW p \in 1 .. AtUart
    PROVE  Does(StartUp[p]) \in {"in", "out", "check", "begin wait", "until", "take status",
                                 "error bit?"}
BY DriveDoes

LEMMA UartDoesOnly ==
    ASSUME NEW p \in AtUart + 1 .. AtUart + 14
    PROVE  Does(StartUp[p]) \in {"in", "out", "check", "display"}
BY UartDoes

LEMMA Ps2DoesOnly ==
    ASSUME NEW p \in AtPs2 + 1 .. AtPs2 + 33
    PROVE  Does(StartUp[p]) \in {"hwio", "configure", "second started?", "fails?"}
BY Ps2Does DEF Calls

LEMMA KeyboardDoesOnly ==
    ASSUME NEW p \in AtKeyboard + 1 .. AtKeyboard + 29
    PROVE  Does(StartUp[p]) \in {"hwio", "read configuration"}
BY KeyboardDoes DEF Calls

LEMMA WhereOut ==
    ASSUME pc \in 1 .. AtMenu + 1, Doing("out")
    PROVE  \/ /\ pc \in 1 .. AtUart /\ pc \notin {1, 2, 12, 13, 14, 15, 16, 17, 18, 19, 20}
              /\ PortOf(Op) \in 496 .. 503 /\ DataOf(Op) \in Bytes
           \/ pc \in (AtUart + 1 .. AtUart + 9) \cup {AtUart + 14}
<1>1. pc \in 1 .. AtMenu /\ Does(Op) = "out" /\ Op = StartUp[pc]
  BY DoingIs
<1>2. CASE pc \in 1 .. AtUart
  <2>1. DriveOut(pc)
    BY <1>1, <1>2, DriveDoes
  <2>2. pc \notin {1, 2, 12, 13, 14, 15, 16, 17, 18, 19, 20}
    BY <2>1, KernelAssumption DEF DriveOut
  <2> QED
    BY <1>1, <1>2, <2>1, <2>2 DEF DriveOut
<1>3. CASE pc \in AtUart + 1 .. AtUart + 14
  <2>1. UartOut(pc)
    BY <1>1, <1>3, UartDoes
  <2> QED
    BY <2>1 DEF UartOut
<1>4. CASE pc \in AtPs2 + 1 .. AtPs2 + 33
  BY <1>1, <1>4, Ps2DoesOnly
<1>5. CASE pc \in AtKeyboard + 1 .. AtKeyboard + 29
  BY <1>1, <1>5, KeyboardDoesOnly
<1> QED
  BY <1>1, <1>2, <1>3, <1>4, <1>5, Parts

LEMMA WhereIn ==
    ASSUME pc \in 1 .. AtMenu + 1, Doing("in")
    PROVE  \/ /\ pc \in 1 .. AtUart /\ pc \notin {2, 12, 13, 15, 16, 17, 19, 20}
              /\ PortOf(Op) \in {500, 501, 503, 1014} /\ (pc = 1 => PortOf(Op) = 503)
           \/ pc = AtUart + 11 /\ PortOf(Op) = 1016
<1>1. pc \in 1 .. AtMenu /\ Does(Op) = "in" /\ Op = StartUp[pc]
  BY DoingIs
<1>2. CASE pc \in 1 .. AtUart
  <2>1. DriveIn(pc)
    BY <1>1, <1>2, DriveDoes
  <2>2. pc \notin {2, 12, 13, 15, 16, 17, 19, 20}
    BY <2>1, KernelAssumption DEF DriveIn
  <2> QED
    BY <1>1, <1>2, <2>1, <2>2 DEF DriveIn
<1>3. CASE pc \in AtUart + 1 .. AtUart + 14
  <2>1. UartIn(pc)
    BY <1>1, <1>3, UartDoes
  <2> QED
    BY <1>1, <2>1 DEF UartIn
<1>4. CASE pc \in AtPs2 + 1 .. AtPs2 + 33
  <2>1. Does(StartUp[pc]) # "in"
    BY <1>4, Ps2DoesOnly
  <2> QED
    BY <1>1, <2>1, Zenon
<1>5. CASE pc \in AtKeyboard + 1 .. AtKeyboard + 29
  <2>1. Does(StartUp[pc]) # "in"
    BY <1>5, KeyboardDoesOnly
  <2> QED
    BY <1>1, <2>1, Zenon
<1> QED
  BY <1>1, <1>2, <1>3, <1>4, <1>5, Parts

LEMMA WhereDisplay ==
    ASSUME pc \in 1 .. AtMenu + 1, Doing("display")
    PROVE  pc \in {AtUart + 10, AtUart + 12}
<1>1. pc \in 1 .. AtMenu /\ Does(Op) = "display" /\ Op = StartUp[pc]
  BY DoingIs
<1>2. CASE pc \in 1 .. AtUart
  BY <1>1, <1>2, DriveDoesOnly
<1>3. CASE pc \in AtUart + 1 .. AtUart + 14
  BY <1>1, <1>3, UartDoes
<1>4. CASE pc \in AtPs2 + 1 .. AtPs2 + 33
  BY <1>1, <1>4, Ps2DoesOnly
<1>5. CASE pc \in AtKeyboard + 1 .. AtKeyboard + 29
  BY <1>1, <1>5, KeyboardDoesOnly
<1> QED
  BY <1>1, <1>2, <1>3, <1>4, <1>5, Parts

LEMMA WhereCheck ==
    ASSUME pc \in 1 .. AtMenu + 1, Doing("check")
    PROVE  (pc = 2 /\ Op = DriveCheck) \/ (pc = AtUart + 13 /\ Op = UartCheck)
<1>1. pc \in 1 .. AtMenu /\ Does(Op) = "check" /\ Op = StartUp[pc]
  BY DoingIs
<1>2. CASE pc \in 1 .. AtUart
  BY <1>1, <1>2, DriveDoes
<1>3. CASE pc \in AtUart + 1 .. AtUart + 14
  BY <1>1, <1>3, UartDoes
<1>4. CASE pc \in AtPs2 + 1 .. AtPs2 + 33
  BY <1>1, <1>4, Ps2DoesOnly
<1>5. CASE pc \in AtKeyboard + 1 .. AtKeyboard + 29
  BY <1>1, <1>5, KeyboardDoesOnly
<1> QED
  BY <1>1, <1>2, <1>3, <1>4, <1>5, Parts

LEMMA WhereBegin ==
    ASSUME pc \in 1 .. AtMenu + 1, Doing("begin wait")
    PROVE  pc \in {12, 16}
<1>1. pc \in 1 .. AtMenu /\ Does(Op) = "begin wait" /\ Op = StartUp[pc]
  BY DoingIs
<1>2. CASE pc \in 1 .. AtUart
  BY <1>1, <1>2, DriveDoes
<1>3. CASE pc \in AtUart + 1 .. AtUart + 14
  BY <1>1, <1>3, UartDoesOnly
<1>4. CASE pc \in AtPs2 + 1 .. AtPs2 + 33
  BY <1>1, <1>4, Ps2DoesOnly
<1>5. CASE pc \in AtKeyboard + 1 .. AtKeyboard + 29
  BY <1>1, <1>5, KeyboardDoesOnly
<1> QED
  BY <1>1, <1>2, <1>3, <1>4, <1>5, Parts

LEMMA WhereUntil ==
    ASSUME pc \in 1 .. AtMenu + 1, Doing("until")
    PROVE  pc = 13 \/ (pc = 17 /\ Op = UntilClear)
<1>1. pc \in 1 .. AtMenu /\ Does(Op) = "until" /\ Op = StartUp[pc]
  BY DoingIs
<1>2. CASE pc \in 1 .. AtUart
  BY <1>1, <1>2, DriveDoes
<1>3. CASE pc \in AtUart + 1 .. AtUart + 14
  BY <1>1, <1>3, UartDoesOnly
<1>4. CASE pc \in AtPs2 + 1 .. AtPs2 + 33
  BY <1>1, <1>4, Ps2DoesOnly
<1>5. CASE pc \in AtKeyboard + 1 .. AtKeyboard + 29
  BY <1>1, <1>5, KeyboardDoesOnly
<1> QED
  BY <1>1, <1>2, <1>3, <1>4, <1>5, Parts

LEMMA WhereTake ==
    ASSUME pc \in 1 .. AtMenu + 1, Doing("take status")
    PROVE  (pc = 15 /\ MaskOf(Op) = 128) \/ (pc = 19 /\ MaskOf(Op) = 9)
<1>1. pc \in 1 .. AtMenu /\ Does(Op) = "take status" /\ Op = StartUp[pc]
  BY DoingIs
<1>2. CASE pc \in 1 .. AtUart
  <2>1. DriveTake(pc)
    BY <1>1, <1>2, DriveDoes
  <2> QED
    BY <1>1, <2>1 DEF DriveTake
<1>3. CASE pc \in AtUart + 1 .. AtUart + 14
  BY <1>1, <1>3, UartDoesOnly
<1>4. CASE pc \in AtPs2 + 1 .. AtPs2 + 33
  BY <1>1, <1>4, Ps2DoesOnly
<1>5. CASE pc \in AtKeyboard + 1 .. AtKeyboard + 29
  BY <1>1, <1>5, KeyboardDoesOnly
<1> QED
  BY <1>1, <1>2, <1>3, <1>4, <1>5, Parts

LEMMA WhereErrorBit ==
    ASSUME pc \in 1 .. AtMenu + 1, Doing("error bit?")
    PROVE  pc = 20
<1>1. pc \in 1 .. AtMenu /\ Does(Op) = "error bit?" /\ Op = StartUp[pc]
  BY DoingIs
<1>2. CASE pc \in 1 .. AtUart
  BY <1>1, <1>2, DriveDoes
<1>3. CASE pc \in AtUart + 1 .. AtUart + 14
  BY <1>1, <1>3, UartDoesOnly
<1>4. CASE pc \in AtPs2 + 1 .. AtPs2 + 33
  BY <1>1, <1>4, Ps2DoesOnly
<1>5. CASE pc \in AtKeyboard + 1 .. AtKeyboard + 29
  BY <1>1, <1>5, KeyboardDoesOnly
<1> QED
  BY <1>1, <1>2, <1>3, <1>4, <1>5, Parts

LEMMA WhereHwio ==
    ASSUME pc \in 1 .. AtMenu + 1, Doing("hwio")
    PROVE  \/ /\ pc \in AtPs2 + 1 .. AtPs2 + 33 /\ Calls(Op)
              /\ pc \notin {AtPs2 + 7, AtPs2 + 13, AtPs2 + 20, AtPs2 + 25, AtPs2 + 29}
           \/ /\ pc \in AtKeyboard + 1 .. AtKeyboard + 29 /\ Calls(Op)
              /\ pc # AtKeyboard + 22
<1>1. pc \in 1 .. AtMenu /\ Does(Op) = "hwio" /\ Op = StartUp[pc]
  BY DoingIs
<1>2. CASE pc \in 1 .. AtUart
  BY <1>1, <1>2, DriveDoesOnly
<1>3. CASE pc \in AtUart + 1 .. AtUart + 14
  BY <1>1, <1>3, UartDoesOnly
<1>4. CASE pc \in AtPs2 + 1 .. AtPs2 + 33
  BY <1>1, <1>4, Ps2Does
<1>5. CASE pc \in AtKeyboard + 1 .. AtKeyboard + 29
  BY <1>1, <1>5, KeyboardDoes
<1> QED
  BY <1>1, <1>2, <1>3, <1>4, <1>5, Parts

LEMMA WhereConfigure ==
    ASSUME pc \in 1 .. AtMenu + 1, Doing("configure")
    PROVE  pc = AtPs2 + 7
<1>1. pc \in 1 .. AtMenu /\ Does(Op) = "configure" /\ Op = StartUp[pc]
  BY DoingIs
<1>2. CASE pc \in 1 .. AtUart
  BY <1>1, <1>2, DriveDoesOnly
<1>3. CASE pc \in AtUart + 1 .. AtUart + 14
  BY <1>1, <1>3, UartDoesOnly
<1>4. CASE pc \in AtPs2 + 1 .. AtPs2 + 33
  BY <1>1, <1>4, Ps2Does DEF Calls
<1>5. CASE pc \in AtKeyboard + 1 .. AtKeyboard + 29
  BY <1>1, <1>5, KeyboardDoesOnly
<1> QED
  BY <1>1, <1>2, <1>3, <1>4, <1>5, Parts

LEMMA WhereSecond ==
    ASSUME pc \in 1 .. AtMenu + 1, Doing("second started?")
    PROVE  pc = AtPs2 + 20
<1>1. pc \in 1 .. AtMenu /\ Does(Op) = "second started?" /\ Op = StartUp[pc]
  BY DoingIs
<1>2. CASE pc \in 1 .. AtUart
  BY <1>1, <1>2, DriveDoesOnly
<1>3. CASE pc \in AtUart + 1 .. AtUart + 14
  BY <1>1, <1>3, UartDoesOnly
<1>4. CASE pc \in AtPs2 + 1 .. AtPs2 + 33
  BY <1>1, <1>4, Ps2Does DEF Calls
<1>5. CASE pc \in AtKeyboard + 1 .. AtKeyboard + 29
  BY <1>1, <1>5, KeyboardDoesOnly
<1> QED
  BY <1>1, <1>2, <1>3, <1>4, <1>5, Parts

LEMMA WhereFails ==
    ASSUME pc \in 1 .. AtMenu + 1, Doing("fails?")
    PROVE  \/ /\ pc = AtPs2 + 13 /\ TextOf(Op) = "PS2 controller test" /\ ByteOf(Op) = 85
           \/ /\ pc = AtPs2 + 25 /\ TextOf(Op) = "First port test" /\ ByteOf(Op) = 0
           \/ /\ pc = AtPs2 + 29 /\ TextOf(Op) = "Second port test" /\ ByteOf(Op) = 0
<1>1. pc \in 1 .. AtMenu /\ Does(Op) = "fails?" /\ Op = StartUp[pc]
  BY DoingIs
<1>2. CASE pc \in 1 .. AtUart
  BY <1>1, <1>2, DriveDoesOnly
<1>3. CASE pc \in AtUart + 1 .. AtUart + 14
  BY <1>1, <1>3, UartDoesOnly
<1>4. CASE pc \in AtPs2 + 1 .. AtPs2 + 33
  BY <1>1, <1>4, Ps2Does DEF Calls
<1>5. CASE pc \in AtKeyboard + 1 .. AtKeyboard + 29
  BY <1>1, <1>5, KeyboardDoesOnly
<1> QED
  BY <1>1, <1>2, <1>3, <1>4, <1>5, Parts

LEMMA WhereRead ==
    ASSUME pc \in 1 .. AtMenu + 1, Doing("read configuration")
    PROVE  pc = AtKeyboard + 22
<1>1. pc \in 1 .. AtMenu /\ Does(Op) = "read configuration" /\ Op = StartUp[pc]
  BY DoingIs
<1>2. CASE pc \in 1 .. AtUart
  BY <1>1, <1>2, DriveDoesOnly
<1>3. CASE pc \in AtUart + 1 .. AtUart + 14
  BY <1>1, <1>3, UartDoesOnly
<1>4. CASE pc \in AtPs2 + 1 .. AtPs2 + 33
  BY <1>1, <1>4, Ps2DoesOnly
<1>5. CASE pc \in AtKeyboard + 1 .. AtKeyboard + 29
  BY <1>1, <1>5, KeyboardDoes DEF Calls
<1> QED
  BY <1>1, <1>2, <1>3, <1>4, <1>5, Parts

-----------------------------------------------------------------------------
(* The serial port.                                                        *)
SameBut(u, w, regs) ==
    /\ w \in Uarts /\ w.kind = u.kind
    /\ "ier" \notin regs => w.ier = u.ier
    /\ "lcr" \notin regs => w.lcr = u.lcr
    /\ "dll" \notin regs => w.dll = u.dll
    /\ "dlm" \notin regs => w.dlm = u.dlm
    /\ "fcr" \notin regs => w.fcr = u.fcr
    /\ "mcr" \notin regs => w.mcr = u.mcr

Same(u, w) == SameBut(u, w, {})

LEMMA WrittenAbsent ==
    ASSUME NEW u \in Uarts, NEW n, NEW byte, NEW w \in UartWritten(u, n, byte), u.kind = "absent"
    PROVE  w = u
BY DEF UartWritten

LEMMA WrittenFirst ==
    ASSUME NEW u \in Uarts, NEW byte \in Bytes, NEW w \in UartWritten(u, 0, byte),
           u.kind # "absent"
    PROVE  /\ SameBut(u, w, {"dll"})
           /\ u.lcr >= 128 => w.dll = byte
           /\ u.lcr < 128 => w.dll = u.dll
<1>1. CASE u.lcr >= 128
  <2>1. w = [u EXCEPT !.dll = byte]
    BY <1>1 DEF UartWritten, Latched
  <2> QED
    BY <1>1, <2>1 DEF SameBut, Uarts, Bytes
<1>2. CASE u.lcr < 128
  <2>1. ~ (u.lcr >= 128)
    BY <1>2 DEF Uarts, Bytes
  <2>2. w = u \/ w = [u EXCEPT !.rbr = byte]
    BY <2>1 DEF UartWritten, Latched
  <2> QED
    BY <1>2, <2>1, <2>2 DEF SameBut, Uarts, Bytes
<1>3. u.lcr >= 128 \/ u.lcr < 128
  BY DEF Uarts, Bytes
<1> QED
  BY <1>1, <1>2, <1>3

LEMMA WrittenOther ==
    ASSUME NEW u \in Uarts, NEW n \in {1, 2, 3, 4}, NEW byte \in Bytes,
           NEW w \in UartWritten(u, n, byte), u.kind # "absent"
    PROVE  /\ n = 1 /\ u.lcr >= 128 => SameBut(u, w, {"dlm"}) /\ w.dlm = byte
           /\ n = 1 /\ u.lcr < 128 => SameBut(u, w, {"ier"}) /\ w.ier = byte
           /\ n = 2 => SameBut(u, w, {"fcr"}) /\ w.fcr = byte
           /\ n = 3 => SameBut(u, w, {"lcr"}) /\ w.lcr = byte
           /\ n = 4 => SameBut(u, w, {"mcr"}) /\ w.mcr = byte
<1>1. CASE n = 1 /\ u.lcr >= 128
  <2>1. w = [u EXCEPT !.dlm = byte]
    BY <1>1 DEF UartWritten, Latched
  <2>2. SameBut(u, w, {"dlm"}) /\ w.dlm = byte
    BY <2>1 DEF SameBut, Uarts
  <2>3. ~ (u.lcr < 128)
    BY <1>1 DEF Uarts, Bytes
  <2> QED
    BY <1>1, <2>2, <2>3
<1>2. CASE n = 1 /\ u.lcr < 128
  <2>1. ~ (u.lcr >= 128)
    BY <1>2 DEF Uarts, Bytes
  <2>2. w = [u EXCEPT !.ier = byte]
    BY <1>2, <2>1 DEF UartWritten, Latched
  <2>3. SameBut(u, w, {"ier"}) /\ w.ier = byte
    BY <2>2 DEF SameBut, Uarts
  <2> QED
    BY <1>2, <2>1, <2>3
<1>3. CASE n = 2
  <2>1. w = [u EXCEPT !.fcr = byte]
    BY <1>3 DEF UartWritten
  <2> QED
    BY <1>3, <2>1 DEF SameBut, Uarts
<1>4. CASE n = 3
  <2>1. w = [u EXCEPT !.lcr = byte]
    BY <1>4 DEF UartWritten
  <2> QED
    BY <1>4, <2>1 DEF SameBut, Uarts
<1>5. CASE n = 4
  <2>1. w = [u EXCEPT !.mcr = byte]
    BY <1>5 DEF UartWritten
  <2> QED
    BY <1>5, <2>1 DEF SameBut, Uarts
<1>6. u.lcr >= 128 \/ u.lcr < 128
  BY DEF Uarts, Bytes
<1> QED
  BY <1>1, <1>2, <1>3, <1>4, <1>5, <1>6

(* With the latch closed what is displayed changes no register.            *)
LEMMA ShownStays ==
    ASSUME NEW u \in Uarts, NEW char \in Bytes, NEW w \in Shown(u, char),
           u.kind # "absent" => u.lcr < 128
    PROVE  Same(u, w)
<1>1. w \in UartWritten(u, 0, char)
  BY DEF Shown
<1>2. CASE u.kind = "absent"
  BY <1>1, <1>2, WrittenAbsent DEF Same, SameBut
<1>3. CASE u.kind # "absent"
  BY <1>1, <1>3, WrittenFirst DEF Same, SameBut
<1> QED
  BY <1>2, <1>3

LEMMA ReadStays ==
    ASSUME uart \in Uarts, NEW ports, NEW w \in UartRead(ports)
    PROVE  Same(uart, w)
<1>1. w = uart \/ w = [uart EXCEPT !.rbr = 0]
  BY DEF UartRead
<1> QED
  BY <1>1 DEF Same, SameBut, Uarts, Bytes

LEMMA SameJoined ==
    ASSUME NEW u, NEW v, NEW w, Same(u, v), Same(v, w)
    PROVE  Same(u, w)
BY DEF Same, SameBut

(* The registers between two places that differ in none of them.           *)
LEMMA RegistersStay ==
    ASSUME NEW u, NEW w, Same(u, w), NEW p \in Nat, NEW q \in Nat, Registers(u, p),
           p \notin AtUart + 3 .. AtUart + 5, q \notin AtUart + 3 .. AtUart + 5,
           q > AtUart + 1 => p > AtUart + 1, q > AtUart + 4 => p > AtUart + 4,
           q > AtUart + 6 => p > AtUart + 6, q > AtUart + 14 => p > AtUart + 14
    PROVE  Registers(w, q)
BY DEF Same, SameBut, Registers

(* What is read at a port is a byte.                                       *)
LEMMA ByteAtIsByte ==
    ASSUME uart \in Uarts, NEW port \in Nat, NEW statusByte \in StatusBytes
    PROVE  ByteAt(port, statusByte) \in Bytes
<1>1. statusByte \in Bytes
  BY DEF StatusBytes, Bytes
<1>2. \A n : UartByte(n) \in Bytes
  BY DEF UartByte, Uarts, Bytes
<1>3. 0 \in Bytes /\ 255 \in Bytes
  BY DEF Bytes
<1> QED
  BY <1>1, <1>2, <1>3 DEF ByteAt

-----------------------------------------------------------------------------
(* What is the same for many steps.                                        *)
LEMMA InvFacts ==
    ASSUME KInv
    PROVE  /\ TypeOK /\ uart \in Uarts /\ frames \in Seq(1 .. 4)
           /\ place # "start-up" => pc = AtMenu + 1
           /\ Waiting /\ Complained /\ Answered /\ Registers(uart, pc)
           /\ pc \in 1 .. AtMenu + 1 /\ Typed
BY StartUpLength DEF KInv, Typed, TypeOK

LEMMA TypeFacts ==
    ASSUME KInv
    PROVE  /\ access \in {"C", "H", "S"} /\ ioData \in [1 .. 4 -> Bytes]
           /\ timeout \in 0 .. Tries /\ status \in Bytes
           /\ hwioData \in Bytes /\ config \in Bytes /\ devices \in 0 .. 2
           /\ drive \in Drives /\ uart \in Uarts /\ pc \in 1 .. AtMenu + 1
BY InvFacts DEF TypeOK

LEMMA TypedStep ==
    ASSUME KInv, place = "start-up", place' = place, frames' = frames,
           pc' \in 1 .. AtMenu + 1, uart' \in Uarts, drive' \in Drives,
           access' \in {"C", "H", "S"}, ioData' \in [1 .. 4 -> Bytes],
           timeout' \in 0 .. Tries, status' \in Bytes,
           hwioData' \in Bytes, config' \in Bytes, devices' \in 0 .. 2
    PROVE  Typed'
<1>1. pc' \in 1 .. Len(StartUp) + 1
  BY StartUpLength
<1>2. (place' = "slides") = (frames' # <<>>)
  <2>1. (place = "slides") = (frames # <<>>)
    BY InvFacts, Zenon DEF TypeOK
  <2> QED
    BY <2>1, Zenon
<1>3. Len(frames') <= FrameBound
  <2>1. Len(frames) <= FrameBound
    BY InvFacts DEF TypeOK
  <2> QED
    BY <2>1
<1>4. place' \in {"start-up", "menu", "slides", "shell", "off"} /\ ~ (place' # "start-up")
  OBVIOUS
<1>5. TypeOK'
  BY <1>1, <1>2, <1>3, <1>4, Zenon DEF TypeOK
<1>6. frames' \in Seq(1 .. 4)
  BY InvFacts
<1> QED
  BY <1>4, <1>5, <1>6, Zenon DEF Typed

LEMMA ComplainedStays ==
    ASSUME Complained, complaints' = complaints, pc \in Nat, pc' \in Nat,
           \/ pc <= AtUart /\ pc' <= AtUart + 1
           \/ pc' = pc
           \/ pc' = pc + 1 /\ pc \notin {AtUart + 13, AtPs2 + 13, AtPs2 + 25}
    PROVE  Complained'
<1>1. ASSUME NEW text \in Failures PROVE CheckAt(text) < pc <=> CheckAt(text) < pc'
  <2>1. CheckAt(text) \in {AtUart + 13, AtPs2 + 13, AtPs2 + 25}
    BY DEF CheckAt
  <2> QED
    BY <2>1, Spots
<1>2. {text \in Failures : CheckAt(text) < pc} = {text \in Failures : CheckAt(text) < pc'}
  BY <1>1
<1> QED
  BY <1>2, Zenon DEF Complained

LEMMA AnsweredBefore ==
    ASSUME Answered, pc' \in Nat, pc' <= AtPs2 + 1, hwioPorts' = hwioPorts
    PROVE  Answered'
<1>1. hwioPorts' \subseteq {0}
  BY DEF Answered
<1>2. /\ pc' \notin {AtPs2 + 5, AtPs2 + 6, AtPs2 + 7, AtPs2 + 18, AtPs2 + 19, AtPs2 + 20,
                    AtKeyboard + 20, AtKeyboard + 21, AtKeyboard + 22}
      /\ pc' \notin {AtPs2 + 11, AtPs2 + 12, AtPs2 + 13} /\ pc' \notin {AtPs2 + 24, AtPs2 + 25}
      /\ ~ (pc' > AtPs2 + 7) /\ pc' \notin AtPs2 + 8 .. AtPs2 + 20 /\ ~ (pc' > AtPs2 + 20)
  BY Spots
<1> QED
  BY <1>1, <1>2 DEF Answered

(* The steps of the waits of the ATAPI driver.                             *)
LEMMA DriveRest ==
    ASSUME KInv, pc \in 1 .. AtUart, pc' \in 1 .. AtUart, UNCHANGED <<ps2, complaints, uart>>
    PROVE  Complained' /\ Answered' /\ Registers(uart, pc)'
<1>1. Complained'
  BY InvFacts, ComplainedStays, Spots
<1>2. Answered'
  BY InvFacts, AnsweredBefore, Spots DEF ps2
<1>3. Registers(uart', pc')
  <2>1. Same(uart, uart') /\ Registers(uart, pc)
    BY InvFacts DEF Same, SameBut
  <2> QED
    BY <2>1, RegistersStay, Spots
<1> QED
  BY <1>1, <1>2, <1>3

(* The steps of the PS/2 driver.                                           *)
LEMMA Ps2Rest ==
    ASSUME KInv, pc \in AtPs2 + 1 .. AtMenu, pc' = pc + 1, UNCHANGED uart
    PROVE  Waiting' /\ Registers(uart, pc)'
<1>1. Waiting'
  <2>1. /\ pc' \notin {14, 15} /\ pc' \notin {17, 20} /\ pc' \notin {18, 19} /\ pc' # 2
        /\ pc' \notin {AtUart + 12, AtUart + 13}
    BY Spots
  <2> QED
    BY <2>1 DEF Waiting
<1>2. Registers(uart', pc')
  <2>1. Same(uart, uart') /\ Registers(uart, pc)
    BY InvFacts DEF Same, SameBut
  <2> QED
    BY <2>1, RegistersStay, Spots
<1> QED
  BY <1>1, <1>2

LEMMA NothingMoves ==
    ASSUME KInv, UNCHANGED <<pc, io, wait, complaints, ps2, uart>>
    PROVE  Waiting' /\ Complained' /\ Answered' /\ Registers(uart, pc)'
<1>1. UNCHANGED <<pc, ioData, timeout, status, complaints, hwioData, config, devices,
                  hwioPorts, uart>>
  BY DEF io, wait, ps2
<1>2. Waiting'
  BY <1>1, InvFacts DEF Waiting
<1>3. Complained'
  BY <1>1, InvFacts DEF Complained
<1>4. Answered'
  BY <1>1, InvFacts DEF Answered
<1>5. Registers(uart, pc)'
  BY <1>1, InvFacts DEF Registers
<1> QED
  BY <1>2, <1>3, <1>4, <1>5

-----------------------------------------------------------------------------
(* Every step keeps the invariant.  First the waits.                       *)
LEMMA BeginWaitInv ==
    ASSUME KInv, BeginWait
    PROVE  KInv'
<1>1. pc \in {12, 16} /\ place = "start-up"
  BY InvFacts, WhereBegin, DoingIs DEF BeginWait
<1>2. pc' = pc + 1 /\ timeout' = Tries /\ status' = 0
  BY DEF BeginWait, Goes
<1>3. UNCHANGED <<place, access, ioData, complaints, hwioData, config, devices, hwioPorts,
                  frames, drive, uart>>
  BY DEF BeginWait, io, ps2
<1>4. Typed'
  <2>1. timeout' \in 0 .. Tries /\ status' \in Bytes /\ pc' \in 1 .. AtMenu + 1
    BY <1>1, <1>2, KernelAssumption, Spots DEF Bytes
  <2> QED
    BY <1>1, <1>3, <2>1, TypeFacts, TypedStep
<1>5. Waiting'
  BY <1>1, <1>2, <1>3, Spots DEF Waiting
<1>6. Complained' /\ Answered' /\ Registers(uart, pc)'
  BY <1>1, <1>2, <1>3, DriveRest, Spots DEF ps2
<1> QED
  BY <1>4, <1>5, <1>6 DEF KInv

LEMMA UntilInv ==
    ASSUME KInv, Until
    PROVE  KInv'
<1>1. pc \in {13, 17} /\ place = "start-up" /\ (pc = 17 => Op = UntilClear)
  BY InvFacts, WhereUntil, DoingIs DEF Until
<1>2. UNCHANGED <<place, access, ioData, timeout, status, complaints, hwioData, config,
                  devices, hwioPorts, frames, drive, uart>>
  BY DEF Until, io, ps2, wait
<1>3. pc = 17 => pc' = 20
  <2>1. Ends(Op.set) => pc' = pc + 3
    BY Zenon DEF Until
  <2>2. pc = 17 => Ends(Op.set)
    <3>1. UntilClear.set = FALSE
      BY DEF UntilClear
    <3>2. pc = 17 => Op.set = FALSE
      BY <1>1, <3>1, Zenon
    <3>3. pc = 17 => ~ (status # 0)
      BY InvFacts DEF Waiting
    <3> QED
      BY <3>2, <3>3, Zenon DEF Ends
  <2> HIDE DEF Ends
  <2>3. pc = 17 => pc' = pc + 3
    BY <2>1, <2>2, Zenon
  <2> QED
    BY <2>3
<1>4. pc = 13 => pc' = 16 \/ (pc' = 14 /\ timeout > 0)
  <2>1. pc' = pc + 3 \/ (pc' = pc + 1 /\ timeout # 0)
    BY Zenon DEF Until, Ends
  <2>2. timeout # 0 => timeout > 0
    BY TypeFacts, KernelAssumption
  <2> QED
    BY <2>1, <2>2
<1>5. pc' \in {14, 16, 20} /\ (pc' = 14 => timeout > 0) /\ (pc' = 20 => status = 0)
  <2>1. pc = 17 => status = 0
    BY InvFacts DEF Waiting
  <2> QED
    BY <1>1, <1>3, <1>4, <2>1
<1>6. Typed'
  <2>1. pc' \in 1 .. AtMenu + 1
    BY <1>5, Spots
  <2> QED
    BY <1>1, <1>2, <2>1, TypeFacts, TypedStep
<1>7. Waiting'
  BY <1>2, <1>5, Spots DEF Waiting
<1>8. Complained' /\ Answered' /\ Registers(uart, pc)'
  BY <1>1, <1>2, <1>5, DriveRest, Spots DEF ps2
<1> QED
  BY <1>6, <1>7, <1>8 DEF KInv

LEMMA TakeStatusInv ==
    ASSUME KInv, TakeStatus
    PROVE  KInv'
<1>1. pc = 15 /\ place = "start-up" /\ MaskOf(Op) = 128
  <2>1. pc # 19
    BY InvFacts DEF Waiting
  <2> QED
    BY <2>1, InvFacts, WhereTake, DoingIs DEF TakeStatus
<1>2. pc' = 13 /\ timeout' = timeout - 1 /\ status' = BitAnd[ioData[1]][128]
  <2>1. pc' = pc - 2 /\ timeout' = timeout - 1 /\ status' = BitAnd[ioData[1]][MaskOf(Op)]
    BY Zenon DEF TakeStatus, Masked, MaskOf
  <2> QED
    BY <1>1, <2>1
<1>3. UNCHANGED <<place, access, ioData, complaints, hwioData, config, devices, hwioPorts,
                  frames, drive, uart>>
  BY DEF TakeStatus, io, ps2
<1>4. Typed'
  <2>1. status' \in Bytes
    <3>1. ioData[1] \in Nat
      BY TypeFacts DEF Bytes
    <3>2. BitAnd[ioData[1]][128] \in Nat /\ BitAnd[ioData[1]][128] <= 128
      BY <3>1, BitAndBounded
    <3> QED
      BY <1>2, <3>2 DEF Bytes
  <2>2. timeout' \in 0 .. Tries
    <3>1. timeout > 0
      BY <1>1, InvFacts DEF Waiting
    <3> QED
      BY <1>2, <3>1, TypeFacts, KernelAssumption
  <2>3. pc' \in 1 .. AtMenu + 1
    BY <1>2, Spots
  <2> QED
    BY <1>1, <1>3, <2>1, <2>2, <2>3, TypeFacts, TypedStep
<1>5. Waiting'
  BY <1>2, Spots DEF Waiting
<1>6. Complained' /\ Answered' /\ Registers(uart, pc)'
  BY <1>1, <1>2, <1>3, DriveRest, Spots DEF ps2
<1> QED
  BY <1>4, <1>5, <1>6 DEF KInv

LEMMA ErrorBitInv ==
    ASSUME KInv, ErrorBit
    PROVE  KInv'
<1>1. pc = 20 /\ place = "start-up" /\ status = 0
  BY InvFacts, WhereErrorBit, DoingIs DEF ErrorBit, Waiting
<1>2. pc' = 21
  <2>1. pc' = pc + 1
    BY Zenon DEF ErrorBit, Goes
  <2> QED
    BY <1>1, <2>1
<1>3. BitAnd[status][1] = 0
  BY <1>1, BitAndBits DEF Bit
<1>4. UNCHANGED <<place, access, ioData, timeout, status, complaints, hwioData, config,
                  devices, hwioPorts, frames, drive, uart>>
  BY <1>3 DEF ErrorBit, io, ps2, wait
<1>5. Typed'
  <2>1. pc' \in 1 .. AtMenu + 1
    BY <1>2, Spots
  <2> QED
    BY <1>1, <1>4, <2>1, TypeFacts, TypedStep
<1>6. Waiting'
  BY <1>2, Spots DEF Waiting
<1>7. Complained' /\ Answered' /\ Registers(uart, pc)'
  BY <1>1, <1>2, <1>4, DriveRest, Spots DEF ps2
<1> QED
  BY <1>5, <1>6, <1>7 DEF KInv

-----------------------------------------------------------------------------
(* The PS/2 driver.                                                        *)
LEMMA HwioInv ==
    ASSUME KInv, Hwio
    PROVE  KInv'
<1>1. place = "start-up" /\ Op = StartUp[pc]
  BY InvFacts, DoingIs DEF Hwio
<1>2. /\ Calls(Op) /\ pc \in AtPs2 + 1 .. AtMenu
      /\ pc \notin {AtPs2 + 7, AtPs2 + 13, AtPs2 + 20, AtPs2 + 25, AtPs2 + 29, AtKeyboard + 22}
  BY InvFacts, WhereHwio, Spots DEF Hwio
<1>3. pc' = pc + 1
  BY Zenon DEF Hwio, Goes
<1>4. UNCHANGED <<place, access, ioData, timeout, status, complaints, config, devices,
                  frames, drive, uart>>
  BY DEF Hwio, io, wait
<1>5. /\ hwioPorts' \in {hwioPorts, hwioPorts \cup {0}}
      /\ hwioData' = IF FromOf(Op) = "value" THEN DataOf(Op)
                     ELSE IF FromOf(Op) = "config" THEN config ELSE hwioData
  BY Zenon DEF Hwio, Accessed, FromOf, DataOf
<1>6. \A byte : Sends(Op, byte) => hwioData' = byte
  BY <1>5 DEF Sends
<1>7. Keeps(Op) => hwioData' = hwioData
  BY <1>5 DEF Keeps
<1>8. hwioData' \in Bytes
  BY <1>2, <1>5, TypeFacts DEF Calls
<1>9. Typed'
  <2>1. pc' \in 1 .. AtMenu + 1
    BY <1>2, <1>3, Spots
  <2> QED
    BY <1>1, <1>4, <1>8, <2>1, TypeFacts, TypedStep
<1>10. Complained'
  <2>1. pc \in Nat /\ pc' \in Nat /\ pc \notin {AtUart + 13, AtPs2 + 13, AtPs2 + 25}
    BY <1>2, <1>3, Spots
  <2> QED
    BY <1>3, <1>4, <2>1, InvFacts, ComplainedStays
<1>11. Answered'
  <2>1. hwioPorts' \subseteq {0}
    BY <1>5, InvFacts DEF Answered
  <2>2. /\ pc = AtPs2 + 4 \/ pc = AtPs2 + 17 \/ pc = AtKeyboard + 19 => hwioData' = 32
        /\ pc = AtPs2 + 10 => hwioData' = 170
        /\ pc = AtPs2 + 23 => hwioData' = 171
    BY <1>1, <1>6, Ps2Data
  <2>3. pc \in {AtPs2 + 5, AtPs2 + 6, AtPs2 + 11, AtPs2 + 12, AtPs2 + 18, AtPs2 + 19,
                AtPs2 + 24, AtKeyboard + 20, AtKeyboard + 21} => hwioData' = hwioData
    BY <1>1, <1>7, Ps2Data
  <2>4. pc' \in {AtPs2 + 5, AtPs2 + 6, AtPs2 + 7, AtPs2 + 18, AtPs2 + 19, AtPs2 + 20,
                 AtKeyboard + 20, AtKeyboard + 21, AtKeyboard + 22} => hwioData' = 32
    <3>1. SUFFICES ASSUME pc' \in {AtPs2 + 5, AtPs2 + 6, AtPs2 + 7, AtPs2 + 18, AtPs2 + 19,
                                   AtPs2 + 20, AtKeyboard + 20, AtKeyboard + 21,
                                   AtKeyboard + 22}
                   PROVE  hwioData' = 32
      OBVIOUS
    <3>2. \/ pc = AtPs2 + 4 \/ pc = AtPs2 + 17 \/ pc = AtKeyboard + 19
          \/ pc \in {AtPs2 + 5, AtPs2 + 6, AtPs2 + 18, AtPs2 + 19, AtKeyboard + 20,
                     AtKeyboard + 21}
      BY <1>2, <1>3, <3>1, Spots
    <3> QED
      BY <2>2, <2>3, <3>2, InvFacts DEF Answered
  <2>5. pc' \in {AtPs2 + 11, AtPs2 + 12, AtPs2 + 13} => hwioData' = 170
    <3>1. pc' \in {AtPs2 + 11, AtPs2 + 12, AtPs2 + 13} =>
            pc = AtPs2 + 10 \/ pc \in {AtPs2 + 11, AtPs2 + 12}
      BY <1>2, <1>3, Spots
    <3> QED
      BY <2>2, <2>3, <3>1, InvFacts DEF Answered
  <2>6. pc' \in {AtPs2 + 24, AtPs2 + 25} => hwioData' = 171
    <3>1. pc' \in {AtPs2 + 24, AtPs2 + 25} => pc = AtPs2 + 23 \/ pc = AtPs2 + 24
      BY <1>2, <1>3, Spots
    <3> QED
      BY <2>2, <2>3, <3>1, InvFacts DEF Answered
  <2>7. /\ pc' > AtPs2 + 7 => config' = 32
        /\ pc' \in AtPs2 + 8 .. AtPs2 + 20 => devices' = 2
        /\ pc' > AtPs2 + 20 => devices' = 1
    <3>1. /\ pc' > AtPs2 + 7 => pc > AtPs2 + 7
          /\ pc' \in AtPs2 + 8 .. AtPs2 + 20 => pc \in AtPs2 + 8 .. AtPs2 + 20
          /\ pc' > AtPs2 + 20 => pc > AtPs2 + 20
      BY <1>2, <1>3, Spots
    <3> QED
      BY <1>4, <3>1, InvFacts DEF Answered
  <2> QED
    BY <2>1, <2>4, <2>5, <2>6, <2>7 DEF Answered
<1>12. Waiting' /\ Registers(uart, pc)'
  BY <1>2, <1>3, <1>4, Ps2Rest
<1> QED
  BY <1>9, <1>10, <1>11, <1>12 DEF KInv

LEMMA ConfigureInv ==
    ASSUME KInv, Configure
    PROVE  KInv'
<1>1. place = "start-up" /\ pc = AtPs2 + 7
  BY InvFacts, DoingIs, WhereConfigure DEF Configure
<1>2. pc' = AtPs2 + 8
  <2>1. pc' = pc + 1
    BY Zenon DEF Configure, Goes
  <2> QED
    BY <1>1, <2>1, Spots
<1>3. UNCHANGED <<place, access, ioData, timeout, status, complaints, hwioData, hwioPorts,
                  frames, drive, uart>>
  BY DEF Configure, io, wait
<1>4. config' = 32 /\ devices' = 2
  <2>1. hwioData = 32
    BY <1>1, InvFacts DEF Answered
  <2>2. config' = BitAnd[32][240] /\ devices' = IF BitAnd[config'][32] # 0 THEN 2 ELSE 1
    BY <2>1, Zenon DEF Configure
  <2>3. config' = 32
    BY <2>2, MasksOf32
  <2>4. BitAnd[config'][32] = 32
    BY <2>3, MasksOf32, Zenon
  <2> QED
    BY <2>2, <2>3, <2>4
<1>5. Typed'
  <2>1. pc' \in 1 .. AtMenu + 1 /\ config' \in Bytes /\ devices' \in 0 .. 2
    BY <1>2, <1>4, Spots DEF Bytes
  <2> QED
    BY <1>1, <1>3, <2>1, TypeFacts, TypedStep
<1>6. Complained'
  <2>1. /\ pc \in Nat /\ pc' \in Nat /\ pc' = pc + 1
        /\ pc \notin {AtUart + 13, AtPs2 + 13, AtPs2 + 25}
    BY <1>1, <1>2, Spots
  <2> QED
    BY <1>3, <2>1, InvFacts, ComplainedStays
<1>7. Answered'
  BY <1>2, <1>3, <1>4, InvFacts, Spots DEF Answered
<1>8. Waiting' /\ Registers(uart, pc)'
  <2>1. pc \in AtPs2 + 1 .. AtMenu /\ pc' = pc + 1
    BY <1>1, <1>2, Spots
  <2> QED
    BY <1>3, <2>1, Ps2Rest
<1> QED
  BY <1>5, <1>6, <1>7, <1>8 DEF KInv

LEMMA SecondStartedInv ==
    ASSUME KInv, SecondStarted
    PROVE  KInv'
<1>1. place = "start-up" /\ pc = AtPs2 + 20
  BY InvFacts, DoingIs, WhereSecond DEF SecondStarted
<1>2. pc' = AtPs2 + 21
  <2>1. pc' = pc + 1
    BY Zenon DEF SecondStarted, Goes
  <2> QED
    BY <1>1, <2>1, Spots
<1>3. UNCHANGED <<place, access, ioData, timeout, status, complaints, hwioData, hwioPorts,
                  frames, drive, uart>>
  BY DEF SecondStarted, io, wait
<1>4. config' = 32 /\ devices' = 1
  <2>1. hwioData = 32
    BY <1>1, InvFacts DEF Answered
  <2>2. config' = 32 /\ devices' = IF BitAnd[32][32] # 0 THEN 1 ELSE devices
    BY <2>1, Zenon DEF SecondStarted
  <2> QED
    BY <2>2, MasksOf32
<1>5. Typed'
  <2>1. pc' \in 1 .. AtMenu + 1 /\ config' \in Bytes /\ devices' \in 0 .. 2
    BY <1>2, <1>4, Spots DEF Bytes
  <2> QED
    BY <1>1, <1>3, <2>1, TypeFacts, TypedStep
<1>6. Complained'
  <2>1. /\ pc \in Nat /\ pc' \in Nat /\ pc' = pc + 1
        /\ pc \notin {AtUart + 13, AtPs2 + 13, AtPs2 + 25}
    BY <1>1, <1>2, Spots
  <2> QED
    BY <1>3, <2>1, InvFacts, ComplainedStays
<1>7. Answered'
  BY <1>2, <1>3, <1>4, InvFacts, Spots DEF Answered
<1>8. Waiting' /\ Registers(uart, pc)'
  <2>1. pc \in AtPs2 + 1 .. AtMenu /\ pc' = pc + 1
    BY <1>1, <1>2, Spots
  <2> QED
    BY <1>3, <2>1, Ps2Rest
<1> QED
  BY <1>5, <1>6, <1>7, <1>8 DEF KInv

LEMMA ReadConfigurationInv ==
    ASSUME KInv, ReadConfiguration
    PROVE  KInv'
<1>1. place = "start-up" /\ pc = AtKeyboard + 22
  BY InvFacts, DoingIs, WhereRead DEF ReadConfiguration
<1>2. pc' = AtKeyboard + 23
  <2>1. pc' = pc + 1
    BY Zenon DEF ReadConfiguration, Goes
  <2> QED
    BY <1>1, <2>1, Spots
<1>3. UNCHANGED <<place, access, ioData, timeout, status, complaints, hwioData, devices,
                  hwioPorts, frames, drive, uart>>
  BY DEF ReadConfiguration, io, wait
<1>4. config' = 32 /\ devices = 1
  <2>1. hwioData = 32 /\ devices = 1
    <3>1. pc > AtPs2 + 20
      BY <1>1, Spots
    <3> QED
      BY <1>1, <3>1, InvFacts DEF Answered
  <2> QED
    BY <2>1 DEF ReadConfiguration
<1>5. Typed'
  <2>1. pc' \in 1 .. AtMenu + 1 /\ config' \in Bytes
    BY <1>2, <1>4, Spots DEF Bytes
  <2> QED
    BY <1>1, <1>3, <2>1, TypeFacts, TypedStep
<1>6. Complained'
  <2>1. /\ pc \in Nat /\ pc' \in Nat /\ pc' = pc + 1
        /\ pc \notin {AtUart + 13, AtPs2 + 13, AtPs2 + 25}
    BY <1>1, <1>2, Spots
  <2> QED
    BY <1>3, <2>1, InvFacts, ComplainedStays
<1>7. Answered'
  BY <1>2, <1>3, <1>4, InvFacts, Spots DEF Answered
<1>8. Waiting' /\ Registers(uart, pc)'
  <2>1. pc \in AtPs2 + 1 .. AtMenu /\ pc' = pc + 1
    BY <1>1, <1>2, Spots
  <2> QED
    BY <1>3, <2>1, Ps2Rest
<1> QED
  BY <1>5, <1>6, <1>7, <1>8 DEF KInv

(* A test says what it says, whatever it is of.                            *)
LEMMA TestedInv ==
    ASSUME KInv, Tested
    PROVE  KInv'
<1>1. place = "start-up" /\ pc \in {AtPs2 + 13, AtPs2 + 25, AtPs2 + 29}
  BY InvFacts, DoingIs, WhereFails DEF Tested
<1>2. pc # AtPs2 + 29
  <2>1. SUFFICES ASSUME pc = AtPs2 + 29 PROVE FALSE
    OBVIOUS
  <2>2. StartUp[pc] = Dual(Fails("Second port test", 0))
    BY <2>1, Ps2Ops
  <2>3. IsDual(Op)
    BY <2>2, OtherKinds, Zenon DEF Op
  <2>4. devices = 2
    BY <2>3, Zenon DEF Tested, Wanted, IsDual
  <2>5. pc > AtPs2 + 20
    BY <2>1, Spots
  <2> QED
    BY <2>4, <2>5, InvFacts DEF Answered
<1>3. pc' = pc + 1
  BY Zenon DEF Tested, Goes
<1>4. UNCHANGED <<place, access, ioData, timeout, status, hwioData, config, hwioPorts,
                  frames, drive, uart>>
  BY DEF Tested, io, wait
<1>5. \/ pc = AtPs2 + 13 /\ TextOf(Op) = "PS2 controller test" /\ ByteOf(Op) = 85
      \/ pc = AtPs2 + 25 /\ TextOf(Op) = "First port test" /\ ByteOf(Op) = 0
  <2>1. pc \in 1 .. AtMenu + 1 /\ Doing("fails?")
    BY InvFacts, Zenon DEF Tested
  <2> QED
    BY <1>2, <2>1, WhereFails, Zenon
<1>6. hwioData # ByteOf(Op)
  <2>1. CASE pc = AtPs2 + 13 /\ ByteOf(Op) = 85
    <3>1. hwioData = 170
      BY <2>1, InvFacts DEF Answered
    <3> QED
      BY <2>1, <3>1
  <2>2. CASE pc = AtPs2 + 25 /\ ByteOf(Op) = 0
    <3>1. hwioData = 171
      BY <2>2, InvFacts DEF Answered
    <3> QED
      BY <2>2, <3>1
  <2> QED
    BY <1>5, <2>1, <2>2, Zenon
<1>7. complaints' = complaints \cup {TextOf(Op)}
  BY <1>6, Zenon DEF Tested, TextOf, ByteOf
<1>8. devices' = devices
  <2>1. TextOf(Op) # "Second port test"
    BY <1>1, <1>2, <1>5
  <2> QED
    BY <2>1, Zenon DEF Tested, TextOf
<1>9. Typed'
  <2>1. pc' \in 1 .. AtMenu + 1
    BY <1>1, <1>3, Spots
  <2> QED
    BY <1>1, <1>4, <1>8, <2>1, TypeFacts, TypedStep
<1>10. Complained'
  <2>1. complaints = {text \in Failures : CheckAt(text) < pc}
    BY InvFacts, Zenon DEF Complained
  <2>2. /\ CheckAt("UART test failure") = AtUart + 13
        /\ CheckAt("PS2 controller test") = AtPs2 + 13
        /\ CheckAt("First port test") = AtPs2 + 25
    BY DEF CheckAt
  <2>3. TextOf(Op) \in Failures /\ CheckAt(TextOf(Op)) = pc
    BY <1>5, <2>2 DEF Failures
  <2>5. pc \in Nat
    BY InvFacts, Spots
  <2>6. \A text \in Failures : CheckAt(text) \in Nat /\ (CheckAt(text) = pc => text = TextOf(Op))
    <3>1. /\ AtUart + 13 \in Nat /\ AtPs2 + 13 \in Nat /\ AtPs2 + 25 \in Nat
          /\ AtUart + 13 # AtPs2 + 13 /\ AtUart + 13 # AtPs2 + 25 /\ AtPs2 + 13 # AtPs2 + 25
      BY Spots
    <3>2. \A text \in Failures : \/ text = "UART test failure"
                                 \/ text = "PS2 controller test" \/ text = "First port test"
      BY DEF Failures
    <3>3. \A text \in Failures : CheckAt(text) \in Nat
      BY <2>2, <3>1, <3>2, Zenon
    <3>4. ASSUME NEW text \in Failures, CheckAt(text) = pc PROVE text = TextOf(Op)
      <4>1. \/ text = "UART test failure" /\ pc = AtUart + 13
            \/ text = "PS2 controller test" /\ pc = AtPs2 + 13
            \/ text = "First port test" /\ pc = AtPs2 + 25
        BY <2>2, <3>2, <3>4
      <4>2. \/ pc = AtPs2 + 13 /\ TextOf(Op) = "PS2 controller test"
            \/ pc = AtPs2 + 25 /\ TextOf(Op) = "First port test"
        BY <1>5, Zenon
      <4>3. CASE pc = AtPs2 + 13 /\ TextOf(Op) = "PS2 controller test"
        <5>1. text = "PS2 controller test"
          BY <3>1, <4>1, <4>3, Zenon
        <5> QED
          BY <4>3, <5>1, Zenon
      <4>4. CASE pc = AtPs2 + 25 /\ TextOf(Op) = "First port test"
        <5>1. text = "First port test"
          BY <3>1, <4>1, <4>4, Zenon
        <5> QED
          BY <4>4, <5>1, Zenon
      <4> QED
        BY <4>2, <4>3, <4>4, Zenon
    <3> QED
      BY <3>3, <3>4
  <2>4. complaints' = {text \in Failures : CheckAt(text) < pc + 1}
    <3>1. \A text \in Failures :
            CheckAt(text) < pc + 1 <=> CheckAt(text) < pc \/ text = TextOf(Op)
      BY <2>3, <2>5, <2>6
    <3> QED
      BY <1>7, <2>1, <2>3, <3>1
  <2> QED
    BY <1>3, <2>4, Zenon DEF Complained
<1>11. Answered'
  BY <1>1, <1>2, <1>3, <1>4, <1>8, InvFacts, Spots DEF Answered
<1>12. Waiting' /\ Registers(uart, pc)'
  <2>1. pc \in AtPs2 + 1 .. AtMenu
    BY <1>1, Spots
  <2> QED
    BY <1>3, <1>4, <2>1, Ps2Rest
<1> QED
  BY <1>9, <1>10, <1>11, <1>12 DEF KInv

(* With one device nothing is passed over that the tests need.             *)
LEMMA SkipInv ==
    ASSUME KInv, Skip
    PROVE  KInv'
<1>1. /\ place = "start-up" /\ Op = StartUp[pc] /\ pc \in AtPs2 + 1 .. AtMenu
      /\ pc \notin {AtPs2 + 7, AtKeyboard + 22}
  <2>1. CASE Doing("hwio")
    BY <2>1, InvFacts, DoingIs, WhereHwio, Spots
  <2>2. CASE Doing("fails?")
    <3>1. pc \in {AtPs2 + 13, AtPs2 + 25, AtPs2 + 29}
      BY <2>2, InvFacts, WhereFails
    <3> QED
      BY <2>2, <3>1, InvFacts, DoingIs, Spots
  <2>3. CASE Doing("second started?")
    <3>1. pc = AtPs2 + 20
      BY <2>3, InvFacts, WhereSecond
    <3>2. place = "start-up" /\ Op = StartUp[pc]
      BY <2>3, InvFacts, DoingIs
    <3>3. pc \in AtPs2 + 1 .. AtMenu /\ pc \notin {AtPs2 + 7, AtKeyboard + 22}
      BY <3>1, Spots
    <3> QED
      BY <3>2, <3>3
  <2> QED
    BY <2>1, <2>2, <2>3, Zenon DEF Skip
<1>2. IsDual(Op) /\ devices # 2
  BY Zenon DEF Skip, Wanted, IsDual
<1>3. pc' = pc + 1
  BY Zenon DEF Skip, Goes
<1>4. UNCHANGED <<place, access, ioData, timeout, status, complaints, hwioData, config,
                  devices, hwioPorts, frames, drive, uart>>
  BY DEF Skip, io, wait, ps2
<1>5. /\ pc \notin {AtPs2 + 4, AtPs2 + 5, AtPs2 + 6}
      /\ pc \notin {AtPs2 + 23, AtPs2 + 24, AtPs2 + 25}
      /\ pc \notin {AtKeyboard + 19, AtKeyboard + 20, AtKeyboard + 21}
  <2>1. IsDual(StartUp[pc])
    BY <1>1, <1>2, Zenon
  <2> QED
    BY <2>1, Ps2Single
<1>6. pc \notin AtPs2 + 8 .. AtPs2 + 20
  BY <1>2, InvFacts DEF Answered
<1>7. Typed'
  <2>1. pc' \in 1 .. AtMenu + 1
    BY <1>1, <1>3, Spots
  <2> QED
    BY <1>1, <1>4, <2>1, TypeFacts, TypedStep
<1>8. Complained'
  <2>1. pc \in Nat /\ pc' \in Nat /\ pc \notin {AtUart + 13, AtPs2 + 13, AtPs2 + 25}
    BY <1>1, <1>3, <1>5, <1>6, Spots
  <2> QED
    BY <1>3, <1>4, <2>1, InvFacts, ComplainedStays
<1>9. Answered'
  <2>1. /\ pc' \notin {AtPs2 + 5, AtPs2 + 6, AtPs2 + 7}
        /\ pc' \notin {AtPs2 + 24, AtPs2 + 25}
        /\ pc' \notin {AtKeyboard + 20, AtKeyboard + 21, AtKeyboard + 22}
    BY <1>1, <1>3, <1>5, Spots
  <2>2. /\ pc' \notin AtPs2 + 8 .. AtPs2 + 20
        /\ pc' > AtPs2 + 7 => pc > AtPs2 + 7
        /\ pc' > AtPs2 + 20 => pc > AtPs2 + 20
    BY <1>1, <1>3, <1>6, Spots
  <2>3. /\ pc' \notin {AtPs2 + 18, AtPs2 + 19, AtPs2 + 20}
        /\ pc' \notin {AtPs2 + 11, AtPs2 + 12, AtPs2 + 13}
    BY <2>2, Spots
  <2>4. /\ hwioPorts' \subseteq {0} /\ (pc' > AtPs2 + 7 => config' = 32)
        /\ pc' > AtPs2 + 20 => devices' = 1
    BY <1>4, <2>2, InvFacts DEF Answered
  <2> QED
    BY <2>1, <2>2, <2>3, <2>4 DEF Answered
<1>10. Waiting' /\ Registers(uart, pc)'
  BY <1>1, <1>3, <1>4, Ps2Rest
<1> QED
  BY <1>7, <1>8, <1>9, <1>10 DEF KInv

-----------------------------------------------------------------------------
(* The steps that display and read, and those in front of the serial port. *)
LEMMA SameRegisters ==
    ASSUME KInv, Same(uart, uart'), pc \in 1 .. AtMenu, pc' \in {pc, pc + 1},
           pc \notin AtUart + 1 .. AtUart + 6, pc # AtUart + 14
    PROVE  uart' \in Uarts /\ Registers(uart, pc)'
<1>1. uart' \in Uarts
  BY DEF Same, SameBut
<1>2. Registers(uart', pc')
  <2>1. Registers(uart, pc)
    BY InvFacts
  <2>2. pc \in Nat /\ pc' \in Nat /\ (pc' = pc \/ pc' = pc + 1)
    BY Spots
  <2>3. /\ pc \notin AtUart + 3 .. AtUart + 5 /\ pc' \notin AtUart + 3 .. AtUart + 5
        /\ pc' > AtUart + 1 => pc > AtUart + 1
        /\ pc' > AtUart + 4 => pc > AtUart + 4
        /\ pc' > AtUart + 6 => pc > AtUart + 6
        /\ pc' > AtUart + 14 => pc > AtUart + 14
    BY <2>2, Spots
  <2> QED
    BY <2>1, <2>2, <2>3, RegistersStay
<1> QED
  BY <1>1, <1>2

(* Outside of its set-up the latch is closed.                              *)
LEMMA LatchClosed ==
    ASSUME KInv, pc \notin AtUart + 3 .. AtUart + 5
    PROVE  uart \in Uarts /\ (uart.kind # "absent" => uart.lcr < 128)
<1>1. uart \in Uarts /\ Registers(uart, pc)
  BY InvFacts
<1>2. uart.kind # "absent" => uart.lcr = 3
  BY <1>1 DEF Registers
<1> QED
  BY <1>1, <1>2

LEMMA DisplayInv ==
    ASSUME KInv, Display
    PROVE  KInv'
<1>1. place = "start-up" /\ pc \in {AtUart + 10, AtUart + 12}
  BY InvFacts, DoingIs, WhereDisplay DEF Display
<1>2. pc' = pc + 1
  BY Zenon DEF Display, Goes
<1>3. UNCHANGED <<place, access, ioData, timeout, status, complaints, hwioData, config,
                  devices, hwioPorts, frames, drive>>
  BY DEF Display, io, wait, ps2
<1>4. /\ pc \in 1 .. AtMenu /\ pc' \in 1 .. AtMenu
      /\ pc \notin AtUart + 1 .. AtUart + 6 /\ pc # AtUart + 14
  BY <1>1, <1>2, Spots
<1>5. Same(uart, uart')
  <2>1. uart' \in Shown(uart, 13)
    BY Zenon DEF Display, CarriageReturn
  <2>3. 13 \in Bytes
    BY DEF Bytes
  <2>2. uart \in Uarts /\ (uart.kind # "absent" => uart.lcr < 128)
    BY <1>1, LatchClosed, Spots
  <2> QED
    BY <2>1, <2>2, <2>3, ShownStays
<1>6. uart' \in Uarts /\ Registers(uart, pc)'
  BY <1>2, <1>4, <1>5, SameRegisters
<1>7. Typed'
  <2>1. pc' \in 1 .. AtMenu + 1
    BY <1>4, Spots
  <2> QED
    BY <1>1, <1>3, <1>6, <2>1, TypeFacts, TypedStep
<1>8. Complained'
  <2>1. pc \in Nat /\ pc' \in Nat /\ pc \notin {AtUart + 13, AtPs2 + 13, AtPs2 + 25}
    BY <1>1, <1>2, Spots
  <2> QED
    BY <1>2, <1>3, <2>1, InvFacts, ComplainedStays
<1>9. Answered'
  <2>1. pc' \in Nat /\ pc' <= AtPs2 + 1
    BY <1>1, <1>2, Spots
  <2> QED
    BY <1>3, <2>1, InvFacts, AnsweredBefore
<1>10. Waiting'
  <2>1. /\ pc' \notin {14, 15} /\ pc' \notin {17, 20} /\ pc' \notin {18, 19} /\ pc' # 2
        /\ pc' \in {AtUart + 12, AtUart + 13} => pc \in {AtUart + 12, AtUart + 13}
    BY <1>1, <1>2, Spots
  <2> QED
    BY <1>3, <2>1, InvFacts DEF Waiting
<1> QED
  BY <1>6, <1>7, <1>8, <1>9, <1>10 DEF KInv

EqualOf(op) == op.equal

LEMMA CheckKinds ==
    /\ EqualOf(DriveCheck) = TRUE
    /\ EqualOf(UartCheck) = FALSE /\ TextOf(UartCheck) = "UART test failure"
<1>2. EqualOf(DriveCheck) = TRUE
  BY DEF DriveCheck, Check, EqualOf
<1>3. EqualOf(UartCheck) = FALSE
  BY DEF UartCheck, Check, EqualOf
<1>4. TextOf(UartCheck) = "UART test failure"
  BY DEF UartCheck, Check, TextOf
<1> QED
  BY <1>2, <1>3, <1>4, Zenon

(* Four bytes of ports are not equal to one.                               *)
LEMMA CheckedInv ==
    ASSUME KInv, Checked
    PROVE  KInv'
<1>1. /\ place = "start-up"
      /\ (pc = 2 /\ Op = DriveCheck) \/ (pc = AtUart + 13 /\ Op = UartCheck)
  <2>1. Doing("check")
    BY Zenon DEF Checked
  <2> QED
    BY <2>1, InvFacts, DoingIs, WhereCheck
<1>2. pc' = pc + 1
  BY Zenon DEF Checked, Goes
<1>3. UNCHANGED <<place, access, ioData, timeout, status, hwioData, config, devices,
                  hwioPorts, frames, drive>>
  BY DEF Checked, io, wait, ps2
<1>4. ~ Equals(Op.byte)
  <2>1. ioData[2] # 0 \/ ioData[3] # 0
    BY <1>1, InvFacts DEF Waiting
  <2>2. ASSUME NEW byte, Equals(byte) PROVE ioData[2] = 0 /\ ioData[3] = 0
    BY <2>2 DEF Equals
  <2> HIDE DEF Equals
  <2> QED
    BY <2>1, <2>2, Zenon
<1>5. CASE pc = 2 /\ Op = DriveCheck
  <2>1. Op.equal = TRUE
    BY <1>5, CheckKinds, Zenon DEF EqualOf
  <2>2. UNCHANGED <<complaints, uart>>
    <3> HIDE DEF Equals
    <3> QED
      BY <1>4, <2>1, Zenon DEF Checked
  <2>3. Same(uart, uart')
    BY <2>2, InvFacts DEF Same, SameBut
  <2>4. /\ pc \in 1 .. AtMenu /\ pc' \in 1 .. AtMenu + 1
        /\ pc \notin AtUart + 1 .. AtUart + 6 /\ pc # AtUart + 14
    BY <1>2, <1>5, Spots
  <2>5. uart' \in Uarts /\ Registers(uart, pc)'
    BY <1>2, <2>3, <2>4, SameRegisters
  <2>6. Typed'
    BY <1>1, <1>3, <2>4, <2>5, TypeFacts, TypedStep
  <2>7. Complained' /\ Answered'
    <3>1. pc \in Nat /\ pc' \in Nat /\ pc <= AtUart /\ pc' <= AtUart + 1 /\ pc' <= AtPs2 + 1
      BY <1>2, <1>5, Spots
    <3> QED
      BY <1>3, <2>2, <3>1, InvFacts, ComplainedStays, AnsweredBefore
  <2>8. Waiting'
    BY <1>2, <1>5, Spots DEF Waiting
  <2> QED
    BY <2>5, <2>6, <2>7, <2>8 DEF KInv
<1>6. CASE pc = AtUart + 13 /\ Op = UartCheck
  <2>1. Op.equal = FALSE /\ Op.text = "UART test failure"
    BY <1>6, CheckKinds, Zenon DEF EqualOf, TextOf
  <2>2. complaints' = complaints \cup {"UART test failure"} /\ uart' \in Shown(uart, 13)
    <3>1. Equals(Op.byte) = Op.equal
      <4>1. Equals(Op.byte) \in BOOLEAN
        BY DEF Equals
      <4> HIDE DEF Equals
      <4> QED
        BY <1>4, <2>1, <4>1, Zenon
    <3> HIDE DEF Equals
    <3> QED
      BY <2>1, <3>1, Zenon DEF Checked, CarriageReturn
  <2>3. Same(uart, uart')
    <3>1. 13 \in Bytes
      BY DEF Bytes
    <3>2. uart \in Uarts /\ (uart.kind # "absent" => uart.lcr < 128)
      BY <1>6, LatchClosed, Spots
    <3> QED
      BY <2>2, <3>1, <3>2, ShownStays
  <2>4. /\ pc \in 1 .. AtMenu /\ pc' \in 1 .. AtMenu + 1
        /\ pc \notin AtUart + 1 .. AtUart + 6 /\ pc # AtUart + 14
    BY <1>2, <1>6, Spots
  <2>5. uart' \in Uarts /\ Registers(uart, pc)'
    BY <1>2, <2>3, <2>4, SameRegisters
  <2>6. Typed'
    BY <1>1, <1>3, <2>4, <2>5, TypeFacts, TypedStep
  <2>7. Complained'
    <3>1. complaints = {text \in Failures : CheckAt(text) < pc}
      BY InvFacts, Zenon DEF Complained
    <3>2. /\ CheckAt("UART test failure") = AtUart + 13
          /\ CheckAt("PS2 controller test") = AtPs2 + 13
          /\ CheckAt("First port test") = AtPs2 + 25
      BY DEF CheckAt
    <3>3. /\ ~ (AtUart + 13 < pc) /\ ~ (AtPs2 + 13 < pc) /\ ~ (AtPs2 + 25 < pc)
          /\ AtUart + 13 < pc + 1 /\ ~ (AtPs2 + 13 < pc + 1) /\ ~ (AtPs2 + 25 < pc + 1)
      BY <1>6, Spots
    <3>4. \A text \in Failures : \/ text = "UART test failure"
                                 \/ text = "PS2 controller test" \/ text = "First port test"
      BY DEF Failures
    <3>5. complaints = {}
      BY <3>1, <3>2, <3>3, <3>4
    <3>6. {text \in Failures : CheckAt(text) < pc + 1} = {"UART test failure"}
      BY <3>2, <3>3, <3>4 DEF Failures
    <3> QED
      BY <1>2, <2>2, <3>5, <3>6 DEF Complained
  <2>8. Answered'
    <3>1. pc' \in Nat /\ pc' <= AtPs2 + 1
      BY <1>2, <1>6, Spots
    <3> QED
      BY <1>3, <3>1, InvFacts, AnsweredBefore
  <2>9. Waiting'
    BY <1>2, <1>6, Spots DEF Waiting
  <2> QED
    BY <2>5, <2>6, <2>7, <2>8, <2>9 DEF KInv
<1> QED
  BY <1>1, <1>5, <1>6, Zenon

-----------------------------------------------------------------------------
(* The menu and what is entered from it.                                   *)
LEMMA TypedBehind ==
    ASSUME KInv, pc' = AtMenu + 1, UNCHANGED <<access, wait, ps2, drive, uart>>,
           ioData' \in [1 .. 4 -> Bytes],
           place' \in {"start-up", "menu", "slides", "shell", "off"},
           frames' \in Seq(1 .. 4), Len(frames') <= FrameBound,
           (place' = "slides") = (frames' # <<>>)
    PROVE  Typed'
<1>1. pc' \in 1 .. Len(StartUp) + 1
  <2>1. Len(StartUp) = AtMenu /\ AtMenu \in Nat
    BY StartUpLength, Spots
  <2> QED
    BY <2>1
<1>2. UNCHANGED <<access, timeout, status, hwioData, config, devices, drive, uart>>
  BY DEF wait, ps2
<1>3. /\ access' \in {"C", "H", "S"} /\ timeout' \in 0 .. Tries /\ status' \in Bytes
      /\ hwioData' \in Bytes /\ config' \in Bytes /\ devices' \in 0 .. 2
      /\ drive' \in Drives /\ uart' \in Uarts
  BY <1>2, TypeFacts
<1>4. TypeOK'
  BY <1>1, <1>3, Zenon DEF TypeOK
<1> QED
  BY <1>3, <1>4, Zenon DEF Typed

LEMMA EnterMenuInv ==
    ASSUME KInv, EnterMenu
    PROVE  KInv'
<1>1. place = "start-up" /\ pc = AtMenu + 1 /\ place' = "menu"
  BY StartUpLength, Spots DEF EnterMenu
<1>2. UNCHANGED <<pc, io, wait, complaints, ps2, frames, drive, uart>>
  BY DEF EnterMenu
<1>3. Typed'
  <2>1. frames = <<>> /\ frames \in Seq(1 .. 4) /\ Len(frames) <= FrameBound
    <3>1. (place = "slides") = (frames # <<>>)
      BY InvFacts, Zenon DEF TypeOK
    <3>2. Len(frames) <= FrameBound
      BY InvFacts DEF TypeOK
    <3> QED
      BY <1>1, <3>1, <3>2, InvFacts
  <2>2. (place' = "slides") = (frames' # <<>>)
    BY <1>1, <1>2, <2>1
  <2>3. ioData' \in [1 .. 4 -> Bytes] /\ access' = access
    BY <1>2, TypeFacts DEF io
  <2> QED
    BY <1>1, <1>2, <2>1, <2>2, <2>3, TypedBehind
<1> QED
  BY <1>2, <1>3, NothingMoves DEF KInv

LEMMA MenuInv ==
    ASSUME KInv, Menu
    PROVE  KInv'
<1>1. pc = AtMenu + 1
  BY InvFacts DEF Menu
<1>2. UNCHANGED <<pc, io, wait, complaints, ps2, drive, uart>>
  BY DEF Menu, unattended
<1>3. Typed'
  <2>1. frames = <<>> /\ Len(<<>>) <= FrameBound /\ Len(<<1>>) <= FrameBound
    <3>1. (place = "slides") = (frames # <<>>)
      BY InvFacts, Zenon DEF TypeOK
    <3>2. frames = <<>>
      BY <3>1 DEF Menu
    <3> QED
      BY <3>2, KernelAssumption
  <2>2. \/ place' = "slides" /\ frames' = <<1>>
        \/ place' = "shell" /\ frames' = <<>>
    BY <2>1 DEF Menu
  <2>3. /\ place' \in {"start-up", "menu", "slides", "shell", "off"}
        /\ frames' \in Seq(1 .. 4) /\ Len(frames') <= FrameBound
        /\ (place' = "slides") = (frames' # <<>>)
    <3>1. CASE place' = "slides" /\ frames' = <<1>>
      BY <2>1, <3>1
    <3>2. CASE place' = "shell" /\ frames' = <<>>
      BY <2>1, <3>2
    <3> QED
      BY <2>2, <3>1, <3>2
  <2>4. ioData' \in [1 .. 4 -> Bytes] /\ access' = access
    BY <1>2, TypeFacts DEF io
  <2> QED
    BY <1>1, <1>2, <2>3, <2>4, TypedBehind
<1> QED
  BY <1>2, <1>3, NothingMoves DEF KInv

LEMMA PowerOffInv ==
    ASSUME KInv, PowerOff
    PROVE  KInv'
<1>1. pc = AtMenu + 1 /\ place = "menu" /\ place' = "off"
  BY InvFacts DEF PowerOff
<1>2. UNCHANGED <<pc, access, wait, complaints, ps2, frames, drive, uart>>
  BY DEF PowerOff
<1>3. Typed'
  <2>1. (place = "slides") = (frames # <<>>) /\ Len(frames) <= FrameBound
    BY InvFacts DEF TypeOK
  <2>2. /\ (place' = "slides") = (frames' # <<>>)
        /\ Len(frames') <= FrameBound /\ frames' \in Seq(1 .. 4)
    BY <1>1, <1>2, <2>1, InvFacts
  <2>3. ioData' \in [1 .. 4 -> Bytes]
    BY DEF PowerOff, Bytes
  <2>4. place' \in {"start-up", "menu", "slides", "shell", "off"}
    BY <1>1
  <2> QED
    BY <1>1, <1>2, <2>2, <2>3, <2>4, TypedBehind
<1>4. Waiting'
  BY <1>1, <1>2, Spots DEF Waiting
<1>5. Complained' /\ Answered' /\ Registers(uart, pc)'
  <2>1. UNCHANGED <<pc, complaints, hwioData, config, devices, hwioPorts, uart>>
    BY <1>2 DEF ps2
  <2>2. Complained'
    BY <2>1, InvFacts DEF Complained
  <2>3. Answered'
    BY <2>1, InvFacts DEF Answered
  <2>4. Registers(uart, pc)'
    BY <2>1, InvFacts DEF Registers
  <2> QED
    BY <2>2, <2>3, <2>4
<1> QED
  BY <1>3, <1>4, <1>5 DEF KInv

LEMMA TurnInv ==
    ASSUME KInv, Turn
    PROVE  KInv'
<1>1. pc = AtMenu + 1 /\ place = "slides" /\ place' = "slides"
  BY InvFacts DEF Turn
<1>2. UNCHANGED <<pc, io, wait, complaints, ps2, drive, uart>>
  BY DEF Turn, unattended
<1>3. Typed'
  <2>1. PICK next \in 1 .. 4 : frames' = Append(frames, next)
    BY DEF Turn
  <2>2. frames' \in Seq(1 .. 4) /\ Len(frames') = Len(frames) + 1 /\ frames' # <<>>
    BY <2>1, InvFacts
  <2>3. Len(frames') <= FrameBound
    <3>1. Len(frames) < FrameBound /\ Len(frames) \in Nat
      BY InvFacts DEF Turn
    <3> QED
      BY <2>2, <3>1, KernelAssumption
  <2>4. ioData' \in [1 .. 4 -> Bytes] /\ access' = access
    BY <1>2, TypeFacts DEF io
  <2>5. (place' = "slides") = (frames' # <<>>)
    BY <1>1, <2>2
  <2> QED
    BY <1>1, <1>2, <2>2, <2>3, <2>4, <2>5, TypedBehind
<1> QED
  BY <1>2, <1>3, NothingMoves DEF KInv

LEMMA LeaveInv ==
    ASSUME KInv, LeaveSlides \/ LeaveShell
    PROVE  KInv'
<1>1. pc = AtMenu + 1 /\ place' = "menu"
  BY InvFacts DEF LeaveSlides, LeaveShell
<1>2. UNCHANGED <<pc, io, wait, complaints, ps2, drive, uart>>
  BY DEF LeaveSlides, LeaveShell, unattended
<1>3. Typed'
  <2>1. (place = "slides") = (frames # <<>>)
    BY InvFacts, Zenon DEF TypeOK
  <2>2. frames' = <<>>
    BY <2>1 DEF LeaveSlides, LeaveShell
  <2>3. frames' \in Seq(1 .. 4) /\ Len(frames') <= FrameBound
    BY <2>2, KernelAssumption
  <2>4. (place' = "slides") = (frames' # <<>>)
    BY <1>1, <2>2
  <2>5. ioData' \in [1 .. 4 -> Bytes] /\ access' = access
    BY <1>2, TypeFacts DEF io
  <2> QED
    BY <1>1, <1>2, <2>3, <2>4, <2>5, TypedBehind
<1> QED
  BY <1>2, <1>3, NothingMoves DEF KInv

(* The drive goes on by itself, and a step that does nothing is one.       *)
LEMMA ElsewhereInv ==
    ASSUME KInv, DriveGoes \/ UNCHANGED vars
    PROVE  KInv'
<1>1. UNCHANGED <<place, pc, io, wait, complaints, ps2, frames, uart>>
  BY DEF DriveGoes, vars
<1>2. drive' \in Drives
  <2>1. CASE DriveGoes
    BY <2>1 DEF DriveGoes, Drives
  <2>2. CASE UNCHANGED vars
    BY <2>2, TypeFacts DEF vars
  <2> QED
    BY <2>1, <2>2
<1>3. UNCHANGED <<access, ioData, timeout, status, hwioData, config, devices>>
  BY <1>1 DEF io, wait, ps2
<1>4. Typed'
  <2>1. CASE place = "start-up"
    <3>1. place' = place /\ frames' = frames /\ pc' \in 1 .. AtMenu + 1 /\ uart' \in Uarts
      BY <1>1, InvFacts
    <3> QED
      BY <1>2, <1>3, <2>1, <3>1, TypeFacts, TypedStep
  <2>2. CASE place # "start-up"
    <3>1. pc' = AtMenu + 1 /\ pc' \in 1 .. Len(StartUp) + 1
      BY <1>1, <2>2, InvFacts, StartUpLength
    <3>2. TypeOK
      BY InvFacts
    <3>3. TypeOK'
      BY <1>1, <1>2, <1>3, <3>2, Zenon DEF TypeOK
    <3> QED
      BY <1>1, <3>1, <3>3, InvFacts DEF Typed
  <2> QED
    BY <2>1, <2>2
<1> QED
  BY <1>1, <1>4, NothingMoves DEF KInv

-----------------------------------------------------------------------------
(* A read.  Only the widest of its accesses ends it, and the next port of  *)
(* the status of the drive is nobody's.                                    *)
LEMMA NextPorts ==
    ASSUME uart \in Uarts, NEW statusByte \in StatusBytes
    PROVE  ByteAt(504, statusByte) = 255 /\ ByteAt(1018, statusByte) # 0
<1>1. ByteAt(504, statusByte) = 255
  BY DEF ByteAt, Ata, Control, Com
<1>2. UartByte(2) # 0
  BY DEF UartByte
<1>3. ByteAt(1018, statusByte) = UartByte(2)
  <2>1. /\ 1018 \notin {Ata(7), Control} /\ 1018 \in Com(0) .. Com(7) /\ 1018 - Com(0) = 2
    BY DEF Ata, Control, Com
  <2> QED
    BY <2>1 DEF ByteAt
<1> QED
  BY <1>1, <1>2, <1>3

LEMMA InInv ==
    ASSUME KInv, In
    PROVE  KInv'
<1>1. place = "start-up" /\ pc \in 1 .. AtMenu
  BY InvFacts, DoingIs DEF In
<1>2. \/ /\ pc \in 1 .. AtUart /\ pc \notin {2, 12, 13, 15, 16, 17, 18, 19, 20}
         /\ PortOf(Op) \in {500, 501, 503, 1014} /\ (pc = 1 => PortOf(Op) = 503)
      \/ pc = AtUart + 11 /\ PortOf(Op) = 1016
  <2>1. pc # 18
    BY InvFacts DEF Waiting
  <2>2. Doing("in")
    BY Zenon DEF In
  <2> QED
    BY <2>1, <2>2, InvFacts, WhereIn
<1>3. PICK statusByte \in StatusBytes :
        ioData' = [k \in 1 .. 4 |-> IF k > BytesOf[access] THEN 0
                                    ELSE ByteAt(PortOf(Op) + k - 1, statusByte)]
  BY Zenon DEF In, PortOf
<1>4. /\ access' \in {"C", "H", "S"} /\ (access' = "C" => BytesOf[access] = 4)
      /\ access' = "C" \/ access' # "C"
  <2>1. access' = Following[access]
    BY Zenon DEF In
  <2> QED
    BY <2>1, TypeFacts DEF Following, BytesOf
<1>5. pc' = IF access' = "C" THEN pc + 1 ELSE pc
  BY Zenon DEF In
<1>6. UNCHANGED <<place, timeout, status, complaints, hwioData, config, devices, hwioPorts,
                  frames, drive>>
  BY DEF In, wait, ps2
<1>7. PortOf(Op) \in Nat
  BY <1>2
<1>8. ioData' \in [1 .. 4 -> Bytes]
  <2>1. ASSUME NEW k \in 1 .. 4 PROVE ByteAt(PortOf(Op) + k - 1, statusByte) \in Bytes
    <3>1. PortOf(Op) + k - 1 \in Nat
      BY <1>7
    <3> QED
      BY <3>1, TypeFacts, ByteAtIsByte
  <2>2. 0 \in Bytes
    BY DEF Bytes
  <2> QED
    BY <1>3, <2>1, <2>2
<1>9. pc \notin AtUart + 1 .. AtUart + 6 /\ pc # AtUart + 14 /\ pc' \in {pc, pc + 1}
  BY <1>2, <1>5, Spots
<1>10. Same(uart, uart')
  <2>1. \E ports : \E u \in UartRead(ports) :
           uart' \in IF access' = "C" THEN Shown(u, Blank) ELSE {u}
    BY Zenon DEF In
  <2>2. PICK ports : \E u \in UartRead(ports) :
                        uart' \in IF access' = "C" THEN Shown(u, Blank) ELSE {u}
    BY <2>1
  <2>7. PICK u \in UartRead(ports) : uart' \in IF access' = "C" THEN Shown(u, Blank) ELSE {u}
    BY <2>2
  <2>3. uart \in Uarts /\ (uart.kind # "absent" => uart.lcr < 128)
    BY <1>9, LatchClosed, Spots
  <2>4. Same(uart, u)
    BY <2>3, ReadStays
  <2>5. u \in Uarts /\ (u.kind # "absent" => u.lcr < 128)
    BY <2>3, <2>4 DEF Same, SameBut
  <2>6. CASE uart' \in Shown(u, Blank)
    <3>1. Blank \in Bytes
      BY DEF Blank, Bytes
    <3>2. Same(u, uart')
      BY <2>5, <2>6, <3>1, ShownStays
    <3> QED
      BY <2>4, <3>2, SameJoined
  <2> QED
    BY <2>4, <2>6, <2>7
<1>11. uart' \in Uarts /\ Registers(uart, pc)'
  BY <1>1, <1>9, <1>10, SameRegisters
<1>12. Typed'
  <2>1. pc' \in 1 .. AtMenu + 1
    BY <1>1, <1>9, Spots
  <2> QED
    BY <1>1, <1>4, <1>6, <1>8, <1>11, <2>1, TypeFacts, TypedStep
<1>13. Complained'
  <2>1. /\ pc \in Nat /\ pc' \in Nat
        /\ \/ pc <= AtUart /\ pc' <= AtUart + 1
           \/ pc' = pc
           \/ pc' = pc + 1 /\ pc \notin {AtUart + 13, AtPs2 + 13, AtPs2 + 25}
    BY <1>2, <1>9, Spots
  <2> QED
    BY <1>6, <2>1, InvFacts, ComplainedStays
<1>14. Answered'
  <2>1. pc' \in Nat /\ pc' <= AtPs2 + 1
    BY <1>2, <1>9, Spots
  <2> QED
    BY <1>6, <2>1, InvFacts, AnsweredBefore
<1>15. Waiting'
  <2>1. /\ pc' \in {14, 15} => pc \in {14, 15}
        /\ pc' \notin {17, 20} /\ pc' \notin {18, 19}
        /\ pc' = 2 => pc = 1 /\ pc' # pc
        /\ pc' \in {AtUart + 12, AtUart + 13} => pc = AtUart + 11 /\ pc' # pc
    BY <1>2, <1>9, Spots
  <2>2. pc' # pc => access' = "C" /\ BytesOf[access] = 4
    BY <1>4, <1>5
  <2>3. pc' = 2 => ioData'[2] # 0
    <3>1. SUFFICES ASSUME pc' = 2 PROVE ioData'[2] # 0
      OBVIOUS
    <3>2. BytesOf[access] = 4 /\ PortOf(Op) = 503
      BY <1>2, <2>1, <2>2, <3>1, Spots
    <3>3. ioData'[2] = ByteAt(504, statusByte)
      <4>1. ~ (2 > BytesOf[access]) /\ PortOf(Op) + 2 - 1 = 504
        BY <3>2
      <4> QED
        BY <1>3, <4>1
    <3> QED
      BY <3>3, NextPorts, TypeFacts
  <2>4. pc' \in {AtUart + 12, AtUart + 13} => ioData'[3] # 0
    <3>1. SUFFICES ASSUME pc' \in {AtUart + 12, AtUart + 13} PROVE ioData'[3] # 0
      OBVIOUS
    <3>2. BytesOf[access] = 4 /\ PortOf(Op) = 1016
      BY <1>2, <2>1, <2>2, <3>1, Spots
    <3>3. ioData'[3] = ByteAt(1018, statusByte)
      <4>1. ~ (3 > BytesOf[access]) /\ PortOf(Op) + 3 - 1 = 1018
        BY <3>2
      <4> QED
        BY <1>3, <4>1
    <3> QED
      BY <3>3, NextPorts, TypeFacts
  <2>5. pc' \in {14, 15} => timeout' > 0
    BY <1>6, <2>1, InvFacts DEF Waiting
  <2> QED
    BY <2>1, <2>3, <2>4, <2>5 DEF Waiting
<1> QED
  BY <1>11, <1>12, <1>13, <1>14, <1>15 DEF KInv

-----------------------------------------------------------------------------
(* A write, and what it displays.                                          *)
LEMMA ThenShown ==
    ASSUME NEW u \in Uarts, NEW w \in Shown(u, Blank), u.kind # "absent"
    PROVE  /\ SameBut(u, w, {"dll"})
           /\ w.dll = IF u.lcr >= 128 THEN 32 ELSE u.dll
<1>1. w \in UartWritten(u, 0, 32) /\ 32 \in Bytes
  BY DEF Shown, Blank, Bytes
<1>2. u.lcr >= 128 \/ u.lcr < 128
  BY DEF Uarts, Bytes
<1>3. SameBut(u, w, {"dll"})
  BY <1>1, WrittenFirst
<1>4. (u.lcr >= 128 => w.dll = 32) /\ (u.lcr < 128 => w.dll = u.dll)
  BY <1>1, WrittenFirst
<1>5. u.lcr \in Nat
  BY DEF Uarts, Bytes
<1> QED
  BY <1>2, <1>3, <1>4, <1>5

LEMMA OutTo ==
    ASSUME Out, NEW port, NEW data, Op = Out8(port, data)
    PROVE  /\ ioData' = <<data, 0, 0, 0>> /\ drive' \in DriveWritten(port)
           /\ \E u \in IF port \in Com(0) .. Com(7)
                       THEN UartWritten(uart, port - Com(0), data) ELSE {uart} :
                 uart' \in Shown(u, Blank)
<1>1. PortOf(Op) = port /\ DataOf(Op) = data
  BY DriveKinds
<1>2. Op.port = port /\ Op.data = data
  BY <1>1, Zenon DEF PortOf, DataOf
<1> QED
  BY <1>2, Zenon DEF Out

(* What UART-INIT writes to which register, where.                         *)
UartWrites(p, n, byte) ==
    \/ p = AtUart + 1 /\ n = 1 /\ byte = 0
    \/ p = AtUart + 2 /\ n = 3 /\ byte = 128
    \/ p = AtUart + 3 /\ n = 0 /\ byte = 3
    \/ p = AtUart + 4 /\ n = 1 /\ byte = 0
    \/ p = AtUart + 5 /\ n = 3 /\ byte = 3
    \/ p = AtUart + 6 /\ n = 2 /\ byte = 199
    \/ p = AtUart + 7 /\ n = 4 /\ byte = 11
    \/ p = AtUart + 8 /\ n = 4 /\ byte = 30
    \/ p = AtUart + 9 /\ n = 0 /\ byte = 174
    \/ p = AtUart + 14 /\ n = 4 /\ byte = 15

(* The registers after each write of UART-INIT.                            *)
LEMMA UartSteps ==
    ASSUME NEW v \in Uarts, v.kind # "absent", NEW p \in Nat, Registers(v, p),
           NEW n, NEW byte, NEW u \in UartWritten(v, n, byte), NEW w \in Shown(u, Blank),
           UartWrites(p, n, byte)
    PROVE  w \in Uarts /\ w.kind = v.kind /\ Registers(w, p + 1)
<1>1. AtUart \in Nat /\ {0, 3, 11, 15, 30, 128, 174, 199} \subseteq Bytes
  BY Spots DEF Bytes
<1>2. /\ v.lcr = IF p \in AtUart + 3 .. AtUart + 5 THEN 128 ELSE 3
      /\ p > AtUart + 1 => v.ier = 0
      /\ p > AtUart + 4 => v.dll = 32 /\ v.dlm = 0
      /\ p > AtUart + 6 => v.fcr = 199
      /\ p > AtUart + 14 => v.mcr = 15
  BY DEF Registers
<1> HIDE DEF AtUart
<1>3. CASE p = AtUart + 1 /\ n = 1 /\ byte = 0
  <2>1. /\ v.lcr = 3
    BY <1>1, <1>2, <1>3
  <2>2. SameBut(v, u, {"ier"}) /\ u.ier = 0
    BY <1>1, <1>3, <2>1, WrittenOther
  <2>3. u \in Uarts /\ u.kind = v.kind /\ u.lcr = 3
    BY <2>1, <2>2 DEF SameBut
  <2>4. SameBut(u, w, {"dll"}) /\ w.dll = u.dll
    BY <2>3, ThenShown
  <2>5. /\ w \in Uarts /\ w.kind = v.kind /\ w.lcr = 3 /\ w.ier = 0
    BY <2>1, <2>2, <2>3, <2>4 DEF SameBut
  <2>6. p + 1 = AtUart + 2 /\ p + 1 \notin AtUart + 3 .. AtUart + 5
    BY <1>1, <1>3
  <2>7. ~ (p + 1 > AtUart + 4) /\ ~ (p + 1 > AtUart + 6) /\ ~ (p + 1 > AtUart + 14)
    BY <1>1, <2>6
  <2> QED
    BY <2>5, <2>6, <2>7 DEF Registers
<1>4. CASE p = AtUart + 2 /\ n = 3 /\ byte = 128
  <2>1. /\ v.lcr = 3 /\ v.ier = 0
    BY <1>1, <1>2, <1>4
  <2>2. SameBut(v, u, {"lcr"}) /\ u.lcr = 128
    BY <1>1, <1>4, <2>1, WrittenOther
  <2>3. u \in Uarts /\ u.kind = v.kind /\ u.lcr = 128
    BY <2>1, <2>2 DEF SameBut
  <2>4. SameBut(u, w, {"dll"}) /\ w.dll = 32
    BY <2>3, ThenShown
  <2>5. /\ w \in Uarts /\ w.kind = v.kind /\ w.lcr = 128 /\ w.ier = 0
    BY <2>1, <2>2, <2>3, <2>4 DEF SameBut
  <2>6. p + 1 = AtUart + 3 /\ p + 1 \in AtUart + 3 .. AtUart + 5
    BY <1>1, <1>4
  <2>7. ~ (p + 1 > AtUart + 4) /\ ~ (p + 1 > AtUart + 6) /\ ~ (p + 1 > AtUart + 14)
    BY <1>1, <2>6
  <2> QED
    BY <2>5, <2>6, <2>7 DEF Registers
<1>5. CASE p = AtUart + 3 /\ n = 0 /\ byte = 3
  <2>1. /\ v.lcr = 128 /\ v.ier = 0
    BY <1>1, <1>2, <1>5
  <2>2. SameBut(v, u, {"dll"})
    BY <1>1, <1>5, <2>1, WrittenFirst
  <2>3. u \in Uarts /\ u.kind = v.kind /\ u.lcr = 128
    BY <2>1, <2>2 DEF SameBut
  <2>4. SameBut(u, w, {"dll"}) /\ w.dll = 32
    BY <2>3, ThenShown
  <2>5. /\ w \in Uarts /\ w.kind = v.kind /\ w.lcr = 128 /\ w.ier = 0
    BY <2>1, <2>2, <2>3, <2>4 DEF SameBut
  <2>6. p + 1 = AtUart + 4 /\ p + 1 \in AtUart + 3 .. AtUart + 5
    BY <1>1, <1>5
  <2>7. ~ (p + 1 > AtUart + 4) /\ ~ (p + 1 > AtUart + 6) /\ ~ (p + 1 > AtUart + 14)
    BY <1>1, <2>6
  <2> QED
    BY <2>5, <2>6, <2>7 DEF Registers
<1>6. CASE p = AtUart + 4 /\ n = 1 /\ byte = 0
  <2>1. /\ v.lcr = 128 /\ v.ier = 0
    BY <1>1, <1>2, <1>6
  <2>2. SameBut(v, u, {"dlm"}) /\ u.dlm = 0
    BY <1>1, <1>6, <2>1, WrittenOther
  <2>3. u \in Uarts /\ u.kind = v.kind /\ u.lcr = 128
    BY <2>1, <2>2 DEF SameBut
  <2>4. SameBut(u, w, {"dll"}) /\ w.dll = 32
    BY <2>3, ThenShown
  <2>5. /\ w \in Uarts /\ w.kind = v.kind /\ w.lcr = 128 /\ w.ier = 0 /\ w.dll = 32 /\ w.dlm = 0
    BY <2>1, <2>2, <2>3, <2>4 DEF SameBut
  <2>6. p + 1 = AtUart + 5 /\ p + 1 \in AtUart + 3 .. AtUart + 5
    BY <1>1, <1>6
  <2>7. ~ (p + 1 > AtUart + 6) /\ ~ (p + 1 > AtUart + 14)
    BY <1>1, <2>6
  <2> QED
    BY <2>5, <2>6, <2>7 DEF Registers
<1>7. CASE p = AtUart + 5 /\ n = 3 /\ byte = 3
  <2>1. /\ v.lcr = 128 /\ v.ier = 0 /\ v.dll = 32 /\ v.dlm = 0
    BY <1>1, <1>2, <1>7
  <2>2. SameBut(v, u, {"lcr"}) /\ u.lcr = 3
    BY <1>1, <1>7, <2>1, WrittenOther
  <2>3. u \in Uarts /\ u.kind = v.kind /\ u.lcr = 3
    BY <2>1, <2>2 DEF SameBut
  <2>4. SameBut(u, w, {"dll"}) /\ w.dll = u.dll
    BY <2>3, ThenShown
  <2>5. /\ w \in Uarts /\ w.kind = v.kind /\ w.lcr = 3 /\ w.ier = 0 /\ w.dll = 32 /\ w.dlm = 0
    BY <2>1, <2>2, <2>3, <2>4 DEF SameBut
  <2>6. p + 1 = AtUart + 6 /\ p + 1 \notin AtUart + 3 .. AtUart + 5
    BY <1>1, <1>7
  <2>7. ~ (p + 1 > AtUart + 6) /\ ~ (p + 1 > AtUart + 14)
    BY <1>1, <2>6
  <2> QED
    BY <2>5, <2>6, <2>7 DEF Registers
<1>8. CASE p = AtUart + 6 /\ n = 2 /\ byte = 199
  <2>1. /\ v.lcr = 3 /\ v.ier = 0 /\ v.dll = 32 /\ v.dlm = 0
    BY <1>1, <1>2, <1>8
  <2>2. SameBut(v, u, {"fcr"}) /\ u.fcr = 199
    BY <1>1, <1>8, <2>1, WrittenOther
  <2>3. u \in Uarts /\ u.kind = v.kind /\ u.lcr = 3
    BY <2>1, <2>2 DEF SameBut
  <2>4. SameBut(u, w, {"dll"}) /\ w.dll = u.dll
    BY <2>3, ThenShown
  <2>5. /\ w \in Uarts /\ w.kind = v.kind /\ w.lcr = 3 /\ w.ier = 0
        /\ w.dll = 32 /\ w.dlm = 0 /\ w.fcr = 199
    BY <2>1, <2>2, <2>3, <2>4 DEF SameBut
  <2>6. p + 1 = AtUart + 7 /\ p + 1 \notin AtUart + 3 .. AtUart + 5
    BY <1>1, <1>8
  <2>7. ~ (p + 1 > AtUart + 14)
    BY <1>1, <2>6
  <2> QED
    BY <2>5, <2>6, <2>7 DEF Registers
<1>9. CASE p = AtUart + 7 /\ n = 4 /\ byte = 11
  <2>1. /\ v.lcr = 3 /\ v.ier = 0 /\ v.dll = 32 /\ v.dlm = 0 /\ v.fcr = 199
    BY <1>1, <1>2, <1>9
  <2>2. SameBut(v, u, {"mcr"}) /\ u.mcr = 11
    BY <1>1, <1>9, <2>1, WrittenOther
  <2>3. u \in Uarts /\ u.kind = v.kind /\ u.lcr = 3
    BY <2>1, <2>2 DEF SameBut
  <2>4. SameBut(u, w, {"dll"}) /\ w.dll = u.dll
    BY <2>3, ThenShown
  <2>5. /\ w \in Uarts /\ w.kind = v.kind /\ w.lcr = 3 /\ w.ier = 0
        /\ w.dll = 32 /\ w.dlm = 0 /\ w.fcr = 199
    BY <2>1, <2>2, <2>3, <2>4 DEF SameBut
  <2>6. p + 1 = AtUart + 8 /\ p + 1 \notin AtUart + 3 .. AtUart + 5
    BY <1>1, <1>9
  <2>7. ~ (p + 1 > AtUart + 14)
    BY <1>1, <2>6
  <2> QED
    BY <2>5, <2>6, <2>7 DEF Registers
<1>10. CASE p = AtUart + 8 /\ n = 4 /\ byte = 30
  <2>1. /\ v.lcr = 3 /\ v.ier = 0 /\ v.dll = 32 /\ v.dlm = 0 /\ v.fcr = 199
    BY <1>1, <1>2, <1>10
  <2>2. SameBut(v, u, {"mcr"}) /\ u.mcr = 30
    BY <1>1, <1>10, <2>1, WrittenOther
  <2>3. u \in Uarts /\ u.kind = v.kind /\ u.lcr = 3
    BY <2>1, <2>2 DEF SameBut
  <2>4. SameBut(u, w, {"dll"}) /\ w.dll = u.dll
    BY <2>3, ThenShown
  <2>5. /\ w \in Uarts /\ w.kind = v.kind /\ w.lcr = 3 /\ w.ier = 0
        /\ w.dll = 32 /\ w.dlm = 0 /\ w.fcr = 199
    BY <2>1, <2>2, <2>3, <2>4 DEF SameBut
  <2>6. p + 1 = AtUart + 9 /\ p + 1 \notin AtUart + 3 .. AtUart + 5
    BY <1>1, <1>10
  <2>7. ~ (p + 1 > AtUart + 14)
    BY <1>1, <2>6
  <2> QED
    BY <2>5, <2>6, <2>7 DEF Registers
<1>11. CASE p = AtUart + 9 /\ n = 0 /\ byte = 174
  <2>1. /\ v.lcr = 3 /\ v.ier = 0 /\ v.dll = 32 /\ v.dlm = 0 /\ v.fcr = 199
    BY <1>1, <1>2, <1>11
  <2>2. SameBut(v, u, {"dll"}) /\ u.dll = v.dll
    BY <1>1, <1>11, <2>1, WrittenFirst
  <2>3. u \in Uarts /\ u.kind = v.kind /\ u.lcr = 3
    BY <2>1, <2>2 DEF SameBut
  <2>4. SameBut(u, w, {"dll"}) /\ w.dll = u.dll
    BY <2>3, ThenShown
  <2>5. /\ w \in Uarts /\ w.kind = v.kind /\ w.lcr = 3 /\ w.ier = 0
        /\ w.dll = 32 /\ w.dlm = 0 /\ w.fcr = 199
    BY <2>1, <2>2, <2>3, <2>4 DEF SameBut
  <2>6. p + 1 = AtUart + 10 /\ p + 1 \notin AtUart + 3 .. AtUart + 5
    BY <1>1, <1>11
  <2>7. ~ (p + 1 > AtUart + 14)
    BY <1>1, <2>6
  <2> QED
    BY <2>5, <2>6, <2>7 DEF Registers
<1>12. CASE p = AtUart + 14 /\ n = 4 /\ byte = 15
  <2>1. /\ v.lcr = 3 /\ v.ier = 0 /\ v.dll = 32 /\ v.dlm = 0 /\ v.fcr = 199
    BY <1>1, <1>2, <1>12
  <2>2. SameBut(v, u, {"mcr"}) /\ u.mcr = 15
    BY <1>1, <1>12, <2>1, WrittenOther
  <2>3. u \in Uarts /\ u.kind = v.kind /\ u.lcr = 3
    BY <2>1, <2>2 DEF SameBut
  <2>4. SameBut(u, w, {"dll"}) /\ w.dll = u.dll
    BY <2>3, ThenShown
  <2>5. /\ w \in Uarts /\ w.kind = v.kind /\ w.lcr = 3 /\ w.ier = 0
        /\ w.dll = 32 /\ w.dlm = 0 /\ w.fcr = 199 /\ w.mcr = 15
    BY <2>1, <2>2, <2>3, <2>4 DEF SameBut
  <2>6. p + 1 = AtUart + 15 /\ p + 1 \notin AtUart + 3 .. AtUart + 5
    BY <1>1, <1>12
  <2> QED
    BY <2>5, <2>6 DEF Registers
<1> QED
  BY <1>3, <1>4, <1>5, <1>6, <1>7, <1>8, <1>9, <1>10, <1>11, <1>12 DEF UartWrites

LEMMA OutToUart ==
    ASSUME KInv, Out, pc \in (AtUart + 1 .. AtUart + 9) \cup {AtUart + 14}
    PROVE  \E n \in 0 .. 4, byte \in Bytes :
             /\ UartWrites(pc, n, byte)
             /\ ioData' = <<byte, 0, 0, 0>> /\ drive' \in Drives
             /\ \E u \in UartWritten(uart, n, byte) : uart' \in Shown(u, Blank)
<1>1. Op = StartUp[pc] /\ AtUart \in Nat
  BY InvFacts, DoingIs, Spots DEF Out
<1> HIDE DEF AtUart
<1>2. ASSUME NEW n \in 0 .. 4, NEW byte \in Bytes, Op = Out8(1016 + n, byte)
      PROVE  /\ ioData' = <<byte, 0, 0, 0>> /\ drive' \in Drives
             /\ \E u \in UartWritten(uart, n, byte) : uart' \in Shown(u, Blank)
  <2>1. /\ ioData' = <<byte, 0, 0, 0>> /\ drive' \in DriveWritten(1016 + n)
        /\ \E u \in IF 1016 + n \in Com(0) .. Com(7)
                    THEN UartWritten(uart, (1016 + n) - Com(0), byte) ELSE {uart} :
              uart' \in Shown(u, Blank)
    BY <1>2, OutTo
  <2>2. 1016 + n \in Com(0) .. Com(7) /\ (1016 + n) - Com(0) = n
    BY DEF Com
  <2>3. DriveWritten(1016 + n) = {drive}
    BY DEF DriveWritten, Ata
  <2> QED
    BY <2>1, <2>2, <2>3, TypeFacts
<1>3. {0, 3, 11, 15, 30, 128, 174, 199} \subseteq Bytes
  BY DEF Bytes
<1>4. CASE pc = AtUart + 1
  <2>1. Op = Out8(1016 + 1, 0)
    <3>1. 1016 + 1 = 1017
      OBVIOUS
    <3> QED
      BY <1>1, <1>4, <3>1, UartOps
  <2>2. 1 \in 0 .. 4 /\ 0 \in Bytes
    BY <1>3
  <2>3. /\ ioData' = <<0, 0, 0, 0>> /\ drive' \in Drives
        /\ \E u \in UartWritten(uart, 1, 0) : uart' \in Shown(u, Blank)
    BY <1>2, <2>1, <2>2
  <2> QED
    BY <1>4, <2>2, <2>3, Zenon DEF UartWrites
<1>5. CASE pc = AtUart + 2
  <2>1. Op = Out8(1016 + 3, 128)
    <3>1. 1016 + 3 = 1019
      OBVIOUS
    <3> QED
      BY <1>1, <1>5, <3>1, UartOps
  <2>2. 3 \in 0 .. 4 /\ 128 \in Bytes
    BY <1>3
  <2>3. /\ ioData' = <<128, 0, 0, 0>> /\ drive' \in Drives
        /\ \E u \in UartWritten(uart, 3, 128) : uart' \in Shown(u, Blank)
    BY <1>2, <2>1, <2>2
  <2> QED
    BY <1>5, <2>2, <2>3, Zenon DEF UartWrites
<1>6. CASE pc = AtUart + 3
  <2>1. Op = Out8(1016 + 0, 3)
    <3>1. 1016 + 0 = 1016
      OBVIOUS
    <3> QED
      BY <1>1, <1>6, <3>1, UartOps
  <2>2. 0 \in 0 .. 4 /\ 3 \in Bytes
    BY <1>3
  <2>3. /\ ioData' = <<3, 0, 0, 0>> /\ drive' \in Drives
        /\ \E u \in UartWritten(uart, 0, 3) : uart' \in Shown(u, Blank)
    BY <1>2, <2>1, <2>2
  <2> QED
    BY <1>6, <2>2, <2>3, Zenon DEF UartWrites
<1>7. CASE pc = AtUart + 4
  <2>1. Op = Out8(1016 + 1, 0)
    <3>1. 1016 + 1 = 1017
      OBVIOUS
    <3> QED
      BY <1>1, <1>7, <3>1, UartOps
  <2>2. 1 \in 0 .. 4 /\ 0 \in Bytes
    BY <1>3
  <2>3. /\ ioData' = <<0, 0, 0, 0>> /\ drive' \in Drives
        /\ \E u \in UartWritten(uart, 1, 0) : uart' \in Shown(u, Blank)
    BY <1>2, <2>1, <2>2
  <2> QED
    BY <1>7, <2>2, <2>3, Zenon DEF UartWrites
<1>8. CASE pc = AtUart + 5
  <2>1. Op = Out8(1016 + 3, 3)
    <3>1. 1016 + 3 = 1019
      OBVIOUS
    <3> QED
      BY <1>1, <1>8, <3>1, UartOps
  <2>2. 3 \in 0 .. 4 /\ 3 \in Bytes
    BY <1>3
  <2>3. /\ ioData' = <<3, 0, 0, 0>> /\ drive' \in Drives
        /\ \E u \in UartWritten(uart, 3, 3) : uart' \in Shown(u, Blank)
    BY <1>2, <2>1, <2>2
  <2> QED
    BY <1>8, <2>2, <2>3, Zenon DEF UartWrites
<1>9. CASE pc = AtUart + 6
  <2>1. Op = Out8(1016 + 2, 199)
    <3>1. 1016 + 2 = 1018
      OBVIOUS
    <3> QED
      BY <1>1, <1>9, <3>1, UartOps
  <2>2. 2 \in 0 .. 4 /\ 199 \in Bytes
    BY <1>3
  <2>3. /\ ioData' = <<199, 0, 0, 0>> /\ drive' \in Drives
        /\ \E u \in UartWritten(uart, 2, 199) : uart' \in Shown(u, Blank)
    BY <1>2, <2>1, <2>2
  <2> QED
    BY <1>9, <2>2, <2>3, Zenon DEF UartWrites
<1>10. CASE pc = AtUart + 7
  <2>1. Op = Out8(1016 + 4, 11)
    <3>1. 1016 + 4 = 1020
      OBVIOUS
    <3> QED
      BY <1>1, <1>10, <3>1, UartOps
  <2>2. 4 \in 0 .. 4 /\ 11 \in Bytes
    BY <1>3
  <2>3. /\ ioData' = <<11, 0, 0, 0>> /\ drive' \in Drives
        /\ \E u \in UartWritten(uart, 4, 11) : uart' \in Shown(u, Blank)
    BY <1>2, <2>1, <2>2
  <2> QED
    BY <1>10, <2>2, <2>3, Zenon DEF UartWrites
<1>11. CASE pc = AtUart + 8
  <2>1. Op = Out8(1016 + 4, 30)
    <3>1. 1016 + 4 = 1020
      OBVIOUS
    <3> QED
      BY <1>1, <1>11, <3>1, UartOps
  <2>2. 4 \in 0 .. 4 /\ 30 \in Bytes
    BY <1>3
  <2>3. /\ ioData' = <<30, 0, 0, 0>> /\ drive' \in Drives
        /\ \E u \in UartWritten(uart, 4, 30) : uart' \in Shown(u, Blank)
    BY <1>2, <2>1, <2>2
  <2> QED
    BY <1>11, <2>2, <2>3, Zenon DEF UartWrites
<1>12. CASE pc = AtUart + 9
  <2>1. Op = Out8(1016 + 0, 174)
    <3>1. 1016 + 0 = 1016
      OBVIOUS
    <3> QED
      BY <1>1, <1>12, <3>1, UartOps
  <2>2. 0 \in 0 .. 4 /\ 174 \in Bytes
    BY <1>3
  <2>3. /\ ioData' = <<174, 0, 0, 0>> /\ drive' \in Drives
        /\ \E u \in UartWritten(uart, 0, 174) : uart' \in Shown(u, Blank)
    BY <1>2, <2>1, <2>2
  <2> QED
    BY <1>12, <2>2, <2>3, Zenon DEF UartWrites
<1>13. CASE pc = AtUart + 14
  <2>1. Op = Out8(1016 + 4, 15)
    <3>1. 1016 + 4 = 1020
      OBVIOUS
    <3> QED
      BY <1>1, <1>13, <3>1, UartOps
  <2>2. 4 \in 0 .. 4 /\ 15 \in Bytes
    BY <1>3
  <2>3. /\ ioData' = <<15, 0, 0, 0>> /\ drive' \in Drives
        /\ \E u \in UartWritten(uart, 4, 15) : uart' \in Shown(u, Blank)
    BY <1>2, <2>1, <2>2
  <2> QED
    BY <1>13, <2>2, <2>3, Zenon DEF UartWrites
<1>14. pc \in {AtUart + 1, AtUart + 2, AtUart + 3, AtUart + 4, AtUart + 5,
              AtUart + 6, AtUart + 7, AtUart + 8, AtUart + 9, AtUart + 14}
  BY <1>1
<1> QED
  BY <1>4, <1>5, <1>6, <1>7, <1>8, <1>9, <1>10, <1>11, <1>12, <1>13, <1>14

LEMMA OutInv ==
    ASSUME KInv, Out
    PROVE  KInv'
<1>1. /\ place = "start-up"
      /\ \/ /\ pc \in 1 .. AtUart
            /\ pc \notin {1, 2, 12, 13, 14, 15, 16, 17, 18, 19, 20}
            /\ PortOf(Op) \in 496 .. 503 /\ DataOf(Op) \in Bytes
         \/ pc \in (AtUart + 1 .. AtUart + 9) \cup {AtUart + 14}
  <2>1. Doing("out")
    BY Zenon DEF Out
  <2> QED
    BY <2>1, InvFacts, DoingIs, WhereOut
<1>2. pc' = pc + 1
  BY Zenon DEF Out, Goes
<1>3. UNCHANGED <<place, access, timeout, status, complaints, hwioData, config, devices,
                  hwioPorts, frames>>
  BY DEF Out, wait, ps2
<1>4. /\ ioData' \in [1 .. 4 -> Bytes] /\ drive' \in Drives
      /\ uart' \in Uarts /\ Registers(uart, pc)'
  <2>1. ASSUME NEW byte \in Bytes, ioData' = <<byte, 0, 0, 0>> PROVE ioData' \in [1 .. 4 -> Bytes]
    BY <2>1 DEF Bytes
  <2>2. CASE /\ pc \in 1 .. AtUart
             /\ PortOf(Op) \in 496 .. 503 /\ DataOf(Op) \in Bytes
    <3>1. /\ ioData' = <<DataOf(Op), 0, 0, 0>> /\ drive' \in DriveWritten(PortOf(Op))
          /\ \E u \in IF PortOf(Op) \in Com(0) .. Com(7)
                      THEN UartWritten(uart, PortOf(Op) - Com(0), DataOf(Op)) ELSE {uart} :
                uart' \in Shown(u, Blank)
      BY Zenon DEF Out, PortOf, DataOf
    <3>2. PortOf(Op) \notin Com(0) .. Com(7)
      BY <2>2 DEF Com
    <3>3. uart' \in Shown(uart, Blank)
      BY <3>1, <3>2
    <3>4. drive' \in Drives
      BY <3>1, TypeFacts DEF DriveWritten, Drives
    <3>5. pc \notin AtUart + 1 .. AtUart + 6 /\ pc # AtUart + 14 /\ pc \in 1 .. AtMenu
          /\ pc \notin AtUart + 3 .. AtUart + 5
      BY <2>2, Spots
    <3>6. Same(uart, uart')
      <4>1. Blank \in Bytes
        BY DEF Blank, Bytes
      <4>2. uart \in Uarts /\ (uart.kind # "absent" => uart.lcr < 128)
        BY <3>5, LatchClosed
      <4> QED
        BY <3>3, <4>1, <4>2, ShownStays
    <3>7. uart' \in Uarts /\ Registers(uart, pc)'
      BY <1>2, <3>5, <3>6, SameRegisters
    <3> QED
      BY <2>1, <2>2, <3>1, <3>4, <3>7
  <2>3. CASE pc \in (AtUart + 1 .. AtUart + 9) \cup {AtUart + 14}
    <3>1. PICK n \in 0 .. 4, byte \in Bytes :
            /\ UartWrites(pc, n, byte)
            /\ ioData' = <<byte, 0, 0, 0>> /\ drive' \in Drives
            /\ \E u \in UartWritten(uart, n, byte) : uart' \in Shown(u, Blank)
      BY <2>3, OutToUart
    <3>2. PICK u \in UartWritten(uart, n, byte) : uart' \in Shown(u, Blank)
      BY <3>1
    <3>3. pc \in Nat /\ uart \in Uarts /\ Registers(uart, pc)
      BY <2>3, InvFacts, Spots
    <3>4. CASE uart.kind = "absent"
      <4>1. u = uart
        BY <3>3, <3>4, WrittenAbsent
      <4>2. uart' = uart
        BY <3>2, <3>3, <3>4, <4>1, WrittenAbsent DEF Shown
      <4> QED
        BY <2>1, <3>1, <3>3, <3>4, <4>2 DEF Registers
    <3>5. CASE uart.kind # "absent"
      <4>1. uart' \in Uarts /\ Registers(uart', pc + 1)
        BY <3>1, <3>2, <3>3, <3>5, UartSteps
      <4> QED
        BY <1>2, <2>1, <3>1, <4>1
    <3> QED
      BY <3>4, <3>5
  <2> QED
    BY <1>1, <2>2, <2>3
<1>5. Typed'
  <2>1. pc' \in 1 .. AtMenu + 1
    BY <1>1, <1>2, Spots
  <2> QED
    BY <1>1, <1>3, <1>4, <2>1, TypeFacts, TypedStep
<1>6. Complained'
  <2>1. pc \in Nat /\ pc' \in Nat /\ pc \notin {AtUart + 13, AtPs2 + 13, AtPs2 + 25}
    BY <1>1, <1>2, Spots
  <2> QED
    BY <1>2, <1>3, <2>1, InvFacts, ComplainedStays
<1>7. Answered'
  <2>1. pc' \in Nat /\ pc' <= AtPs2 + 1
    BY <1>1, <1>2, Spots
  <2> QED
    BY <1>3, <2>1, InvFacts, AnsweredBefore
<1>8. Waiting'
  <2>1. /\ pc' \notin {14, 15} /\ pc' \notin {17, 20} /\ pc' \notin {18, 19} /\ pc' # 2
        /\ pc' \notin {AtUart + 12, AtUart + 13}
    BY <1>1, <1>2, Spots
  <2> QED
    BY <2>1 DEF Waiting
<1> QED
  BY <1>4, <1>5, <1>6, <1>7, <1>8 DEF KInv

-----------------------------------------------------------------------------
(* Altogether.                                                             *)
LEMMA InitInv == Init => KInv
<1>1. SUFFICES ASSUME Init PROVE KInv
  OBVIOUS
<1>2. pc = 1 /\ place = "start-up" /\ frames = <<>>
  BY <1>1 DEF Init
<1>3. Typed
  <2>1. pc \in 1 .. Len(StartUp) + 1
    BY <1>2, StartUpLength, Spots
  <2>2. timeout \in 0 .. Tries /\ Len(frames) <= FrameBound
    BY <1>1, <1>2, KernelAssumption DEF Init
  <2>3. (place = "slides") = (frames # <<>>)
    BY <1>2
  <2>4. /\ place \in {"start-up", "menu", "slides", "shell", "off"}
        /\ access \in {"C", "H", "S"} /\ ioData \in [1 .. 4 -> Bytes] /\ status \in Bytes
        /\ hwioData \in Bytes /\ config \in Bytes /\ devices \in 0 .. 2
        /\ drive \in Drives
    BY <1>1 DEF Init, Bytes, Drives
  <2>5. uart \in Uarts
    <3>1. uart \in [kind : {"good", "broken", "absent"}, ier : {1}, lcr : {3}, dll : {1},
                  dlm : {0, 4}, fcr : {0}, mcr : {0}, rbr : {0}]
      BY <1>1 DEF Init
    <3> QED
      BY <3>1 DEF Uarts, Bytes
  <2>6. TypeOK
    BY <2>1, <2>2, <2>3, <2>4, Zenon DEF TypeOK
  <2> QED
    BY <1>2, <2>5, <2>6 DEF Typed
<1>4. Waiting
  BY <1>2, Spots DEF Waiting
<1>5. Complained
  <2>1. complaints = {}
    BY <1>1 DEF Init
  <2>2. \A text \in Failures : ~ (CheckAt(text) < pc)
    <3>1. \A text : CheckAt(text) \in {AtUart + 13, AtPs2 + 13, AtPs2 + 25}
      BY DEF CheckAt
    <3> QED
      BY <1>2, <3>1, Spots
  <2> QED
    BY <2>1, <2>2, Zenon DEF Complained
<1>6. Answered
  <2>1. hwioPorts = {}
    BY <1>1 DEF Init
  <2> QED
    BY <1>2, <2>1, Spots DEF Answered
<1>7. Registers(uart, pc)
  <2>1. uart.lcr = 3
    BY <1>1 DEF Init
  <2> QED
    BY <1>2, <2>1, Spots DEF Registers
<1> QED
  BY <1>3, <1>4, <1>5, <1>6, <1>7 DEF KInv

LEMMA NextInv == KInv /\ [Next]_vars => KInv'
<1>1. SUFFICES ASSUME KInv, [Next]_vars PROVE KInv'
  OBVIOUS
<1>2. CASE StartUpStep
  BY <1>1, <1>2, OutInv, InInv, DisplayInv, CheckedInv, BeginWaitInv, UntilInv, TakeStatusInv,
     ErrorBitInv, HwioInv, ConfigureInv, SecondStartedInv, TestedInv, ReadConfigurationInv,
     SkipInv, EnterMenuInv, Zenon DEF StartUpStep
<1>3. CASE DriveGoes \/ UNCHANGED vars
  BY <1>1, <1>3, ElsewhereInv, Zenon
<1>4. CASE Menu \/ PowerOff \/ Turn \/ LeaveSlides \/ LeaveShell
  BY <1>1, <1>4, MenuInv, PowerOffInv, TurnInv, LeaveInv, Zenon
<1> QED
  BY <1>1, <1>2, <1>3, <1>4, Zenon DEF Next

(* What holds of the place the start-up stands at: the serial port has the *)
(* registers of its last write, the waits end, each check that fails has   *)
(* said so, and the record of KRNLHWIO holds the last command.             *)
THEOREM Invariant == Spec => []KInv
<1>1. Init => KInv
  BY InitInv
<1>2. KInv /\ [Next]_vars => KInv'
  BY NextInv
<1> QED
  BY <1>1, <1>2, PTL DEF Spec

(* Behind the start-up the counter stands at its end.                      *)
LEMMA BehindStartUp ==
    ASSUME KInv, place # "start-up"
    PROVE  /\ pc = AtMenu + 1
           /\ pc > AtUart + 14 /\ pc > AtPs2 + 25 /\ pc > AtKeyboard + 22
           /\ pc \notin AtUart + 3 .. AtUart + 5
BY InvFacts, Spots

(* The variables keep their types: no byte of IO-DATA, of the status or of *)
(* the registers grows beyond 255, the counter of the tries never gets     *)
(* below zero, and slides are stacked only in the presentation.            *)
THEOREM TypeCorrect == Spec => []TypeOK
<1>1. KInv => TypeOK
  BY InvFacts
<1> QED
  BY <1>1, Invariant, PTL

(* UART-INIT of kernel.cbl leaves the serial port with its latch closed, 8 *)
(* bits, FIFO on, no interrupt and out of its loop, whatever the port is   *)
(* and whatever is displayed to it between the writes.  Of the low byte of *)
(* the divisor this does not hold.                                         *)
THEOREM UartSetUp == Spec => []UartReady
<1>1. ASSUME KInv, place # "start-up", uart.kind # "absent"
      PROVE  /\ uart.lcr = 3 /\ uart.ier = 0 /\ uart.fcr % 2 = 1 /\ uart.mcr = 15
             /\ uart.dlm = 0
  <2>1. /\ pc > AtUart + 14 /\ pc > AtUart + 1 /\ pc > AtUart + 4 /\ pc > AtUart + 6
        /\ pc \notin AtUart + 3 .. AtUart + 5
    BY <1>1, BehindStartUp, Spots
  <2>2. /\ uart.lcr = 3 /\ uart.ier = 0 /\ uart.fcr = 199 /\ uart.mcr = 15
        /\ uart.dlm = 0
    BY <1>1, <2>1, InvFacts DEF Registers
  <2> QED
    BY <2>2
<1>2. KInv => UartReady
  BY <1>1 DEF UartReady
<1> QED
  BY <1>2, Invariant, PTL

(* The checks of the start-up say the same whatever devices there are, for *)
(* any number of tries of the waits and any length of the packet.          *)
THEOREM ChecksAreBlind == Spec => []ChecksSayTheSame
<1>1. ASSUME KInv PROVE complaints \subseteq Failures
  BY <1>1, InvFacts DEF Complained
<1>2. ASSUME KInv, place # "start-up" PROVE complaints = Failures
  <2>1. \A text : CheckAt(text) \in {AtUart + 13, AtPs2 + 13, AtPs2 + 25}
    BY DEF CheckAt
  <2>2. AtUart + 13 < pc /\ AtPs2 + 13 < pc /\ AtPs2 + 25 < pc
    BY <1>2, BehindStartUp, Spots
  <2>3. \A text : CheckAt(text) < pc
    BY <2>1, <2>2
  <2> QED
    BY <1>2, <2>3, InvFacts DEF Complained
<1>3. KInv => ChecksSayTheSame
  BY <1>1, <1>2 DEF ChecksSayTheSame, Failures
<1> QED
  BY <1>3, Invariant, PTL

(* KRNLHWIO never reaches the ports of the PS/2 controller, and what       *)
(* krnlps2c.cbl takes for its answers are its own commands, whatever the   *)
(* ports answer.                                                           *)
THEOREM Ps2ReadsItself == Spec => []ReadsItself
<1>1. ASSUME KInv PROVE {96, 100} \cap hwioPorts = {}
  BY <1>1, InvFacts DEF Answered
<1>2. ASSUME KInv, place # "start-up" PROVE devices = 1 /\ config = 32
  <2>1. pc > AtPs2 + 7 /\ pc > AtPs2 + 20
    BY <1>2, BehindStartUp, Spots
  <2> QED
    BY <1>2, <2>1, InvFacts DEF Answered
<1>3. KInv => ReadsItself
  BY <1>1, <1>2 DEF ReadsItself
<1> QED
  BY <1>3, Invariant, PTL
=============================================================================
