------------------------------ MODULE LibCProofs ------------------------------
(***************************************************************************)
(* Proofs about LibC: for every size of memory, every content, every       *)
(* argument and every base, a function that has returned answers and has   *)
(* written what it should.                                                 *)
(***************************************************************************)
EXTENDS LibC, Induction, SequenceTheorems, TLAPS

(* Least and greatest elements.                                            *)
LEMMA MinIs ==
    ASSUME NEW S \in SUBSET Int, NEW x \in S, \A y \in S : x <= y
    PROVE  Min(S) = x
<1>1. \A z \in S : (\A y \in S : z <= y) => z = x
  OBVIOUS
<1>2. Min(S) \in S /\ \A y \in S : Min(S) <= y
  BY Zenon DEF Min
<1> QED
  BY <1>1, <1>2

LEMMA MaxIs ==
    ASSUME NEW S \in SUBSET Int, NEW x \in S, \A y \in S : x >= y
    PROVE  Max(S) = x
<1>1. \A z \in S : (\A y \in S : z >= y) => z = x
  OBVIOUS
<1>2. Max(S) \in S /\ \A y \in S : Max(S) >= y
  BY Zenon DEF Max
<1> QED
  BY <1>1, <1>2

-----------------------------------------------------------------------------
(* The value of a text.  w counts its last k digits.                       *)
Weighs(w, text, b) ==
    /\ w[0] = 0
    /\ \A k \in 0 .. Len(text) - 1 :
          w[k + 1] = ValueOf(text[Len(text) - k]) * Power(b)[k] + w[k]

IsText(text) == Len(text) \in Nat /\ \A k \in 1 .. Len(text) : text[k] \in Int

LEMMA Digit ==
    ASSUME NEW text, IsText(text), NEW b \in Nat, NEW k \in 0 .. Len(text) - 1
    PROVE  /\ ValueOf(text[Len(text) - k]) \in Int /\ Power(b)[k] \in Nat
           /\ ValueOf(text[Len(text) - k]) * Power(b)[k] \in Int
<1>1. Len(text) - k \in 1 .. Len(text) /\ k \in Nat
  BY DEF IsText
<1>2. ValueOf(text[Len(text) - k]) \in Int
  BY <1>1 DEF IsText, ValueOf
<1>3. Power(b)[k] \in Nat
  BY <1>1, Powers
<1> QED
  BY <1>2, <1>3

LEMMA SomeWeighs ==
    ASSUME NEW text, IsText(text), NEW b \in Nat
    PROVE  \E w \in [0 .. Len(text) -> Int] : Weighs(w, text, b)
<1> DEFINE l == Len(text)
           digit(k) == ValueOf(text[l - k]) * Power(b)[k]
           g == [p \in Nat \X Int |-> IF p[1] < l THEN digit(p[1]) + p[2] ELSE 0]
<1>1. l \in Nat /\ \A k \in 0 .. l - 1 : digit(k) \in Int
  BY Digit DEF IsText
<1>2. \A k \in Nat, x \in Int : (IF k < l THEN digit(k) + x ELSE 0) \in Int
  <2> HIDE DEF digit, l
  <2> QED
    BY <1>1
<1>3. g \in [Nat \X Int -> Int]
  <2> HIDE DEF digit, l
  <2> QED
    BY <1>2
<1>4. \A k \in Nat, x \in Int : k < l => g[<<k, x>>] = digit(k) + x
  <2> HIDE DEF digit, l
  <2> QED
    OBVIOUS
<1>5. PICK f \in [Nat -> Int] : Recursive(f, 0, g)
  <2> HIDE DEF g
  <2> QED
    BY <1>3, 0 \in Int, Recursion, Zenon
<1> DEFINE w == [k \in 0 .. l |-> f[k]]
<1>6. w \in [0 .. l -> Int] /\ w[0] = 0
  BY <1>1, <1>5 DEF Recursive
<1>7. ASSUME NEW k \in 0 .. l - 1 PROVE w[k + 1] = digit(k) + w[k]
  <2>1. k \in Nat /\ k < l /\ k \in 0 .. l /\ k + 1 \in 0 .. l /\ f[k] \in Int
    BY <1>1
  <2>2. f[k + 1] = g[<<k, f[k]>>]
    BY <1>5, <2>1 DEF Recursive
  <2>3. g[<<k, f[k]>>] = digit(k) + f[k]
    BY <1>4, <2>1
  <2>4. w[k + 1] = f[k + 1] /\ w[k] = f[k]
    BY <2>1
  <2> HIDE DEF w, g, digit
  <2> QED
    BY <2>2, <2>3, <2>4
<1> HIDE DEF w, g
<1> QED
  BY <1>6, <1>7 DEF Weighs

LEMMA ValueIs ==
    ASSUME NEW text, IsText(text), NEW b \in Nat,
           NEW w \in [0 .. Len(text) -> Int], Weighs(w, text, b)
    PROVE  Value(text, b) = w[Len(text)]
<1> DEFINE l == Len(text)
           digit(k) == ValueOf(text[l - k]) * Power(b)[k]
           Eq(h) == h = [k \in 0 .. l |->
                           IF k = 0 THEN 0
                           ELSE ValueOf(text[l - k + 1]) * Power(b)[k - 1] + h[k - 1]]
           last == CHOOSE h : Eq(h)
<1>1. l \in Nat
  BY DEF IsText
<1>2. Eq(w)
  <2>1. ASSUME NEW k \in 0 .. l, k # 0
        PROVE  w[k] = ValueOf(text[l - k + 1]) * Power(b)[k - 1] + w[k - 1]
    <3>1. k - 1 \in 0 .. l - 1 /\ (k - 1) + 1 = k /\ l - (k - 1) = l - k + 1
      BY <1>1, <2>1
    <3>2. w[(k - 1) + 1] = ValueOf(text[l - (k - 1)]) * Power(b)[k - 1] + w[k - 1]
      BY <3>1 DEF Weighs
    <3> QED
      BY <3>1, <3>2
  <2>2. w[0] = 0
    BY DEF Weighs
  <2> QED
    BY <2>1, <2>2
<1>3. Eq(last)
  BY <1>2
<1>4. Value(text, b) = last[l]
  BY Zenon DEF Value
<1> HIDE DEF last
<1>5. \A k \in 0 .. l : last[k] = IF k = 0 THEN 0
                                  ELSE ValueOf(text[l - k + 1]) * Power(b)[k - 1] + last[k - 1]
  BY <1>3, Zenon
<1>6. \A k \in 0 .. l : w[k] = IF k = 0 THEN 0
                               ELSE ValueOf(text[l - k + 1]) * Power(b)[k - 1] + w[k - 1]
  BY <1>2, Zenon
<1>7. \A k \in Nat : k <= l => last[k] = w[k]
  <2> DEFINE N == {k \in Nat : k <= l => last[k] = w[k]}
  <2>1. 0 \in N
    BY <1>1, <1>5, <1>6
  <2>2. ASSUME NEW k \in N PROVE k + 1 \in N
    <3>1. SUFFICES ASSUME k + 1 <= l PROVE last[k + 1] = w[k + 1]
      OBVIOUS
    <3>2. k \in Nat /\ k + 1 \in 0 .. l /\ k + 1 # 0 /\ (k + 1) - 1 = k /\ last[k] = w[k]
      BY <1>1, <3>1
    <3>3. /\ last[k + 1] = ValueOf(text[l - (k + 1) + 1]) * Power(b)[(k + 1) - 1]
                             + last[(k + 1) - 1]
          /\ w[k + 1] = ValueOf(text[l - (k + 1) + 1]) * Power(b)[(k + 1) - 1] + w[(k + 1) - 1]
      <4> HIDE DEF l
      <4> QED
        BY <1>5, <1>6, <3>2
    <3> QED
      BY <3>2, <3>3
  <2>3. N \in SUBSET Nat /\ \A k \in N : k + 1 \in N
    BY <2>2
  <2>4. N = Nat
    <3> HIDE DEF N
    <3> QED
      BY <2>1, <2>3, AllNaturals
  <2> QED
    BY <2>4
<1> QED
  BY <1>1, <1>4, <1>7

(* One more digit at the end of a text.                                    *)
LEMMA ValueGrows ==
    ASSUME NEW text, NEW longer, IsText(text), IsText(longer), NEW b \in Nat,
           Len(longer) = Len(text) + 1,
           \A k \in 1 .. Len(text) : longer[k] = text[k]
    PROVE  /\ Value(longer, b) = Value(text, b) * b + ValueOf(longer[Len(longer)])
           /\ Value(text, b) \in Int
<1> DEFINE l == Len(text)
           v == ValueOf(longer[l + 1])
           digit(k) == ValueOf(text[l - k])
<1>1. l \in Nat /\ v \in Int /\ b \in Int
  BY DEF IsText, ValueOf
<1>2. PICK w \in [0 .. l -> Int] : Weighs(w, text, b)
  BY SomeWeighs
<1>3. Value(text, b) = w[l]
  BY <1>2, ValueIs
<1> DEFINE z == [k \in 0 .. l + 1 |-> IF k = 0 THEN 0 ELSE w[k - 1] * b + v]
<1>4. \A k \in 0 .. l : w[k] \in Int /\ w[k] * b \in Int
  BY <1>1
<1>5. z \in [0 .. l + 1 -> Int]
  <2> HIDE DEF v, l
  <2>1. \A k \in 0 .. l + 1 : (IF k = 0 THEN 0 ELSE w[k - 1] * b + v) \in Int
    BY <1>1, <1>4
  <2> QED
    BY <2>1
<1>6. ASSUME NEW k \in 0 .. l
      PROVE  z[k + 1] = ValueOf(longer[l + 1 - k]) * Power(b)[k] + z[k]
  <2>1. k + 1 \in 0 .. l + 1 /\ k + 1 # 0 /\ (k + 1) - 1 = k /\ k \in 0 .. l + 1
    BY <1>1
  <2>2. z[k + 1] = w[k] * b + v
    <3> HIDE DEF v, l
    <3> QED
      BY <1>1, <2>1
  <2>3. CASE k = 0
    <3>1. z[0] = 0 /\ w[0] = 0 /\ Power(b)[0] = 1
      BY <1>1, <1>2, Powers DEF Weighs
    <3>2. ValueOf(longer[l + 1 - 0]) = v /\ 0 * b = 0 /\ v * 1 = v
      BY <1>1
    <3> HIDE DEF v, z
    <3> QED
      BY <1>1, <2>2, <2>3, <3>1, <3>2
  <2>4. CASE k # 0
    <3> DEFINE j == k - 1
    <3>1. j \in 0 .. l - 1 /\ j \in Nat /\ j + 1 = k
      BY <1>1, <2>4
    <3>2. w[j + 1] = digit(j) * Power(b)[j] + w[j]
      BY <1>2, <3>1 DEF Weighs
    <3>3. digit(j) \in Int /\ Power(b)[j] \in Nat /\ digit(j) * Power(b)[j] \in Int
      BY <3>1, Digit
    <3>4. Power(b)[k] = b * Power(b)[j]
      BY <3>1, Powers
    <3>5. longer[l + 1 - k] = text[l - j]
      <4>1. l - j \in 1 .. l /\ l + 1 - k = l - j
        BY <1>1, <3>1
      <4> QED
        BY <4>1
    <3>6. z[k] = w[j] * b + v
      <4> HIDE DEF v, l
      <4> QED
        BY <1>1, <2>1, <2>4
    <3>7. w[j] \in Int /\ w[k] \in Int
      BY <1>1, <1>4, <3>1
    <3> HIDE DEF v, z, l, j
    <3>8. ASSUME NEW x \in Int, NEW p \in Int, NEW y \in Int, NEW c \in Int
          PROVE  (x * p + y) * c + v = x * (c * p) + (y * c + v)
      BY <1>1
    <3>9. w[k] * b + v = digit(j) * (b * Power(b)[j]) + (w[j] * b + v)
      <4>1. w[k] = digit(j) * Power(b)[j] + w[j]
        BY <3>1, <3>2
      <4> HIDE DEF digit
      <4>2. (digit(j) * Power(b)[j] + w[j]) * b + v
              = digit(j) * (b * Power(b)[j]) + (w[j] * b + v)
        <5>1. PICK x \in Int, p \in Int, y \in Int :
                 x = digit(j) /\ p = Power(b)[j] /\ y = w[j]
          BY <1>1, <3>3, <3>7
        <5>2. (x * p + y) * b + v = x * (b * p) + (y * b + v)
          BY <1>1, <3>8
        <5> QED
          BY <5>1, <5>2
      <4> QED
        BY <4>1, <4>2
    <3> QED
      BY <2>2, <3>4, <3>5, <3>6, <3>9
  <2> QED
    BY <2>3, <2>4
<1>7. z[0] = 0
  BY <1>1
<1>8. z[l + 1] = w[l] * b + v
  <2>1. l + 1 \in 0 .. l + 1 /\ l + 1 # 0 /\ (l + 1) - 1 = l
    BY <1>1
  <2> HIDE DEF v, l
  <2> QED
    BY <2>1
<1>9. Value(longer, b) = z[l + 1]
  <2> HIDE DEF z
  <2>1. Len(longer) = l + 1 /\ (l + 1) - 1 = l
    BY <1>1
  <2>2. Weighs(z, longer, b)
    BY <1>6, <1>7, <2>1 DEF Weighs
  <2> QED
    BY <1>5, <2>1, <2>2, ValueIs
<1>10. w[l] \in Int
  BY <1>1, <1>4
<1> HIDE DEF z
<1> QED
  BY <1>3, <1>8, <1>9, <1>10

-----------------------------------------------------------------------------
(* Strings.                                                                *)
LEMMA Sizes == Size \in Nat /\ Size > 0 /\ Addr \subseteq Nat /\ 0 \notin Addr
BY LibCAssumption DEF Addr

LEMMA EndIs ==
    ASSUME NEW m, NEW a \in Nat, NEW e \in a .. Size,
           m[e] = 0, \A k \in a .. e - 1 : m[k] # 0
    PROVE  EndOf(m, a) = e
<1> DEFINE ends == {k \in a .. Size : m[k] = 0}
<1>1. e \in ends /\ \A l \in ends : e <= l
  BY Sizes
<1>2. ends \in SUBSET Nat /\ \A z \in ends : (\A l \in ends : z <= l) => z = e
  BY <1>1, Sizes
<1>3. ends # {} /\ EndOf(m, a) = CHOOSE k \in ends : \A l \in ends : k <= l
  BY <1>1, Zenon DEF EndOf
<1> HIDE DEF ends
<1>4. EndOf(m, a) \in ends /\ \A l \in ends : EndOf(m, a) <= l
  BY <1>1, <1>3, Zenon
<1> QED
  BY <1>2, <1>4

LEMMA Ends ==
    ASSUME NEW m, NEW a \in Addr, IsString(m, a)
    PROVE  /\ EndOf(m, a) \in a .. Size /\ EndOf(m, a) \in Addr /\ m[EndOf(m, a)] = 0
           /\ \A k \in a .. EndOf(m, a) - 1 : m[k] # 0
           /\ Length(m, a) \in Nat /\ EndOf(m, a) = a + Length(m, a)
<1> DEFINE ends == {k \in a .. Size : m[k] = 0}
<1>1. a \in Nat /\ a > 0 /\ Size \in Nat
  BY Sizes DEF Addr
<1>2. ends # {}
  BY DEF IsString, EndOf
<1>3. PICK e \in ends : \A l \in ends : e <= l
  <2> HIDE DEF ends
  <2>1. ends \in SUBSET Nat
    BY <1>1 DEF ends
  <2> QED
    BY <1>2, <2>1, Least
<1>4. e \in a .. Size /\ m[e] = 0
  OBVIOUS
<1>5. ASSUME NEW k \in a .. e - 1 PROVE m[k] # 0
  <2>1. k \in a .. Size /\ k < e
    BY <1>1, <1>4
  <2>2. k \notin ends
    BY <1>1, <1>3, <1>4, <2>1
  <2> QED
    BY <2>1, <2>2
<1> HIDE DEF ends
<1>6. EndOf(m, a) = e
  BY <1>1, <1>4, <1>5, EndIs
<1>7. e \in Addr /\ e - a \in Nat /\ e = a + (e - a)
  BY <1>1, <1>4 DEF Addr
<1> QED
  BY <1>4, <1>5, <1>6, <1>7 DEF Length

LEMMA BytesAre ==
    ASSUME NEW m, NEW a, NEW count \in Nat
    PROVE  /\ Len(Bytes(m, a, count)) = count /\ DOMAIN Bytes(m, a, count) = 1 .. count
           /\ \A k \in 1 .. count : Bytes(m, a, count)[k] = m[a + k - 1]
BY DEF Bytes

-----------------------------------------------------------------------------
(* The call.                                                               *)
Shape ==
    /\ old \in [Addr -> Chars] /\ mem \in [Addr -> 0 .. 127]
    /\ call \in MemoryCalls \cup NumberCalls /\ Legal(old, call)

LEMMA OldBytes ==
    ASSUME Shape
    PROVE  /\ old \in [Addr -> 0 .. 127]
           /\ \A a \in Addr : old[a] \in 0 .. 127 /\ mem[a] \in 0 .. 127
<1>1. \A a \in Addr : old[a] \in 0 .. 127
  BY LibCAssumption DEF Shape
<1>2. old = [a \in Addr |-> old[a]] /\ mem \in [Addr -> 0 .. 127]
  BY DEF Shape
<1>3. old \in [Addr -> 0 .. 127]
  BY <1>1, <1>2, Zenon
<1> QED
  BY <1>1, <1>2, <1>3

LEMMA Calls ==
    ASSUME Shape
    PROVE  /\ call.fn \in Copying \cup Comparing =>
                call.d \in Addr /\ call.s \in Addr /\ call.n \in 0 .. Size
           /\ call.fn \in Reading => call.s \in Addr /\ call.d = 0 /\ call.c \in Chars
           /\ call.fn \in {"memset", "calloc"} =>
                call.d \in Addr /\ call.n \in 0 .. Size /\ call.c \in Chars
           /\ call.fn = "itoa" =>
                call.d \in Addr /\ call.n \in Numbers /\ call.n >= 0 /\ call.c \in Bases
           /\ call.fn = "sitoa" => call.d \in Addr /\ call.n \in Numbers /\ call.c \in Bases
           /\ call.fn \in {"internal_atoi", "atoi"} =>
                /\ call.s \in Addr /\ call.d = 0
                /\ call.c \in Bases \cup {10} /\ call.n \in Limits \cup {0}
BY DEF Shape, MemoryCalls, NumberCalls, Copying, Comparing, Reading

LEMMA ShapeStays ==
    ASSUME Shape, UNCHANGED <<old, call>>, mem' \in [Addr -> 0 .. 127]
    PROVE  Shape'
BY DEF Shape

-----------------------------------------------------------------------------
(* Functions that read a string.                                           *)
Unwritten == mem = old

LEMMA ReadingWrites ==
    Unwritten /\ call.fn \in Reading \cup Comparing \cup {"internal_atoi", "atoi"} => Writes
BY DEF Unwritten, Writes, Reading, Comparing, Copying

(* The end of the string that is read.                                     *)
SEnd == EndOf(old, call.s)

LEMMA SourceEnds ==
    ASSUME Shape,
           call.fn \in Reading \cup {"strcpy", "strncpy", "strcat", "strncat", "strcmp",
                                     "strcasecmp", "internal_atoi", "atoi"}
    PROVE  /\ call.s \in Addr /\ IsString(old, call.s)
           /\ SEnd \in call.s .. Size /\ SEnd \in Addr /\ old[SEnd] = 0
           /\ \A k \in call.s .. SEnd - 1 : old[k] # 0
           /\ Length(old, call.s) \in Nat /\ SEnd = call.s + Length(old, call.s)
           /\ call.s \in Nat /\ SEnd \in Nat
<1>1. call.s \in Addr
  BY Calls DEF Reading, Copying, Comparing
<1>2. IsString(old, call.s)
  BY DEF Shape, Legal, Reading
<1> QED
  BY <1>1, <1>2, Ends, Sizes DEF SEnd

InStrlen == call.fn = "strlen" /\ Unwritten /\ s \in call.s .. SEnd

StrlenAnswers == result = Len(Text(old, call.s))

LEMMA StrlenAnswer == call.fn = "strlen" /\ StrlenAnswers => Answers
BY DEF Answers, StrlenAnswers, Comparing, Copying

LEMMA StrlenStep ==
    ASSUME Shape, InStrlen, Strlen
    PROVE  /\ Shape' /\ Unwritten'
           /\ \/ pc' = "strlen" /\ InStrlen'
              \/ pc' = "done" /\ Answers' /\ Writes'
<1>1. /\ SEnd \in Nat /\ call.s \in Nat /\ old[SEnd] = 0 /\ SEnd' = SEnd
      /\ \A k \in call.s .. SEnd - 1 : old[k] # 0
      /\ Len(Text(old, call.s)) = SEnd - call.s
  <2>1. SEnd' = SEnd
    BY DEF Strlen, Running, SEnd
  <2>2. Length(old, call.s) \in Nat /\ SEnd = call.s + Length(old, call.s)
        /\ call.s \in Nat
    BY SourceEnds DEF InStrlen, Reading
  <2>3. Len(Text(old, call.s)) = Length(old, call.s)
    BY <2>2, BytesAre DEF Text
  <2> QED
    BY <2>1, <2>2, <2>3, SourceEnds DEF InStrlen, Reading
<1>2. mem' = mem /\ mem = old /\ UNCHANGED <<old, call>>
  BY DEF Strlen, Running, Answer, Unwritten, InStrlen
<1>3. Shape' /\ Unwritten'
  BY <1>2, ShapeStays DEF Shape, Unwritten
<1>4. CASE mem[s] = 0
  <2>1. pc' = "done" /\ result' = s - call.s /\ call' = call
    BY <1>4 DEF Strlen, Running, Answer, Return
  <2>2. s = SEnd
    BY <1>1, <1>2, <1>4 DEF InStrlen
  <2>3. StrlenAnswers' /\ (call.fn = "strlen")'
    BY <1>1, <1>2, <2>1, <2>2 DEF StrlenAnswers, InStrlen
  <2>4. Answers'
    BY <2>3, StrlenAnswer, PTL
  <2>5. Writes'
    <3>1. (call.fn \in Reading \cup Comparing \cup {"internal_atoi", "atoi"})'
      BY <1>2 DEF InStrlen, Reading
    <3> QED
      BY <1>3, <3>1, ReadingWrites, PTL
  <2> QED
    BY <1>3, <2>1, <2>4, <2>5
<1>5. CASE mem[s] # 0
  <2>1. pc' = pc /\ s' = s + 1 /\ pc = "strlen"
    BY <1>5 DEF Strlen, Running, Repeat
  <2>2. s # SEnd
    BY <1>1, <1>2, <1>5
  <2>3. InStrlen'
    BY <1>1, <1>2, <1>3, <2>1, <2>2 DEF InStrlen
  <2> QED
    BY <1>3, <2>1, <2>3
<1> QED
  BY <1>4, <1>5

LEMMA SmallRemainder ==
    ASSUME NEW x \in Nat, NEW k \in Nat, x < k
    PROVE  x % k = x
<1> DEFINE q == x \div k
           r == x % k
<1>1. q \in Int /\ r \in 0 .. k - 1 /\ x = k * q + r
  OBVIOUS
<1> HIDE DEF q, r
<1>2. ASSUME q >= 1 PROVE FALSE
  <2>1. k * (q - 1) \in Nat /\ k * q = k * (q - 1) + k
    BY <1>1, <1>2
  <2> QED
    BY <1>1, <2>1
<1>3. ASSUME q <= -1 PROVE FALSE
  <2>1. k * (-q - 1) \in Nat /\ k * q = -(k * (-q - 1)) - k
    BY <1>1, <1>3
  <2> QED
    BY <1>1, <2>1
<1>4. q = 0
  BY <1>1, <1>2, <1>3
<1> QED
  BY <1>1, <1>4 DEF r

LEMMA NoRemainder ==
    ASSUME NEW k \in Nat, k > 0
    PROVE  k % k = 0
<1> DEFINE q == k \div k
           r == k % k
<1>1. q \in Int /\ r \in 0 .. k - 1 /\ k = k * q + r
  OBVIOUS
<1> HIDE DEF q, r
<1>2. k * (q - 1) = k * q - k /\ q - 1 \in Int
  BY <1>1
<1>3. ASSUME q - 1 >= 1 PROVE FALSE
  <2>1. k * (q - 1 - 1) \in Nat /\ k * (q - 1) = k * (q - 1 - 1) + k
    BY <1>1, <1>3
  <2> QED
    BY <1>1, <1>2, <2>1
<1>4. ASSUME q - 1 <= -1 PROVE FALSE
  <2>1. k * (-q) \in Nat /\ k * q = -(k * (-q))
    BY <1>1, <1>4
  <2> QED
    BY <1>1, <2>1
<1>5. q = 1
  BY <1>1, <1>3, <1>4
<1> QED
  BY <1>1, <1>5 DEF r

(* strchr.                                                                 *)
InStrchr ==
    /\ call.fn = "strchr" /\ Unwritten /\ s \in call.s .. SEnd
    /\ \A a \in call.s .. s - 1 : old[a] # call.c

StrchrAnswers == result = Min(FoundAt(call.s, call.c) \cup {Size + 1}) % (Size + 1)

LEMMA StrchrAnswer == call.fn = "strchr" /\ StrchrAnswers => Answers
BY DEF Answers, StrchrAnswers, Comparing, Copying

LEMMA StrchrStep ==
    ASSUME Shape, InStrchr, Strchr
    PROVE  /\ Shape'
           /\ \/ pc' = "strchr" /\ InStrchr'
              \/ pc' = "done" /\ Answers' /\ Writes'
<1>1. /\ SEnd \in call.s .. Size /\ call.s \in Nat /\ SEnd \in Nat /\ old[SEnd] = 0
      /\ \A k \in call.s .. SEnd - 1 : old[k] # 0
  BY SourceEnds DEF InStrchr, Reading
<1>2. mem' = mem /\ mem = old /\ UNCHANGED <<old, call>> /\ SEnd' = SEnd
  BY DEF Strchr, Running, Answer, Unwritten, InStrchr, SEnd
<1>3. Shape' /\ Unwritten'
  BY <1>2, ShapeStays DEF Shape, Unwritten
<1>4. CASE mem[s] = 0 \/ mem[s] = call.c
  <2> DEFINE S == FoundAt(call.s, call.c) \cup {Size + 1}
  <2>1. pc' = "done" /\ result' = (IF mem[s] # call.c THEN NULL ELSE s)
    BY <1>4 DEF Strchr, Answer, Return
  <2>2. S \in SUBSET Int /\ s \in Nat /\ s < Size + 1 /\ Size + 1 \in Nat
    BY <1>1, Sizes DEF FoundAt, InStrchr, SEnd
  <2>3. Min(S) % (Size + 1) = IF mem[s] # call.c THEN NULL ELSE s
    <3>1. CASE mem[s] = call.c
      <4>1. s \in S /\ \A y \in S : s <= y
        BY <1>1, <1>2, <2>2, <3>1 DEF FoundAt, InStrchr, SEnd
      <4>2. Min(S) = s
        <5> HIDE DEF S
        <5> QED
          BY <2>2, <4>1, MinIs
      <4> QED
        BY <2>2, <3>1, <4>2, SmallRemainder
    <3>2. CASE mem[s] # call.c
      <4>1. s = SEnd
        BY <1>1, <1>2, <1>4, <3>2 DEF InStrchr
      <4>2. FoundAt(call.s, call.c) = {}
        BY <1>1, <1>2, <3>2, <4>1 DEF FoundAt, InStrchr, SEnd
      <4>3. S = {Size + 1}
        BY <4>2
      <4>4. Min(S) = Size + 1
        <5> HIDE DEF S
        <5> QED
          BY <2>2, <4>3, MinIs
      <4> QED
        BY <2>2, <3>2, <4>4, NoRemainder DEF NULL
    <3> QED
      BY <3>1, <3>2
  <2>4. (call.fn = "strchr" /\ StrchrAnswers)'
    <3>1. S' = S
      BY <1>2 DEF FoundAt
    <3> QED
      BY <1>2, <2>1, <2>3, <3>1 DEF StrchrAnswers, InStrchr
  <2>5. Answers'
    BY <2>4, StrchrAnswer, PTL
  <2>6. (Unwritten /\ call.fn \in Reading \cup Comparing \cup {"internal_atoi", "atoi"})'
    BY <1>2, <1>3 DEF InStrchr, Reading
  <2>7. Writes'
    BY <2>6, ReadingWrites, PTL
  <2> QED
    BY <1>3, <2>1, <2>5, <2>7
<1>5. CASE ~ (mem[s] = 0 \/ mem[s] = call.c)
  <2>1. pc' = "strchr" /\ s' = s + 1
    BY <1>5 DEF Strchr, Running, Repeat
  <2>2. s # SEnd
    BY <1>1, <1>2, <1>5
  <2>3. InStrchr'
    BY <1>1, <1>2, <1>3, <1>5, <2>1, <2>2 DEF InStrchr
  <2> QED
    BY <1>3, <2>1, <2>3
<1> QED
  BY <1>4, <1>5

(* strrchr: d is the last occurrence before s.                             *)
InStrrchr ==
    /\ call.fn = "strrchr" /\ Unwritten /\ s \in call.s .. SEnd
    /\ \/ d = NULL /\ \A a \in call.s .. s - 1 : old[a] # call.c
       \/ /\ d \in call.s .. s - 1 /\ old[d] = call.c
          /\ \A a \in d + 1 .. s - 1 : old[a] # call.c

StrrchrAnswers ==
    result = IF call.c = 0 THEN NULL ELSE Max(FoundAt(call.s, call.c) \cup {NULL})

LEMMA StrrchrAnswer == call.fn = "strrchr" /\ StrrchrAnswers => Answers
BY DEF Answers, StrrchrAnswers, Comparing, Copying

LEMMA StrrchrStep ==
    ASSUME Shape, InStrrchr, Strrchr
    PROVE  /\ Shape'
           /\ \/ pc' = "strrchr" /\ InStrrchr'
              \/ pc' = "done" /\ Answers' /\ Writes'
<1>1. /\ SEnd \in call.s .. Size /\ call.s \in Nat /\ SEnd \in Nat /\ old[SEnd] = 0
      /\ \A k \in call.s .. SEnd - 1 : old[k] # 0
  BY SourceEnds DEF InStrrchr, Reading
<1>2. mem' = mem /\ mem = old /\ UNCHANGED <<old, call>> /\ SEnd' = SEnd
  BY DEF Strrchr, Running, Answer, Unwritten, InStrrchr, SEnd
<1>3. Shape' /\ Unwritten'
  BY <1>2, ShapeStays DEF Shape, Unwritten
<1>4. CASE mem[s] = 0
  <2> DEFINE S == FoundAt(call.s, call.c) \cup {NULL}
  <2>1. pc' = "done" /\ result' = d
    BY <1>4 DEF Strrchr, Answer, Return
  <2>2. S \in SUBSET Int /\ s = SEnd
    BY <1>1, <1>2, <1>4 DEF FoundAt, InStrrchr, SEnd, NULL
  <2>3. d = IF call.c = 0 THEN NULL ELSE Max(S)
    <3>1. CASE call.c = 0
      BY <1>1, <2>2, <3>1 DEF InStrrchr
    <3>2. CASE call.c # 0
      <4>1. d \in S /\ \A y \in S : d >= y
        BY <1>1, <2>2, <3>2 DEF FoundAt, InStrrchr, NULL, SEnd
      <4>2. Max(S) = d
        <5> HIDE DEF S
        <5> QED
          BY <2>2, <4>1, MaxIs
      <4> QED
        BY <3>2, <4>2
    <3> QED
      BY <3>1, <3>2
  <2>4. (call.fn = "strrchr" /\ StrrchrAnswers)'
    <3>1. S' = S
      BY <1>2 DEF FoundAt
    <3> QED
      BY <1>2, <2>1, <2>3, <3>1 DEF StrrchrAnswers, InStrrchr
  <2>5. Answers'
    BY <2>4, StrrchrAnswer, PTL
  <2>6. (Unwritten /\ call.fn \in Reading \cup Comparing \cup {"internal_atoi", "atoi"})'
    BY <1>2, <1>3 DEF InStrrchr, Reading
  <2>7. Writes'
    BY <2>6, ReadingWrites, PTL
  <2> QED
    BY <1>3, <2>1, <2>5, <2>7
<1>5. CASE mem[s] # 0
  <2>1. pc' = "strrchr" /\ s' = s + 1 /\ d' = IF old[s] = call.c THEN s ELSE d
    BY <1>2, <1>5 DEF Strrchr, Running, Repeat
  <2>2. s # SEnd
    BY <1>1, <1>2, <1>5
  <2>3. InStrrchr'
    BY <1>1, <1>2, <1>3, <2>1, <2>2 DEF InStrrchr, NULL
  <2> QED
    BY <1>3, <2>1, <2>3
<1> QED
  BY <1>4, <1>5

(* puts: what has been shown are the chars from the first one down to the  *)
(* one above s.                                                            *)
InPuts ==
    /\ call.fn = "puts" /\ Unwritten /\ s \in 1 .. call.s
    /\ shown \in Seq(0 .. 127) /\ Len(shown) = call.s - s
    /\ \A k \in 1 .. call.s - s : shown[k] = old[call.s - k + 1]
    /\ \A a \in s + 1 .. call.s : old[a] # 0
    /\ \E a \in 1 .. s : old[a] = 0

PutsAnswers ==
    /\ result = 0
    /\ \E a \in 1 .. call.s : /\ old[a] = 0 /\ 0 \notin Range(shown)
                              /\ Reverse(shown) = Bytes(old, a + 1, call.s - a)

LEMMA PutsAnswer == call.fn = "puts" /\ PutsAnswers => Answers
BY DEF Answers, PutsAnswers, Comparing, Copying

LEMMA PutsStep ==
    ASSUME Shape, InPuts, Puts
    PROVE  /\ Shape'
           /\ \/ pc' = "puts" /\ InPuts'
              \/ pc' = "done" /\ Answers' /\ Writes'
<1>1. /\ call.s \in Addr /\ call.s \in Nat /\ s \in Nat /\ s \in Addr
      /\ mem[s] \in 0 .. 127 /\ mem[s] = old[s]
  <2>1. call.s \in Addr /\ call.s \in Nat
    BY Calls, Sizes DEF InPuts, Reading
  <2>2. s \in Addr
    BY <2>1, Sizes DEF InPuts, Addr
  <2> QED
    BY <2>1, <2>2, OldBytes, Sizes DEF InPuts, Unwritten
<1>2. mem' = mem /\ mem = old /\ UNCHANGED <<old, call>>
  BY DEF Puts, Running, Answer, Unwritten, InPuts
<1>3. Shape' /\ Unwritten'
  BY <1>2, ShapeStays DEF Shape, Unwritten
<1>4. CASE mem[s] = 0
  <2>1. pc' = "done" /\ result' = 0 /\ shown' = shown
    BY <1>4 DEF Puts, Answer, Return
  <2>2. DOMAIN shown = 1 .. call.s - s /\ call.s - s \in Nat
    BY <1>1, LenProperties DEF InPuts
  <2>3. 0 \notin Range(shown)
    <3>1. ASSUME NEW k \in 1 .. call.s - s PROVE shown[k] # 0
      <4>1. call.s - k + 1 \in s + 1 .. call.s
        BY <1>1, <2>2
      <4> QED
        BY <4>1 DEF InPuts
    <3> QED
      BY <2>2, <3>1 DEF Range
  <2>4. Reverse(shown) = Bytes(old, s + 1, call.s - s)
    <3>1. ASSUME NEW k \in 1 .. call.s - s
          PROVE  shown[(call.s - s) - k + 1] = old[s + 1 + k - 1]
      <4>1. /\ (call.s - s) - k + 1 \in 1 .. call.s - s
            /\ call.s - ((call.s - s) - k + 1) + 1 = s + 1 + k - 1
        <5>1. PICK x \in Nat, y \in Nat : x = call.s /\ y = s /\ x - y \in Nat
          BY <1>1, <2>2
        <5>2. k \in Nat /\ k >= 1 /\ k <= x - y
          BY <5>1
        <5>3. /\ (x - y) - k + 1 \in 1 .. x - y
              /\ x - ((x - y) - k + 1) + 1 = y + 1 + k - 1
          BY <5>1, <5>2
        <5> QED
          BY <5>1, <5>3
      <4> QED
        BY <4>1 DEF InPuts
    <3>2. Reverse(shown) = [k \in 1 .. call.s - s |-> shown[(call.s - s) - k + 1]]
      BY DEF Reverse, InPuts
    <3> QED
      BY <3>1, <3>2 DEF Bytes
  <2>5. (call.fn = "puts" /\ PutsAnswers)'
    BY <1>1, <1>2, <1>4, <2>1, <2>3, <2>4 DEF PutsAnswers, InPuts
  <2>6. Answers'
    BY <2>5, PutsAnswer, PTL
  <2>7. (Unwritten /\ call.fn \in Reading \cup Comparing \cup {"internal_atoi", "atoi"})'
    BY <1>2, <1>3 DEF InPuts, Reading
  <2>8. Writes'
    BY <2>7, ReadingWrites, PTL
  <2> QED
    BY <1>3, <2>1, <2>6, <2>8
<1>5. CASE mem[s] # 0
  <2>1. pc' = "puts" /\ s' = s - 1 /\ shown' = Append(shown, mem[s])
    BY <1>5 DEF Puts, Running
  <2>2. /\ shown' \in Seq(0 .. 127) /\ Len(shown') = Len(shown) + 1
        /\ \A k \in 1 .. Len(shown) : shown'[k] = shown[k]
        /\ shown'[Len(shown) + 1] = mem[s]
    BY <1>1, <2>1, AppendProperties DEF InPuts
  <2>3. \E a \in 1 .. s - 1 : old[a] = 0
    BY <1>1, <1>5 DEF InPuts
  <2>4. s - 1 \in 1 .. call.s
    BY <1>1, <2>3 DEF InPuts
  <2>5. Len(shown') = call.s - (s - 1)
    BY <1>1, <2>2 DEF InPuts
  <2>6. \A k \in 1 .. call.s - (s - 1) : shown'[k] = old[call.s - k + 1]
    <3> TAKE k \in 1 .. call.s - (s - 1)
    <3>1. CASE k \in 1 .. call.s - s
      BY <2>2, <3>1 DEF InPuts
    <3>2. CASE k = call.s - s + 1
      BY <1>1, <2>2, <3>2 DEF InPuts
    <3> QED
      BY <1>1, <3>1, <3>2
  <2>7. \A a \in (s - 1) + 1 .. call.s : old[a] # 0
    <3> TAKE a \in (s - 1) + 1 .. call.s
    <3>1. CASE a = s
      BY <1>1, <1>5, <3>1
    <3>2. CASE a # s
      BY <1>1, <3>2 DEF InPuts
    <3> QED
      BY <3>1, <3>2
  <2>8. InPuts'
    BY <1>2, <1>3, <2>1, <2>2, <2>3, <2>4, <2>5, <2>6, <2>7 DEF InPuts
  <2> QED
    BY <1>3, <2>1, <2>8
<1> QED
  BY <1>4, <1>5

-----------------------------------------------------------------------------
(* Copies.  The memory after j bytes have been copied.                     *)
Copied(to, from, j) ==
    [a \in Addr |-> IF a \in to .. to + j - 1 THEN old[from + (a - to)] ELSE old[a]]

LEMMA NothingCopied ==
    ASSUME Shape, NEW to \in Nat, NEW from \in Nat
    PROVE  Copied(to, from, 0) = old
<1>1. \A a \in Addr : a \notin to .. to + 0 - 1
  BY Sizes
<1> QED
  BY <1>1, OldBytes DEF Copied

LEMMA CopyTyped ==
    ASSUME Shape, NEW to \in Nat, NEW from \in Nat, NEW j \in Nat,
           j > 0 => from \in Addr /\ from + j - 1 \in Addr
    PROVE  Copied(to, from, j) \in [Addr -> 0 .. 127]
<1>1. ASSUME NEW a \in Addr
      PROVE  (IF a \in to .. to + j - 1 THEN old[from + (a - to)] ELSE old[a]) \in 0 .. 127
  <2>1. CASE a \in to .. to + j - 1
    <3>1. from + (a - to) \in Addr
      BY <2>1, Sizes DEF Addr
    <3> QED
      BY <2>1, <3>1, OldBytes
  <2>2. CASE a \notin to .. to + j - 1
    BY <2>2, OldBytes
  <2> QED
    BY <2>1, <2>2
<1> QED
  BY <1>1 DEF Copied

(* One more byte above those that are copied, and one below.               *)
LEMMA CopyUp ==
    ASSUME Shape, NEW to \in Nat, NEW from \in Nat, NEW j \in Nat,
           to + j \in Addr, from + j \in Addr, from \in Addr,
           mem = Copied(to, from, j), from + j \notin to .. to + j - 1,
           Put(to + j, mem[from + j])
    PROVE  mem' = Copied(to, from, j + 1) /\ mem' \in [Addr -> 0 .. 127]
<1>1. mem[from + j] = old[from + j]
  BY DEF Copied
<1>2. mem = [a \in Addr |-> mem[a]]
  BY DEF Copied
<1>3. ASSUME NEW a \in Addr
      PROVE  (IF a = to + j THEN mem[from + j] ELSE mem[a])
               = IF a \in to .. to + (j + 1) - 1 THEN old[from + (a - to)] ELSE old[a]
  <2>1. CASE a = to + j
    <3>1. a \in to .. to + (j + 1) - 1 /\ from + (a - to) = from + j
      BY <2>1
    <3> QED
      BY <1>1, <2>1, <3>1
  <2>2. CASE a # to + j
    <3>1. a \in to .. to + (j + 1) - 1 <=> a \in to .. to + j - 1
      BY <2>2, Sizes
    <3> QED
      BY <2>2, <3>1 DEF Copied
  <2> QED
    BY <2>1, <2>2
<1>4. [mem EXCEPT ![to + j] = mem[from + j]]
        = [a \in Addr |-> IF a = to + j THEN mem[from + j] ELSE mem[a]]
  BY <1>2
<1>5. Copied(to, from, j + 1) \in [Addr -> 0 .. 127]
  <2>1. j + 1 \in Nat /\ from + (j + 1) - 1 \in Addr
    OBVIOUS
  <2> QED
    BY <2>1, CopyTyped
<1>6. [a \in Addr |-> IF a = to + j THEN mem[from + j] ELSE mem[a]] = Copied(to, from, j + 1)
  BY <1>3 DEF Copied
<1> QED
  BY <1>4, <1>5, <1>6 DEF Put

LEMMA CopyDown ==
    ASSUME Shape, NEW to \in Nat, NEW from \in Nat, NEW j \in Nat,
           to - 1 \in Addr, from - 1 \in Addr, from + j - 1 \in Addr,
           mem = Copied(to, from, j), from - 1 \notin to .. to + j - 1,
           Put(to - 1, mem[from - 1])
    PROVE  mem' = Copied(to - 1, from - 1, j + 1) /\ mem' \in [Addr -> 0 .. 127]
<1>1. mem[from - 1] = old[from - 1]
  BY DEF Copied
<1>2. mem = [a \in Addr |-> mem[a]] /\ to - 1 \in Nat /\ from - 1 \in Nat
  BY Sizes DEF Copied
<1>3. ASSUME NEW a \in Addr
      PROVE  (IF a = to - 1 THEN mem[from - 1] ELSE mem[a])
               = IF a \in to - 1 .. (to - 1) + (j + 1) - 1
                 THEN old[(from - 1) + (a - (to - 1))] ELSE old[a]
  <2>1. CASE a = to - 1
    <3>1. /\ a \in to - 1 .. (to - 1) + (j + 1) - 1
          /\ (from - 1) + (a - (to - 1)) = from - 1
      BY <1>2, <2>1
    <3> QED
      BY <1>1, <2>1, <3>1
  <2>2. CASE a # to - 1
    <3>1. /\ a \in to - 1 .. (to - 1) + (j + 1) - 1 <=> a \in to .. to + j - 1
          /\ (from - 1) + (a - (to - 1)) = from + (a - to)
      BY <2>2, Sizes
    <3> QED
      BY <2>2, <3>1 DEF Copied
  <2> QED
    BY <2>1, <2>2
<1>4. [mem EXCEPT ![to - 1] = mem[from - 1]]
        = [a \in Addr |-> IF a = to - 1 THEN mem[from - 1] ELSE mem[a]]
  BY <1>2
<1>5. Copied(to - 1, from - 1, j + 1) \in [Addr -> 0 .. 127]
  <2>1. j + 1 \in Nat /\ (from - 1) + (j + 1) - 1 \in Addr
    BY Sizes
  <2> QED
    BY <1>2, <2>1, CopyTyped
<1>6. [a \in Addr |-> IF a = to - 1 THEN mem[from - 1] ELSE mem[a]]
        = Copied(to - 1, from - 1, j + 1)
  BY <1>3 DEF Copied
<1> QED
  BY <1>4, <1>5, <1>6 DEF Put

LEMMA WithCopyWrites == call.fn \in Copying /\ mem = WithCopy => Writes
BY DEF Writes, Copying

LEMMA CopyWrites ==
    call.fn \in Copying /\ ~ Joins /\ mem = Copied(CopyTo, CopyFrom, CopyCount) => Writes
<1>1. SUFFICES ASSUME call.fn \in Copying, ~ Joins,
                      mem = Copied(CopyTo, CopyFrom, CopyCount)
               PROVE  Writes
  OBVIOUS
<1> DEFINE In(a) == a \in CopyTo .. CopyTo + CopyCount - 1
           From(a) == old[CopyFrom + (a - CopyTo)]
<1>2. \A a \in Addr : (IF In(a) THEN From(a)
                       ELSE IF Joins /\ a = CopyTo + CopyCount THEN 0 ELSE old[a])
                        = IF In(a) THEN From(a) ELSE old[a]
  <2> HIDE DEF In, From
  <2> QED
    BY <1>1
<1>3. mem = WithCopy
  <2>1. mem = [a \in Addr |-> IF In(a) THEN From(a) ELSE old[a]]
    BY <1>1, Zenon DEF Copied
  <2>2. WithCopy = [a \in Addr |-> IF In(a) THEN From(a)
                                   ELSE IF Joins /\ a = CopyTo + CopyCount THEN 0 ELSE old[a]]
    BY Zenon DEF WithCopy
  <2> HIDE DEF In, From
  <2> QED
    BY <1>2, <2>1, <2>2
<1> QED
  BY <1>1, <1>3, WithCopyWrites

LEMMA CopyAnswer == call.fn \in Copying \ {"memmove"} /\ result = CopyEnd => Answers
BY DEF Answers, Copying, Comparing

LEMMA CopyDone ==
    ASSUME call.fn \in Copying, ~ Joins, mem = Copied(CopyTo, CopyFrom, CopyCount),
           UNCHANGED <<mem, old, call>>
    PROVE  Writes'
<1>1. (call.fn \in Copying /\ ~ Joins)'
  BY DEF Joins
<1>2. CopyTo' = CopyTo /\ CopyFrom' = CopyFrom /\ CopyCount' = CopyCount
  BY DEF CopyTo, CopyFrom, CopyCount, Joins, Shift
<1>3. (mem = Copied(CopyTo, CopyFrom, CopyCount))'
  BY <1>2 DEF Copied
<1> QED
  BY <1>1, <1>3, CopyWrites, PTL

(* memcpy: all but n bytes are copied.                                     *)
InMemcpy ==
    /\ call.fn = "memcpy" /\ n \in 0 .. call.n
    /\ d = call.d + (call.n - n) /\ s = call.s + (call.n - n)
    /\ mem = Copied(call.d, call.s, call.n - n)

LEMMA MemcpyStep ==
    ASSUME Shape, InMemcpy, Memcpy
    PROVE  /\ Shape'
           /\ \/ pc' = "memcpy" /\ InMemcpy'
              \/ pc' = "done" /\ Answers' /\ Writes'
<1>1. /\ call.d \in Addr /\ call.s \in Addr /\ call.n \in 0 .. Size
      /\ call.d \in Nat /\ call.s \in Nat /\ call.n \in Nat /\ n \in Nat
      /\ call.d + call.n <= Size + 1 /\ call.s + call.n <= Size + 1
      /\ call.d + call.n <= call.s \/ call.s + call.n <= call.d
  <2>1. call.d \in Addr /\ call.s \in Addr /\ call.n \in 0 .. Size
    BY Calls DEF InMemcpy, Copying
  <2>2. Within(call.d, call.n) /\ Within(call.s, call.n)
        /\ Apart(call.d, call.n, call.s, call.n)
    BY DEF Shape, Legal, InMemcpy
  <2>3. n \in 0 .. call.n
    BY DEF InMemcpy
  <2>4. call.d \in Nat /\ call.s \in Nat
    BY <2>1, Sizes
  <2>5. call.n \in Nat
    BY <2>1, Sizes
  <2>6. n \in Nat
    BY <2>3, <2>5
  <2> QED
    BY <2>1, <2>2, <2>4, <2>5, <2>6 DEF Within, Apart
<1>2. UNCHANGED <<old, call>> /\ pc = "memcpy"
  BY DEF Memcpy, Running
<1>3. CASE n = 0
  <2>1. mem' = mem /\ pc' = "done" /\ result' = d
    BY <1>3 DEF Memcpy, Answer, Return
  <2>2. ~ Joins /\ CopyTo = call.d /\ CopyFrom = call.s /\ CopyCount = call.n
    BY <1>1 DEF Joins, Shift, CopyTo, CopyFrom, CopyCount, InMemcpy
  <2>3. Writes'
    <3>1. mem = Copied(CopyTo, CopyFrom, CopyCount)
      BY <1>1, <1>3, <2>2 DEF InMemcpy
    <3> QED
      BY <1>2, <2>1, <2>2, <3>1, CopyDone DEF InMemcpy, Copying
  <2>4. CopyEnd = call.d + call.n /\ CopyEnd' = CopyEnd
    BY <1>1, <1>2, <2>2 DEF CopyEnd, Joins, Shift, CopyTo, CopyCount, InMemcpy
  <2>5. (call.fn \in Copying \ {"memmove"} /\ result = CopyEnd)'
    BY <1>1, <1>2, <1>3, <2>1, <2>4 DEF InMemcpy, Copying
  <2>6. Answers'
    BY <2>5, CopyAnswer, PTL
  <2>7. Shape'
    BY <1>2, <2>1, ShapeStays DEF Shape
  <2> QED
    BY <2>1, <2>3, <2>6, <2>7
<1>4. CASE n # 0
  <2>1. /\ Put(d, mem[s]) /\ pc' = "memcpy"
        /\ d' = d + 1 /\ s' = s + 1 /\ n' = n - 1
    BY <1>2, <1>4 DEF Memcpy, Repeat
  <2> DEFINE j == call.n - n
  <2>2. /\ j \in Nat /\ d = call.d + j /\ s = call.s + j /\ mem = Copied(call.d, call.s, j)
        /\ call.n - (n - 1) = j + 1 /\ j < call.n
    BY <1>1, <1>4 DEF InMemcpy
  <2> HIDE DEF j
  <2>3. /\ call.d + j \in Addr /\ call.s + j \in Addr
        /\ call.s + j \notin call.d .. call.d + j - 1
    BY <1>1, <2>2, Sizes DEF Addr
  <2>4. /\ mem' = Copied(call.d, call.s, j + 1)
        /\ mem' \in [Addr -> 0 .. 127]
    <3>1. Put(call.d + j, mem[call.s + j])
      BY <2>1, <2>2
    <3>2. call.d \in Nat /\ call.s \in Nat /\ j \in Nat /\ call.s \in Addr
      BY <1>1, <2>2
    <3>3. mem = Copied(call.d, call.s, j)
      BY <2>2
    <3> QED
      BY <2>3, <3>1, <3>2, <3>3, CopyUp
  <2>5. Shape'
    BY <1>2, <2>4, ShapeStays
  <2>6. (mem = Copied(call.d, call.s, call.n - n))'
    <3>1. call'.n - n' = j + 1
      BY <1>1, <1>2, <2>1, <2>2
    <3> QED
      BY <1>2, <2>4, <3>1 DEF Copied
  <2>7. InMemcpy'
    BY <1>1, <1>2, <1>4, <2>1, <2>6 DEF InMemcpy
  <2> QED
    BY <2>1, <2>5, <2>7
<1> QED
  BY <1>3, <1>4

(* memset and calloc: all but n bytes are filled.                          *)
InMemset ==
    /\ call.fn \in {"memset", "calloc"} /\ pc = call.fn /\ n \in 0 .. call.n
    /\ d = call.d + (call.n - n) /\ mem = Filled(call.n - n)

MemsetAnswers == result = IF call.fn = "memset" THEN call.d + call.n ELSE call.d

LEMMA MemsetAnswer == call.fn \in {"memset", "calloc"} /\ MemsetAnswers => Answers
BY DEF Answers, MemsetAnswers, Comparing, Copying

LEMMA MemsetWrites ==
    call.fn \in {"memset", "calloc"} /\ mem = Filled(call.n) => Writes
BY DEF Writes, Copying

LEMMA FillUp ==
    ASSUME Shape, call.fn \in {"memset", "calloc"}, NEW j \in Nat, j < call.n,
           mem = Filled(j), Put(call.d + j, call.c)
    PROVE  mem' = Filled(j + 1) /\ mem' \in [Addr -> 0 .. 127]
<1>1. call.d \in Nat /\ call.n \in Nat /\ call.c \in 0 .. 127
  <2>1. call.d \in Addr /\ call.n \in 0 .. Size /\ call.c \in Chars
    BY Calls
  <2>2. call.n \in Nat
    BY <2>1, Sizes
  <2>3. call.d \in Nat
    BY <2>1, Sizes
  <2> QED
    BY <2>1, <2>2, <2>3, LibCAssumption
<1>2. call.d + j \in Addr
  <2>1. Within(call.d, call.n)
    BY DEF Shape, Legal
  <2>2. call.d \in Addr
    BY Calls
  <2> QED
    BY <1>1, <2>1, <2>2, Sizes DEF Within, Addr
<1>3. mem = [a \in Addr |-> mem[a]]
  BY DEF Filled
<1>4. ASSUME NEW a \in Addr
      PROVE  (IF a = call.d + j THEN call.c ELSE mem[a])
               = IF a \in call.d .. call.d + (j + 1) - 1 THEN call.c ELSE old[a]
  <2>1. CASE a = call.d + j
    <3>1. a \in call.d .. call.d + (j + 1) - 1
      BY <1>1, <2>1
    <3> QED
      BY <2>1, <3>1
  <2>2. CASE a # call.d + j
    <3>1. a \in call.d .. call.d + (j + 1) - 1 <=> a \in call.d .. call.d + j - 1
      BY <1>1, <2>2, Sizes
    <3> QED
      BY <2>2, <3>1 DEF Filled
  <2> QED
    BY <2>1, <2>2
<1>5. [mem EXCEPT ![call.d + j] = call.c]
        = [a \in Addr |-> IF a = call.d + j THEN call.c ELSE mem[a]]
  BY <1>3
<1>6. [a \in Addr |-> IF a = call.d + j THEN call.c ELSE mem[a]] = Filled(j + 1)
  BY <1>4 DEF Filled
<1>7. \A a \in Addr : (IF a = call.d + j THEN call.c ELSE mem[a]) \in 0 .. 127
  BY <1>1, OldBytes
<1>8. [a \in Addr |-> IF a = call.d + j THEN call.c ELSE mem[a]] \in [Addr -> 0 .. 127]
  BY <1>7
<1> QED
  BY <1>5, <1>6, <1>8 DEF Put

LEMMA MemsetStep ==
    ASSUME Shape, InMemset, Memset
    PROVE  /\ Shape'
           /\ \/ InMemset'
              \/ pc' = "done" /\ Answers' /\ Writes'
<1>1. /\ call.d \in Nat /\ call.n \in Nat /\ n \in Nat
      /\ call.fn \in {"memset", "calloc"} /\ pc = call.fn
  <2>1. call.d \in Addr /\ call.n \in 0 .. Size
    BY Calls DEF InMemset
  <2>2. call.n \in Nat
    BY <2>1, Sizes
  <2>3. n \in Nat
    BY <2>2 DEF InMemset
  <2> QED
    BY <2>1, <2>2, <2>3, Sizes DEF InMemset
<1>2. UNCHANGED <<old, call>>
  BY DEF Memset
<1>3. CASE n = 0
  <2>1. mem' = mem /\ pc' = "done" /\ result' = IF pc = "calloc" THEN call.d ELSE d
    BY <1>3 DEF Memset, Answer, Return
  <2>2. d = call.d + call.n /\ mem = Filled(call.n)
    BY <1>1, <1>3 DEF InMemset
  <2>3. (call.fn \in {"memset", "calloc"} /\ mem = Filled(call.n))'
    BY <1>1, <1>2, <2>1, <2>2 DEF Filled
  <2>4. (call.fn \in {"memset", "calloc"} /\ MemsetAnswers)'
    BY <1>1, <1>2, <2>1, <2>2 DEF MemsetAnswers
  <2>5. Answers'
    BY <2>4, MemsetAnswer, PTL
  <2>6. Writes'
    BY <2>3, MemsetWrites, PTL
  <2>7. Shape'
    BY <1>2, <2>1, ShapeStays DEF Shape
  <2> QED
    BY <2>1, <2>5, <2>6, <2>7
<1>4. CASE n # 0
  <2>1. Put(d, call.c) /\ pc' = pc /\ d' = d + 1 /\ n' = n - 1
    BY <1>4 DEF Memset, Repeat
  <2> DEFINE j == call.n - n
  <2>2. /\ j \in Nat /\ d = call.d + j /\ mem = Filled(j)
        /\ call.n - (n - 1) = j + 1 /\ j < call.n
    BY <1>1, <1>4 DEF InMemset
  <2> HIDE DEF j
  <2>3. mem' = Filled(j + 1) /\ mem' \in [Addr -> 0 .. 127]
    <3>1. Put(call.d + j, call.c)
      BY <2>1, <2>2
    <3> QED
      BY <1>1, <2>2, <3>1, FillUp
  <2>4. Shape'
    BY <1>2, <2>3, ShapeStays
  <2>5. (mem = Filled(call.n - n))'
    <3>1. call'.n - n' = j + 1
      BY <1>1, <1>2, <2>1, <2>2
    <3> QED
      BY <1>2, <2>3, <3>1 DEF Filled
  <2>6. InMemset'
    BY <1>1, <1>2, <1>4, <2>1, <2>2, <2>5 DEF InMemset
  <2> QED
    BY <2>4, <2>6
<1> QED
  BY <1>3, <1>4

(* memmove: upwards like memcpy; downwards the bytes from n on are copied, *)
(* and d and s are below the last ones.                                    *)
InMemmoveUp ==
    /\ call.d < call.s /\ i = 0 /\ n \in 0 .. call.n
    /\ d = call.d + (call.n - n) /\ s = call.s + (call.n - n)
    /\ mem = Copied(call.d, call.s, call.n - n)

InMemmoveDown ==
    /\ call.d >= call.s /\ i = 1 /\ n \in 0 .. call.n
    /\ d = call.d + n /\ s = call.s + n
    /\ mem = Copied(call.d + 1 + n, call.s + 1 + n, call.n - n)

InMemmove ==
    /\ call.fn = "memmove"
    /\ \/ InMemmoveUp
       \/ InMemmoveDown
       \/ /\ call.d >= call.s /\ i = 0
          /\ d = call.d /\ s = call.s /\ n = call.n /\ Unwritten

MemmoveAnswers == result = IF Shift = 1 THEN call.d ELSE call.d + call.n

LEMMA MemmoveAnswer == call.fn = "memmove" /\ MemmoveAnswers => Answers
BY DEF Answers, MemmoveAnswers, Comparing, Copying

LEMMA MemmoveCall ==
    ASSUME Shape, call.fn = "memmove"
    PROVE  /\ call.d \in Addr /\ call.s \in Addr
           /\ call.d \in Nat /\ call.s \in Nat /\ call.n \in Nat
           /\ call.d + call.n <= Size /\ call.s + call.n <= Size
           /\ ~ Joins /\ CopyCount = call.n
           /\ call.d < call.s => CopyTo = call.d /\ CopyFrom = call.s /\ Shift = 0
           /\ call.d >= call.s => /\ CopyTo = call.d + 1 /\ CopyFrom = call.s + 1
                                  /\ Shift = 1
<1>1. call.d \in Addr /\ call.s \in Addr /\ call.n \in 0 .. Size
  BY Calls DEF Copying
<1>2. call.n \in Nat
  BY <1>1, Sizes
<1>3. call.d \in Nat /\ call.s \in Nat
  BY <1>1, Sizes
<1>4. Within(call.d, call.n + 1) /\ Within(call.s, call.n + 1)
  BY DEF Shape, Legal
<1>5. call.d + call.n <= Size /\ call.s + call.n <= Size
  BY <1>2, <1>3, <1>4, Sizes DEF Within
<1>6. ~ Joins /\ CopyCount = call.n
  BY DEF Joins, CopyCount
<1>7. call.d < call.s => CopyTo = call.d /\ CopyFrom = call.s /\ Shift = 0
  BY <1>3, <1>6 DEF Shift, CopyTo, CopyFrom
<1>8. call.d >= call.s => CopyTo = call.d + 1 /\ CopyFrom = call.s + 1 /\ Shift = 1
  BY <1>3, <1>6 DEF Shift, CopyTo, CopyFrom
<1> QED
  BY <1>1, <1>2, <1>3, <1>5, <1>6, <1>7, <1>8

LEMMA MemmoveStep ==
    ASSUME Shape, InMemmove, Memmove
    PROVE  /\ Shape'
           /\ \/ pc' = "memmove" /\ InMemmove'
              \/ pc' = "done" /\ Answers' /\ Writes'
<1>1. call.fn = "memmove" /\ UNCHANGED <<old, call>> /\ pc = "memmove"
  BY DEF Memmove, Running, InMemmove
<1>2. CASE call.d >= call.s /\ i = 0
  <2>1. /\ mem' = mem /\ pc' = "memmove" /\ i' = 1 /\ n' = n
        /\ d' = d + n /\ s' = s + n
    <3>1. ~ (call.d < call.s)
      BY <1>1, <1>2, MemmoveCall
    <3> QED
      BY <1>1, <1>2, <3>1 DEF Memmove, MemmoveLast, Repeat
  <2>2. d = call.d /\ s = call.s /\ n = call.n /\ mem = old
    <3>1. ~ (call.d < call.s)
      BY <1>1, <1>2, MemmoveCall
    <3> QED
      BY <1>2, <3>1 DEF InMemmove, InMemmoveUp, InMemmoveDown, Unwritten
  <2>3. call.d \in Nat /\ call.s \in Nat /\ call.n \in Nat
    BY <1>1, MemmoveCall
  <2>4. (mem = Copied(call.d + 1 + n, call.s + 1 + n, call.n - n))'
    <3>1. mem = Copied(call.d + 1 + call.n, call.s + 1 + call.n, 0)
      BY <2>2, <2>3, NothingCopied
    <3>2. /\ call'.d + 1 + n' = call.d + 1 + call.n /\ call'.s + 1 + n' = call.s + 1 + call.n
          /\ call'.n - n' = 0
      BY <1>1, <2>1, <2>2, <2>3
    <3> QED
      BY <1>1, <2>1, <3>1, <3>2 DEF Copied
  <2>5. InMemmoveDown'
    BY <1>1, <1>2, <2>1, <2>2, <2>3, <2>4 DEF InMemmoveDown
  <2>6. Shape'
    BY <1>1, <2>1, ShapeStays DEF Shape
  <2> QED
    BY <1>1, <2>1, <2>5, <2>6 DEF InMemmove
<1>3. CASE (InMemmoveUp \/ InMemmoveDown) /\ n = 0
  <2>1. call.d < call.s \/ i = 1
    BY <1>3 DEF InMemmoveUp, InMemmoveDown
  <2>2. ~ (call.d >= call.s /\ i = 0)
    BY <1>1, <2>1, MemmoveCall
  <2>3. mem' = mem /\ pc' = "done" /\ result' = d
    BY <1>3, <2>2 DEF Memmove, Answer, Return
  <2>4. mem = Copied(CopyTo, CopyFrom, CopyCount)
    <3>1. CASE InMemmoveUp
      BY <1>1, <1>3, <3>1, MemmoveCall DEF InMemmoveUp
    <3>2. CASE InMemmoveDown
      <4>1. call.d + 1 + n = call.d + 1 /\ call.s + 1 + n = call.s + 1 /\ call.n - n = call.n
        BY <1>1, <1>3, MemmoveCall
      <4> QED
        BY <1>1, <3>2, <4>1, MemmoveCall DEF InMemmoveDown
    <3> QED
      BY <1>3, <3>1, <3>2
  <2>5. Writes'
    BY <1>1, <2>3, <2>4, CopyDone, MemmoveCall DEF Copying
  <2>6. d = IF Shift = 1 THEN call.d ELSE call.d + call.n
    BY <1>1, <1>3, MemmoveCall DEF InMemmoveUp, InMemmoveDown
  <2>7. (call.fn = "memmove" /\ MemmoveAnswers)'
    BY <1>1, <2>3, <2>6 DEF MemmoveAnswers, Shift
  <2>8. Answers'
    BY <2>7, MemmoveAnswer, PTL
  <2>9. Shape'
    BY <1>1, <2>3, ShapeStays DEF Shape
  <2> QED
    BY <2>3, <2>5, <2>8, <2>9
<1>4. CASE InMemmoveUp /\ n # 0
  <2>1. Put(d, mem[s]) /\ pc' = "memmove" /\ d' = d + 1 /\ s' = s + 1 /\ n' = n - 1 /\ i' = i
    <3>1. call.d < call.s /\ ~ (call.d >= call.s)
      BY <1>1, <1>4, MemmoveCall DEF InMemmoveUp
    <3> QED
      BY <1>1, <1>4, <3>1 DEF Memmove, Repeat
  <2> DEFINE j == call.n - n
  <2>2. /\ call.d \in Nat /\ call.s \in Nat /\ call.n \in Nat /\ call.d < call.s
        /\ call.s \in Addr /\ call.d + call.n <= Size /\ call.s + call.n <= Size
    BY <1>1, <1>4, MemmoveCall DEF InMemmoveUp
  <2>3. n \in 1 .. call.n /\ d = call.d + j /\ s = call.s + j /\ mem = Copied(call.d, call.s, j)
    BY <1>4, <2>2 DEF InMemmoveUp
  <2>4. j \in Nat /\ call.n - (n - 1) = j + 1 /\ j < call.n
    BY <2>2, <2>3
  <2> HIDE DEF j
  <2>5. /\ call.d + j \in Addr /\ call.s + j \in Addr
        /\ call.s + j \notin call.d .. call.d + j - 1
    BY <2>2, <2>4, Sizes, MemmoveCall, <1>1 DEF Addr
  <2>6. mem' = Copied(call.d, call.s, j + 1) /\ mem' \in [Addr -> 0 .. 127]
    <3>1. Put(call.d + j, mem[call.s + j])
      BY <2>1, <2>3
    <3>2. mem = Copied(call.d, call.s, j)
      BY <2>3
    <3> QED
      BY <2>2, <2>4, <2>5, <3>1, <3>2, CopyUp
  <2>7. Shape'
    BY <1>1, <2>6, ShapeStays
  <2>8. (mem = Copied(call.d, call.s, call.n - n))'
    <3>1. call'.n - n' = j + 1
      BY <1>1, <2>1, <2>4
    <3> QED
      BY <1>1, <2>6, <3>1 DEF Copied
  <2>9. n' \in 0 .. call'.n /\ d' = call'.d + (call'.n - n') /\ s' = call'.s + (call'.n - n')
    BY <1>1, <2>1, <2>2, <2>3, <2>4
  <2>10. InMemmoveUp'
    BY <1>1, <1>4, <2>1, <2>8, <2>9 DEF InMemmoveUp
  <2> QED
    BY <1>1, <2>1, <2>7, <2>10 DEF InMemmove
<1>5. CASE InMemmoveDown /\ n # 0
  <2>1. /\ Put(d, mem[s]) /\ pc' = "memmove" /\ n' = n - 1 /\ i' = i
        /\ d' = d + (-1) /\ s' = s + (-1)
    <3>1. call.d >= call.s /\ ~ (call.d < call.s)
      BY <1>1, <1>5, MemmoveCall DEF InMemmoveDown
    <3> QED
      BY <1>1, <1>5, <3>1 DEF Memmove, Repeat, InMemmoveDown
  <2> DEFINE j == call.n - n
             to == call.d + 1 + n
             from == call.s + 1 + n
  <2>2. /\ call.d \in Nat /\ call.s \in Nat /\ call.n \in Nat /\ call.d >= call.s
        /\ call.d \in Addr /\ call.s \in Addr
        /\ call.d + call.n <= Size /\ call.s + call.n <= Size
    BY <1>1, <1>5, MemmoveCall DEF InMemmoveDown
  <2>3. n \in 1 .. call.n /\ d = call.d + n /\ s = call.s + n
    BY <1>5, <2>2 DEF InMemmoveDown
  <2>4. /\ j \in Nat /\ call.n - (n - 1) = j + 1 /\ to \in Nat /\ from \in Nat
        /\ to - 1 = d /\ from - 1 = s
        /\ to - 1 = call.d + 1 + (n - 1) /\ from - 1 = call.s + 1 + (n - 1)
    BY <2>2, <2>3
  <2>5. /\ to - 1 \in Addr /\ from - 1 \in Addr /\ from + j - 1 \in Addr
        /\ from - 1 \notin to .. to + j - 1
    BY <2>2, <2>3, Sizes DEF Addr
  <2>6. mem = Copied(to, from, j)
    BY <1>5 DEF InMemmoveDown
  <2> HIDE DEF j, to, from
  <2>7. mem' = Copied(to - 1, from - 1, j + 1) /\ mem' \in [Addr -> 0 .. 127]
    <3>1. Put(to - 1, mem[from - 1])
      BY <2>1, <2>4
    <3> QED
      BY <2>4, <2>5, <2>6, <3>1, CopyDown
  <2>8. Shape'
    BY <1>1, <2>7, ShapeStays
  <2>9. (mem = Copied(call.d + 1 + n, call.s + 1 + n, call.n - n))'
    <3>1. /\ call'.d + 1 + n' = to - 1 /\ call'.s + 1 + n' = from - 1
          /\ call'.n - n' = j + 1
      BY <1>1, <2>1, <2>4
    <3> QED
      BY <1>1, <2>7, <3>1 DEF Copied
  <2>10. n' \in 0 .. call'.n /\ d' = call'.d + n' /\ s' = call'.s + n'
    BY <1>1, <2>1, <2>2, <2>3
  <2>11. InMemmoveDown'
    BY <1>1, <1>5, <2>1, <2>2, <2>9, <2>10 DEF InMemmoveDown
  <2> QED
    BY <1>1, <2>1, <2>8, <2>11 DEF InMemmove
<1> QED
  BY <1>2, <1>3, <1>4, <1>5 DEF InMemmove

(* The copies of strings: strcpy and strncpy from the start, strcat and    *)
(* strncat from the end of the first string on.                            *)
StringCopies == {"strcpy", "strncpy", "strcat", "strncat"}
Bounded == call.fn \in {"strncpy", "strncat"}
SLength == Length(old, call.s)

InStringCopy ==
    /\ d \in CopyTo .. CopyTo + SLength /\ s = call.s + (d - CopyTo)
    /\ n = (IF Bounded THEN call.n - (d - CopyTo) ELSE call.n)
    /\ Bounded => n \in Nat
    /\ mem = Copied(CopyTo, call.s, d - CopyTo)

LEMMA StringCopyCall ==
    ASSUME Shape, call.fn \in StringCopies
    PROVE  /\ call.fn \in Copying \ {"memmove"} /\ call.n \in Nat
           /\ call.d \in Addr /\ call.d \in Nat /\ CopyTo \in Nat
           /\ CopyTo + SLength <= Size /\ CopyTo >= 1
           /\ CopyTo + SLength < call.s \/ call.s + SLength < CopyTo
           /\ CopyFrom = call.s
           /\ CopyCount = IF Bounded THEN Min({call.n, SLength}) ELSE SLength
           /\ call.fn \in {"strcat", "strncat"} =>
                /\ Joins /\ CopyTo = EndOf(old, call.d) /\ CopyTo \in call.d .. Size
                /\ old[CopyTo] = 0 /\ \A k \in call.d .. CopyTo - 1 : old[k] # 0
           /\ call.fn \in {"strcpy", "strncpy"} => ~ Joins /\ CopyTo = call.d
<1>1. /\ call.fn \in Copying \ {"memmove"} /\ call.d \in Addr
      /\ call.n \in 0 .. Size
  BY Calls DEF Copying, StringCopies
<1>2. call.n \in Nat
  BY <1>1, Sizes
<1>3. call.d \in Nat /\ call.d >= 1
  BY <1>1, Sizes DEF Addr
<1>4. SLength \in Nat /\ call.s \in Nat
  BY SourceEnds DEF StringCopies, SLength
<1>5. CopyFrom = call.s
  BY <1>4 DEF CopyFrom, Shift, StringCopies
<1>6. CopyCount = IF Bounded THEN Min({call.n, SLength}) ELSE SLength
  BY DEF CopyCount, StringCopies, Bounded, SLength
<1> DEFINE joins == call.fn \in {"strcat", "strncat"}
           room == SLength + 1 + (IF joins THEN Length(old, call.d) ELSE 0)
<1>7. Within(call.d, room) /\ Apart(call.d, room, call.s, SLength + 1)
  BY Zenon DEF Shape, Legal, StringCopies, SLength
<1>8. CASE joins
  <2>1. Joins /\ CopyTo = EndOf(old, call.d) /\ IsString(old, call.d)
    BY <1>8 DEF Joins, CopyTo, Shape, Legal
  <2>2. /\ CopyTo \in call.d .. Size /\ CopyTo \in Addr /\ old[CopyTo] = 0
        /\ \A k \in call.d .. CopyTo - 1 : old[k] # 0
        /\ Length(old, call.d) \in Nat /\ CopyTo = call.d + Length(old, call.d)
    BY <1>1, <2>1, Ends
  <2>3. room = SLength + 1 + Length(old, call.d)
    BY <1>8
  <2> HIDE DEF room
  <2>4. CopyTo \in Nat /\ CopyTo >= 1
    BY <2>2, Sizes DEF Addr
  <2>5. CopyTo + SLength <= Size /\ (CopyTo + SLength < call.s \/ call.s + SLength < CopyTo)
    BY <1>3, <1>4, <1>7, <2>2, <2>3, <2>4, Sizes DEF Within, Apart
  <2> QED
    BY <1>1, <1>2, <1>3, <1>5, <1>6, <1>8, <2>1, <2>2, <2>4, <2>5
<1>9. CASE ~ joins
  <2>1. ~ Joins /\ CopyTo = call.d /\ call.fn \in {"strcpy", "strncpy"}
    BY <1>3, <1>9 DEF Joins, CopyTo, Shift, StringCopies
  <2>2. room = SLength + 1
    BY <1>4, <1>9
  <2> HIDE DEF room
  <2>3. CopyTo + SLength <= Size /\ (CopyTo + SLength < call.s \/ call.s + SLength < CopyTo)
    BY <1>3, <1>4, <1>7, <2>1, <2>2, Sizes DEF Within, Apart
  <2> QED
    BY <1>1, <1>2, <1>3, <1>5, <1>6, <1>9, <2>1, <2>3
<1> QED
  BY <1>8, <1>9

(* Where a copy of a string stands.                                        *)
LEMMA StringCopyAt ==
    ASSUME Shape, call.fn \in StringCopies, InStringCopy
    PROVE  /\ d - CopyTo \in Nat /\ d = CopyTo + (d - CopyTo) /\ d \in Addr /\ d \in Nat
           /\ s = call.s + (d - CopyTo) /\ s \in call.s .. SEnd /\ s \in Addr
           /\ s \notin CopyTo .. d - 1 /\ mem[s] = old[s]
<1>1. /\ CopyTo \in Nat /\ CopyTo >= 1 /\ CopyTo + SLength <= Size
      /\ CopyTo + SLength < call.s \/ call.s + SLength < CopyTo
  BY StringCopyCall
<1>2. /\ SLength \in Nat /\ call.s \in Nat /\ SEnd = call.s + SLength /\ SEnd <= Size
      /\ call.s >= 1
  BY SourceEnds, Sizes DEF StringCopies, SLength, Addr
<1>3. d \in CopyTo .. CopyTo + SLength /\ s = call.s + (d - CopyTo)
  BY DEF InStringCopy
<1>4. /\ d - CopyTo \in Nat /\ d = CopyTo + (d - CopyTo) /\ d \in Nat /\ d \in 1 .. Size
      /\ s \in call.s .. SEnd /\ s \in 1 .. Size /\ s \notin CopyTo .. d - 1
      /\ CopyTo + (d - CopyTo) - 1 = d - 1
  BY <1>1, <1>2, <1>3, Sizes
<1>5. mem[s] = old[s]
  BY <1>4 DEF InStringCopy, Copied, Addr
<1> QED
  BY <1>3, <1>4, <1>5 DEF Addr

LEMMA StringCopyOn ==
    ASSUME Shape, call.fn \in StringCopies, InStringCopy,
           mem[s] # 0, ~ (Bounded /\ n = 0), Put(d, mem[s]), d' = d + 1, s' = s + 1,
           n' = IF Bounded THEN n - 1 ELSE n, UNCHANGED <<old, call>>
    PROVE  Shape' /\ InStringCopy'
<1> DEFINE j == d - CopyTo
<1>1. /\ j \in Nat /\ d = CopyTo + j /\ s = call.s + j /\ d \in Addr /\ s \in Addr
      /\ s \in call.s .. SEnd /\ s \notin CopyTo .. d - 1 /\ mem[s] = old[s] /\ d \in Nat
  BY StringCopyAt
<1>2. /\ CopyTo \in Nat /\ SLength \in Nat /\ call.s \in Nat /\ call.s \in Addr
      /\ SEnd = call.s + SLength /\ old[SEnd] = 0 /\ call.n \in Nat
  BY SourceEnds, StringCopyCall DEF StringCopies, SLength
<1>3. s # SEnd
  BY <1>1, <1>2
<1>4. CopyTo' = CopyTo /\ SLength' = SLength /\ Bounded' = Bounded
  BY DEF CopyTo, Joins, Shift, SLength, Bounded
<1>5. mem = Copied(CopyTo, call.s, j)
  BY DEF InStringCopy
<1>6. d' - CopyTo = j + 1 /\ j < SLength /\ d' = CopyTo + (j + 1) /\ s' = call.s + (j + 1)
  BY <1>1, <1>2, <1>3
<1>7. n' = (IF Bounded THEN call.n - (j + 1) ELSE call.n) /\ (Bounded => n' \in Nat)
  BY <1>2, <1>1 DEF InStringCopy
<1> HIDE DEF j
<1>8. mem' = Copied(CopyTo, call.s, j + 1) /\ mem' \in [Addr -> 0 .. 127]
  <2>1. Put(CopyTo + j, mem[call.s + j])
    BY <1>1
  <2>2. CopyTo + j \in Addr /\ call.s + j \in Addr
    BY <1>1
  <2>3. call.s + j \notin CopyTo .. CopyTo + j - 1
    BY <1>1, <1>2
  <2> QED
    BY <1>1, <1>2, <1>5, <2>1, <2>2, <2>3, CopyUp
<1>9. Shape'
  BY <1>8, ShapeStays
<1>10. (mem = Copied(CopyTo, call.s, d - CopyTo))'
  <2>1. d' - CopyTo' = j + 1
    BY <1>4, <1>6
  <2> QED
    BY <1>4, <1>8, <2>1 DEF Copied
<1>11. d' \in CopyTo' .. CopyTo' + SLength' /\ s' = call'.s + (d' - CopyTo')
  BY <1>1, <1>2, <1>4, <1>6
<1>12. /\ n' = (IF Bounded' THEN call'.n - (d' - CopyTo') ELSE call'.n)
       /\ Bounded' => n' \in Nat
  BY <1>4, <1>6, <1>7
<1>13. InStringCopy'
  BY <1>10, <1>11, <1>12 DEF InStringCopy
<1> QED
  BY <1>9, <1>13

LEMMA StringCopyEnds ==
    ASSUME Shape, call.fn \in StringCopies, InStringCopy,
           mem[s] = 0 \/ (Bounded /\ n = 0)
    PROVE  /\ mem = Copied(CopyTo, CopyFrom, CopyCount) /\ CopyCount \in Nat
           /\ d = CopyTo + CopyCount
<1> DEFINE j == d - CopyTo
<1>1. /\ j \in Nat /\ d = CopyTo + j /\ s = call.s + j
      /\ s \in call.s .. SEnd /\ mem[s] = old[s]
  BY StringCopyAt
<1>2. /\ CopyTo \in Nat /\ SLength \in Nat /\ call.s \in Nat /\ call.n \in Nat
      /\ SEnd = call.s + SLength /\ \A k \in call.s .. SEnd - 1 : old[k] # 0
  BY SourceEnds, StringCopyCall DEF StringCopies, SLength
<1>3. mem[s] = 0 => j = SLength
  <2>1. SUFFICES ASSUME mem[s] = 0 PROVE j = SLength
    OBVIOUS
  <2>2. s \notin call.s .. SEnd - 1
    BY <1>1, <1>2, <2>1
  <2> QED
    BY <1>1, <1>2, <2>2
<1>4. j <= SLength /\ (Bounded => j <= call.n /\ n = call.n - j /\ n \in Nat)
  BY <1>1, <1>2 DEF InStringCopy
<1>5. mem = Copied(CopyTo, call.s, j)
  BY DEF InStringCopy
<1> HIDE DEF j
<1>6. j = CopyCount
  <2>1. CopyCount = IF Bounded THEN Min({call.n, SLength}) ELSE SLength
    BY StringCopyCall
  <2>2. CASE Bounded
    <3>1. j \in {call.n, SLength} /\ \A y \in {call.n, SLength} : j <= y
      BY <1>1, <1>2, <1>3, <1>4, <2>2
    <3>2. {call.n, SLength} \in SUBSET Int
      BY <1>2
    <3>3. Min({call.n, SLength}) = j
      <4> DEFINE S == {call.n, SLength}
      <4> HIDE DEF S
      <4>1. S \in SUBSET Int /\ j \in S /\ \A y \in S : j <= y
        BY <3>1, <3>2 DEF S
      <4>2. Min(S) = j
        BY <4>1, MinIs
      <4> QED
        BY <4>2 DEF S
    <3> QED
      BY <2>1, <2>2, <3>3
  <2>3. CASE ~ Bounded
    BY <1>3, <2>1, <2>3
  <2> QED
    BY <2>2, <2>3
<1> QED
  BY <1>1, <1>5, <1>6, StringCopyCall

InStrcpy ==
    call.fn \in {"strcpy", "strncpy"} /\ pc = call.fn /\ InStringCopy

LEMMA StrcpyStep ==
    ASSUME Shape, InStrcpy, Strcpy
    PROVE  /\ Shape'
           /\ \/ InStrcpy'
              \/ pc' = "done" /\ Answers' /\ Writes'
<1>1. /\ call.fn \in StringCopies /\ call.fn \in Copying \ {"memmove"}
      /\ pc = "strncpy" <=> Bounded
      /\ call.fn \in {"strcpy", "strncpy"} /\ UNCHANGED <<old, call>>
  BY DEF InStrcpy, StringCopies, Copying, Bounded, Strcpy
<1>2. ~ Joins
  BY <1>1, StringCopyCall
<1>3. CASE mem[s] = 0 \/ (Bounded /\ n = 0)
  <2>1. mem' = mem /\ pc' = "done" /\ result' = d
    BY <1>1, <1>3 DEF Strcpy, Answer, Return
  <2>2. /\ mem = Copied(CopyTo, CopyFrom, CopyCount) /\ CopyCount \in Nat
        /\ d = CopyTo + CopyCount
    BY <1>1, <1>3, StringCopyEnds DEF InStrcpy
  <2>3. Writes'
    BY <1>1, <1>2, <2>1, <2>2, CopyDone
  <2>4. CopyEnd = d /\ CopyEnd' = CopyEnd
    <3>1. CopyTo \in Nat
      BY <1>1, StringCopyCall
    <3>2. CopyEnd = d
      BY <1>2, <2>2, <3>1 DEF CopyEnd
    <3> QED
      BY <1>1, <3>2 DEF CopyEnd, CopyTo, CopyCount, Joins, Shift
  <2>5. (call.fn \in Copying \ {"memmove"} /\ result = CopyEnd)'
    BY <1>1, <2>1, <2>4
  <2>6. Answers'
    BY <2>5, CopyAnswer, PTL
  <2>7. Shape'
    BY <1>1, <2>1, ShapeStays DEF Shape
  <2> QED
    BY <2>1, <2>3, <2>6, <2>7
<1>4. CASE ~ (mem[s] = 0 \/ (Bounded /\ n = 0))
  <2>1. /\ Put(d, mem[s]) /\ d' = d + 1 /\ s' = s + 1 /\ pc' = pc
        /\ n' = IF Bounded THEN n - 1 ELSE n
    BY <1>1, <1>4 DEF Strcpy, Repeat
  <2>2. Shape' /\ InStringCopy'
    BY <1>1, <1>4, <2>1, StringCopyOn DEF InStrcpy
  <2> QED
    BY <1>1, <2>1, <2>2 DEF InStrcpy
<1> QED
  BY <1>3, <1>4

InStrcat ==
    /\ call.fn \in {"strcat", "strncat"} /\ pc = call.fn
    /\ \/ i = 0 /\ d \in call.d .. CopyTo /\ s = call.s /\ n = call.n /\ Unwritten
       \/ i = 1 /\ InStringCopy

LEMMA StrcatStep ==
    ASSUME Shape, InStrcat, Strcat
    PROVE  /\ Shape'
           /\ \/ InStrcat'
              \/ pc' = "done" /\ Answers' /\ Writes'
<1>1. /\ call.fn \in StringCopies /\ call.fn \in Copying \ {"memmove"}
      /\ pc = "strncat" <=> Bounded
      /\ call.fn \in {"strcat", "strncat"} /\ UNCHANGED <<old, call>> /\ pc = call.fn
  BY DEF InStrcat, StringCopies, Copying, Bounded, Strcat
<1>2. /\ Joins /\ CopyTo \in call.d .. Size /\ call.d \in Nat /\ CopyTo \in Nat /\ CopyTo >= 1
      /\ CopyTo + SLength <= Size
      /\ old[CopyTo] = 0 /\ \A k \in call.d .. CopyTo - 1 : old[k] # 0
      /\ CopyFrom = call.s /\ call.n \in Nat
  BY <1>1, StringCopyCall
<1>3. CopyTo' = CopyTo /\ CopyCount' = CopyCount /\ CopyFrom' = CopyFrom /\ Joins' = Joins
      /\ SLength' = SLength /\ Bounded' = Bounded
  BY <1>1 DEF CopyTo, CopyCount, CopyFrom, Joins, Shift, SLength, Bounded
<1>4. SLength \in Nat /\ call.s \in Nat
  BY <1>1, SourceEnds DEF StringCopies, SLength
<1>5. CASE i = 0
  <2>1. /\ d \in call.d .. CopyTo /\ s = call.s /\ n = call.n /\ mem = old
        /\ mem' = mem /\ pc' = pc /\ s' = s /\ n' = n
        /\ mem[d] = 0 => i' = 1 /\ d' = d
        /\ mem[d] # 0 => i' = 0 /\ d' = d + 1
    BY <1>5 DEF InStrcat, Strcat, Repeat, Unwritten
  <2>2. Shape'
    BY <1>1, <2>1, ShapeStays DEF Shape
  <2>3. CASE mem[d] = 0
    <3>1. d = CopyTo
      BY <1>2, <2>1, <2>3
    <3>2. mem = Copied(CopyTo, call.s, 0)
      BY <1>2, <1>4, <2>1, NothingCopied
    <3>3. (mem = Copied(CopyTo, call.s, d - CopyTo))'
      <4>1. d' - CopyTo' = 0
        BY <1>2, <1>3, <2>1, <2>3, <3>1
      <4> QED
        BY <1>1, <1>3, <2>1, <3>2, <4>1 DEF Copied
    <3>4. /\ d' \in CopyTo' .. CopyTo' + SLength' /\ s' = call'.s + (d' - CopyTo')
          /\ n' = (IF Bounded' THEN call'.n - (d' - CopyTo') ELSE call'.n)
          /\ Bounded' => n' \in Nat
      BY <1>1, <1>2, <1>3, <1>4, <2>1, <2>3, <3>1
    <3>5. InStringCopy'
      BY <3>3, <3>4 DEF InStringCopy
    <3> QED
      BY <1>1, <2>1, <2>2, <2>3, <3>5 DEF InStrcat
  <2>4. CASE mem[d] # 0
    <3>1. d # CopyTo
      BY <1>2, <2>1, <2>4
    <3>2. (d \in call.d .. CopyTo)'
      BY <1>1, <1>2, <1>3, <2>1, <2>4, <3>1
    <3>3. InStrcat'
      BY <1>1, <2>1, <2>4, <3>2 DEF InStrcat, Unwritten
    <3> QED
      BY <2>2, <3>3
  <2> QED
    BY <2>3, <2>4
<1>6. CASE i = 1 /\ (mem[s] = 0 \/ (Bounded /\ n = 0))
  <2>1. Put(d, 0) /\ pc' = "done" /\ result' = d + 1
    BY <1>1, <1>6 DEF Strcat, Return
  <2>2. InStringCopy
    BY <1>6 DEF InStrcat
  <2>3. /\ mem = Copied(CopyTo, CopyFrom, CopyCount) /\ CopyCount \in Nat
        /\ d = CopyTo + CopyCount /\ d \in Addr
    BY <1>1, <1>6, <2>2, StringCopyEnds, StringCopyAt
  <2> DEFINE In(a) == a \in CopyTo .. CopyTo + CopyCount - 1
             From(a) == old[CopyFrom + (a - CopyTo)]
  <2>4. mem = [a \in Addr |-> IF In(a) THEN From(a) ELSE old[a]]
    BY <2>3, Zenon DEF Copied
  <2>5. mem' = [a \in Addr |-> IF a = d THEN 0 ELSE mem[a]]
    BY <2>1, <2>4 DEF Put
  <2>6. ASSUME NEW a \in Addr
        PROVE  (IF a = d THEN 0 ELSE mem[a])
                 = IF In(a) THEN From(a) ELSE IF Joins /\ a = CopyTo + CopyCount THEN 0 ELSE old[a]
    <3>1. mem[a] = IF In(a) THEN From(a) ELSE old[a]
      BY <2>4
    <3>2. CASE a = d
      <4>1. ~ In(a)
        BY <1>2, <2>3, <3>2
      <4> QED
        BY <1>2, <2>3, <3>2, <4>1
    <3>3. CASE a # d
      <4> HIDE DEF In, From
      <4> QED
        BY <2>3, <3>1, <3>3
    <3> QED
      BY <3>2, <3>3
  <2>7. mem' = WithCopy
    BY <2>5, <2>6 DEF WithCopy
  <2>8. WithCopy' = WithCopy
    BY <1>1, <1>3 DEF WithCopy
  <2>9. (call.fn \in Copying /\ mem = WithCopy)'
    BY <1>1, <2>7, <2>8
  <2>10. Writes'
    BY <2>9, WithCopyWrites, PTL
  <2>11. (call.fn \in Copying \ {"memmove"} /\ result = CopyEnd)'
    BY <1>1, <1>2, <1>3, <2>1, <2>3 DEF CopyEnd
  <2>12. Answers'
    BY <2>11, CopyAnswer, PTL
  <2>13. mem' \in [Addr -> 0 .. 127]
    <3>1. \A a \in Addr : (IF a = d THEN 0 ELSE mem[a]) \in 0 .. 127
      BY OldBytes
    <3> QED
      BY <2>5, <3>1
  <2>14. Shape'
    BY <1>1, <2>13, ShapeStays
  <2> QED
    BY <2>1, <2>10, <2>12, <2>14
<1>7. CASE i = 1 /\ ~ (mem[s] = 0 \/ (Bounded /\ n = 0))
  <2>1. /\ Put(d, mem[s]) /\ d' = d + 1 /\ s' = s + 1 /\ pc' = pc /\ i' = i
        /\ n' = IF Bounded THEN n - 1 ELSE n
    BY <1>1, <1>7 DEF Strcat, Repeat
  <2>2. Shape' /\ InStringCopy'
    BY <1>1, <1>7, <2>1, StringCopyOn DEF InStrcat
  <2> QED
    BY <1>1, <1>7, <2>1, <2>2 DEF InStrcat
<1> QED
  BY <1>5, <1>6, <1>7 DEF InStrcat

-----------------------------------------------------------------------------
(* Comparisons.                                                            *)
Fold(x) == IF call.fn \in {"strcasecmp", "strncasecmp"} THEN tolower(x) ELSE x

CompareAnswers == result = IF ComparesEqual THEN 0 ELSE -1

LEMMA CompareAnswer == call.fn \in Comparing /\ CompareAnswers => Answers
BY DEF Answers, CompareAnswers, Comparing, Copying

LEMMA CompareDone ==
    ASSUME Shape, call.fn \in Comparing, Unwritten, UNCHANGED <<mem, old, call>>,
           result' = IF ComparesEqual THEN 0 ELSE -1
    PROVE  Shape' /\ Answers' /\ Writes'
<1>1. ComparesEqual' = ComparesEqual
  BY DEF ComparesEqual
<1>2. (call.fn \in Comparing /\ CompareAnswers)'
  BY <1>1 DEF CompareAnswers
<1>3. (Unwritten /\ call.fn \in Reading \cup Comparing \cup {"internal_atoi", "atoi"})'
  BY DEF Unwritten
<1>4. Shape'
  BY ShapeStays DEF Shape
<1> QED
  BY <1>2, <1>3, <1>4, CompareAnswer, ReadingWrites, PTL

(* memcmp and strncasecmp: all bytes but the last n are equal.             *)
RegionsSame(count) ==
    \A k \in 1 .. count : Fold(old[call.d + k - 1]) = Fold(old[call.s + k - 1])

InRegions ==
    /\ n \in 0 .. call.n /\ Unwritten
    /\ d = call.d + (call.n - n) /\ s = call.s + (call.n - n)
    /\ RegionsSame(call.n - n)

LEMMA RegionsCompare ==
    ASSUME Shape, call.fn \in {"memcmp", "strncasecmp"}
    PROVE  /\ call.n \in Nat /\ call.d \in Nat /\ call.s \in Nat
           /\ ComparesEqual <=> RegionsSame(call.n)
<1>1. call.n \in Nat /\ call.d \in Nat /\ call.s \in Nat
  <2>1. call.d \in Addr /\ call.s \in Addr /\ call.n \in 0 .. Size
    BY Calls DEF Comparing
  <2>2. call.n \in Nat
    BY <2>1, Sizes
  <2> QED
    BY <2>1, <2>2, Sizes
<1> DEFINE one == Bytes(old, call.d, call.n)
           two == Bytes(old, call.s, call.n)
<1>2. CASE call.fn = "memcmp"
  <2>1. ComparesEqual <=> one = two
    BY <1>2 DEF ComparesEqual
  <2>2. one = two <=> \A k \in 1 .. call.n : old[call.d + k - 1] = old[call.s + k - 1]
    BY <1>1, BytesAre DEF Bytes
  <2> QED
    BY <1>1, <1>2, <2>1, <2>2 DEF RegionsSame, Fold
<1>3. CASE call.fn = "strncasecmp"
  <2>1. ComparesEqual <=> Folded(one) = Folded(two)
    BY <1>3 DEF ComparesEqual
  <2>2. /\ Folded(one) = [k \in 1 .. call.n |-> tolower(old[call.d + k - 1])]
        /\ Folded(two) = [k \in 1 .. call.n |-> tolower(old[call.s + k - 1])]
    BY <1>1 DEF Folded, Bytes
  <2>3. Folded(one) = Folded(two)
          <=> \A k \in 1 .. call.n : tolower(old[call.d + k - 1]) = tolower(old[call.s + k - 1])
    BY <2>2
  <2> QED
    BY <1>1, <1>3, <2>1, <2>3 DEF RegionsSame, Fold
<1> QED
  BY <1>1, <1>2, <1>3

LEMMA RegionsOn ==
    ASSUME Shape, call.fn \in {"memcmp", "strncasecmp"}, InRegions, n # 0,
           Fold(mem[d]) = Fold(mem[s]), d' = d + 1, s' = s + 1, n' = n - 1,
           UNCHANGED <<mem, old, call>>
    PROVE  Shape' /\ InRegions'
<1> DEFINE j == call.n - n
<1>1. call.n \in Nat /\ call.d \in Nat /\ call.s \in Nat
  BY RegionsCompare
<1>2. n \in 0 .. call.n /\ d = call.d + j /\ s = call.s + j /\ RegionsSame(j) /\ mem = old
  BY DEF InRegions, Unwritten
<1>3. j \in Nat /\ call.n - (n - 1) = j + 1 /\ (j + 1) - 1 = j
  BY <1>1, <1>2
<1> HIDE DEF j
<1>4. RegionsSame(j + 1)
  <2>1. ASSUME NEW k \in 1 .. j + 1
        PROVE  Fold(old[call.d + k - 1]) = Fold(old[call.s + k - 1])
    <3>1. CASE k = j + 1
      <4>1. call.d + k - 1 = call.d + j /\ call.s + k - 1 = call.s + j
        BY <1>1, <1>3, <3>1
      <4> QED
        BY <1>2, <4>1
    <3>2. CASE k # j + 1
      <4>1. k \in 1 .. j
        BY <1>3, <3>2
      <4> QED
        BY <1>2, <4>1 DEF RegionsSame
    <3> QED
      BY <3>1, <3>2
  <2> QED
    BY <2>1 DEF RegionsSame
<1>5. RegionsSame(call.n - n)'
  <2>1. call'.n - n' = j + 1
    BY <1>3
  <2> QED
    BY <1>4, <2>1 DEF RegionsSame, Fold
<1>6. n' \in 0 .. call'.n /\ d' = call'.d + (call'.n - n') /\ s' = call'.s + (call'.n - n')
  BY <1>1, <1>2, <1>3
<1>7. InRegions'
  BY <1>5, <1>6 DEF InRegions, Unwritten
<1>8. Shape'
  BY ShapeStays DEF Shape
<1> QED
  BY <1>7, <1>8

LEMMA RegionsEnd ==
    ASSUME Shape, call.fn \in {"memcmp", "strncasecmp"}, InRegions
    PROVE  /\ n = 0 => ComparesEqual
           /\ n # 0 /\ Fold(mem[d]) # Fold(mem[s]) => ~ ComparesEqual
<1> DEFINE j == call.n - n
<1>1. call.n \in Nat /\ call.d \in Nat /\ call.s \in Nat
      /\ (ComparesEqual <=> RegionsSame(call.n))
  BY RegionsCompare
<1>2. n \in 0 .. call.n /\ d = call.d + j /\ s = call.s + j /\ RegionsSame(j) /\ mem = old
  BY DEF InRegions, Unwritten
<1>3. n = 0 => ComparesEqual
  <2>1. n = 0 => j = call.n
    BY <1>1
  <2> QED
    BY <1>1, <1>2, <2>1
<1>4. ASSUME n # 0, Fold(mem[d]) # Fold(mem[s]) PROVE ~ RegionsSame(call.n)
  <2>1. /\ j + 1 \in 1 .. call.n
        /\ call.d + (j + 1) - 1 = d /\ call.s + (j + 1) - 1 = s
    BY <1>1, <1>2, <1>4
  <2> HIDE DEF j
  <2> QED
    BY <1>2, <1>4, <2>1 DEF RegionsSame
<1> QED
  BY <1>1, <1>3, <1>4

LEMMA MemcmpStep ==
    ASSUME Shape, call.fn = "memcmp", InRegions, Memcmp
    PROVE  /\ Shape' /\ (call.fn = "memcmp")'
           /\ \/ pc' = "memcmp" /\ InRegions'
              \/ pc' = "done" /\ Answers' /\ Writes'
<1>1. UNCHANGED <<mem, old, call>> /\ pc = "memcmp" /\ \A x : Fold(x) = x
  BY DEF Memcmp, Running, Answer, Fold
<1>2. CASE n = 0 \/ mem[d] # mem[s]
  <2>1. pc' = "done" /\ result' = IF n = 0 THEN 0 ELSE -1
    BY <1>2 DEF Memcmp, Answer, Return
  <2>2. ComparesEqual <=> n = 0
    BY <1>1, <1>2, RegionsEnd
  <2> QED
    BY <1>1, <2>1, <2>2, CompareDone DEF InRegions, Comparing
<1>3. CASE ~ (n = 0 \/ mem[d] # mem[s])
  <2>1. d' = d + 1 /\ s' = s + 1 /\ n' = n - 1 /\ pc' = "memcmp"
    BY <1>1, <1>3 DEF Memcmp, Repeat
  <2> QED
    BY <1>1, <1>3, <2>1, RegionsOn
<1> QED
  BY <1>2, <1>3

LEMMA StrncasecmpStep ==
    ASSUME Shape, call.fn = "strncasecmp", InRegions, Strncasecmp
    PROVE  /\ Shape' /\ (call.fn = "strncasecmp")'
           /\ \/ pc' = "strncasecmp" /\ InRegions'
              \/ pc' = "done" /\ Answers' /\ Writes'
<1>1. UNCHANGED <<mem, old, call>> /\ pc = "strncasecmp"
  BY DEF Strncasecmp, Running, Answer
<1>2. Same(mem[d], mem[s]) <=> Fold(mem[d]) = Fold(mem[s])
  BY <1>1 DEF Same, Fold
<1>3. CASE n = 0 \/ ~ Same(mem[d], mem[s])
  <2>1. pc' = "done" /\ result' = IF n = 0 THEN 0 ELSE -1
    BY <1>3 DEF Strncasecmp, Answer, Return
  <2>2. ComparesEqual <=> n = 0
    BY <1>2, <1>3, RegionsEnd
  <2> QED
    BY <1>1, <2>1, <2>2, CompareDone DEF InRegions, Comparing
<1>4. CASE ~ (n = 0 \/ ~ Same(mem[d], mem[s]))
  <2>1. d' = d + 1 /\ s' = s + 1 /\ n' = n - 1 /\ pc' = "strncasecmp"
    BY <1>1, <1>4 DEF Strncasecmp, Repeat
  <2> QED
    BY <1>1, <1>2, <1>4, <2>1, RegionsOn
<1> QED
  BY <1>3, <1>4

LEMMA PrefixIs ==
    ASSUME NEW one \in Seq(Int), NEW two \in Seq(Int)
    PROVE  IsPrefix(one, two) <=> /\ Len(one) <= Len(two)
                                  /\ \A k \in 1 .. Len(one) : one[k] = two[k]
<1> DEFINE l == Len(one)
           left == SubSeq(one, 1, l)
           right == SubSeq(two, 1, l)
<1>1. SUFFICES ASSUME l <= Len(two)
               PROVE  left = right <=> \A k \in 1 .. l : one[k] = two[k]
  BY DEF IsPrefix
<1>2. l \in Nat /\ Len(two) \in Nat
  BY LenProperties
<1>3. /\ \A k \in 1 .. l : one[k] \in Int
      /\ \A k \in 1 .. l : two[k] \in Int
  <2>1. \A k \in 1 .. l : k \in 1 .. Len(two)
    BY <1>1, <1>2
  <2> QED
    BY <2>1, ElementOfSeq
<1>4. left \in Seq(Int) /\ Len(left) = l /\ \A k \in 1 .. l : left[k] = one[k]
  BY <1>2, <1>3, SubSeqProperties
<1>5. right \in Seq(Int) /\ Len(right) = l /\ \A k \in 1 .. l : right[k] = two[k]
  BY <1>2, <1>3, SubSeqProperties
<1> HIDE DEF left, right
<1>6. (\A k \in 1 .. l : left[k] = right[k]) => left = right
  BY <1>4, <1>5, SeqEqual
<1> QED
  BY <1>4, <1>5, <1>6

(* strcmp and strcasecmp: the chars before d and s are equal.              *)
DEnd == EndOf(old, call.d)

CharsSame(count) ==
    \A k \in 1 .. count : Fold(old[call.d + k - 1]) = Fold(old[call.s + k - 1])

InStrcmp ==
    /\ call.fn \in {"strcmp", "strcasecmp"} /\ pc = call.fn /\ Unwritten
    /\ d \in call.d .. DEnd /\ s = call.s + (d - call.d) /\ s <= SEnd
    /\ CharsSame(d - call.d)

LEMMA StringsCompare ==
    ASSUME Shape, call.fn \in {"strcmp", "strcasecmp"}
    PROVE  /\ call.d \in Nat /\ call.s \in Nat /\ DEnd \in Nat /\ SEnd \in Nat
           /\ DEnd >= call.d /\ SEnd >= call.s
           /\ old[DEnd] = 0 /\ old[SEnd] = 0
           /\ \A k \in call.d .. DEnd - 1 : old[k] # 0
           /\ \A k \in call.s .. SEnd - 1 : old[k] # 0
           /\ ComparesEqual <=> \/ DEnd - call.d <= SEnd - call.s /\ CharsSame(DEnd - call.d)
                                \/ SEnd - call.s <= DEnd - call.d /\ CharsSame(SEnd - call.s)
<1>1. /\ call.s \in Nat /\ SEnd \in Nat /\ old[SEnd] = 0
      /\ \A k \in call.s .. SEnd - 1 : old[k] # 0
      /\ Length(old, call.s) \in Nat /\ SEnd = call.s + Length(old, call.s)
      /\ SEnd \in Addr /\ call.s >= 1
  BY SourceEnds, Sizes DEF Addr
<1>2. call.d \in Addr /\ IsString(old, call.d)
  BY Calls DEF Shape, Legal, Comparing
<1>3. /\ old[DEnd] = 0 /\ \A k \in call.d .. DEnd - 1 : old[k] # 0
      /\ Length(old, call.d) \in Nat /\ DEnd = call.d + Length(old, call.d)
      /\ DEnd \in Addr /\ call.d \in Nat /\ DEnd \in Nat /\ call.d >= 1
  BY <1>2, Ends, Sizes DEF DEnd, Addr
<1> DEFINE ld == DEnd - call.d
           ls == SEnd - call.s
           one == Text(old, call.d)
           two == Text(old, call.s)
           fold(t) == IF call.fn = "strcasecmp" THEN Folded(t) ELSE t
<1>4. ComparesEqual <=> IsPrefix(fold(one), fold(two)) \/ IsPrefix(fold(two), fold(one))
  <2>1. CASE call.fn = "strcmp"
    BY <2>1 DEF ComparesEqual
  <2>2. CASE call.fn = "strcasecmp"
    BY <2>2 DEF ComparesEqual
  <2> QED
    BY <2>1, <2>2
<1>5. /\ ld \in Nat /\ ls \in Nat /\ Length(old, call.d) = ld /\ Length(old, call.s) = ls
      /\ call.d + ld = DEnd /\ call.s + ls = SEnd
  BY <1>1, <1>3
<1> HIDE DEF ld, ls
<1>6. \A a \in Addr : old[a] \in Int /\ Fold(old[a]) \in Int
  BY OldBytes DEF Fold, tolower
<1>7. /\ fold(one) \in Seq(Int) /\ Len(fold(one)) = ld
      /\ \A k \in 1 .. ld : fold(one)[k] = Fold(old[call.d + k - 1])
  <2>1. /\ Len(one) = ld /\ DOMAIN one = 1 .. ld /\ one = [k \in 1 .. ld |-> old[call.d + k - 1]]
        /\ \A k \in 1 .. ld : one[k] = old[call.d + k - 1]
    BY <1>5, BytesAre DEF Text, Bytes
  <2>2. fold(one) = [k \in 1 .. ld |-> Fold(old[call.d + k - 1])]
    BY <2>1 DEF Folded, Fold
  <2>3. \A k \in 1 .. ld : Fold(old[call.d + k - 1]) \in Int
    BY <1>3, <1>5, <1>6, Sizes DEF Addr
  <2> HIDE DEF fold, one
  <2> QED
    BY <1>5, <2>2, <2>3
<1>8. /\ fold(two) \in Seq(Int) /\ Len(fold(two)) = ls
      /\ \A k \in 1 .. ls : fold(two)[k] = Fold(old[call.s + k - 1])
  <2>1. /\ Len(two) = ls /\ DOMAIN two = 1 .. ls /\ two = [k \in 1 .. ls |-> old[call.s + k - 1]]
        /\ \A k \in 1 .. ls : two[k] = old[call.s + k - 1]
    BY <1>5, BytesAre DEF Text, Bytes
  <2>2. fold(two) = [k \in 1 .. ls |-> Fold(old[call.s + k - 1])]
    BY <2>1 DEF Folded, Fold
  <2>3. \A k \in 1 .. ls : Fold(old[call.s + k - 1]) \in Int
    BY <1>1, <1>5, <1>6, Sizes DEF Addr
  <2> HIDE DEF fold, two
  <2> QED
    BY <1>5, <2>2, <2>3
<1>9. ComparesEqual <=> \/ ld <= ls /\ CharsSame(ld)
                        \/ ls <= ld /\ CharsSame(ls)
  <2> DEFINE x == fold(one)
             y == fold(two)
  <2> HIDE DEF fold, one, two
  <2>1. x \in Seq(Int) /\ y \in Seq(Int)
    BY <1>7, <1>8
  <2>2. IsPrefix(x, y) <=> Len(x) <= Len(y) /\ \A k \in 1 .. Len(x) : x[k] = y[k]
    BY <2>1, PrefixIs
  <2>3. IsPrefix(y, x) <=> Len(y) <= Len(x) /\ \A k \in 1 .. Len(y) : y[k] = x[k]
    BY <2>1, PrefixIs
  <2>4. /\ Len(x) = ld /\ \A k \in 1 .. ld : x[k] = Fold(old[call.d + k - 1])
        /\ Len(y) = ls /\ \A k \in 1 .. ls : y[k] = Fold(old[call.s + k - 1])
    BY <1>7, <1>8
  <2>5. ComparesEqual <=> IsPrefix(x, y) \/ IsPrefix(y, x)
    BY <1>4
  <2> HIDE DEF x, y
  <2>6. ASSUME ld <= ls
        PROVE  CharsSame(ld) <=> \A k \in 1 .. ld : x[k] = y[k]
    <3>1. \A k \in 1 .. ld : k \in 1 .. ls
      BY <1>5, <2>6
    <3> QED
      BY <2>4, <3>1 DEF CharsSame
  <2>7. ASSUME ls <= ld
        PROVE  CharsSame(ls) <=> \A k \in 1 .. ls : y[k] = x[k]
    <3>1. \A k \in 1 .. ls : k \in 1 .. ld
      BY <1>5, <2>7
    <3> QED
      BY <2>4, <3>1 DEF CharsSame
  <2> QED
    BY <2>2, <2>3, <2>4, <2>5, <2>6, <2>7
<1> QED
  BY <1>1, <1>3, <1>5, <1>9 DEF ld, ls

LEMMA StrcmpStep ==
    ASSUME Shape, InStrcmp, Strcmp
    PROVE  /\ Shape'
           /\ \/ InStrcmp'
              \/ pc' = "done" /\ Answers' /\ Writes'
<1>1. /\ UNCHANGED <<mem, old, call>> /\ mem = old
      /\ call.fn \in {"strcmp", "strcasecmp"} /\ pc = call.fn
  BY DEF Strcmp, Answer, InStrcmp, Unwritten
<1>2. /\ call.d \in Nat /\ call.s \in Nat /\ DEnd \in Nat /\ SEnd \in Nat
      /\ DEnd >= call.d /\ SEnd >= call.s
      /\ old[DEnd] = 0 /\ old[SEnd] = 0
      /\ \A k \in call.d .. DEnd - 1 : old[k] # 0
      /\ \A k \in call.s .. SEnd - 1 : old[k] # 0
      /\ ComparesEqual <=> \/ DEnd - call.d <= SEnd - call.s /\ CharsSame(DEnd - call.d)
                           \/ SEnd - call.s <= DEnd - call.d /\ CharsSame(SEnd - call.s)
  BY <1>1, StringsCompare
<1> DEFINE j == d - call.d
<1>3. /\ j \in Nat /\ d = call.d + j /\ s = call.s + j /\ d <= DEnd /\ s <= SEnd
      /\ CharsSame(j)
  BY <1>2 DEF InStrcmp
<1> HIDE DEF j
<1>4. DEnd' = DEnd /\ SEnd' = SEnd
  BY <1>1 DEF DEnd, SEnd
<1>5. Same(mem[d], mem[s]) <=> Fold(old[d]) = Fold(old[s])
  BY <1>1 DEF Same, Fold
<1>6. CASE StrcmpEnds
  <2>1. pc' = "done" /\ result' = 0
    BY <1>6 DEF Strcmp, Answer, Return
  <2>2. ComparesEqual
    <3>1. CASE mem[d] = 0
      <4>1. d \notin call.d .. DEnd - 1
        BY <1>1, <1>2, <3>1
      <4>2. d = DEnd
        BY <1>2, <1>3, <4>1
      <4>3. DEnd - call.d = j /\ j <= SEnd - call.s
        BY <1>2, <1>3, <4>2
      <4> QED
        BY <1>2, <1>3, <4>3
    <3>2. CASE mem[s] = 0
      <4>1. s \notin call.s .. SEnd - 1
        BY <1>1, <1>2, <3>2
      <4>2. s = SEnd
        BY <1>2, <1>3, <4>1
      <4>3. SEnd - call.s = j /\ j <= DEnd - call.d
        BY <1>2, <1>3, <4>2
      <4> QED
        BY <1>2, <1>3, <4>3
    <3> QED
      BY <1>6, <3>1, <3>2 DEF StrcmpEnds
  <2> QED
    BY <1>1, <2>1, <2>2, CompareDone DEF InStrcmp, Comparing
<1>7. CASE ~ StrcmpEnds
  <2>1. d # DEnd /\ s # SEnd
    BY <1>1, <1>2, <1>7 DEF StrcmpEnds
  <2>2. j < DEnd - call.d /\ j < SEnd - call.s
    BY <1>2, <1>3, <2>1
  <2>3. CASE ~ Same(mem[d], mem[s])
    <3>1. pc' = "done" /\ result' = -1
      BY <1>7, <2>3 DEF Strcmp, Answer, Return
    <3>2. Fold(old[call.d + (j + 1) - 1]) # Fold(old[call.s + (j + 1) - 1])
      <4>1. call.d + (j + 1) - 1 = d /\ call.s + (j + 1) - 1 = s
        BY <1>2, <1>3
      <4> QED
        BY <1>5, <2>3, <4>1
    <3>3. j + 1 \in 1 .. DEnd - call.d /\ j + 1 \in 1 .. SEnd - call.s
      BY <1>2, <1>3, <2>2
    <3>4. ~ CharsSame(DEnd - call.d) /\ ~ CharsSame(SEnd - call.s)
      BY <3>2, <3>3 DEF CharsSame
    <3> QED
      BY <1>1, <1>2, <3>1, <3>4, CompareDone DEF InStrcmp, Comparing
  <2>4. CASE Same(mem[d], mem[s])
    <3>1. d' = d + 1 /\ s' = s + 1 /\ pc' = pc
      BY <1>7, <2>4 DEF Strcmp, Repeat
    <3>2. CharsSame(j + 1)
      <4>1. ASSUME NEW k \in 1 .. j + 1
            PROVE  Fold(old[call.d + k - 1]) = Fold(old[call.s + k - 1])
        <5>1. CASE k = j + 1
          <6>1. call.d + k - 1 = d /\ call.s + k - 1 = s
            BY <1>2, <1>3, <5>1
          <6> QED
            BY <1>5, <2>4, <6>1
        <5>2. CASE k # j + 1
          <6>1. k \in 1 .. j
            BY <1>3, <5>2
          <6> QED
            BY <1>3, <6>1 DEF CharsSame
        <5> QED
          BY <5>1, <5>2
      <4> QED
        BY <4>1 DEF CharsSame
    <3>3. CharsSame(d - call.d)'
      <4>1. d' - call'.d = j + 1
        BY <1>1, <1>2, <1>3, <3>1
      <4> QED
        BY <1>1, <3>2, <4>1 DEF CharsSame, Fold
    <3>4. d' \in call'.d .. DEnd' /\ s' = call'.s + (d' - call'.d) /\ s' <= SEnd'
      BY <1>1, <1>2, <1>3, <1>4, <2>1, <3>1
    <3>5. InStrcmp'
      BY <1>1, <3>1, <3>3, <3>4 DEF InStrcmp, Unwritten
    <3>6. Shape'
      BY <1>1, ShapeStays DEF Shape
    <3> QED
      BY <3>5, <3>6
  <2> QED
    BY <2>3, <2>4
<1> QED
  BY <1>6, <1>7

-----------------------------------------------------------------------------
(* Numbers that are read.                                                  *)
LEMMA Greatest ==
    ASSUME NEW b \in Nat, NEW S \in SUBSET (0 .. b), S # {}
    PROVE  Max(S) \in S /\ \A y \in S : Max(S) >= y
<1> DEFINE T == {b - k : k \in S}
<1>1. T \in SUBSET Nat /\ T # {}
  <2>1. \A k \in S : b - k \in Nat
    OBVIOUS
  <2> QED
    BY <2>1
<1> HIDE DEF T
<1>2. PICK t \in T : \A u \in T : t <= u
  BY <1>1, Least
<1>3. PICK m \in S : t = b - m
  BY <1>2 DEF T
<1>4. \A y \in S : m >= y
  <2> TAKE y \in S
  <2>1. b - y \in T
    BY DEF T
  <2> QED
    BY <1>2, <1>3, <2>1
<1>5. S \in SUBSET Int
  OBVIOUS
<1>6. Max(S) = m
  BY <1>4, <1>5, MaxIs
<1> QED
  BY <1>4, <1>6

LEMMA NoDigits == ASSUME NEW b \in Nat, NEW text, Len(text) = 0 PROVE Value(text, b) = 0
<1> DEFINE w == [k \in 0 .. 0 |-> 0]
<1>1. w \in [0 .. Len(text) -> Int] /\ w[0] = 0
  OBVIOUS
<1> HIDE DEF w
<1>2. IsText(text) /\ Weighs(w, text, b)
  BY <1>1 DEF IsText, Weighs
<1> QED
  BY <1>1, <1>2, ValueIs

AtoiAnswers == result = Value(NumberText(old, call.s, call.c, call.n), call.c)

LEMMA AtoiAnswer == call.fn \in {"internal_atoi", "atoi"} /\ AtoiAnswers => Answers
BY DEF Answers, AtoiAnswers, Comparing, Copying

(* The chars of the string, the first i of which are digits with value d.  *)
Source == Text(old, call.s)
Begin(count) == SubSeq(Source, 1, count)
Digits(count) == \A l \in 1 .. count : IsDigitOf(Source[l], call.c)

InAtoi ==
    /\ call.fn \in {"internal_atoi", "atoi"} /\ pc = call.fn /\ Unwritten
    /\ s = call.s /\ n = call.n /\ i \in 0 .. SLength
    /\ Digits(i) /\ (call.n # 0 => i <= call.n)
    /\ d = Value(Begin(i), call.c)

LEMMA AtoiArguments ==
    /\ \A c \in Bases \cup {10} : c \in 2 .. 35 /\ c \in Nat
    /\ \A l \in Limits \cup {0} : l \in Nat
<1>1. Bases \subseteq 2 .. 35 /\ Limits \subseteq Nat
  BY LibCAssumption, Zenon
<1> QED
  BY <1>1

LEMMA AtoiCall ==
    ASSUME Shape, call.fn \in {"internal_atoi", "atoi"}
    PROVE  /\ call.c \in Nat /\ call.c \in 2 .. 35 /\ call.n \in Nat /\ call.s \in Nat
           /\ SLength \in Nat
           /\ Source \in Seq(Int) /\ Len(Source) = SLength
           /\ \A k \in 1 .. SLength : Source[k] = old[call.s + k - 1]
           /\ old[call.s + SLength] = 0
<1>1. /\ call.s \in Nat /\ SLength \in Nat /\ SEnd = call.s + SLength /\ old[SEnd] = 0
      /\ SEnd \in 1 .. Size /\ call.s >= 1
  BY SourceEnds, Sizes DEF SLength, Addr
<1>2. call.c \in 2 .. 35 /\ call.c \in Nat /\ call.n \in Nat
  <2>1. call.c \in Bases \cup {10} /\ call.n \in Limits \cup {0}
    BY Calls
  <2> QED
    BY <2>1, AtoiArguments
<1>3. /\ Len(Source) = SLength /\ Source = [k \in 1 .. SLength |-> old[call.s + k - 1]]
      /\ \A k \in 1 .. SLength : Source[k] = old[call.s + k - 1]
  BY <1>1, BytesAre DEF Source, Text, Bytes, SLength
<1>4. \A k \in 1 .. SLength : call.s + k - 1 \in Addr
  BY <1>1, Sizes DEF Addr
<1>5. \A k \in 1 .. SLength : old[call.s + k - 1] \in Int
  BY <1>4, OldBytes
<1>6. Source \in Seq(Int)
  BY <1>1, <1>3, <1>5
<1> QED
  BY <1>1, <1>2, <1>3, <1>6

LEMMA Fronts ==
    ASSUME Shape, call.fn \in {"internal_atoi", "atoi"}, NEW count \in 0 .. SLength
    PROVE  /\ Len(Begin(count)) = count /\ IsText(Begin(count))
           /\ \A k \in 1 .. count : Begin(count)[k] = Source[k]
<1>1. SLength \in Nat /\ Source \in Seq(Int) /\ Len(Source) = SLength
  BY AtoiCall
<1>2. \A k \in 1 .. count : Source[k] \in Int
  <2>1. \A k \in 1 .. count : k \in 1 .. Len(Source)
    BY <1>1
  <2> QED
    BY <1>1, <2>1, ElementOfSeq
<1>3. /\ Len(Begin(count)) = IF 1 <= count THEN count - 1 + 1 ELSE 0
      /\ \A k \in 1 .. count - 1 + 1 : Begin(count)[k] = Source[1 + k - 1]
  BY <1>2, SubSeqProperties DEF Begin
<1>4. count \in Nat /\ Len(Begin(count)) = count
  BY <1>3
<1>5. \A k \in 1 .. count : Begin(count)[k] = Source[k]
  BY <1>3, <1>4
<1> QED
  BY <1>2, <1>4, <1>5 DEF IsText

(* The value of the first digits when the call returns.                    *)
LEMMA AtoiEnds ==
    ASSUME Shape, InAtoi, ~ IsDigitOf(mem[s + i], call.c) \/ (n # 0 /\ i >= n)
    PROVE  NumberText(old, call.s, call.c, call.n) = Begin(i)
<1> DEFINE digits == {k \in 0 .. SLength : Digits(k)}
           bounds == {Max(digits)} \cup ({call.n} \ {0})
<1>1. /\ call.n \in Nat /\ SLength \in Nat /\ Len(Source) = SLength /\ call.s \in Nat
      /\ \A k \in 1 .. SLength : Source[k] = old[call.s + k - 1]
  BY AtoiCall DEF InAtoi
<1>2. /\ i \in 0 .. SLength /\ Digits(i) /\ (call.n # 0 => i <= call.n)
      /\ s = call.s /\ n = call.n /\ mem = old /\ i \in Nat
  BY <1>1 DEF InAtoi, Unwritten
<1>3. NumberText(old, call.s, call.c, call.n) = Begin(Min(bounds))
  BY <1>1, Zenon DEF NumberText, Begin, Digits, Source
<1>4. /\ Max(digits) \in digits /\ Max(digits) \in Nat /\ \A y \in digits : Max(digits) >= y
      /\ i \in digits
  <2>1. digits \in SUBSET (0 .. SLength) /\ i \in digits
    BY <1>2
  <2> HIDE DEF digits
  <2>2. Max(digits) \in digits /\ \A y \in digits : Max(digits) >= y
    BY <1>1, <2>1, Greatest
  <2>3. Max(digits) \in Nat
    <3>1. Max(digits) \in 0 .. SLength
      BY <2>1, <2>2
    <3> QED
      BY <1>1, <3>1
  <2> QED
    BY <2>1, <2>2, <2>3
<1>5. Max(digits) >= i
  BY <1>4
<1>6. ASSUME ~ IsDigitOf(mem[s + i], call.c) PROVE Max(digits) = i
  <2>1. SUFFICES ASSUME Max(digits) > i PROVE FALSE
    BY <1>2, <1>4, <1>5
  <2>2. /\ i + 1 \in 1 .. Max(digits) /\ i + 1 \in 1 .. SLength
        /\ call.s + (i + 1) - 1 = s + i
    BY <1>1, <1>2, <1>4, <2>1
  <2>3. Digits(Max(digits))
    BY <1>4
  <2> HIDE DEF digits
  <2> QED
    BY <1>1, <1>2, <1>6, <2>2, <2>3 DEF Digits
<1> HIDE DEF digits
<1>7. Min(bounds) = i
  <2>1. bounds \in SUBSET Int
    BY <1>1, <1>4
  <2>2. i \in bounds /\ \A y \in bounds : i <= y
    BY <1>1, <1>2, <1>4, <1>5, <1>6
  <2> HIDE DEF bounds
  <2> QED
    BY <2>1, <2>2, MinIs
<1> QED
  BY <1>3, <1>7

LEMMA AtoiStep ==
    ASSUME Shape, InAtoi, InternalAtoi
    PROVE  /\ Shape'
           /\ \/ InAtoi'
              \/ pc' = "done" /\ Answers' /\ Writes'
<1>1. /\ UNCHANGED <<mem, old, call>> /\ mem = old
      /\ call.fn \in {"internal_atoi", "atoi"} /\ pc = call.fn
  BY DEF InternalAtoi, Answer, InAtoi, Unwritten
<1>2. Shape'
  BY <1>1, ShapeStays DEF Shape
<1> DEFINE stops == ~ IsDigitOf(mem[s + i], call.c) \/ (n # 0 /\ i >= n)
<1>3. CASE stops
  <2>1. pc' = "done" /\ result' = d
    BY <1>3 DEF InternalAtoi, Answer, Return
  <2>2. result' = Value(NumberText(old, call.s, call.c, call.n), call.c)
    BY <1>3, <2>1, AtoiEnds DEF InAtoi
  <2>3. (call.fn \in {"internal_atoi", "atoi"} /\ AtoiAnswers)'
    BY <1>1, <2>2 DEF AtoiAnswers
  <2>4. (Unwritten /\ call.fn \in Reading \cup Comparing \cup {"internal_atoi", "atoi"})'
    BY <1>1 DEF Unwritten
  <2>5. Answers' /\ Writes'
    BY <2>3, <2>4, AtoiAnswer, ReadingWrites, PTL
  <2> QED
    BY <1>2, <2>1, <2>5
<1>4. CASE ~ stops
  <2>1. d' = d * call.c + ValueOf(mem[s + i]) /\ i' = i + 1 /\ pc' = pc /\ s' = s /\ n' = n
    BY <1>4 DEF InternalAtoi, Repeat
  <2>2. /\ call.c \in Nat /\ call.c \in 2 .. 35 /\ call.n \in Nat /\ call.s \in Nat
        /\ SLength \in Nat /\ old[call.s + SLength] = 0
        /\ \A k \in 1 .. SLength : Source[k] = old[call.s + k - 1]
    BY <1>1, AtoiCall
  <2>3. /\ i \in 0 .. SLength /\ Digits(i) /\ (call.n # 0 => i <= call.n) /\ i \in Nat
        /\ s = call.s /\ n = call.n /\ d = Value(Begin(i), call.c)
    BY <2>2 DEF InAtoi
  <2>4. mem[s + i] # 0
    BY <1>4, <2>2 DEF IsDigitOf
  <2>5. i < SLength /\ i + 1 \in 0 .. SLength /\ i + 1 \in 1 .. SLength
    <3>1. i # SLength
      BY <1>1, <2>2, <2>3, <2>4
    <3> QED
      BY <2>2, <2>3, <3>1
  <2>6. Source[i + 1] = mem[s + i]
    <3>1. call.s + (i + 1) - 1 = s + i
      BY <2>2, <2>3
    <3> QED
      BY <1>1, <2>2, <2>5, <3>1
  <2>7. Digits(i + 1)
    <3>1. ASSUME NEW l \in 1 .. i + 1 PROVE IsDigitOf(Source[l], call.c)
      <4>1. CASE l = i + 1
        BY <1>4, <2>6, <4>1
      <4>2. CASE l # i + 1
        <5>1. l \in 1 .. i
          BY <2>3, <4>2
        <5> QED
          BY <2>3, <5>1 DEF Digits
      <4> QED
        BY <4>1, <4>2
    <3> QED
      BY <3>1 DEF Digits
  <2>8. d' = Value(Begin(i + 1), call.c)
    <3>1. /\ Len(Begin(i)) = i /\ IsText(Begin(i))
          /\ \A k \in 1 .. i : Begin(i)[k] = Source[k]
      BY <1>1, <2>3, Fronts
    <3>2. /\ Len(Begin(i + 1)) = i + 1 /\ IsText(Begin(i + 1))
          /\ \A k \in 1 .. i + 1 : Begin(i + 1)[k] = Source[k]
      BY <1>1, <2>5, Fronts
    <3>3. \A k \in 1 .. i : Begin(i + 1)[k] = Begin(i)[k]
      <4> TAKE k \in 1 .. i
      <4>1. k \in 1 .. i + 1
        BY <2>3
      <4> QED
        BY <3>1, <3>2, <4>1
    <3>4. Value(Begin(i + 1), call.c)
            = Value(Begin(i), call.c) * call.c + ValueOf(Begin(i + 1)[i + 1])
      <4> DEFINE x == Begin(i)
                 y == Begin(i + 1)
                 b == call.c
      <4>1. /\ IsText(x) /\ IsText(y) /\ Len(y) = Len(x) + 1 /\ Len(y) = i + 1
            /\ \A k \in 1 .. Len(x) : y[k] = x[k]
        BY <3>1, <3>2, <3>3
      <4>2. b \in Nat
        BY <2>2
      <4> HIDE DEF x, y, b
      <4>3. Value(y, b) = Value(x, b) * b + ValueOf(y[Len(y)])
        BY ONLY <4>1, <4>2, ValueGrows
      <4>4. Value(y, b) = Value(x, b) * b + ValueOf(y[i + 1])
        BY <4>1, <4>3
      <4> QED
        BY <4>4 DEF x, y, b
    <3>5. Begin(i + 1)[i + 1] = mem[s + i]
      <4>1. i + 1 \in 1 .. i + 1
        BY <2>3
      <4> QED
        BY <2>6, <3>2, <4>1
    <3> QED
      BY <2>1, <2>3, <3>4, <3>5
  <2>9. /\ SLength' = SLength /\ Digits(i)' /\ (d = Value(Begin(i), call.c))'
    BY <1>1, <2>1, <2>7, <2>8 DEF SLength, Digits, Begin, Source
  <2>10. (call.n # 0 => i <= call.n)'
    BY <1>1, <1>4, <2>1, <2>2, <2>3
  <2>11. InAtoi'
    BY <1>1, <2>1, <2>3, <2>5, <2>9, <2>10 DEF InAtoi, Unwritten
  <2> QED
    BY <1>2, <2>11
<1> QED
  BY <1>3, <1>4

-----------------------------------------------------------------------------
(* Numbers that are written.                                               *)
Number == IF call.fn = "itoa" THEN call.n ELSE WithoutTopBit(call.n) % Word
Sign   == IF call.n < 0 THEN 1 ELSE 0
Base   == call.d + Sign
Room   == DigitCount(Number, call.c)
DigitsOf(c) == {DigitChar(r) : r \in 0 .. c - 1}

LEMMA DigitChars ==
    ASSUME NEW c \in 2 .. 35
    PROVE  /\ \A r \in 0 .. c - 1 : /\ DigitChar(r) \in DigitsOf(c)
                                    /\ ValueOf(DigitChar(r)) = r
                                    /\ DigitChar(r) = 48 => r = 0
           /\ \A x \in DigitsOf(c) : x \in 48 .. 127 /\ ValueOf(x) \in Nat
           /\ 48 \in DigitsOf(c) /\ ValueOf(48) = 0
<1>1. ASSUME NEW r \in 0 .. c - 1
      PROVE  /\ DigitChar(r) \in 48 .. 127 /\ ValueOf(DigitChar(r)) = r
             /\ DigitChar(r) = 48 => r = 0
  <2>1. r \in Int /\ r >= 0 /\ r <= 34
    OBVIOUS
  <2>2. CASE r > 9
    <3>1. DigitChar(r) = r - 10 + 65
      BY <2>2 DEF DigitChar
    <3> QED
      BY <2>1, <2>2, <3>1 DEF ValueOf
  <2>3. CASE ~ (r > 9)
    <3>1. DigitChar(r) = r + 48
      BY <2>3 DEF DigitChar
    <3> QED
      BY <2>1, <2>3, <3>1 DEF ValueOf
  <2> QED
    BY <2>2, <2>3
<1>2. \A r \in 0 .. c - 1 : DigitChar(r) \in DigitsOf(c)
  BY DEF DigitsOf
<1>3. \A x \in DigitsOf(c) : x \in 48 .. 127 /\ ValueOf(x) \in Nat
  <2> TAKE x \in DigitsOf(c)
  <2>1. PICK r \in 0 .. c - 1 : x = DigitChar(r)
    BY DEF DigitsOf
  <2> QED
    BY <1>1, <2>1
<1>4. 0 \in 0 .. c - 1 /\ DigitChar(0) = 48
  BY DEF DigitChar
<1> QED
  BY <1>1, <1>2, <1>3, <1>4

LEMMA CountsRise ==
    ASSUME NEW x \in Nat, NEW y \in Nat, x <= y, NEW c \in 2 .. 35
    PROVE  DigitCount(x, c) <= DigitCount(y, c)
<1> DEFINE k == DigitCount(x, c)
           l == DigitCount(y, c)
<1>1. c \in Nat /\ c > 1
  OBVIOUS
<1>2. k \in Nat /\ l \in Nat /\ l >= 1 /\ y < Power(c)[l]
      /\ \A j \in 1 .. k - 1 : Power(c)[j] <= x
  BY <1>1, DigitCounts
<1>3. Power(c)[l] \in Nat
  BY <1>1, <1>2, Powers
<1> HIDE DEF k, l
<1>4. l \notin 1 .. k - 1
  BY <1>2, <1>3
<1>5. k <= l
  BY <1>2, <1>4
<1> QED
  BY <1>5 DEF k, l

LEMMA NumberArguments ==
    /\ \A c \in Bases : c \in 2 .. 35 /\ c \in Nat
    /\ \A v \in Numbers : v \in Int
    /\ Word \in Nat /\ Word > 0 /\ \A v \in Int : WithoutTopBit(v) % Word \in 0 .. Word - 1
<1>1. Bases \subseteq 2 .. 35
  BY LibCAssumption, Zenon
<1>2. Word \in Nat \ {0}
  BY LibCAssumption, Zenon
<1>3. \A v \in Numbers : v \in Int
  BY LibCAssumption
<1>4. ASSUME NEW v \in Int PROVE WithoutTopBit(v) \in Int
  <2>1. Word # 1
    <3>1. Word % 4 = 0
      BY LibCAssumption, Zenon
    <3>2. 1 % 4 = 1
      OBVIOUS
    <3> QED
      BY <3>1, <3>2
  <2>2. Word \div 2 \in Nat /\ Word \div 2 > 0 /\ Word \div 4 \in Int
    BY <1>2, <2>1
  <2>3. v % (Word \div 2) \in Int
    BY <2>2
  <2> QED
    BY <2>2, <2>3 DEF WithoutTopBit
<1>5. \A x \in Int : x % Word \in 0 .. Word - 1
  BY <1>2
<1>6. \A v \in Int : WithoutTopBit(v) % Word \in 0 .. Word - 1
  BY <1>4, <1>5
<1>7. Word \in Nat /\ Word > 0
  BY <1>2
<1>8. \A c \in Bases : c \in 2 .. 35 /\ c \in Nat
  BY <1>1
<1> QED
  BY <1>3, <1>6, <1>7, <1>8, Zenon

LEMMA NumberCall ==
    ASSUME Shape, call.fn \in {"itoa", "sitoa"}
    PROVE  /\ call.c \in 2 .. 35 /\ call.c \in Nat /\ call.c > 1 /\ call.n \in Int
           /\ call.fn = "itoa" => Sign = 0
           /\ Number \in Nat /\ Room \in Nat /\ Room >= 1
           /\ call.d \in Nat /\ call.d >= 1 /\ Sign \in 0 .. 1 /\ Base = call.d + Sign
           /\ Base + Room <= Size /\ Base \in Nat
<1>1. /\ call.d \in Addr /\ call.n \in Numbers /\ call.c \in Bases
      /\ call.fn = "itoa" => call.n >= 0
  BY Calls
<1>2. call.c \in 2 .. 35 /\ call.c \in Nat /\ call.n \in Int
  BY <1>1, NumberArguments
<1>3. call.c > 1
  BY <1>2
<1>4. call.d \in Nat /\ call.d >= 1
  BY <1>1, Sizes DEF Addr
<1>5. Number \in Nat /\ (call.fn = "sitoa" => Number <= Word - 1 /\ Word - 1 \in Nat)
  <2>1. CASE call.fn = "itoa"
    BY <1>1, <1>2, <2>1 DEF Number
  <2>2. CASE call.fn = "sitoa"
    <3>1. Number = WithoutTopBit(call.n) % Word
      BY <2>2 DEF Number
    <3>2. Number \in 0 .. Word - 1 /\ Word \in Nat /\ Word > 0
      BY <1>2, <3>1, NumberArguments
    <3> QED
      BY <3>2
  <2> QED
    BY <2>1, <2>2
<1>6. Room \in Nat /\ Room >= 1
  BY <1>2, <1>3, <1>5, DigitCounts DEF Room
<1>7. Sign \in 0 .. 1 /\ (call.fn = "itoa" => Sign = 0)
  BY <1>1, <1>2 DEF Sign
<1>8. Base + Room <= Size
  <2>1. CASE call.fn = "itoa"
    <3>1. Within(call.d, DigitCount(call.n, call.c) + 1)
      BY <2>1 DEF Shape, Legal
    <3>2. Within(call.d, Room + 1)
      BY <2>1, <3>1 DEF Room, Number
    <3> QED
      BY <1>4, <1>6, <1>7, <2>1, <3>2, Sizes DEF Within, Base
  <2>2. CASE call.fn = "sitoa"
    <3>1. Within(call.d, DigitCount(Word - 1, call.c) + 2)
      BY <2>2 DEF Shape, Legal
    <3>2. Room <= DigitCount(Word - 1, call.c)
      BY <1>2, <1>5, <2>2, CountsRise DEF Room
    <3>3. DigitCount(Word - 1, call.c) \in Nat
      BY <1>2, <1>3, <1>5, <2>2, DigitCounts
    <3>4. PICK k \in Nat : k = DigitCount(Word - 1, call.c)
      BY <3>3
    <3>5. call.d + (k + 2) <= Size + 1 /\ Room <= k
      BY <3>1, <3>2, <3>4 DEF Within
    <3> QED
      BY <1>4, <1>6, <1>7, <3>5, Sizes DEF Base
  <2> QED
    BY <2>1, <2>2
<1> QED
  BY <1>2, <1>3, <1>4, <1>5, <1>6, <1>7, <1>8 DEF Base

(* The memory when a number of l digits is written.                        *)
Around(l) ==
    /\ Sign = 1 => mem[call.d] = 45
    /\ \A a \in Addr : a < call.d \/ a > Base + l => mem[a] = old[a]

Written(l) ==
    /\ l \in 1 .. Room /\ Around(l)
    /\ mem[Base + l] = 0
    /\ \A k \in 0 .. l - 1 : mem[Base + k] \in DigitsOf(call.c)
    /\ mem[Base] = 48 => l = 1
    /\ \E w \in [0 .. l -> Int] :
          /\ w[0] = 0 /\ w[l] = Number
          /\ \A k \in 0 .. l - 1 :
               w[k + 1] = ValueOf(mem[Base + l - 1 - k]) * Power(call.c)[k] + w[k]

LEMMA WrittenNumber ==
    Shape /\ call.fn \in {"itoa", "sitoa"} /\ (\E k \in Nat : Written(k)) => WritesNumber
<1>1. SUFFICES ASSUME Shape, call.fn \in {"itoa", "sitoa"}, NEW l \in Nat, Written(l)
               PROVE  WritesNumber
  OBVIOUS
<1>2. /\ call.c \in 2 .. 35 /\ call.c \in Nat /\ Number \in Nat /\ Room \in Nat
      /\ call.d \in Nat /\ call.d >= 1 /\ Sign \in 0 .. 1 /\ Base = call.d + Sign
      /\ Base + Room <= Size /\ Base \in Nat /\ Size \in Nat
  BY <1>1, NumberCall, Sizes
<1>3. l \in 1 .. Room /\ Base + l <= Size /\ Base >= 1 /\ Base <= Base + l
  <2>1. l \in 1 .. Room
    BY <1>1 DEF Written
  <2> QED
    BY <1>2, <2>1
<1>4. \A x \in DigitsOf(call.c) : x \in 48 .. 127 /\ ValueOf(x) \in Nat
  BY <1>2, DigitChars
<1>5. \A k \in 0 .. l - 1 : mem[Base + k] \in DigitsOf(call.c)
  BY <1>1 DEF Written
<1>6. \A a \in Base .. Base + l - 1 : mem[a] \in DigitsOf(call.c) /\ mem[a] # 0
  <2> TAKE a \in Base .. Base + l - 1
  <2>1. a - Base \in 0 .. l - 1 /\ Base + (a - Base) = a
    BY <1>2, <1>3
  <2>2. mem[a] \in DigitsOf(call.c)
    BY <1>5, <2>1
  <2> QED
    BY <1>4, <2>2
<1>7. mem[Base + l] = 0
  BY <1>1 DEF Written
<1>8. EndOf(mem, Base) = Base + l
  <2>1. Base + l \in Base .. Size
    BY <1>2, <1>3
  <2> QED
    BY <1>2, <1>6, <1>7, <2>1, EndIs
<1>9. EndOf(mem, call.d) = Base + l
  <2>1. CASE Sign = 0
    BY <1>2, <1>8, <2>1
  <2>2. CASE Sign = 1
    <3>1. mem[call.d] # 0
      BY <1>1, <2>2 DEF Written, Around
    <3>2. \A k \in call.d .. (Base + l) - 1 : mem[k] # 0
      <4> TAKE k \in call.d .. (Base + l) - 1
      <4>1. k = call.d \/ k \in Base .. Base + l - 1
        BY <1>2, <1>3, <2>2
      <4> QED
        BY <1>6, <3>1, <4>1
    <3>3. Base + l \in call.d .. Size
      BY <1>2, <1>3, <2>2
    <3> QED
      BY <1>2, <1>7, <3>2, <3>3, EndIs
  <2> QED
    BY <1>2, <2>1, <2>2
<1> DEFINE text == Text(mem, Base)
<1>10. Length(mem, Base) = l
  BY <1>2, <1>8 DEF Length
<1>11. /\ Len(text) = l /\ DOMAIN text = 1 .. l
       /\ \A k \in 1 .. l : text[k] = mem[Base + k - 1]
  BY <1>10, BytesAre DEF Text
<1> HIDE DEF text
<1>12. \A k \in 1 .. l : text[k] \in DigitsOf(call.c)
  <2> TAKE k \in 1 .. l
  <2>1. Base + k - 1 \in Base .. Base + l - 1
    BY <1>2, <1>3
  <2> QED
    BY <1>6, <1>11, <2>1
<1>13. IsText(text)
  <2>1. \A k \in 1 .. l : text[k] \in Int
    BY <1>4, <1>12
  <2> QED
    BY <1>11, <2>1 DEF IsText
<1>14. text[1] = 48 => Len(text) = 1
  <2>1. 1 \in 1 .. l /\ Base + 1 - 1 = Base
    BY <1>2, <1>3
  <2>2. text[1] = mem[Base]
    BY <1>11, <2>1
  <2>3. mem[Base] = 48 => l = 1
    BY <1>1 DEF Written
  <2> QED
    BY <1>11, <2>2, <2>3
<1>15. Value(text, call.c) = Number
  <2>1. PICK w \in [0 .. l -> Int] :
            /\ w[0] = 0 /\ w[l] = Number
            /\ \A k \in 0 .. l - 1 :
                 w[k + 1] = ValueOf(mem[Base + l - 1 - k]) * Power(call.c)[k] + w[k]
    BY <1>1 DEF Written
  <2>2. ASSUME NEW k \in 0 .. l - 1
        PROVE  w[k + 1] = ValueOf(text[l - k]) * Power(call.c)[k] + w[k]
    <3>1. l - k \in 1 .. l /\ Base + (l - k) - 1 = Base + l - 1 - k
      BY <1>2
    <3>2. text[l - k] = mem[Base + l - 1 - k]
      BY <1>11, <3>1
    <3> QED
      BY <2>1, <3>2
  <2>3. Weighs(w, text, call.c) /\ w \in [0 .. Len(text) -> Int]
    BY <1>11, <2>1, <2>2 DEF Weighs
  <2> QED
    BY <1>2, <1>11, <1>13, <2>1, <2>3, ValueIs
<1>16. \A a \in Addr : a < call.d \/ a > EndOf(mem, call.d) => mem[a] = old[a]
  BY <1>1, <1>9 DEF Written, Around
<1>17. Sign = 1 => mem[call.d] = 45
  BY <1>1 DEF Written, Around
<1>18. \A k \in DOMAIN text : text[k] \in {DigitChar(r) : r \in 0 .. call.c - 1}
  BY <1>11, <1>12 DEF DigitsOf
<1>19. text = Text(mem, call.d + Sign)
  BY DEF text, Base
<1> QED
  BY <1>14, <1>15, <1>16, <1>17, <1>18, <1>19, Zenon DEF WritesNumber, Sign, Number

NumberAnswers == result = Base

LEMMA NumberAnswer ==
    Shape /\ call.fn \in {"itoa", "sitoa"} /\ NumberAnswers => Answers
<1>1. SUFFICES ASSUME Shape, call.fn \in {"itoa", "sitoa"}, NumberAnswers PROVE Answers
  OBVIOUS
<1>2. /\ call.fn = "itoa" => Base = call.d
      /\ Base = IF call.n < 0 THEN call.d + 1 ELSE call.d
  <2>1. call.d \in Nat /\ (call.fn = "itoa" => Sign = 0)
    BY <1>1, NumberCall
  <2> QED
    BY <2>1 DEF Base, Sign
<1> QED
  BY <1>1, <1>2 DEF Answers, NumberAnswers, Comparing, Copying

LEMMA NumberWrites == call.fn \in {"itoa", "sitoa"} /\ WritesNumber => Writes
BY DEF Writes, Copying

(* itoa, also when sitoa calls it: i digits are written, the last one      *)
(* first, and n is the number before them.                                 *)
Counts(w) ==
    /\ w[0] = 0 /\ Number = w[i] + n * Power(call.c)[i]
    /\ \A k \in 0 .. i - 1 : w[k + 1] = ValueOf(mem[Base + k]) * Power(call.c)[k] + w[k]

InItoa ==
    /\ call.fn \in {"itoa", "sitoa"} /\ pc = "itoa" /\ d = Base
    /\ i \in 0 .. Room /\ n \in Nat
    /\ Sign = 1 => mem[call.d] = 45
    /\ \A a \in Addr : a < call.d \/ a >= Base + i => mem[a] = old[a]
    /\ \A k \in 0 .. i - 1 : mem[Base + k] \in DigitsOf(call.c)
    /\ n = 0 /\ i > 0 => mem[Base + i - 1] # 48
    /\ \E w \in [0 .. i -> Nat] : Counts(w)

LEMMA DigitsLeft ==
    ASSUME Shape, InItoa, n # 0
    PROVE  i < Room
<1>1. /\ call.c \in Nat /\ call.c > 1 /\ Number \in Nat
  BY NumberCall DEF InItoa
<1>2. n \in Nat /\ n >= 1
  BY DEF InItoa
<1>3. i \in Nat
  BY NumberCall DEF InItoa
<1>4. PICK w \in [0 .. i -> Nat] : Counts(w)
  BY DEF InItoa
<1>5. PICK p \in Nat : p = Power(call.c)[i]
  BY <1>1, <1>3, Powers
<1>6. w[i] \in Nat /\ Number = w[i] + n * p
  BY <1>3, <1>4, <1>5 DEF Counts
<1>7. n * p >= p
  <2>1. (n - 1) \in Nat /\ (n - 1) * p \in Nat /\ n * p = (n - 1) * p + p
    BY <1>2, <1>5
  <2> QED
    BY <1>5, <2>1
<1>8. p <= Number
  <2>1. n * p \in Nat
    BY <1>2, <1>5
  <2> QED
    BY <1>1, <1>5, <1>6, <1>7, <2>1
<1> QED
  BY <1>1, <1>3, <1>5, <1>8, DigitCounts DEF Room

(* A char is the digit of a value in a base.                               *)
DigitFor(char, base, x) ==
    char \in DigitsOf(base) /\ ValueOf(char) = x /\ (char = 48 => x = 0) /\ char \in 48 .. 127

LEMMA DigitForIs ==
    ASSUME NEW base \in 2 .. 35, NEW x \in 0 .. base - 1
    PROVE  DigitFor(DigitChar(x), base, x)
BY DigitChars DEF DigitFor

LEMMA ItoaOn ==
    ASSUME Shape, InItoa, n # 0, Put(d + i, DigitChar(n % call.c)), pc' = "itoa",
           i' = i + 1, n' = n \div call.c, UNCHANGED <<d, old, call>>
    PROVE  Shape' /\ InItoa'
<1> DEFINE c == call.c
           r == n % c
           q == n \div c
           char == DigitChar(r)
<1>1. /\ c \in 2 .. 35 /\ c \in Nat /\ c > 1 /\ Number \in Nat /\ Room \in Nat
      /\ call.d \in Nat /\ call.d >= 1 /\ Base >= call.d /\ Base + Room <= Size
      /\ Base \in Nat /\ Size \in Nat
  <2>1. /\ call.d \in Nat /\ Sign \in 0 .. 1 /\ Base = call.d + Sign
    BY NumberCall DEF InItoa
  <2>2. Base >= call.d
    BY <2>1
  <2> QED
    BY <2>2, NumberCall, Sizes DEF InItoa
<1>2. /\ d = Base /\ n \in Nat /\ i \in Nat /\ i < Room
  <2>1. i \in 0 .. Room /\ d = Base /\ n \in Nat
    BY DEF InItoa
  <2> QED
    BY <1>1, <2>1, DigitsLeft
<1> HIDE DEF c
<1>3. r \in 0 .. c - 1 /\ q \in Nat /\ n = c * q + r
  BY <1>1, <1>2
<1>4. Put(Base + i, char)
  BY <1>2 DEF c
<1> HIDE DEF r, q
<1>5. char \in DigitsOf(c) /\ ValueOf(char) = r /\ (char = 48 => r = 0) /\ char \in 48 .. 127
  <2>1. c \in 2 .. 35
    BY <1>1
  <2>2. r \in 0 .. c - 1
    BY <1>3, Zenon
  <2>3. DigitFor(DigitChar(r), c, r)
    BY <2>1, <2>2, DigitForIs, Zenon
  <2> QED
    BY <2>3 DEF DigitFor
<1> HIDE DEF char
<1>6. Base + i \in Addr
  BY <1>1, <1>2 DEF Addr
<1>7. /\ mem' \in [Addr -> 0 .. 127] /\ mem'[Base + i] = char
      /\ \A a \in Addr : a # Base + i => mem'[a] = mem[a]
  <2>1. mem \in [Addr -> 0 .. 127] /\ char \in 0 .. 127
    BY <1>5 DEF Shape
  <2> QED
    BY <1>4, <1>6, <2>1 DEF Put
<1>8. Shape'
  BY <1>7, ShapeStays
<1>9. Base' = Base /\ Sign' = Sign /\ Number' = Number /\ Room' = Room
  BY DEF Base, Sign, Number, Room
<1>10. \A k \in 0 .. i - 1 : Base + k \in Addr /\ Base + k # Base + i
  BY <1>1, <1>2 DEF Addr
<1>11. \A k \in 0 .. i - 1 : mem'[Base + k] = mem[Base + k]
  BY <1>7, <1>10
<1>12. (Sign = 1 => mem[call.d] = 45)'
  <2>1. SUFFICES ASSUME Sign = 1 PROVE mem'[call.d] = 45
    BY <1>9
  <2>2. call.d \in Addr /\ call.d # Base + i
    BY <1>1, <1>2, <2>1 DEF Addr, Base
  <2> QED
    BY <1>7, <2>1, <2>2 DEF InItoa
<1>13. \A a \in Addr : a < call.d \/ a >= Base + (i + 1) => mem'[a] = old[a]
  <2> TAKE a \in Addr
  <2>1. SUFFICES ASSUME a < call.d \/ a >= Base + (i + 1) PROVE mem'[a] = old[a]
    OBVIOUS
  <2>2. a # Base + i /\ (a < call.d \/ a >= Base + i)
    BY <1>1, <1>2, <2>1, Sizes
  <2> QED
    BY <1>7, <2>2 DEF InItoa
<1>14. \A k \in 0 .. (i + 1) - 1 : mem'[Base + k] \in DigitsOf(c)
  <2> TAKE k \in 0 .. (i + 1) - 1
  <2>1. CASE k = i
    BY <1>5, <1>7, <2>1
  <2>2. CASE k # i
    <3>1. k \in 0 .. i - 1
      BY <1>2, <2>2
    <3> QED
      BY <1>11, <3>1 DEF InItoa, c
  <2> QED
    BY <2>1, <2>2
<1>15. q = 0 => mem'[Base + (i + 1) - 1] # 48
  <2>1. SUFFICES ASSUME q = 0 PROVE char # 48
    <3>1. Base + (i + 1) - 1 = Base + i
      BY <1>1, <1>2
    <3> QED
      BY <1>7, <3>1
  <2>2. c * q = 0
    BY <1>1, <2>1
  <2>3. r # 0
    BY <1>1, <1>2, <1>3, <2>2
  <2> QED
    BY <1>5, <2>3
<1>16. \E w \in [0 .. i + 1 -> Nat] :
          /\ w[0] = 0 /\ Number = w[i + 1] + q * Power(c)[i + 1]
          /\ \A k \in 0 .. (i + 1) - 1 : w[k + 1] = ValueOf(mem'[Base + k]) * Power(c)[k] + w[k]
  <2>1. PICK w \in [0 .. i -> Nat] : Counts(w)
    BY DEF InItoa
  <2>2. PICK p \in Nat : p = Power(c)[i]
    BY <1>1, <1>2, Powers
  <2>3. Power(c)[i + 1] = c * p
    BY <1>1, <1>2, <2>2, Powers
  <2>4. w[i] \in Nat /\ Number = w[i] + n * p /\ w[0] = 0
    BY <1>2, <2>1, <2>2 DEF Counts, c
  <2>5. r * p + w[i] \in Nat
    <3>1. r \in Nat /\ r * p \in Nat
      BY <1>1, <1>3, <2>2
    <3> QED
      BY <2>4, <3>1
  <2> DEFINE z == [k \in 0 .. i + 1 |-> IF k = i + 1 THEN r * p + w[i] ELSE w[k]]
  <2>6. \A k \in 0 .. i + 1 : (IF k = i + 1 THEN r * p + w[i] ELSE w[k]) \in Nat
    <3> TAKE k \in 0 .. i + 1
    <3>1. CASE k = i + 1
      BY <2>5, <3>1
    <3>2. CASE k # i + 1
      <4>1. k \in 0 .. i
        BY <1>2, <3>2
      <4> QED
        BY <3>2, <4>1
    <3> QED
      BY <3>1, <3>2
  <2>7. z \in [0 .. i + 1 -> Nat]
    BY <2>6
  <2>8. z[i + 1] = r * p + w[i] /\ \A k \in 0 .. i : z[k] = w[k]
    <3>1. i + 1 \in 0 .. i + 1 /\ \A k \in 0 .. i : k \in 0 .. i + 1 /\ k # i + 1
      BY <1>2
    <3> QED
      BY <3>1
  <2> HIDE DEF z
  <2>9. ASSUME NEW k \in 0 .. (i + 1) - 1
        PROVE  z[k + 1] = ValueOf(mem'[Base + k]) * Power(c)[k] + z[k]
    <3>1. CASE k = i
      <4>1. i \in 0 .. i
        BY <1>2
      <4> QED
        BY <1>5, <1>7, <2>2, <2>8, <3>1, <4>1
    <3>2. CASE k # i
      <4>1. k \in 0 .. i - 1 /\ k + 1 \in 0 .. i /\ k \in 0 .. i
        BY <1>2, <3>2
      <4>2. w[k + 1] = ValueOf(mem[Base + k]) * Power(c)[k] + w[k]
        BY <2>1, <4>1 DEF Counts, c
      <4> QED
        BY <1>11, <2>8, <4>1, <4>2
    <3> QED
      BY <3>1, <3>2
  <2>10. Number = z[i + 1] + q * Power(c)[i + 1]
    <3>1. PICK x \in Nat : x = w[i]
      BY <2>4
    <3>2. Number = x + (c * q + r) * p /\ c \in Nat /\ q \in Nat /\ r \in Nat
      BY <1>1, <1>3, <2>4, <3>1
    <3>3. \A e, f, g, h, y \in Nat : y + (e * f + g) * h = (g * h + y) + f * (e * h)
      OBVIOUS
    <3>4. x + (c * q + r) * p = (r * p + x) + q * (c * p)
      BY <2>2, <3>2, <3>3
    <3> QED
      BY <2>3, <2>8, <3>1, <3>2, <3>4
  <2>11. z[0] = 0
    <3>1. 0 \in 0 .. i
      BY <1>2
    <3> QED
      BY <2>4, <2>8, <3>1
  <2> QED
    BY <2>7, <2>9, <2>10, <2>11
<1>17. (\E w \in [0 .. i -> Nat] : Counts(w))'
  BY <1>9, <1>16 DEF Counts, c, q
<1>18. i' \in 0 .. Room' /\ n' \in Nat
  BY <1>1, <1>2, <1>3, <1>9 DEF q, c
<1>19. (\A a \in Addr : a < call.d \/ a >= Base + i => mem[a] = old[a])'
  BY <1>9, <1>13
<1>20. (\A k \in 0 .. i - 1 : mem[Base + k] \in DigitsOf(call.c))'
  BY <1>9, <1>14 DEF c, DigitsOf, DigitChar
<1>21. (n = 0 /\ i > 0 => mem[Base + i - 1] # 48)'
  BY <1>9, <1>15 DEF q, c
<1>22. (call.fn \in {"itoa", "sitoa"} /\ pc = "itoa" /\ d = Base)'
  BY <1>2, <1>9 DEF InItoa
<1>23. InItoa'
  BY <1>12, <1>17, <1>18, <1>19, <1>20, <1>21, <1>22 DEF InItoa
<1> QED
  BY <1>8, <1>23

(* The digits are turned round.                                            *)
LEMMA ItoaEnds ==
    ASSUME Shape, InItoa, Itoa, n = 0
    PROVE  Shape' /\ pc' = "done" /\ Answers' /\ Writes'
<1> DEFINE c == call.c
<1>1. /\ c \in 2 .. 35 /\ c \in Nat /\ c > 1 /\ Number \in Nat /\ Room \in Nat
      /\ call.d \in Nat /\ call.d >= 1 /\ Base >= call.d /\ Base + Room <= Size
      /\ Base \in Nat /\ Size \in Nat /\ Room >= 1
  <2>1. /\ call.d \in Nat /\ Sign \in 0 .. 1 /\ Base = call.d + Sign
    BY NumberCall DEF InItoa
  <2>2. Base >= call.d
    BY <2>1
  <2> QED
    BY <2>2, NumberCall, Sizes DEF InItoa
<1> HIDE DEF c
<1>2. d = Base /\ i \in Nat /\ i <= Room /\ UNCHANGED <<old, call>>
  <2>1. i \in 0 .. Room /\ d = Base
    BY DEF InItoa
  <2>2. UNCHANGED <<old, call>>
    BY DEF Itoa, Running
  <2> QED
    BY <1>1, <2>1, <2>2
<1>3. PICK l \in Nat : l \in 1 .. Room /\ l = IF i = 0 THEN 1 ELSE i
  <2>1. (IF i = 0 THEN 1 ELSE i) \in 1 .. Room /\ (IF i = 0 THEN 1 ELSE i) \in Nat
    BY <1>1, <1>2
  <2> QED
    BY <2>1
<1>4. /\ pc' = "done" /\ result' = Base
      /\ mem' = [a \in Addr |->
                    IF i = 0 /\ a = d THEN 48
                    ELSE IF a \in d .. d + i - 1 THEN mem[d + (i - 1) - (a - d)]
                    ELSE IF a = d + (IF i = 0 THEN 1 ELSE i) THEN 0 ELSE mem[a]]
  BY <1>2 DEF Itoa, Return
<1>5. \A a \in Addr :
          /\ i = 0 /\ a = Base => mem'[a] = 48
          /\ a \in Base .. Base + i - 1 => mem'[a] = mem[Base + (i - 1) - (a - Base)]
          /\ a = Base + l => mem'[a] = 0
          /\ a < Base \/ a > Base + l => mem'[a] = mem[a]
  <2> TAKE a \in Addr
  <2>1. a \in Nat
    BY Sizes
  <2>2. mem'[a] = IF i = 0 /\ a = Base THEN 48
                  ELSE IF a \in Base .. Base + i - 1 THEN mem[Base + (i - 1) - (a - Base)]
                  ELSE IF a = Base + l THEN 0 ELSE mem[a]
    BY <1>2, <1>3, <1>4
  <2>3. i = 0 /\ a = Base => mem'[a] = 48
    BY <2>2
  <2>4. a \in Base .. Base + i - 1 => mem'[a] = mem[Base + (i - 1) - (a - Base)]
    <3>1. a \in Base .. Base + i - 1 => ~ (i = 0 /\ a = Base)
      BY <1>1
    <3> QED
      BY <2>2, <3>1
  <2>5. a = Base + l => mem'[a] = 0
    <3>1. a = Base + l => ~ (i = 0 /\ a = Base) /\ a \notin Base .. Base + i - 1
      BY <1>1, <1>2, <1>3
    <3> QED
      BY <2>2, <3>1
  <2>6. a < Base \/ a > Base + l => mem'[a] = mem[a]
    <3>1. a < Base \/ a > Base + l =>
            ~ (i = 0 /\ a = Base) /\ a \notin Base .. Base + i - 1 /\ a # Base + l
      BY <1>1, <1>2, <1>3, <2>1
    <3> QED
      BY <2>2, <3>1
  <2> QED
    BY <2>3, <2>4, <2>5, <2>6
<1>6. \A k \in 0 .. l : Base + k \in Addr
  BY <1>1, <1>3 DEF Addr
<1>7. \A x \in DigitsOf(c) : x \in 48 .. 127 /\ ValueOf(x) \in Nat
  BY <1>1, DigitChars
<1>8. \A k \in 0 .. i - 1 : mem[Base + k] \in DigitsOf(c)
  BY DEF InItoa, c
<1>9. \A k \in 0 .. i - 1 : /\ mem'[Base + k] = mem[Base + (i - 1 - k)]
                            /\ mem'[Base + k] \in DigitsOf(c)
  <2> TAKE k \in 0 .. i - 1
  <2>1. /\ Base + k \in Base .. Base + i - 1 /\ k \in 0 .. l /\ i - 1 - k \in 0 .. i - 1
        /\ Base + (i - 1) - ((Base + k) - Base) = Base + (i - 1 - k)
    BY <1>1, <1>2, <1>3
  <2>2. mem'[Base + k] = mem[Base + (i - 1 - k)]
    BY <1>5, <1>6, <2>1
  <2> QED
    BY <1>8, <2>1, <2>2
<1>10. i = 0 => mem'[Base] = 48
  <2>1. Base \in Addr
    BY <1>1 DEF Addr
  <2> QED
    BY <1>5, <2>1
<1>11. \A k \in 0 .. l - 1 : mem'[Base + k] \in DigitsOf(c)
  <2> TAKE k \in 0 .. l - 1
  <2>1. CASE i = 0
    <3>1. Base + k = Base
      BY <1>1, <1>3, <2>1
    <3> QED
      BY <1>1, <1>10, <2>1, <3>1, DigitChars
  <2>2. CASE i # 0
    BY <1>3, <1>9, <2>2
  <2> QED
    BY <2>1, <2>2
<1>12. mem'[Base + l] = 0
  <2>1. l \in 0 .. l
    BY <1>3
  <2> QED
    BY <1>5, <1>6, <2>1
<1>13. mem'[Base] = 48 => l = 1
  <2>1. SUFFICES ASSUME i # 0 PROVE mem'[Base] # 48
    BY <1>3
  <2>2. 0 \in 0 .. i - 1 /\ Base + 0 = Base /\ Base + (i - 1 - 0) = Base + i - 1 /\ i > 0
    BY <1>1, <1>2, <2>1
  <2>3. mem'[Base] = mem[Base + i - 1]
    BY <1>9, <2>2
  <2> QED
    BY <2>2, <2>3 DEF InItoa
<1>14. Sign = 1 => mem'[call.d] = 45
  <2>1. SUFFICES ASSUME Sign = 1 PROVE mem'[call.d] = 45
    OBVIOUS
  <2>2. call.d \in Addr /\ call.d < Base
    BY <1>1, <2>1 DEF Addr, Base
  <2> QED
    BY <1>5, <2>1, <2>2 DEF InItoa
<1>15. \A a \in Addr : a < call.d \/ a > Base + l => mem'[a] = old[a]
  <2> TAKE a \in Addr
  <2>1. SUFFICES ASSUME a < call.d \/ a > Base + l PROVE mem'[a] = old[a]
    OBVIOUS
  <2>2. /\ a < Base \/ a > Base + l
        /\ a < call.d \/ a >= Base + i
    BY <1>1, <1>2, <1>3, <2>1, Sizes
  <2> QED
    BY <1>5, <2>2 DEF InItoa
<1>16. \E w \in [0 .. l -> Int] :
          /\ w[0] = 0 /\ w[l] = Number
          /\ \A k \in 0 .. l - 1 :
               w[k + 1] = ValueOf(mem'[Base + l - 1 - k]) * Power(c)[k] + w[k]
  <2>1. PICK w \in [0 .. i -> Nat] : Counts(w)
    BY DEF InItoa
  <2>2. /\ w[0] = 0 /\ Number = w[i] + n * Power(c)[i] /\ w[i] \in Nat
    BY <1>2, <2>1 DEF Counts, c
  <2>3. Number = w[i]
    <3>1. PICK p \in Nat : p = Power(c)[i]
      BY <1>1, <1>2, Powers
    <3> QED
      BY <2>2, <3>1
  <2>4. CASE i # 0
    <3>1. l = i /\ w \in [0 .. l -> Int]
      BY <1>3, <2>4
    <3>2. ASSUME NEW k \in 0 .. l - 1
          PROVE  w[k + 1] = ValueOf(mem'[Base + l - 1 - k]) * Power(c)[k] + w[k]
      <4>1. /\ k \in 0 .. i - 1 /\ i - 1 - k \in 0 .. i - 1
            /\ Base + l - 1 - k = Base + (i - 1 - k)
            /\ Base + (i - 1 - (i - 1 - k)) = Base + k
        BY <1>1, <1>2, <3>1
      <4>2. mem'[Base + l - 1 - k] = mem[Base + k]
        BY <1>9, <4>1
      <4>3. w[k + 1] = ValueOf(mem[Base + k]) * Power(c)[k] + w[k]
        BY <2>1, <4>1 DEF Counts, c
      <4> QED
        BY <4>2, <4>3
    <3> QED
      BY <2>2, <2>3, <3>1, <3>2
  <2>5. CASE i = 0
    <3> DEFINE z == [k \in 0 .. 1 |-> 0]
    <3>1. l = 1 /\ z \in [0 .. l -> Int] /\ z[0] = 0 /\ z[1] = 0
      BY <1>3, <2>5
    <3>2. Number = 0
      BY <2>2, <2>3, <2>5
    <3> HIDE DEF z
    <3>3. ASSUME NEW k \in 0 .. l - 1
          PROVE  z[k + 1] = ValueOf(mem'[Base + l - 1 - k]) * Power(c)[k] + z[k]
      <4>1. k = 0 /\ Base + l - 1 - k = Base /\ k + 1 = 1
        BY <1>1, <3>1
      <4>2. mem'[Base + l - 1 - k] = 48
        BY <1>10, <2>5, <4>1
      <4>3. ValueOf(48) = 0 /\ Power(c)[0] \in Nat
        BY <1>1, Powers, DigitChars
      <4>4. 0 * Power(c)[0] + 0 = 0
        BY <4>3
      <4> QED
        BY <3>1, <4>1, <4>2, <4>3, <4>4
    <3> QED
      BY <3>1, <3>2, <3>3
  <2> QED
    BY <2>4, <2>5
<1>17. mem' \in [Addr -> 0 .. 127]
  <2>1. ASSUME NEW a \in Addr PROVE mem'[a] \in 0 .. 127
    <3>1. CASE a < Base \/ a > Base + l
      BY <1>5, <3>1, OldBytes
    <3>2. CASE a = Base + l
      BY <1>12, <3>2
    <3>3. CASE ~ (a < Base \/ a > Base + l) /\ a # Base + l
      <4>1. a - Base \in 0 .. l - 1 /\ Base + (a - Base) = a
        BY <1>1, <1>3, <3>3, Sizes
      <4>2. mem'[a] \in DigitsOf(c)
        BY <1>11, <4>1
      <4>3. mem'[a] \in 48 .. 127
        BY <1>7, <4>2
      <4> QED
        BY <4>3
    <3> QED
      BY <3>1, <3>2, <3>3
  <2>2. mem' = [a \in Addr |-> mem'[a]]
    BY <1>4
  <2> QED
    BY <2>1, <2>2
<1>18. Shape'
  BY <1>2, <1>17, ShapeStays
<1>19. Base' = Base /\ Sign' = Sign /\ Number' = Number /\ Room' = Room
  BY <1>2 DEF Base, Sign, Number, Room
<1>20. Around(l)'
  BY <1>2, <1>14, <1>15, <1>19 DEF Around
<1>21. Written(l)'
  BY <1>2, <1>3, <1>11, <1>12, <1>13, <1>16, <1>19, <1>20 DEF Written, c
<1>22. (Shape /\ call.fn \in {"itoa", "sitoa"} /\ \E k \in Nat : Written(k))'
  BY <1>2, <1>3, <1>18, <1>21 DEF InItoa
<1>23. WritesNumber'
  BY <1>22, WrittenNumber, PTL
<1>24. (call.fn \in {"itoa", "sitoa"} /\ NumberAnswers)'
  BY <1>2, <1>4, <1>19 DEF NumberAnswers, InItoa
<1>25. Answers'
  BY <1>18, <1>24, NumberAnswer, PTL
<1>26. Writes'
  BY <1>23, <1>24, NumberWrites, PTL
<1> QED
  BY <1>4, <1>18, <1>25, <1>26

LEMMA ItoaStep ==
    ASSUME Shape, InItoa, Itoa
    PROVE  /\ Shape'
           /\ \/ InItoa'
              \/ pc' = "done" /\ Answers' /\ Writes'
<1>1. CASE n = 0
  BY <1>1, ItoaEnds
<1>2. CASE n # 0
  <2>1. /\ Put(d + i, DigitChar(n % call.c)) /\ pc' = "itoa" /\ i' = i + 1
        /\ n' = n \div call.c /\ UNCHANGED <<d, old, call>>
    BY <1>2 DEF Itoa, Running, Repeat
  <2> QED
    BY <1>2, <2>1, ItoaOn
<1> QED
  BY <1>1, <1>2

(* No digit is written yet.                                                *)
BeforeDigits ==
    /\ call.fn \in {"itoa", "sitoa"} /\ pc = "itoa" /\ d = Base /\ i = 0 /\ n = Number
    /\ Sign = 1 => mem[call.d] = 45
    /\ \A a \in Addr : a < call.d \/ a >= Base => mem[a] = old[a]

LEMMA NothingWritten == Shape /\ BeforeDigits => InItoa
<1> SUFFICES ASSUME Shape, BeforeDigits PROVE InItoa
  OBVIOUS
<1> USE DEF BeforeDigits
<1>1. /\ Number \in Nat /\ Room \in Nat /\ Base \in Nat /\ call.c \in Nat
  BY NumberCall
<1> DEFINE w == [k \in 0 .. 0 |-> 0]
<1>2. w \in [0 .. i -> Nat] /\ w[0] = 0
  OBVIOUS
<1> HIDE DEF w
<1>3. Number = w[i] + n * Power(call.c)[i]
  <2>1. Power(call.c)[0] = 1
    BY <1>1, Powers
  <2>2. Number = 0 + Number * 1
    BY <1>1
  <2> QED
    BY <1>2, <2>1, <2>2
<1>4. Counts(w)
  BY <1>2, <1>3 DEF Counts
<1>5. /\ i \in 0 .. Room /\ n \in Nat /\ Base + i = Base
  BY <1>1
<1>6. \A k \in 0 .. i - 1 : mem[Base + k] \in DigitsOf(call.c)
  OBVIOUS
<1>7. \E z \in [0 .. i -> Nat] : Counts(z)
  BY <1>2, <1>4
<1> QED
  BY <1>5, <1>6, <1>7 DEF InItoa

InSitoa ==
    call.fn = "sitoa" /\ pc = "sitoa" /\ Unwritten /\ d = call.d /\ n = call.n /\ i = 0

LEMMA SitoaStep ==
    ASSUME Shape, InSitoa, Sitoa
    PROVE  Shape' /\ InItoa'
<1>1. /\ call.fn = "sitoa" /\ mem = old /\ d = call.d /\ n = call.n /\ i = 0
      /\ UNCHANGED <<old, call, i>> /\ pc' = "itoa" /\ n' = WithoutTopBit(call.n) % Word
  BY DEF InSitoa, Unwritten, Sitoa, Running
<1>2. /\ call.d \in Nat /\ call.d >= 1 /\ Base = call.d + Sign /\ Room >= 1 /\ Room \in Nat
      /\ Base + Room <= Size /\ Sign \in 0 .. 1 /\ call.n \in Int
  BY <1>1, NumberCall
<1>3. Number' = Number /\ Base' = Base /\ Sign' = Sign /\ n' = Number
  BY <1>1 DEF Number, Base, Sign
<1>4. CASE call.n < 0
  <2>1. Put(d, 45) /\ d' = d + 1 /\ Sign = 1
    BY <1>1, <1>4 DEF Sitoa, Sign
  <2>2. call.d \in Addr
    BY <1>2, Sizes DEF Addr
  <2>3. /\ mem' \in [Addr -> 0 .. 127] /\ mem'[call.d] = 45
        /\ \A a \in Addr : a # call.d => mem'[a] = mem[a]
    <3>1. mem \in [Addr -> 0 .. 127]
      BY DEF Shape
    <3> QED
      BY <1>1, <2>1, <2>2, <3>1 DEF Put
  <2>4. Shape'
    BY <1>1, <2>3, ShapeStays
  <2>5. \A a \in Addr : a < call.d \/ a >= Base => mem'[a] = old[a]
    <3> TAKE a \in Addr
    <3>1. a < call.d \/ a >= Base => a # call.d
      BY <1>2, <2>1
    <3> QED
      BY <1>1, <2>3, <3>1
  <2>6. /\ call'.fn \in {"itoa", "sitoa"} /\ d' = Base' /\ i' = 0 /\ n' = Number'
        /\ Sign' = 1 => mem'[call'.d] = 45
        /\ \A a \in Addr : a < call'.d \/ a >= Base' => mem'[a] = old'[a]
    BY <1>1, <1>2, <1>3, <2>1, <2>3, <2>5
  <2>7. BeforeDigits'
    BY <1>1, <2>6 DEF BeforeDigits
  <2> QED
    BY <2>4, <2>7, NothingWritten, PTL
<1>5. CASE ~ (call.n < 0)
  <2>1. mem' = mem /\ d' = d /\ Sign = 0
    BY <1>1, <1>5 DEF Sitoa, Sign
  <2>2. Shape'
    BY <1>1, <2>1, ShapeStays DEF Shape
  <2>3. /\ call'.fn \in {"itoa", "sitoa"} /\ d' = Base' /\ i' = 0 /\ n' = Number'
        /\ Sign' = 1 => mem'[call'.d] = 45
        /\ \A a \in Addr : a < call'.d \/ a >= Base' => mem'[a] = old'[a]
    BY <1>1, <1>2, <1>3, <2>1
  <2>4. BeforeDigits'
    BY <1>1, <2>3 DEF BeforeDigits
  <2> QED
    BY <2>2, <2>4, NothingWritten, PTL
<1> QED
  BY <1>4, <1>5

-----------------------------------------------------------------------------
(* The invariant: where the call stands, function by function.             *)
InCall ==
    \/ pc = "strlen" /\ InStrlen
    \/ pc = "strchr" /\ InStrchr
    \/ pc = "strrchr" /\ InStrrchr
    \/ pc = "puts" /\ InPuts
    \/ pc = "memcpy" /\ InMemcpy
    \/ InMemset
    \/ pc = "memmove" /\ InMemmove
    \/ pc = "memcmp" /\ call.fn = "memcmp" /\ InRegions
    \/ pc = "strncasecmp" /\ call.fn = "strncasecmp" /\ InRegions
    \/ InStrcpy
    \/ InStrcat
    \/ InStrcmp
    \/ InItoa
    \/ InSitoa
    \/ InAtoi

Inv ==
    /\ Shape
    /\ \/ InCall
       \/ pc = "done" /\ Answers /\ Writes

LEMMA CallBegins == Init => Inv
<1>1. SUFFICES ASSUME Init PROVE Inv
  OBVIOUS
<1>2. /\ mem \in [Addr -> Chars] /\ old = mem
      /\ pc = call.fn /\ d = call.d /\ s = call.s /\ n = call.n /\ i = 0
      /\ result = 0 /\ shown = <<>>
      /\ call \in MemoryCalls \cup NumberCalls /\ Legal(mem, call)
  BY <1>1 DEF Init
<1>3. Shape
  <2>1. \A x \in Chars : x \in 0 .. 127
    BY LibCAssumption, Zenon
  <2>2. mem \in [Addr -> 0 .. 127]
    BY <1>2, <2>1
  <2> QED
    BY <1>2, <2>2 DEF Shape
<1>4. Unwritten
  BY <1>2 DEF Unwritten
<1>5. call.fn \in Copying \cup Comparing \cup Reading
                   \cup {"memset", "calloc", "itoa", "sitoa", "internal_atoi", "atoi"}
  BY <1>2 DEF MemoryCalls, NumberCalls
<1>6. CASE call.fn \in {"strlen", "strchr", "strrchr"}
  <2>1. call.fn \in Reading
    BY <1>6 DEF Reading
  <2>2. SEnd \in call.s .. Size /\ call.s \in Nat
    BY <1>3, <2>1, SourceEnds
  <2>3. s \in call.s .. SEnd /\ \A a \in call.s .. s - 1 : old[a] # call.c
    BY <1>2, <2>2
  <2>4. d = NULL
    BY <1>2, <1>3, <2>1, Calls DEF NULL
  <2> QED
    BY <1>2, <1>3, <1>4, <1>6, <2>3, <2>4 DEF Inv, InCall, InStrlen, InStrchr, InStrrchr
<1>7. CASE call.fn = "puts"
  <2>1. call.s \in Nat /\ call.s \in Addr /\ call.s >= 1
    BY <1>3, <1>7, Calls, Sizes DEF Reading, Addr
  <2>2. /\ s \in 1 .. call.s /\ call.s - s = 0 /\ shown \in Seq(0 .. 127) /\ Len(shown) = 0
    BY <1>2, <2>1
  <2>3. /\ \A k \in 1 .. call.s - s : shown[k] = old[call.s - k + 1]
        /\ \A a \in s + 1 .. call.s : old[a] # 0
    BY <1>2, <2>1, <2>2
  <2>4. \E a \in 1 .. s : old[a] = 0
    BY <1>2, <1>7 DEF Legal
  <2>5. InPuts
    BY <1>4, <1>7, <2>2, <2>3, <2>4 DEF InPuts
  <2> QED
    BY <1>2, <1>3, <1>7, <2>5 DEF Inv, InCall
<1>8. CASE call.fn = "memcpy"
  <2>1. call.d \in Addr /\ call.s \in Addr /\ call.n \in 0 .. Size
    BY <1>3, <1>8, Calls DEF Copying
  <2>2. call.d \in Nat /\ call.s \in Nat
    BY <2>1, Sizes
  <2>3. /\ n \in 0 .. call.n /\ call.n - n = 0 /\ d = call.d + (call.n - n)
        /\ s = call.s + (call.n - n)
    BY <1>2, <2>1, <2>2, Sizes
  <2>4. mem = Copied(call.d, call.s, call.n - n)
    BY <1>2, <1>3, <2>2, <2>3, NothingCopied
  <2>5. InMemcpy
    BY <1>8, <2>3, <2>4 DEF InMemcpy
  <2> QED
    BY <1>2, <1>3, <1>8, <2>5 DEF Inv, InCall
<1>9. CASE call.fn \in {"memset", "calloc"}
  <2>1. call.d \in Addr /\ call.n \in 0 .. Size
    BY <1>3, <1>9, Calls
  <2>2. call.d \in Nat /\ n \in 0 .. call.n /\ call.n - n = 0 /\ d = call.d + (call.n - n)
    <3>1. call.d \in Nat
      BY <2>1, Sizes
    <3>2. call.n \in Nat
      BY <2>1, Sizes
    <3> QED
      BY <1>2, <3>1, <3>2
  <2>3. mem = Filled(call.n - n)
    <3>1. \A a \in Addr : a \notin call.d .. call.d + (call.n - n) - 1
      BY <2>2, Sizes
    <3>2. mem = [a \in Addr |-> old[a]]
      BY <1>2
    <3> QED
      BY <3>1, <3>2 DEF Filled
  <2>4. InMemset
    BY <1>2, <1>9, <2>2, <2>3 DEF InMemset
  <2> QED
    BY <1>3, <2>4 DEF Inv, InCall
<1>10. CASE call.fn = "memmove"
  <2>1. call.d \in Nat /\ call.s \in Nat /\ call.n \in Nat
    BY <1>3, <1>10, MemmoveCall
  <2>2. CASE call.d < call.s
    <3>1. /\ n \in 0 .. call.n /\ call.n - n = 0 /\ d = call.d + (call.n - n)
          /\ s = call.s + (call.n - n)
      BY <1>2, <2>1
    <3>2. mem = Copied(call.d, call.s, call.n - n)
      BY <1>2, <1>3, <2>1, <3>1, NothingCopied
    <3>3. InMemmove
      BY <1>2, <1>10, <2>2, <3>1, <3>2 DEF InMemmove, InMemmoveUp
    <3> QED
      BY <1>2, <1>3, <1>10, <3>3 DEF Inv, InCall
  <2>3. CASE call.d >= call.s
    <3>1. InMemmove
      BY <1>2, <1>4, <1>10, <2>3 DEF InMemmove
    <3> QED
      BY <1>2, <1>3, <1>10, <3>1 DEF Inv, InCall
  <2> QED
    BY <2>1, <2>2, <2>3
<1>11. CASE call.fn \in {"memcmp", "strncasecmp"}
  <2>1. call.n \in Nat /\ call.d \in Nat /\ call.s \in Nat
    BY <1>3, <1>11, RegionsCompare
  <2>2. /\ n \in 0 .. call.n /\ call.n - n = 0 /\ d = call.d + (call.n - n)
        /\ s = call.s + (call.n - n)
    BY <1>2, <2>1
  <2>3. InRegions
    BY <1>4, <2>2 DEF InRegions, RegionsSame
  <2> QED
    BY <1>2, <1>3, <1>11, <2>3 DEF Inv, InCall
<1>12. CASE call.fn \in {"strcpy", "strncpy"}
  <2>1. /\ call.fn \in StringCopies /\ call.fn \in {"strcpy", "strncpy"}
    BY <1>12 DEF StringCopies
  <2>2. /\ CopyTo = call.d /\ call.d \in Nat /\ call.n \in Nat
    BY <1>3, <2>1, StringCopyCall
  <2>3. SLength \in Nat /\ call.s \in Nat
    BY <1>3, <2>1, SourceEnds DEF StringCopies, SLength
  <2>4. /\ d \in CopyTo .. CopyTo + SLength /\ d - CopyTo = 0 /\ s = call.s + (d - CopyTo)
        /\ n = (IF Bounded THEN call.n - (d - CopyTo) ELSE call.n) /\ n \in Nat
    BY <1>2, <2>2, <2>3
  <2>5. mem = Copied(CopyTo, call.s, d - CopyTo)
    BY <1>2, <1>3, <2>2, <2>3, <2>4, NothingCopied
  <2>6. InStrcpy
    BY <1>2, <1>12, <2>4, <2>5 DEF InStrcpy, InStringCopy
  <2> QED
    BY <1>3, <2>6 DEF Inv, InCall
<1>13. CASE call.fn \in {"strcat", "strncat"}
  <2>1. call.fn \in StringCopies /\ call.fn \in {"strcat", "strncat"}
    BY <1>13 DEF StringCopies
  <2>2. CopyTo \in call.d .. Size /\ call.d \in Nat
    BY <1>3, <2>1, StringCopyCall
  <2>3. d \in call.d .. CopyTo
    BY <1>2, <2>2
  <2>4. InStrcat
    BY <1>2, <1>4, <1>13, <2>3 DEF InStrcat
  <2> QED
    BY <1>3, <2>4 DEF Inv, InCall
<1>14. CASE call.fn \in {"strcmp", "strcasecmp"}
  <2>1. /\ call.d \in Nat /\ call.s \in Nat /\ DEnd \in Nat /\ SEnd \in Nat
        /\ DEnd >= call.d /\ SEnd >= call.s
    BY <1>3, <1>14, StringsCompare
  <2>2. /\ d \in call.d .. DEnd /\ d - call.d = 0 /\ s = call.s + (d - call.d) /\ s <= SEnd
    BY <1>2, <2>1
  <2>3. InStrcmp
    BY <1>2, <1>4, <1>14, <2>2 DEF InStrcmp, CharsSame
  <2> QED
    BY <1>3, <2>3 DEF Inv, InCall
<1>15. CASE call.fn = "itoa"
  <2>1. /\ Number = call.n /\ Sign = 0 /\ Base = call.d + Sign /\ call.d \in Nat
    BY <1>3, <1>15, NumberCall DEF Number
  <2>2. Base = call.d
    BY <2>1
  <2>3. BeforeDigits
    BY <1>2, <1>15, <2>1, <2>2 DEF BeforeDigits
  <2> QED
    BY <1>3, <2>3, NothingWritten DEF Inv, InCall
<1>16. CASE call.fn = "sitoa"
  BY <1>2, <1>3, <1>4, <1>16 DEF Inv, InCall, InSitoa
<1>17. CASE call.fn \in {"internal_atoi", "atoi"}
  <2>1. /\ call.c \in Nat /\ call.n \in Nat /\ SLength \in Nat
    BY <1>3, <1>17, AtoiCall
  <2>2. Value(Begin(0), call.c) = 0
    <3>1. 0 \in 0 .. SLength
      BY <2>1
    <3>2. Len(Begin(0)) = 0
      BY <1>3, <1>17, <3>1, Fronts
    <3> QED
      BY <2>1, <3>2, NoDigits
  <2>3. d = 0
    BY <1>2, <1>3, <1>17, Calls
  <2>4. i \in 0 .. SLength /\ Digits(i) /\ (call.n # 0 => i <= call.n)
    BY <1>2, <2>1 DEF Digits
  <2>5. InAtoi
    BY <1>2, <1>4, <1>17, <2>2, <2>3, <2>4 DEF InAtoi
  <2> QED
    BY <1>3, <2>5 DEF Inv, InCall
<1> QED
  BY <1>5, <1>6, <1>7, <1>8, <1>9, <1>10, <1>11, <1>12, <1>13, <1>14, <1>15, <1>16, <1>17
  DEF Copying, Comparing, Reading

LEMMA WhereItStands ==
    ASSUME InCall
    PROVE  /\ pc # "done"
           /\ pc = "strlen" => InStrlen
           /\ pc = "strchr" => InStrchr
           /\ pc = "strrchr" => InStrrchr
           /\ pc = "puts" => InPuts
           /\ pc = "memcpy" => InMemcpy
           /\ pc \in {"memset", "calloc"} => InMemset
           /\ pc = "memmove" => InMemmove
           /\ pc = "memcmp" => call.fn = "memcmp" /\ InRegions
           /\ pc = "strncasecmp" => call.fn = "strncasecmp" /\ InRegions
           /\ pc \in {"strcpy", "strncpy"} => InStrcpy
           /\ pc \in {"strcat", "strncat"} => InStrcat
           /\ pc \in {"strcmp", "strcasecmp"} => InStrcmp
           /\ pc = "itoa" => InItoa
           /\ pc = "sitoa" => InSitoa
           /\ pc \in {"internal_atoi", "atoi"} => InAtoi
<1>1. InMemset => pc \in {"memset", "calloc"}
  BY DEF InMemset
<1>2. InStrcpy => pc \in {"strcpy", "strncpy"}
  BY DEF InStrcpy
<1>3. InStrcat => pc \in {"strcat", "strncat"}
  BY DEF InStrcat
<1>4. InStrcmp => pc \in {"strcmp", "strcasecmp"}
  BY DEF InStrcmp
<1>5. InItoa => pc = "itoa"
  BY DEF InItoa
<1>6. InSitoa => pc = "sitoa"
  BY DEF InSitoa
<1>7. InAtoi => pc \in {"internal_atoi", "atoi"}
  BY DEF InAtoi
<1> QED
  BY <1>1, <1>2, <1>3, <1>4, <1>5, <1>6, <1>7 DEF InCall

LEMMA StepGoesOn ==
    ASSUME Shape, InCall, Step
    PROVE  Inv'
<1>1. SUFFICES Shape' /\ (InCall' \/ (pc' = "done" /\ Answers' /\ Writes'))
  BY DEF Inv
<1>2. CASE Strlen
  <2>1. InStrlen
    BY <1>2, WhereItStands DEF Strlen, Running
  <2> QED
    BY <1>2, <2>1, StrlenStep DEF InCall
<1>3. CASE Strchr
  <2>1. InStrchr
    BY <1>3, WhereItStands DEF Strchr, Running
  <2> QED
    BY <1>3, <2>1, StrchrStep DEF InCall
<1>4. CASE Strrchr
  <2>1. InStrrchr
    BY <1>4, WhereItStands DEF Strrchr, Running
  <2> QED
    BY <1>4, <2>1, StrrchrStep DEF InCall
<1>5. CASE Puts
  <2>1. InPuts
    BY <1>5, WhereItStands DEF Puts, Running
  <2> QED
    BY <1>5, <2>1, PutsStep DEF InCall
<1>6. CASE Memcpy
  <2>1. InMemcpy
    BY <1>6, WhereItStands DEF Memcpy, Running
  <2> QED
    BY <1>6, <2>1, MemcpyStep DEF InCall
<1>7. CASE Memset
  <2>1. InMemset
    BY <1>7, WhereItStands DEF Memset
  <2> QED
    BY <1>7, <2>1, MemsetStep DEF InCall
<1>8. CASE Memmove
  <2>1. InMemmove
    BY <1>8, WhereItStands DEF Memmove, Running
  <2> QED
    BY <1>8, <2>1, MemmoveStep DEF InCall
<1>9. CASE Memcmp
  <2>1. call.fn = "memcmp" /\ InRegions
    BY <1>9, WhereItStands DEF Memcmp, Running
  <2> QED
    BY <1>9, <2>1, MemcmpStep DEF InCall
<1>10. CASE Strcpy
  <2>1. InStrcpy
    BY <1>10, WhereItStands DEF Strcpy
  <2> QED
    BY <1>10, <2>1, StrcpyStep DEF InCall
<1>11. CASE Strcat
  <2>1. InStrcat
    BY <1>11, WhereItStands DEF Strcat
  <2> QED
    BY <1>11, <2>1, StrcatStep DEF InCall
<1>12. CASE Strcmp
  <2>1. InStrcmp
    BY <1>12, WhereItStands DEF Strcmp
  <2> QED
    BY <1>12, <2>1, StrcmpStep DEF InCall
<1>13. CASE Strncasecmp
  <2>1. call.fn = "strncasecmp" /\ InRegions
    BY <1>13, WhereItStands DEF Strncasecmp, Running
  <2> QED
    BY <1>13, <2>1, StrncasecmpStep DEF InCall
<1>14. CASE Itoa
  <2>1. InItoa
    BY <1>14, WhereItStands DEF Itoa, Running
  <2> QED
    BY <1>14, <2>1, ItoaStep DEF InCall
<1>15. CASE Sitoa
  <2>1. InSitoa
    BY <1>15, WhereItStands DEF Sitoa, Running
  <2> QED
    BY <1>15, <2>1, SitoaStep DEF InCall
<1>16. CASE InternalAtoi
  <2>1. InAtoi
    BY <1>16, WhereItStands DEF InternalAtoi
  <2> QED
    BY <1>16, <2>1, AtoiStep DEF InCall
<1> QED
  BY <1>2, <1>3, <1>4, <1>5, <1>6, <1>7, <1>8, <1>9, <1>10, <1>11, <1>12, <1>13, <1>14,
     <1>15, <1>16 DEF Step

LEMMA NothingChanges ==
    ASSUME Inv, UNCHANGED vars
    PROVE  Inv'
<1> USE DEF vars, locals
<1>1. Shape' <=> Shape
  BY DEF Shape
<1>2. /\ (InStrlen' <=> InStrlen) /\ (InStrchr' <=> InStrchr) /\ (InStrrchr' <=> InStrrchr)
      /\ (InPuts' <=> InPuts)
  BY DEF InStrlen, InStrchr, InStrrchr, InPuts, Unwritten, SEnd
<1>3. InMemcpy' <=> InMemcpy
  BY DEF InMemcpy, Copied
<1>4. InMemset' <=> InMemset
  BY DEF InMemset, Filled
<1>5. InMemmove' <=> InMemmove
  BY DEF InMemmove, InMemmoveUp, InMemmoveDown, Unwritten, Copied
<1>6. InRegions' <=> InRegions
  BY DEF InRegions, RegionsSame, Fold, Unwritten
<1>7. /\ CopyTo' = CopyTo /\ CopyFrom' = CopyFrom /\ CopyCount' = CopyCount
      /\ SLength' = SLength /\ Bounded' = Bounded /\ Joins' = Joins /\ Shift' = Shift
  BY DEF CopyTo, CopyFrom, CopyCount, SLength, Bounded, Joins, Shift
<1>8. InStringCopy' <=> InStringCopy
  BY <1>7 DEF InStringCopy, Copied
<1>9. (InStrcpy' <=> InStrcpy) /\ (InStrcat' <=> InStrcat)
  BY <1>7, <1>8 DEF InStrcpy, InStrcat, Unwritten
<1>10. InStrcmp' <=> InStrcmp
  BY DEF InStrcmp, CharsSame, Fold, DEnd, SEnd, Unwritten
<1>11. Base' = Base /\ Sign' = Sign /\ Number' = Number /\ Room' = Room
  BY DEF Base, Sign, Number, Room
<1>12. InItoa' <=> InItoa
  BY <1>11 DEF InItoa, Counts
<1>13. InSitoa' <=> InSitoa
  BY DEF InSitoa, Unwritten
<1>14. InAtoi' <=> InAtoi
  BY <1>7 DEF InAtoi, Digits, Begin, Source, Unwritten
<1>15. InCall' <=> InCall
  BY <1>2, <1>3, <1>4, <1>5, <1>6, <1>9, <1>10, <1>12, <1>13, <1>14 DEF InCall
<1>16. Answers' <=> Answers
  <2>1. ComparesEqual' <=> ComparesEqual
    BY DEF ComparesEqual
  <2>2. CopyEnd' = CopyEnd
    BY <1>7 DEF CopyEnd
  <2>3. FoundAt(call.s, call.c)' = FoundAt(call.s, call.c)
    BY DEF FoundAt
  <2> QED
    BY <1>7, <2>1, <2>2, <2>3 DEF Answers
<1>17. Writes' <=> Writes
  <2>1. WithCopy' = WithCopy
    BY <1>7 DEF WithCopy
  <2>2. Filled(call.n)' = Filled(call.n)
    BY DEF Filled
  <2>3. WritesNumber' <=> WritesNumber
    BY DEF WritesNumber
  <2> QED
    BY <2>1, <2>2, <2>3 DEF Writes
<1> QED
  BY <1>1, <1>15, <1>16, <1>17 DEF Inv

LEMMA InvStays == Inv /\ [Next]_vars => Inv'
<1>1. SUFFICES ASSUME Inv, [Next]_vars PROVE Inv'
  OBVIOUS
<1>2. CASE UNCHANGED vars
  BY <1>1, <1>2, NothingChanges
<1>3. CASE Step
  <2>1. pc # "done"
    BY <1>3 DEF Step, Strlen, Strchr, Strrchr, Puts, Memcpy, Memset, Memmove, Memcmp, Strcpy,
                Strcat, Strcmp, Strncasecmp, Itoa, Sitoa, InternalAtoi, Running
  <2>2. Shape /\ InCall
    BY <1>1, <2>1 DEF Inv
  <2> QED
    BY <1>3, <2>2, StepGoesOn
<1> QED
  BY <1>1, <1>2, <1>3 DEF Next

LEMMA AlwaysInv == Spec => []Inv
<1>1. Inv /\ [Next]_vars => Inv'
  BY InvStays
<1> QED
  BY <1>1, CallBegins, PTL DEF Spec

-----------------------------------------------------------------------------
(* Every function that returns gives the answer it promises, whatever the  *)
(* memory, the call and the base (lib.c:13-100, 626-648, 753-761, 835-919, *)
(* 932-944, 994-1017).                                                     *)
THEOREM AnswersAreRight == Spec => []Answers
<1>1. Inv => Answers
  <2>1. InCall => Answers
    BY WhereItStands DEF Answers
  <2> QED
    BY <2>1 DEF Inv
<1> QED
  BY <1>1, AlwaysInv, PTL

(* Every function that returns has written what it promises and nothing    *)
(* else: no byte outside the copy, the filled region or the number has     *)
(* changed (lib.c:42-54, 70-88, 753-761, 835-883, 932-944, 994-1017).      *)
THEOREM WritesAreRight == Spec => []Writes
<1>1. Inv => Writes
  <2>1. InCall => Writes
    BY WhereItStands DEF Writes
  <2> QED
    BY <2>1 DEF Inv
<1> QED
  BY <1>1, AlwaysInv, PTL
=============================================================================
