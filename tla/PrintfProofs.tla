------------------------------ MODULE PrintfProofs ------------------------------
(***************************************************************************)
(* Whatever the format, its arguments and the limit, _vsnprintf writes no  *)
(* byte at or behind the limit, leaves the beginning of the text and its   *)
(* NUL in front of it, stops at the end of the format, and shows every     *)
(* number that fits its conversion buffer as what it is, in a field of the *)
(* width that is asked for.                                                *)
(***************************************************************************)
EXTENDS Printf, Induction, FiniteSetTheorems, SequenceTheorems, TLAPS

(* A finite sequence, of whatever elements.                                *)
IsSeq(s) == \E S : s \in Seq(S)

LEMMA LenNat == ASSUME NEW s, IsSeq(s) PROVE Len(s) \in Nat
  BY DEF IsSeq

-----------------------------------------------------------------------------
(* A function on 1..n is a sequence of length n.                           *)
LEMMA TabulatedSeq ==
    ASSUME NEW n \in Nat, NEW f, f = [k \in 1 .. n |-> f[k]]
    PROVE  IsSeq(f) /\ Len(f) = n
  <1> DEFINE S == {f[k] : k \in 1 .. n}
  <1>1. f \in [1 .. n -> S]
    OBVIOUS
  <1>2. f \in Seq(S) /\ Len(f) = n
    BY <1>1
  <1> QED
    BY <1>2 DEF IsSeq

(* Joined sequences are a sequence, as long as both together.              *)
LEMMA JoinedSeq ==
    ASSUME NEW s, NEW t, IsSeq(s), IsSeq(t)
    PROVE  /\ IsSeq(s \o t)
           /\ Len(s) \in Nat /\ Len(t) \in Nat
           /\ Len(s \o t) = Len(s) + Len(t)
           /\ \A i \in 1 .. Len(s) + Len(t) :
                 (s \o t)[i] = IF i <= Len(s) THEN s[i] ELSE t[i - Len(s)]
  <1>1. PICK S : s \in Seq(S)
    BY DEF IsSeq
  <1>2. PICK T : t \in Seq(T)
    BY DEF IsSeq
  <1>3. s \in Seq(S \cup T) /\ t \in Seq(S \cup T)
    BY <1>1, <1>2
  <1>4. s \o t \in Seq(S \cup T)
    BY <1>3
  <1> QED
    BY <1>3, <1>4, ConcatProperties DEF IsSeq

(* The empty sequence and a sequence of one char.                          *)
LEMMA ShortSeq == IsSeq(<<>>) /\ \A c : IsSeq(<<c>>) /\ Len(<<c>>) = 1
  <1>1. <<>> \in Seq({})
    OBVIOUS
  <1>2. ASSUME NEW c PROVE <<c>> \in Seq({c}) /\ Len(<<c>>) = 1
    OBVIOUS
  <1> QED
    BY <1>1, <1>2 DEF IsSeq

(* A beginning of a sequence is a sequence.                                *)
LEMMA BeginningSeq ==
    ASSUME NEW s, IsSeq(s), NEW n \in Nat, n <= Len(s)
    PROVE  IsSeq(SubSeq(s, 1, n))
  <1>1. PICK S : s \in Seq(S)
    BY DEF IsSeq
  <1>2. SubSeq(s, 1, n) \in Seq(S)
    BY <1>1
  <1> QED
    BY <1>2 DEF IsSeq

(* The padding is a sequence, for every number of chars.                   *)
LEMMA TimesSeq == ASSUME NEW c, NEW n \in Int PROVE IsSeq(Times(c, n))
  <1>1. Greater(n, 0) \in Nat
    BY DEF Greater
  <1> QED
    BY <1>1, TabulatedSeq DEF Times

(* A reversed sequence is a sequence.                                      *)
LEMMA ReverseSeq == ASSUME NEW s, IsSeq(s) PROVE IsSeq(Reverse(s))
  <1>1. Len(s) \in Nat
    BY DEF IsSeq
  <1> QED
    BY <1>1, TabulatedSeq DEF Reverse

-----------------------------------------------------------------------------
(* The least element of a set of numbers.                                  *)
LEMMA MinIs ==
    ASSUME NEW S \in SUBSET Nat, S # {}
    PROVE  Min(S) \in S /\ \A x \in S : Min(S) <= x
<1>1. \E m \in S : \A x \in S : m <= x
  BY Least
<1> QED
  BY <1>1, Zenon DEF Min

(* The bases of the directives.                                            *)
Bases == {2, 8, 10, 16}

Symbols(fs) == IF "UPPERCASE" \in fs THEN Upper ELSE Lower

(* What is left of a number while its digits are taken away.               *)
Divides(left, v, b) ==
    /\ left[0] = v
    /\ \A k \in 0 .. NtoaSize - 1 : left[k + 1] = left[k] \div b

LEMMA SomeDivides ==
    ASSUME NEW v \in Nat, NEW b \in Nat, b > 1
    PROVE  \E left \in [0 .. NtoaSize -> Nat] : Divides(left, v, b)
<1> DEFINE g == [p \in Nat \X Nat |-> p[2] \div b]
<1>1. \A x \in Nat : x \div b \in Nat
  OBVIOUS
<1>2. g \in [Nat \X Nat -> Nat] /\ \A k, x \in Nat : g[<<k, x>>] = x \div b
  BY <1>1
<1> HIDE DEF g
<1>3. PICK f \in [Nat -> Nat] : Recursive(f, v, g)
  BY <1>2, Recursion
<1> DEFINE left == [k \in 0 .. NtoaSize |-> f[k]]
<1>4. NtoaSize \in Nat
  BY PrintfAssumption
<1>5. left \in [0 .. NtoaSize -> Nat] /\ left[0] = v
  BY <1>3, <1>4 DEF Recursive
<1>6. ASSUME NEW k \in 0 .. NtoaSize - 1 PROVE left[k + 1] = left[k] \div b
  <2>1. k \in Nat /\ k \in 0 .. NtoaSize /\ k + 1 \in 0 .. NtoaSize /\ f[k] \in Nat
    BY <1>4
  <2>2. f[k + 1] = f[k] \div b
    BY <1>2, <1>3, <2>1 DEF Recursive
  <2> QED
    BY <2>1, <2>2
<1> HIDE DEF left
<1> QED
  BY <1>5, <1>6 DEF Divides

(* A number of no digits: nothing is left, and nothing was there.          *)
NoDigits(v, fs) == "PRECISION" \in fs /\ v = 0

(* The digits that are written, and what is left after them.               *)
Written(v, b, fs, left, n) ==
    /\ Divides(left, v, b)
    /\ n = NtoaSize \/ left[n] = 0
    /\ \A k \in 1 .. n - 1 : left[k] # 0
    /\ DigitsOf(v, b, fs) = [k \in 1 .. n |-> Symbols(fs)[(left[k - 1] % b) + 1]]

LEMMA DigitsAre ==
    ASSUME NEW v \in Nat, NEW b \in Nat, b > 1, NEW fs, ~ NoDigits(v, fs)
    PROVE  \E left \in [0 .. NtoaSize -> Nat], n \in 1 .. NtoaSize :
              Written(v, b, fs, left, n)
<1> DEFINE Eq(h) == h = [k \in 0 .. NtoaSize |-> IF k = 0 THEN v ELSE h[k - 1] \div b]
           left == CHOOSE h : Eq(h)
           ends == {k \in 1 .. NtoaSize : left[k] = 0}
           n == Min({NtoaSize} \cup ends)
<1>1. NtoaSize \in Nat /\ NtoaSize > 0
  BY PrintfAssumption
<1>2. Eq(left)
  <2>1. PICK w \in [0 .. NtoaSize -> Nat] : Divides(w, v, b)
    BY SomeDivides
  <2>2. ASSUME NEW k \in 0 .. NtoaSize, k # 0 PROVE w[k] = w[k - 1] \div b
    <3>1. k - 1 \in 0 .. NtoaSize - 1 /\ (k - 1) + 1 = k
      BY <1>1, <2>2
    <3>2. w[(k - 1) + 1] = w[k - 1] \div b
      BY <2>1, <3>1 DEF Divides
    <3> QED
      BY <3>1, <3>2
  <2>3. w[0] = v
    BY <2>1 DEF Divides
  <2>4. Eq(w)
    BY <2>2, <2>3
  <2> QED
    BY <2>4
<1>3. DigitsOf(v, b, fs) = [k \in 1 .. n |-> Symbols(fs)[(left[k - 1] % b) + 1]]
  BY Zenon DEF DigitsOf, Symbols, NoDigits
<1> HIDE DEF left
<1>4. \A k \in 0 .. NtoaSize : left[k] = IF k = 0 THEN v ELSE left[k - 1] \div b
  BY <1>2, Zenon
<1>5. Divides(left, v, b)
  <2>1. ASSUME NEW k \in 0 .. NtoaSize - 1 PROVE left[k + 1] = left[k] \div b
    <3>1. k + 1 \in 0 .. NtoaSize /\ k + 1 # 0 /\ (k + 1) - 1 = k
      BY <1>1
    <3> QED
      BY <1>4, <3>1
  <2>2. left[0] = v
    BY <1>1, <1>4
  <2> QED
    BY <2>1, <2>2 DEF Divides
<1>6. \A k \in Nat : k <= NtoaSize => left[k] \in Nat
  <2> DEFINE N == {k \in Nat : k <= NtoaSize => left[k] \in Nat}
  <2>1. 0 \in N
    BY <1>5 DEF Divides
  <2>2. ASSUME NEW k \in N PROVE k + 1 \in N
    <3>1. SUFFICES ASSUME k + 1 <= NtoaSize PROVE left[k + 1] \in Nat
      OBVIOUS
    <3>2. k \in 0 .. NtoaSize - 1 /\ left[k] \in Nat
      BY <1>1, <3>1
    <3>3. left[k + 1] = left[k] \div b
      BY <1>5, <3>2 DEF Divides
    <3> QED
      BY <3>2, <3>3
  <2>3. N \in SUBSET Nat /\ \A k \in N : k + 1 \in N
    BY <2>2
  <2>4. N = Nat
    <3> HIDE DEF N
    <3> QED
      BY <2>1, <2>3, AllNaturals
  <2> QED
    BY <2>4
<1>7. left \in [0 .. NtoaSize -> Nat]
  <2>1. left = [k \in 0 .. NtoaSize |-> left[k]]
    BY <1>2, <1>4, Zenon
  <2>2. \A k \in 0 .. NtoaSize : left[k] \in Nat
    BY <1>1, <1>6
  <2> QED
    BY <2>1, <2>2, Zenon
<1>8. /\ n \in {NtoaSize} \cup ends
      /\ \A k \in {NtoaSize} \cup ends : n <= k
  <2>1. {NtoaSize} \cup ends \in SUBSET Nat
    BY <1>1
  <2> HIDE DEF ends
  <2> QED
    BY <2>1, MinIs
<1> HIDE DEF n
<1>9. n \in 1 .. NtoaSize /\ (n = NtoaSize \/ left[n] = 0)
  BY <1>1, <1>8
<1>10. ASSUME NEW k \in 1 .. n - 1 PROVE left[k] # 0
  <2>1. k \in 1 .. NtoaSize /\ ~ n <= k
    BY <1>1, <1>9
  <2> QED
    BY <1>8, <2>1
<1> QED
  BY <1>3, <1>5, <1>7, <1>9, <1>10 DEF Written

(* The digits of a number are a sequence, for every base and value.        *)
LEMMA DigitsSeq ==
    ASSUME NEW v \in Nat, NEW b \in Nat, b > 1, NEW fs
    PROVE  IsSeq(DigitsOf(v, b, fs))
<1>1. CASE NoDigits(v, fs)
  BY <1>1, ShortSeq DEF DigitsOf, NoDigits
<1>2. CASE ~ NoDigits(v, fs)
  <2>1. PICK left \in [0 .. NtoaSize -> Nat], n \in 1 .. NtoaSize :
             Written(v, b, fs, left, n)
    BY <1>2, DigitsAre
  <2>2. n \in Nat
    BY PrintfAssumption
  <2> QED
    BY <2>1, <2>2, TabulatedSeq DEF Written
<1> QED
  BY <1>1, <1>2

(* The conversion buffer is filled up to sequences.                        *)
LEMMA RoomSeq == ASSUME NEW buf, IsSeq(buf), NEW s, IsSeq(s) PROVE IsSeq(Room(buf, s))
  BY JoinedSeq DEF Room

LEMMA UpToSeq == ASSUME NEW buf, IsSeq(buf), NEW n \in Nat PROVE IsSeq(UpTo(buf, n))
  <1>1. Lesser(n, NtoaSize) - Len(buf) \in Int
    BY PrintfAssumption DEF Lesser, IsSeq
  <1> QED
    BY <1>1, TimesSeq, JoinedSeq DEF UpTo

LEMMA ZeroPaddedSeq ==
    ASSUME NEW buf, IsSeq(buf), NEW prec \in Nat, NEW w \in Nat, NEW fs
    PROVE  IsSeq(ZeroPadded(buf, prec, w, fs))
  BY UpToSeq DEF ZeroPadded

(* The prefix of the base takes away digits only that are there.           *)
LEMMA ShortenedSeq ==
    ASSUME NEW buf, IsSeq(buf), NEW base, NEW prec, NEW w, NEW fs
    PROVE  IsSeq(Shortened(buf, base, prec, w, fs))
  <1> DEFINE less == Len(buf) - (IF base = 16 /\ Len(buf) > 1 THEN 2 ELSE 1)
  <1>1. Len(buf) \in Nat
    BY DEF IsSeq
  <1>2. CASE Len(buf) > 0
    <2>1. less \in Nat /\ less <= Len(buf)
      BY <1>1, <1>2
    <2> QED
      BY <2>1, BeginningSeq DEF Shortened
  <1>3. CASE ~ Len(buf) > 0
    BY <1>3 DEF Shortened
  <1> QED
    BY <1>2, <1>3

LEMMA PrefixedSeq ==
    ASSUME NEW buf, IsSeq(buf), NEW base, NEW prec, NEW w, NEW fs
    PROVE  IsSeq(Prefixed(buf, base, prec, w, fs))
  <1>1. IsSeq(Shortened(buf, base, prec, w, fs))
    BY ShortenedSeq
  <1>2. IsSeq(Letter(base, fs)) /\ IsSeq(<<"0">>)
    BY ShortSeq DEF Letter
  <1>3. IsSeq(Room(Shortened(buf, base, prec, w, fs), Letter(base, fs)))
    BY <1>1, <1>2, RoomSeq
  <1> QED
    BY <1>2, <1>3, RoomSeq DEF Prefixed

LEMMA ReversedSeq ==
    ASSUME NEW buf, IsSeq(buf), NEW w \in Nat, NEW fs
    PROVE  IsSeq(Reversed(buf, w, fs))
  <1> DEFINE pad  == Times(" ", w - Len(buf))
             fore == IF "LEFT" \in fs \/ "ZEROPAD" \in fs THEN <<>> ELSE pad
             aft  == IF "LEFT" \in fs THEN pad ELSE <<>>
  <1>1. w - Len(buf) \in Int
    BY DEF IsSeq
  <1>2. IsSeq(pad)
    BY <1>1, TimesSeq
  <1>3. IsSeq(fore) /\ IsSeq(aft)
    BY <1>2, ShortSeq
  <1>4. IsSeq(Reverse(buf))
    BY ReverseSeq
  <1> HIDE DEF fore, aft
  <1>5. IsSeq(fore \o Reverse(buf))
    BY <1>3, <1>4, JoinedSeq
  <1>6. IsSeq((fore \o Reverse(buf)) \o aft)
    BY <1>3, <1>5, JoinedSeq
  <1> QED
    BY <1>6 DEF Reversed, fore, aft

(* What a number puts into the text is a sequence, whatever the number,    *)
(* the base, the precision, the width and the flags.                       *)
LEMMA NtoaSeq ==
    ASSUME NEW v \in Nat, NEW neg, NEW base \in Nat, base > 1,
           NEW prec \in Nat, NEW w \in Nat, NEW fs
    PROVE  IsSeq(Ntoa(v, neg, base, prec, w, fs))
  <1> DEFINE fs1 == IF v = 0 THEN fs \ {"HASH"} ELSE fs
             w1  == WidthOfZeros(neg, w, fs1)
             buf == DigitsOf(v, base, fs1)
             zeros == ZeroPadded(buf, prec, w1, fs1)
             prefixed == Prefixed(zeros, base, prec, w1, fs1)
  <1>1. w1 \in Nat
    BY DEF WidthOfZeros
  <1> HIDE DEF w1, fs1
  <1>2. IsSeq(buf)
    BY DigitsSeq
  <1> HIDE DEF buf
  <1>3. IsSeq(zeros)
    BY <1>1, <1>2, ZeroPaddedSeq
  <1> HIDE DEF zeros
  <1>4. IsSeq(prefixed) /\ IsSeq(Sign(neg, fs1))
    BY <1>3, PrefixedSeq, ShortSeq DEF Sign
  <1> HIDE DEF prefixed
  <1>5. IsSeq(Room(prefixed, Sign(neg, fs1)))
    BY <1>4, RoomSeq
  <1>6. IsSeq(Reversed(Room(prefixed, Sign(neg, fs1)), w1, fs1))
    BY <1>1, <1>5, ReversedSeq
  <1> QED
    BY <1>6 DEF Ntoa, NtoaFormat, w1, fs1, buf, zeros, prefixed

(* A text in a field is a sequence.                                        *)
LEMMA InFieldSeq ==
    ASSUME NEW s, IsSeq(s), width \in Nat
    PROVE  IsSeq(InField(s))
  <1>1. width - Len(s) \in Int
    BY DEF IsSeq
  <1> QED
    BY <1>1, TimesSeq, JoinedSeq DEF InField

(* The invariant: while the format is read the buffer holds the beginning  *)
(* of the text, and once it is read the text ends by its NUL.  Widths and  *)
(* precisions are numbers, so that the padding ends.                       *)
Inv ==
    /\ maxlen \in Nat
    /\ width \in Nat /\ precision \in Nat
    /\ IsSeq(text) /\ idx = Len(text)
    /\ memory = [i \in Cells |-> Held(i)]

(* A string, or what of it the precision lets through, is a sequence.      *)
LEMMA StringSeq ==
    ASSUME Inv, NEW s \in Strings
    PROVE  IsSeq(InField(IF "PRECISION" \in flags
                         THEN SubSeq(s, 1, Lesser(Len(s), precision)) ELSE s))
  <1>1. IsSeq(s)
    BY PrintfAssumption DEF IsSeq
  <1>2. Lesser(Len(s), precision) \in Nat /\ Lesser(Len(s), precision) <= Len(s)
    BY <1>1 DEF IsSeq, Lesser, Inv
  <1>3. IsSeq(SubSeq(s, 1, Lesser(Len(s), precision)))
    BY <1>1, <1>2, BeginningSeq
  <1> QED
    BY <1>1, <1>3, InFieldSeq DEF Inv

(* A digit makes a number of a number.                                     *)
LEMMA AppendedNat ==
    ASSUME NEW n \in Nat, NEW c, IsDigit(c) PROVE Appended(n, c) \in Nat
  <1>1. DigitValue(c) \in Nat
    BY DEF IsDigit, DigitValue
  <1> QED
    BY <1>1, PrintfAssumption DEF Appended

(* A number converted to a type is a number, and an unsigned one has no    *)
(* sign.                                                                   *)
LEMMA Conversions ==
    ASSUME NEW n \in Int, NEW bits \in Nat \ {0}
    PROVE  Unsigned(n, bits) \in Nat /\ Signed(n, bits) \in Int
<1> DEFINE whole == Power(2)[bits]
           half  == Power(2)[bits - 1]
<1>1. bits \in Nat /\ bits - 1 \in Nat /\ 2 \in Nat /\ 2 > 1
  OBVIOUS
<1>2. whole \in Nat /\ half \in Nat /\ whole > bits
  BY <1>1, Powers, PowersRise
<1> HIDE DEF whole, half
<1>3. n % whole \in Nat
  BY <1>1, <1>2
<1> QED
  BY <1>2, <1>3 DEF Unsigned, Signed, whole, half

LEMMA BitsOfTypes ==
    /\ ArgBits \in Nat \ {0} /\ ValueBits \in Nat \ {0}
    /\ LongBits \in Nat \ {0}
  BY PrintfAssumption DEF ArgBits, ValueBits

LEMMA BasesAre == \A c \in DOMAIN BaseOf : BaseOf[c] \in {2, 8, 10, 16}
  BY DEF BaseOf

(* What an integer directive shows: the argument in its type.              *)
Converted(c, v) == IF c \in {"d", "i"} THEN Signed(v, ValueBits) ELSE Unsigned(v, ValueBits)
Absolute(value) == IF value > 0 THEN value ELSE 0 - value

LEMMA IntegerShows ==
    ASSUME Integer
    PROVE  \E v \in Int : \E s :
              /\ Converted(Ch, v) \in Int /\ Absolute(Converted(Ch, v)) \in Nat
              /\ s = Ntoa(Absolute(Converted(Ch, v)), Converted(Ch, v) < 0, BaseOf[Ch],
                          precision, width, FlagsOf(Ch))
              /\ Out(s) /\ field' = [text |-> s, arg |-> v, at |-> pos]
<1>1. PICK v \in Values :
          LET s == Ntoa(Absolute(Converted(Ch, v)), Converted(Ch, v) < 0, BaseOf[Ch],
                        precision, width, FlagsOf(Ch))
          IN Out(s) /\ field' = [text |-> s, arg |-> v, at |-> pos]
  BY Zenon DEF Integer, Converted, Absolute
<1>2. v \in Int
  BY PrintfAssumption
<1>3. Converted(Ch, v) \in Int
  BY <1>2, Conversions, BitsOfTypes DEF Converted
<1>4. Absolute(Converted(Ch, v)) \in Nat
  BY <1>3 DEF Absolute
<1> QED
  BY <1>1, <1>2, <1>3, <1>4

LEMMA PointerShows ==
    ASSUME Pointer
    PROVE  \E v \in Nat : \E s :
              /\ Unsigned(v, LongBits) = v
              /\ s = Ntoa(v, FALSE, 16, precision, width', flags')
              /\ Out(s) /\ field' = [text |-> s, arg |-> v, at |-> pos]
<1>1. PICK v \in Values :
          /\ Unsigned(v, LongBits) = v
          /\ LET s == Ntoa(v, FALSE, 16, precision, width', flags')
             IN Out(s) /\ field' = [text |-> s, arg |-> v, at |-> pos]
  BY DEF Pointer
<1>2. v \in Nat
  BY <1>1, Conversions, BitsOfTypes, PrintfAssumption
<1> QED
  BY <1>1, <1>2

(* Both give a sequence to out.                                            *)
LEMMA NumberOut ==
    ASSUME Integer \/ Pointer, width \in Nat, precision \in Nat
    PROVE  \E s : IsSeq(s) /\ Out(s)
<1>1. CASE Integer
  <2>1. BaseOf[Ch] \in Nat /\ BaseOf[Ch] > 1
    BY <1>1, BasesAre DEF Integer
  <2> QED
    BY <1>1, <2>1, IntegerShows, NtoaSeq
<1>2. CASE Pointer
  <2>1. width' \in Nat
    BY <1>2, PrintfAssumption DEF Pointer
  <2>2. 16 \in Nat /\ 16 > 1
    OBVIOUS
  <2>3. \A v \in Nat : IsSeq(Ntoa(v, FALSE, 16, precision, width', flags'))
    BY <2>1, <2>2, NtoaSeq, Zenon
  <2> QED
    BY <1>2, <2>3, PointerShows
<1> QED
  BY <1>1, <1>2

-----------------------------------------------------------------------------
LEMMA InitInv == Init => Inv
  <1> SUFFICES ASSUME Init PROVE Inv
    OBVIOUS
  <1>1. PICK call \in Calls : maxlen = LimitOf(call)
    BY DEF Init
  <1>2. maxlen \in Nat
    BY <1>1, PrintfAssumption DEF LimitOf
  <1>3. IsSeq(text) /\ idx = Len(text) /\ idx = 0
    BY ShortSeq DEF Init
  <1>4. memory = [i \in Cells |-> Held(i)]
    BY <1>2, <1>3 DEF Init, Held, Cells
  <1> QED
    BY <1>2, <1>3, <1>4 DEF Init, Inv

(* A sequence given to out goes to the end of the text, in the buffer too. *)
LEMMA OutInv ==
    ASSUME Inv, pc # "done", pc' # "done", NEW s, IsSeq(s), Out(s),
           width' \in Nat, precision' \in Nat, UNCHANGED <<out, maxlen>>
    PROVE  Inv'
  <1>1. /\ IsSeq(text') /\ idx' = Len(text') /\ idx \in Nat /\ Len(s) \in Nat
        /\ idx' = idx + Len(s)
    BY JoinedSeq DEF Inv, Out
  <1>2. ASSUME NEW i \in Cells PROVE Stored(idx, s)[i] = Held(i)'
    <2>1. i \in Int /\ i >= 0
      BY DEF Cells
    <2>2. CASE out # "_out_buffer" \/ i >= maxlen
      BY <2>1, <2>2 DEF Inv, Held, Stored
    <2>3. CASE out = "_out_buffer" /\ i < maxlen /\ i < idx
      <3>1. text'[i + 1] = text[i + 1]
        BY <2>1, <2>3, JoinedSeq DEF Inv, Out
      <3> QED
        BY <1>1, <2>1, <2>3, <3>1 DEF Inv, Held, Stored
    <2>4. CASE out = "_out_buffer" /\ i < maxlen /\ i >= idx /\ i < idx + Len(s)
      <3>1. text'[i + 1] = s[i - idx + 1]
        BY <1>1, <2>1, <2>4, JoinedSeq DEF Inv, Out
      <3> QED
        BY <1>1, <2>1, <2>4, <3>1 DEF Inv, Held, Stored
    <2>5. CASE out = "_out_buffer" /\ i < maxlen /\ i >= idx + Len(s)
      BY <1>1, <2>1, <2>5 DEF Inv, Held, Stored
    <2> QED
      BY <1>1, <2>1, <2>2, <2>3, <2>4, <2>5 DEF Inv
  <1>3. memory' = [i \in Cells |-> Held(i)']
    BY <1>2 DEF Out, Stored
  <1> QED
    BY <1>1, <1>3 DEF Inv

(* A step that gives nothing to out leaves text and buffer as they are.    *)
LEMMA SilentInv ==
    ASSUME Inv, pc # "done", pc' # "done", UNCHANGED <<output, out, maxlen>>,
           width' \in Nat, precision' \in Nat
    PROVE  Inv'
  BY DEF Inv, Held, output

(* The NUL ends the text within the limit.                                 *)
LEMMA TerminateInv == ASSUME Inv, Terminate PROVE Inv'
  <1> DEFINE at == IF idx < maxlen THEN idx
                   ELSE IF maxlen = 0 THEN SizeMax ELSE maxlen - 1
  <1>1. idx \in Nat /\ at \in Nat /\ Len(<<NUL>>) = 1
    BY PrintfAssumption DEF Inv, IsSeq
  <1>2. ASSUME NEW i \in Cells, out = "_out_buffer", i < maxlen
        PROVE  (i = at) = (i = Lesser(idx, maxlen - 1))
    BY <1>1, <1>2 DEF Inv, Cells, Lesser
  <1>3. ASSUME NEW i \in Cells PROVE Stored(at, <<NUL>>)[i] = Held(i)'
    <2>1. i \in Nat
      BY PrintfAssumption DEF Cells
    <2>2. CASE out # "_out_buffer" \/ i >= maxlen
      BY <2>1, <2>2 DEF Inv, Held, Stored, Terminate
    <2>3. CASE out = "_out_buffer" /\ i < maxlen /\ i = at
      BY <1>1, <1>2, <2>1, <2>3 DEF Inv, Held, Stored, Terminate
    <2>4. CASE out = "_out_buffer" /\ i < maxlen /\ i # at
      BY <1>1, <1>2, <2>1, <2>4 DEF Inv, Held, Stored, Terminate
    <2> QED
      BY <2>1, <2>2, <2>3, <2>4 DEF Inv
  <1>4. memory' = [i \in Cells |-> Held(i)']
    BY <1>3 DEF Terminate, Stored
  <1> QED
    BY <1>4 DEF Inv, Terminate, directive

(* Every step keeps the invariant: one case per action.                    *)
LEMMA NextInv == Inv /\ [Next]_vars => Inv'
  <1> SUFFICES ASSUME Inv, [Next]_vars PROVE Inv'
    OBVIOUS
  <1> USE DEF Inv
  <1>1. CASE Literal
    BY <1>1, OutInv, ShortSeq DEF Literal, directive
  <1>2. CASE Percent
    BY <1>2, SilentInv DEF Percent
  <1>3. CASE Flag
    BY <1>3, SilentInv DEF Flag
  <1>4. CASE Width
    <2>1. pc' # "done" /\ pc # "done"
      BY <1>4 DEF Width
    <2>2. width' \in Nat
      <3>1. CASE IsDigit(Ch) /\ width' = Appended(width, Ch)
        BY <3>1, AppendedNat
      <3>2. CASE \E w \in Ints : width' = IF w < 0 THEN -w ELSE w
        BY <3>2, PrintfAssumption DEF Ints
      <3> QED
        BY <1>4, <3>1, <3>2 DEF Width
    <2> QED
      BY <1>4, <2>1, <2>2, SilentInv DEF Width
  <1>5. CASE Point
    BY <1>5, SilentInv DEF Point
  <1>6. CASE Precision
    <2>1. pc' # "done" /\ pc # "done"
      BY <1>6 DEF Precision
    <2>2. precision' \in Nat
      <3>1. CASE IsDigit(Ch) /\ precision' = Appended(precision, Ch)
        BY <3>1, AppendedNat
      <3>2. CASE \E p \in Ints : precision' = IF p > 0 THEN p ELSE 0
        BY <3>2, PrintfAssumption DEF Ints
      <3> QED
        BY <1>6, <3>1, <3>2 DEF Precision
    <2> QED
      BY <1>6, <2>1, <2>2, SilentInv DEF Precision
  <1>7. CASE Length
    BY <1>7, SilentInv DEF Length
  <1>8. CASE Integer
    BY <1>8, NumberOut, OutInv DEF Integer, EndDirective, directive
  <1>9. CASE Pointer
    BY <1>9, NumberOut, OutInv, PrintfAssumption DEF Pointer, EndDirective
  <1>10. CASE Char
    BY <1>10, ShortSeq, InFieldSeq, OutInv DEF Char, EndDirective, directive
  <1>11. CASE String
    BY <1>11, StringSeq, OutInv DEF String, EndDirective, directive
  <1>12. CASE Other
    BY <1>12, ShortSeq, OutInv DEF Other, EndDirective, directive
  <1>13. CASE Terminate
    BY <1>13, TerminateInv
  <1>14. CASE UNCHANGED vars
    BY <1>14 DEF vars, output, directive, Held
  <1> QED
    BY <1>1, <1>2, <1>3, <1>4, <1>5, <1>6, <1>7, <1>8, <1>9, <1>10, <1>11,
       <1>12, <1>13, <1>14 DEF Next

(* The buffer is never written behind its limit, and holds the beginning   *)
(* of the text: for every format, every argument and every limit.          *)
THEOREM CutToTheBufferThm == Spec => []CutToTheBuffer
  <1>1. Inv => CutToTheBuffer
    BY DEF Inv, CutToTheBuffer
  <1> QED
    BY <1>1, InitInv, NextInv, PTL DEF Spec

-----------------------------------------------------------------------------
(* The second invariant: the chars in front of the next one are no NUL, or *)
(* a NUL is among the chars of the text.                                   *)
NulShown == \E k \in DOMAIN text : text[k] = NUL

EndInv == pos \in Nat /\ StopsAtTheEnd

(* What is in the text stays in the text.                                  *)
LEMMA NulStaysShown ==
    ASSUME Inv, NEW s, IsSeq(s), Out(s)
    PROVE  /\ NulShown => NulShown'
           /\ (\E k \in DOMAIN s : s[k] = NUL) => NulShown'
  <1>1. /\ IsSeq(text') /\ Len(text') = Len(text) + Len(s)
        /\ Len(s) \in Nat /\ Len(text) \in Nat
    BY JoinedSeq DEF Inv, Out
  <1>2. /\ DOMAIN text = 1 .. Len(text) /\ DOMAIN s = 1 .. Len(s)
        /\ DOMAIN text' = 1 .. Len(text')
    BY <1>1 DEF Inv, IsSeq
  <1>3. \A k \in 1 .. Len(text) : text'[k] = text[k]
    BY <1>1, JoinedSeq DEF Inv, Out
  <1>4. \A k \in 1 .. Len(s) : text'[Len(text) + k] = s[k]
    BY <1>1, JoinedSeq DEF Inv, Out
  <1>5. NulShown => NulShown'
    BY <1>1, <1>2, <1>3 DEF NulShown
  <1>6. ASSUME NEW k \in DOMAIN s, s[k] = NUL PROVE NulShown'
    <2>1. Len(text) + k \in DOMAIN text' /\ text'[Len(text) + k] = NUL
      BY <1>1, <1>2, <1>4, <1>6
    <2> QED
      BY <2>1 DEF NulShown
  <1> QED
    BY <1>5, <1>6

(* A step that passes over one char, and shows it if it is the NUL.        *)
LEMMA OneCharEnd ==
    ASSUME EndInv, format' = format, NulShown => NulShown',
           pos' = pos \/ (pos' = pos + 1 /\ (Ch # NUL \/ NulShown'))
    PROVE  EndInv'
  <1>1. CASE pos' = pos
    BY <1>1 DEF EndInv, StopsAtTheEnd, NulShown
  <1>2. CASE pos' = pos + 1 /\ (Ch # NUL \/ NulShown')
    <2>1. pos' \in Nat
      BY <1>2 DEF EndInv
    <2>2. ASSUME NEW p \in 1 .. pos, format[p] = NUL PROVE NulShown'
      BY <1>2, <2>2 DEF EndInv, StopsAtTheEnd, NulShown, Ch
    <2>3. 1 .. pos' - 1 = 1 .. pos
      BY <1>2 DEF EndInv
    <2> QED
      BY <2>1, <2>2, <2>3 DEF EndInv, StopsAtTheEnd, NulShown
  <1> QED
    BY <1>1, <1>2

(* The NUL is neither a digit nor a flag.                                  *)
LEMMA NulEnds == ~ IsDigit(NUL) /\ NUL \notin DOMAIN FlagOf
  <1>1. \A k \in 1 .. 10 : Digits[k] # NUL
    BY DEF Digits, NUL
  <1>2. NUL \notin DOMAIN FlagOf
    BY DEF FlagOf, NUL
  <1> QED
    BY <1>1, <1>2 DEF IsDigit

(* A step that shows a sequence, and passes over one char in the format.   *)
LEMMA OutEnd ==
    ASSUME Inv, EndInv, NEW s, IsSeq(s), Out(s), pos' = pos + 1, format' = format,
           Ch # NUL \/ \E k \in DOMAIN s : s[k] = NUL
    PROVE  EndInv'
  BY NulStaysShown, OneCharEnd

LEMMA NextEnd == Inv /\ EndInv /\ [Next]_vars => EndInv'
  <1> SUFFICES ASSUME Inv, EndInv, [Next]_vars PROVE EndInv'
    OBVIOUS
  <1>0. ASSUME UNCHANGED output PROVE NulShown => NulShown'
    BY <1>0 DEF output, NulShown
  <1>1. CASE Literal
    BY <1>1, OutEnd, ShortSeq DEF Literal, NUL
  <1>2. CASE Percent
    BY <1>2, <1>0, OneCharEnd DEF Percent, NUL
  <1>3. CASE Flag
    BY <1>3, <1>0, OneCharEnd, NulEnds DEF Flag
  <1>4. CASE Width
    <2>1. pos' = pos \/ (pos' = pos + 1 /\ Ch # NUL)
      BY <1>4, NulEnds DEF Width, NUL
    <2> QED
      BY <1>4, <1>0, <2>1, OneCharEnd DEF Width
  <1>5. CASE Point
    BY <1>5, <1>0, OneCharEnd DEF Point, NUL, EndInv
  <1>6. CASE Precision
    <2>1. pos' = pos \/ (pos' = pos + 1 /\ Ch # NUL)
      BY <1>6, NulEnds DEF Precision, NUL
    <2> QED
      BY <1>6, <1>0, <2>1, OneCharEnd DEF Precision
  <1>7. CASE Length
    <2>1. format' = format /\ text' = text
      BY <1>7 DEF Length, output
    <2>2. CASE pos' \in {pos, pos + 1}
      <3>1. pos' = pos \/ (pos' = pos + 1 /\ Ch # NUL)
        BY <1>7, <2>2 DEF Length, NUL, EndInv
      <3> QED
        BY <1>7, <1>0, <3>1, OneCharEnd DEF Length
    <2>3. CASE pos' = pos + 2 /\ Ch # NUL /\ format[pos + 1] # NUL
      <3>1. 1 .. pos' - 1 = 1 .. pos + 1 /\ pos' \in Nat
        BY <2>3 DEF EndInv
      <3>2. ASSUME NEW p \in 1 .. pos + 1, format[p] = NUL PROVE NulShown
        BY <2>3, <3>2 DEF EndInv, StopsAtTheEnd, NulShown, Ch
      <3> QED
        BY <2>1, <3>1, <3>2 DEF EndInv, StopsAtTheEnd, NulShown
    <2> QED
      BY <1>7, <2>2, <2>3 DEF Length, NUL, EndInv
  <1>8. CASE Integer
    BY <1>8, NumberOut, OutEnd DEF Integer, EndDirective, BaseOf, NUL, Inv
  <1>9. CASE Pointer
    BY <1>9, NumberOut, OutEnd DEF Pointer, EndDirective, NUL, Inv
  <1>10. CASE Char
    BY <1>10, ShortSeq, InFieldSeq, OutEnd DEF Char, EndDirective, NUL, Inv
  <1>11. CASE String
    BY <1>11, StringSeq, OutEnd DEF String, EndDirective, NUL
  <1>12. CASE Other
    <2>1. <<Ch>>[1] = Ch /\ 1 \in DOMAIN <<Ch>>
      OBVIOUS
    <2> QED
      BY <1>12, <2>1, ShortSeq, OutEnd DEF Other, EndDirective
  <1>13. CASE Terminate
    BY <1>13 DEF Terminate, EndInv, StopsAtTheEnd
  <1>14. CASE UNCHANGED vars
    BY <1>14 DEF vars, output, EndInv, StopsAtTheEnd
  <1> QED
    BY <1>1, <1>2, <1>3, <1>4, <1>5, <1>6, <1>7, <1>8, <1>9, <1>10, <1>11,
       <1>12, <1>13, <1>14 DEF Next

(* A format is read past its NUL only behind a NUL that was shown as the   *)
(* directive it ended: for every format and every argument.                *)
THEOREM StopsAtTheEndThm == Spec => []StopsAtTheEnd
  <1>1. Init => EndInv
    BY DEF Init, EndInv, StopsAtTheEnd
  <1>2. EndInv => StopsAtTheEnd
    BY DEF EndInv
  <1> QED
    BY <1>1, <1>2, InitInv, NextInv, NextEnd, PTL DEF Spec

-----------------------------------------------------------------------------
(* The third invariant: the format ends with two NULs, and only a char     *)
(* that is no NUL is passed over before the next one is looked at, unless  *)
(* the directive ends by it; so the last NUL ends every format.            *)
Reads ==
    /\ Len(format) \in Nat /\ Len(format) > 1
    /\ format[Len(format)] = NUL /\ format[Len(format) - 1] = NUL
    /\ pos \in 1 .. Len(format)
    /\ pc \notin {"text", "done"} => pos > 1 /\ format[pos - 1] # NUL

(* A char that is no NUL is not the last one, and there is one behind it.  *)
LEMMA ReadOn ==
    ASSUME Reads, Ch # NUL, format' = format, pos' = pos + 1
    PROVE  Reads'
  <1>1. pos # Len(format) /\ pos \in Nat
    BY DEF Reads, Ch
  <1>2. pos' \in 1 .. Len(format) /\ pos' > 1 /\ pos' - 1 = pos
    BY <1>1 DEF Reads
  <1> QED
    BY <1>2 DEF Reads, Ch

(* Nothing is read.                                                        *)
LEMMA ReadStays ==
    ASSUME Reads, UNCHANGED <<format, pos>>,
           pc \in {"text", "done"} => pc' \in {"text", "done"}
    PROVE  Reads'
  BY DEF Reads

(* The specifier is not the last NUL: the char before it was no NUL.       *)
LEMMA ReadSpecifier ==
    ASSUME Reads, pc = "specifier", format' = format, EndDirective
    PROVE  Reads'
  <1>1. pos # Len(format)
    BY DEF Reads
  <1> QED
    BY <1>1 DEF Reads, EndDirective

LEMMA ReadsNext ==
    ASSUME Reads, [Next]_vars
    PROVE  Reads'
  <1>1. CASE Literal \/ Percent
    BY <1>1, ReadOn DEF Literal, Percent, NUL
  <1>2. CASE Flag
    BY <1>2, ReadOn, ReadStays, NulEnds DEF Flag
  <1>3. CASE Width \/ Precision
    <2>1. /\ format' = format /\ pc \notin {"text", "done"}
          /\ pos' = pos \/ (pos' = pos + 1 /\ Ch # NUL)
      BY <1>3, NulEnds DEF Width, Precision, NUL
    <2> QED
      BY <2>1, ReadOn, ReadStays
  <1>4. CASE Point
    BY <1>4, ReadOn, ReadStays DEF Point, NUL
  <1>5. CASE Length
    <2>1. /\ format' = format /\ pc = "length" /\ pos \in Nat
          /\ \/ pos' = pos
             \/ pos' = pos + 1 /\ Ch # NUL
             \/ /\ pos' = pos + 2 /\ Ch # NUL
                /\ pos < Len(format) /\ format[pos + 1] = Ch
      BY <1>5 DEF Length, NUL, Reads
    <2>2. CASE pos' = pos + 2 /\ Ch # NUL /\ pos < Len(format) /\ format[pos + 1] = Ch
      <3>1. pos + 1 # Len(format)
        BY <2>2 DEF Reads
      <3>2. pos' \in 1 .. Len(format) /\ pos' > 1 /\ pos' - 1 = pos + 1
        BY <2>1, <2>2, <3>1 DEF Reads
      <3> QED
        BY <2>1, <2>2, <3>2 DEF Reads
    <2> QED
      BY <2>1, <2>2, ReadOn, ReadStays
  <1>6. CASE Integer \/ Pointer \/ Char \/ String \/ Other
    BY <1>6, ReadSpecifier DEF Integer, Pointer, Char, String, Other
  <1>7. CASE Terminate
    BY <1>7, ReadStays DEF Terminate
  <1>8. CASE UNCHANGED vars
    BY <1>8, ReadStays DEF vars
  <1> QED
    BY <1>1, <1>2, <1>3, <1>4, <1>5, <1>6, <1>7, <1>8 DEF Next

(* A width or precision that is read or given fits a size_t.               *)
LEMMA AppendedFits ==
    ASSUME NEW n \in Nat, NEW c, IsDigit(c) PROVE Appended(n, c) \in 0 .. SizeMax
  <1>1. DigitValue(c) \in Int /\ SizeMax + 1 \in Nat \ {0}
    BY PrintfAssumption DEF IsDigit, DigitValue
  <1>2. n * 10 + DigitValue(c) \in Int
    BY <1>1
  <1> HIDE DEF DigitValue
  <1> QED
    BY <1>1, <1>2, PrintfAssumption DEF Appended

LEMMA GivenFits ==
    ASSUME NEW n \in Ints
    PROVE  /\ (IF n < 0 THEN -n ELSE n) \in 0 .. SizeMax
           /\ (IF n > 0 THEN n ELSE 0) \in 0 .. SizeMax
  <1>1. n \in Int /\ -SizeMax <= n /\ n <= SizeMax /\ SizeMax \in Nat
    BY PrintfAssumption, IntAssumption DEF Ints
  <1> QED
    BY <1>1

(* The flags a step may set, and the numbers it may read.                  *)
Directives ==
    /\ flags \subseteq {FlagOf[c] : c \in DOMAIN FlagOf} \cup
           {"UPPERCASE", "PRECISION", "CHAR", "SHORT", "LONG", "LONG_LONG"}
    /\ width \in 0 .. SizeMax /\ precision \in 0 .. SizeMax

LEMMA DirectivesNext ==
    ASSUME TypeOK, [Next]_vars
    PROVE  Directives'
  <1> DEFINE Known == {FlagOf[c] : c \in DOMAIN FlagOf} \cup
                {"UPPERCASE", "PRECISION", "CHAR", "SHORT", "LONG", "LONG_LONG"}
  <1>0. /\ flags \subseteq Known
        /\ width \in 0 .. SizeMax /\ precision \in 0 .. SizeMax
        /\ 0 \in 0 .. SizeMax /\ PointerWidth \in 0 .. SizeMax
        /\ "LEFT" \in Known /\ "ZEROPAD" \in Known
    <2>1. "LEFT" = FlagOf["-"] /\ "ZEROPAD" = FlagOf["0"]
          /\ "-" \in DOMAIN FlagOf /\ "0" \in DOMAIN FlagOf
      BY DEF FlagOf
    <2>2. "LEFT" \in Known /\ "ZEROPAD" \in Known
      BY <2>1
    <2>3. 0 \in 0 .. SizeMax /\ PointerWidth \in 0 .. SizeMax
      BY PrintfAssumption
    <2> QED
      BY <2>2, <2>3 DEF TypeOK
  <1>1. CASE UNCHANGED directive
    BY <1>0, <1>1 DEF directive, Directives
  <1>2. CASE Percent
    BY <1>0, <1>2 DEF Percent, Directives
  <1>3. CASE Flag
    BY <1>0, <1>3 DEF Flag, Directives
  <1>4. CASE Width
    <2>1. width' \in 0 .. SizeMax
      <3>1. CASE IsDigit(Ch) /\ width' = Appended(width, Ch)
        BY <1>0, <3>1, AppendedFits
      <3>2. CASE \E w \in Ints : width' = IF w < 0 THEN -w ELSE w
        BY <3>2, GivenFits
      <3> QED
        BY <1>0, <1>4, <3>1, <3>2 DEF Width
    <2>2. flags' \subseteq Known /\ precision' = precision
      BY <1>0, <1>4 DEF Width
    <2> QED
      BY <1>0, <2>1, <2>2 DEF Directives
  <1>5. CASE Point
    BY <1>0, <1>5 DEF Point, Directives
  <1>6. CASE Precision
    <2>1. precision' \in 0 .. SizeMax
      <3>1. CASE IsDigit(Ch) /\ precision' = Appended(precision, Ch)
        BY <1>0, <3>1, AppendedFits
      <3>2. CASE \E p \in Ints : precision' = IF p > 0 THEN p ELSE 0
        BY <3>2, GivenFits
      <3> QED
        BY <1>0, <1>6, <3>1, <3>2 DEF Precision
    <2> QED
      BY <1>0, <1>6, <2>1 DEF Precision, Directives
  <1>7. CASE Length
    BY <1>0, <1>7 DEF Length, Directives
  <1>8. CASE Pointer
    BY <1>0, <1>8 DEF Pointer, Directives
  <1>9. CASE Literal \/ Integer \/ Char \/ String \/ Other \/ Terminate
    BY <1>1, <1>9 DEF Literal, Integer, Char, String, Other, Terminate
  <1>10. CASE UNCHANGED vars
    BY <1>1, <1>10 DEF vars
  <1> QED
    BY <1>2, <1>3, <1>4, <1>5, <1>6, <1>7, <1>8, <1>9, <1>10 DEF Next

(* The state has its types: no format is read past the memory it lies in,  *)
(* and no width or precision leaves the range of a size_t.                 *)
THEOREM TypeInvariant == Spec => []TypeOK
  <1>1. Init => TypeOK /\ Reads
    <2> SUFFICES ASSUME Init PROVE TypeOK /\ Reads
      OBVIOUS
    <2>1. PICK call \in Calls : /\ out = OutOf(call.entry)
                                /\ maxlen = LimitOf(call)
                                /\ format = call.format
      BY DEF Init
    <2>2. maxlen \in 0 .. SizeMax
      BY <2>1, PrintfAssumption DEF LimitOf
    <2>3. Reads
      BY <2>1, PrintfAssumption DEF Init, Reads
    <2> QED
      BY <2>1, <2>2, <2>3, PrintfAssumption DEF Init, TypeOK, Reads, OutOf
  <1>2. Inv /\ TypeOK /\ Reads /\ [Next]_vars => TypeOK' /\ Reads'
    <2> SUFFICES ASSUME Inv, TypeOK, Reads, [Next]_vars PROVE TypeOK' /\ Reads'
      OBVIOUS
    <2>1. Reads' /\ Directives'
      BY ReadsNext, DirectivesNext
    <2>2. idx' \in Nat
      BY NextInv, Inv DEF Inv, IsSeq
    <2>3. out' = out /\ maxlen' = maxlen
      BY DEF Next, vars, Literal, Percent, Flag, Width, Point, Precision, Length,
             Integer, Pointer, Char, String, Other, Terminate
    <2>4. pc' \in {"text", "flags", "width", "width digits", "point", "precision",
                   "precision digits", "length", "specifier", "done"}
      BY DEF TypeOK, Next, vars, Literal, Percent, Flag, Width, Point, Precision, Length,
             Integer, Pointer, Char, String, Other, Terminate, EndDirective
    <2> QED
      BY <2>1, <2>2, <2>3, <2>4 DEF TypeOK, Reads, Directives
  <1> QED
    BY <1>1, <1>2, InitInv, NextInv, PTL DEF Spec
-----------------------------------------------------------------------------
(* The digits, char by char.                                               *)
LEMMA TenDigits ==
    /\ IsSeq(Digits) /\ Len(Digits) = 10
    /\ Digits[1] = "0" /\ Digits[2] = "1" /\ Digits[3] = "2" /\ Digits[4] = "3"
    /\ Digits[5] = "4" /\ Digits[6] = "5" /\ Digits[7] = "6" /\ Digits[8] = "7"
    /\ Digits[9] = "8" /\ Digits[10] = "9"
<1>1. Digits = [k \in 1 .. 10 |-> Digits[k]]
  BY DEF Digits
<1>2. IsSeq(Digits) /\ Len(Digits) = 10
  BY <1>1, TabulatedSeq
<1>3. /\ Digits[1] = "0" /\ Digits[2] = "1" /\ Digits[3] = "2" /\ Digits[4] = "3"
      /\ Digits[5] = "4" /\ Digits[6] = "5" /\ Digits[7] = "6" /\ Digits[8] = "7"
      /\ Digits[9] = "8" /\ Digits[10] = "9"
  BY DEF Digits
<1> QED
  BY <1>2, <1>3

LEMMA SixteenDigits ==
    /\ \A k \in 1 .. 10 : Lower[k] = Digits[k] /\ Upper[k] = Digits[k]
    /\ Lower[11] = "a" /\ Lower[12] = "b" /\ Lower[13] = "c"
    /\ Lower[14] = "d" /\ Lower[15] = "e" /\ Lower[16] = "f"
    /\ Upper[11] = "A" /\ Upper[12] = "B" /\ Upper[13] = "C"
    /\ Upper[14] = "D" /\ Upper[15] = "E" /\ Upper[16] = "F"
<1> DEFINE small == <<"a", "b", "c", "d", "e", "f">>
           large == <<"A", "B", "C", "D", "E", "F">>
<1>1. /\ small[1] = "a" /\ small[2] = "b" /\ small[3] = "c"
      /\ small[4] = "d" /\ small[5] = "e" /\ small[6] = "f"
      /\ large[1] = "A" /\ large[2] = "B" /\ large[3] = "C"
      /\ large[4] = "D" /\ large[5] = "E" /\ large[6] = "F"
  OBVIOUS
<1>2. small = [k \in 1 .. 6 |-> small[k]] /\ large = [k \in 1 .. 6 |-> large[k]]
  OBVIOUS
<1>3. Lower = Digits \o small /\ Upper = Digits \o large
  BY DEF Lower, Upper
<1> HIDE DEF small, large
<1>4. IsSeq(small) /\ IsSeq(large) /\ Len(small) = 6 /\ Len(large) = 6
  BY <1>2, TabulatedSeq
<1>5. ASSUME NEW t, IsSeq(t), Len(t) = 6
      PROVE  \A k \in 1 .. 16 : (Digits \o t)[k] = IF k <= 10 THEN Digits[k] ELSE t[k - 10]
  <2> TAKE k \in 1 .. 16
  <2>1. k \in 1 .. Len(Digits) + Len(t) /\ Len(Digits) = 10
    BY <1>5, TenDigits
  <2>2. (Digits \o t)[k] = IF k <= Len(Digits) THEN Digits[k] ELSE t[k - Len(Digits)]
    BY <1>5, <2>1, TenDigits, JoinedSeq
  <2> QED
    BY <2>1, <2>2
<1>6. \A k \in 1 .. 16 : /\ Lower[k] = IF k <= 10 THEN Digits[k] ELSE small[k - 10]
                         /\ Upper[k] = IF k <= 10 THEN Digits[k] ELSE large[k - 10]
  BY <1>3, <1>4, <1>5
<1>7. /\ Lower[11] = small[1] /\ Lower[12] = small[2] /\ Lower[13] = small[3]
      /\ Lower[14] = small[4] /\ Lower[15] = small[5] /\ Lower[16] = small[6]
      /\ Upper[11] = large[1] /\ Upper[12] = large[2] /\ Upper[13] = large[3]
      /\ Upper[14] = large[4] /\ Upper[15] = large[5] /\ Upper[16] = large[6]
  BY <1>6
<1>8. \A k \in 1 .. 10 : Lower[k] = Digits[k] /\ Upper[k] = Digits[k]
  BY <1>6
<1> QED
  BY <1>1, <1>7, <1>8

(* The symbol of each digit.                                               *)
LEMMA EachDigit ==
    ASSUME NEW k \in 1 .. 16, NEW c, c \in {Lower[k], Upper[k]}
    PROVE  \/ k = 1 /\ c = "0"
           \/ k = 2 /\ c = "1"
           \/ k = 3 /\ c = "2"
           \/ k = 4 /\ c = "3"
           \/ k = 5 /\ c = "4"
           \/ k = 6 /\ c = "5"
           \/ k = 7 /\ c = "6"
           \/ k = 8 /\ c = "7"
           \/ k = 9 /\ c = "8"
           \/ k = 10 /\ c = "9"
           \/ k = 11 /\ c \in {"a", "A"}
           \/ k = 12 /\ c \in {"b", "B"}
           \/ k = 13 /\ c \in {"c", "C"}
           \/ k = 14 /\ c \in {"d", "D"}
           \/ k = 15 /\ c \in {"e", "E"}
           \/ k = 16 /\ c \in {"f", "F"}
<1>1. CASE k <= 10
  <2>1. c = Digits[k]
    BY <1>1, SixteenDigits
  <2>2. k \in {1, 2, 3, 4, 5, 6, 7, 8, 9, 10}
    BY <1>1
  <2> QED
    BY <2>1, <2>2, TenDigits
<1>2. CASE k > 10
  <2>1. k \in {11, 12, 13, 14, 15, 16}
    BY <1>2
  <2> QED
    BY <2>1, SixteenDigits
<1> QED
  BY <1>1, <1>2

(* No char is the symbol of two digits.                                    *)
LEMMA OneWorth ==
    ASSUME NEW j \in 1 .. 16, NEW k \in 1 .. 16, NEW c,
           c \in {Lower[j], Upper[j]}, c \in {Lower[k], Upper[k]}
    PROVE  j = k
  BY EachDigit, SMTT(90)

LEMMA WorthIs ==
    ASSUME NEW k \in 1 .. 16, NEW c, c \in {Lower[k], Upper[k]}
    PROVE  WorthOf(c) = k - 1
<1>1. \A j \in 1 .. 16 : c \in {Lower[j], Upper[j]} => j = k
  BY OneWorth
<1>2. (CHOOSE j \in 1 .. 16 : c \in {Lower[j], Upper[j]}) = k
  BY <1>1
<1> QED
  BY <1>2, Zenon DEF WorthOf

(* The symbols of the digits are read as what they are.                    *)
LEMMA SymbolsRead ==
    ASSUME NEW b \in Bases, NEW fs, NEW r \in 0 .. b - 1
    PROVE  IsDigitOf(Symbols(fs)[r + 1], b) /\ WorthOf(Symbols(fs)[r + 1]) = r
<1>1. r + 1 \in 1 .. b /\ r + 1 \in 1 .. 16 /\ (r + 1) - 1 = r
  BY DEF Bases
<1>2. Symbols(fs)[r + 1] \in {Lower[r + 1], Upper[r + 1]}
  BY DEF Symbols
<1> QED
  BY <1>1, <1>2, WorthIs DEF IsDigitOf

LEMMA ZeroRead ==
    ASSUME NEW b \in Bases
    PROVE  IsDigitOf("0", b) /\ WorthOf("0") = 0
<1>1. "0" \in {Lower[1], Upper[1]} /\ 1 \in 1 .. b /\ 1 \in 1 .. 16
  BY TenDigits, SixteenDigits DEF Bases
<1> QED
  BY <1>1, WorthIs DEF IsDigitOf

(* Chars that are passed over.                                             *)
LEMMA Others ==
    /\ \A b \in Bases, c \in {" ", "-", "+"} : ~ IsDigitOf(c, b)
    /\ ~ IsDigitOf("x", 16) /\ ~ IsDigitOf("X", 16) /\ ~ IsDigitOf("b", 2)
<1>1. \A k \in 1 .. 16, c \in {" ", "-", "+", "x", "X"} : c \notin {Lower[k], Upper[k]}
  BY EachDigit
<1>2. \A k \in 1 .. 2 : "b" \notin {Lower[k], Upper[k]}
  <2>1. \A k \in 1 .. 2 : k \in 1 .. 16
    OBVIOUS
  <2> QED
    BY <2>1, EachDigit
<1>3. \A b \in Bases : \A k \in 1 .. b : k \in 1 .. 16
  BY DEF Bases
<1> QED
  BY <1>1, <1>2, <1>3 DEF IsDigitOf

-----------------------------------------------------------------------------
(* Reading a text: front counts the number that its first chars show.      *)
Read(n, c, b) == IF IsDigitOf(c, b) THEN n * b + WorthOf(c) ELSE n

ReadsAs(front, s, b) ==
    /\ front[0] = 0
    /\ \A k \in 0 .. Len(s) - 1 : front[k + 1] = Read(front[k], s[k + 1], b)

LEMMA ReadInt ==
    ASSUME NEW n \in Int, NEW c, NEW b \in Bases
    PROVE  Read(n, c, b) \in Int
<1>1. CASE IsDigitOf(c, b)
  <2>1. PICK k \in 1 .. b : c \in {Lower[k], Upper[k]}
    BY <1>1 DEF IsDigitOf
  <2>2. k \in 1 .. 16 /\ b \in Int
    BY DEF Bases
  <2>3. WorthOf(c) = k - 1
    BY <2>1, <2>2, WorthIs
  <2> QED
    BY <1>1, <2>2, <2>3 DEF Read
<1>2. CASE ~ IsDigitOf(c, b)
  BY <1>2 DEF Read
<1> QED
  BY <1>1, <1>2

LEMMA SomeReads ==
    ASSUME NEW s, IsSeq(s), NEW b \in Bases
    PROVE  \E front \in [0 .. Len(s) -> Int] : ReadsAs(front, s, b)
<1> DEFINE g == [p \in Nat \X Int |-> Read(p[2], s[p[1] + 1], b)]
<1>1. Len(s) \in Nat
  BY DEF IsSeq
<1>2. g \in [Nat \X Int -> Int] /\ \A k \in Nat, x \in Int : g[<<k, x>>] = Read(x, s[k + 1], b)
  BY ReadInt
<1> HIDE DEF g
<1>3. PICK f \in [Nat -> Int] : Recursive(f, 0, g)
  BY <1>2, 0 \in Int, Recursion, Zenon
<1> DEFINE front == [k \in 0 .. Len(s) |-> f[k]]
<1>4. front \in [0 .. Len(s) -> Int] /\ front[0] = 0
  BY <1>1, <1>3 DEF Recursive
<1>5. ASSUME NEW k \in 0 .. Len(s) - 1 PROVE front[k + 1] = Read(front[k], s[k + 1], b)
  <2>1. k \in Nat /\ k \in 0 .. Len(s) /\ k + 1 \in 0 .. Len(s) /\ f[k] \in Int
    BY <1>1
  <2>2. f[k + 1] = Read(f[k], s[k + 1], b)
    BY <1>2, <1>3, <2>1 DEF Recursive
  <2> QED
    BY <2>1, <2>2
<1> HIDE DEF front
<1> QED
  BY <1>4, <1>5 DEF ReadsAs

LEMMA ShowsIs ==
    ASSUME NEW s, IsSeq(s), NEW b \in Bases
    PROVE  \E front : ReadsAs(front, s, b) /\ Shows(s, b) = front[Len(s)]
<1> DEFINE Eq(h) == h = [k \in 0 .. Len(s) |->
                           IF k = 0 THEN 0
                           ELSE IF IsDigitOf(s[k], b) THEN h[k - 1] * b + WorthOf(s[k])
                           ELSE h[k - 1]]
           front == CHOOSE h : Eq(h)
<1>1. Len(s) \in Nat
  BY DEF IsSeq
<1>2. Eq(front)
  <2>1. PICK w \in [0 .. Len(s) -> Int] : ReadsAs(w, s, b)
    BY SomeReads
  <2>2. ASSUME NEW k \in 0 .. Len(s), k # 0
        PROVE  w[k] = IF IsDigitOf(s[k], b) THEN w[k - 1] * b + WorthOf(s[k]) ELSE w[k - 1]
    <3>1. k - 1 \in 0 .. Len(s) - 1 /\ (k - 1) + 1 = k
      BY <1>1, <2>2
    <3>2. w[(k - 1) + 1] = Read(w[k - 1], s[(k - 1) + 1], b)
      BY <2>1, <3>1 DEF ReadsAs
    <3> QED
      BY <3>1, <3>2 DEF Read
  <2>3. w[0] = 0
    BY <2>1 DEF ReadsAs
  <2>4. Eq(w)
    BY <2>2, <2>3
  <2> QED
    BY <2>4
<1>3. Shows(s, b) = front[Len(s)]
  BY Zenon DEF Shows
<1> HIDE DEF front
<1>4. \A k \in 0 .. Len(s) : front[k] = IF k = 0 THEN 0
                                        ELSE IF IsDigitOf(s[k], b)
                                             THEN front[k - 1] * b + WorthOf(s[k])
                                        ELSE front[k - 1]
  BY <1>2, Zenon
<1>5. ASSUME NEW k \in 0 .. Len(s) - 1 PROVE front[k + 1] = Read(front[k], s[k + 1], b)
  <2>1. k + 1 \in 0 .. Len(s) /\ k + 1 # 0 /\ (k + 1) - 1 = k
    BY <1>1
  <2> QED
    BY <1>4, <2>1 DEF Read
<1>6. front[0] = 0
  BY <1>1, <1>4
<1> QED
  BY <1>3, <1>5, <1>6 DEF ReadsAs

(* What is in front of the first digit that is not a zero shows nothing.   *)
Skipped(c, b) == ~ IsDigitOf(c, b) \/ c = "0"

LEMMA ReadsNothing ==
    ASSUME NEW s, IsSeq(s), NEW b \in Bases, NEW front, ReadsAs(front, s, b),
           NEW a \in 0 .. Len(s), \A k \in 1 .. a : Skipped(s[k], b)
    PROVE  front[a] = 0
<1> DEFINE N == {k \in Nat : k <= a => front[k] = 0}
<1>1. Len(s) \in Nat /\ a \in Nat
  BY DEF IsSeq
<1>2. 0 \in N
  BY DEF ReadsAs
<1>3. ASSUME NEW k \in N PROVE k + 1 \in N
  <2>1. SUFFICES ASSUME k + 1 <= a PROVE front[k + 1] = 0
    OBVIOUS
  <2>2. k \in 0 .. Len(s) - 1 /\ k + 1 \in 1 .. a /\ front[k] = 0
    BY <1>1, <2>1
  <2>3. front[k + 1] = Read(0, s[k + 1], b) /\ Skipped(s[k + 1], b)
    BY <2>2 DEF ReadsAs
  <2>4. 0 * b = 0
    BY DEF Bases
  <2> QED
    BY <2>3, <2>4, ZeroRead DEF Read, Skipped
<1>4. N \in SUBSET Nat /\ \A k \in N : k + 1 \in N
  BY <1>3
<1>5. N = Nat
  <2> HIDE DEF N
  <2> QED
    BY <1>2, <1>4, AllNaturals
<1> QED
  BY <1>1, <1>5

(* What is behind the last digit changes nothing.                          *)
LEMMA ReadsNoMore ==
    ASSUME NEW s, IsSeq(s), NEW b \in Bases, NEW front, ReadsAs(front, s, b),
           NEW a \in 0 .. Len(s), \A k \in a + 1 .. Len(s) : ~ IsDigitOf(s[k], b)
    PROVE  front[Len(s)] = front[a]
<1> DEFINE N == {k \in Nat : a + k <= Len(s) => front[a + k] = front[a]}
<1>1. Len(s) \in Nat /\ a \in Nat /\ a <= Len(s)
  BY DEF IsSeq
<1>2. 0 \in N
  BY <1>1
<1>3. ASSUME NEW k \in N PROVE k + 1 \in N
  <2>1. SUFFICES ASSUME a + (k + 1) <= Len(s) PROVE front[a + (k + 1)] = front[a]
    OBVIOUS
  <2>2. /\ a + k \in 0 .. Len(s) - 1 /\ (a + k) + 1 \in a + 1 .. Len(s)
        /\ (a + k) + 1 = a + (k + 1) /\ front[a + k] = front[a]
    BY <1>1, <2>1
  <2>3. front[(a + k) + 1] = Read(front[a + k], s[(a + k) + 1], b)
    BY <2>2 DEF ReadsAs
  <2>4. ~ IsDigitOf(s[(a + k) + 1], b)
    BY <2>2
  <2> QED
    BY <2>2, <2>3, <2>4 DEF Read
<1>4. N \in SUBSET Nat /\ \A k \in N : k + 1 \in N
  BY <1>3
<1>5. N = Nat
  <2> HIDE DEF N
  <2> QED
    BY <1>2, <1>4, AllNaturals
<1>6. Len(s) - a \in Nat /\ a + (Len(s) - a) = Len(s)
  BY <1>1
<1>7. Len(s) - a \in N
  BY <1>5, <1>6
<1> QED
  BY <1>1, <1>6, <1>7

(* Products.                                                               *)
LEMMA Reordered ==
    ASSUME NEW x \in Int, NEW y \in Int, NEW z \in Int
    PROVE  /\ x * (y * z) = (x * z) * y
           /\ x * y \in Int /\ x * 1 = x
  OBVIOUS

LEMMA Distributed ==
    ASSUME NEW x \in Int, NEW y \in Int, NEW z \in Int
    PROVE  (x - y) * z = x * z - y * z /\ (x + y) * z = x * z + y * z
  OBVIOUS

(* Division by a base.                                                     *)
LEMMA Division ==
    ASSUME NEW n \in Nat, NEW b \in Bases
    PROVE  /\ n \div b \in Nat /\ n % b \in 0 .. b - 1
           /\ n = (n \div b) * b + (n % b)
<1>1. /\ n \div 2 \in Nat /\ n % 2 \in 0 .. 1 /\ n = (n \div 2) * 2 + (n % 2)
      /\ n \div 8 \in Nat /\ n % 8 \in 0 .. 7 /\ n = (n \div 8) * 8 + (n % 8)
      /\ n \div 10 \in Nat /\ n % 10 \in 0 .. 9 /\ n = (n \div 10) * 10 + (n % 10)
      /\ n \div 16 \in Nat /\ n % 16 \in 0 .. 15 /\ n = (n \div 16) * 16 + (n % 16)
  OBVIOUS
<1> QED
  BY <1>1 DEF Bases

(* What is left before a digit is taken away, and after it.                *)
LEMMA DividesOnce ==
    ASSUME NEW v, NEW b \in Bases, NEW left \in [0 .. NtoaSize -> Nat], Divides(left, v, b),
           NEW k \in 0 .. NtoaSize - 1
    PROVE  /\ left[k] \in Nat /\ left[k + 1] \in Nat
           /\ left[k + 1] = left[k] \div b
           /\ left[k] = left[k + 1] * b + (left[k] % b)
           /\ left[k] % b \in 0 .. b - 1
<1>1. k \in 0 .. NtoaSize /\ k + 1 \in 0 .. NtoaSize
  BY PrintfAssumption
<1>2. left[k] \in Nat /\ left[k + 1] \in Nat /\ left[k + 1] = left[k] \div b
  BY <1>1 DEF Divides
<1> QED
  BY <1>2, Division

(* Digits, the last one first: each is what division by the base takes.    *)
Carries(x, left, b) ==
    \A k \in 1 .. Len(x) : IsDigitOf(x[k], b) /\ WorthOf(x[k]) = left[k - 1] % b

(* The chars of x in s behind the first a ones, the last one first.        *)
Backwards(s, a, x) == \A k \in 1 .. Len(x) : s[a + k] = x[Len(x) + 1 - k]

(* A numeral: some of the digits of v, with what is left behind each.      *)
Numeral(x, v, b, left) ==
    /\ IsSeq(x) /\ Len(x) <= NtoaSize /\ Carries(x, left, b)
    /\ left \in [0 .. NtoaSize -> Nat] /\ Divides(left, v, b)

LEMMA ReadsDigits ==
    ASSUME NEW s, IsSeq(s), NEW b \in Bases, NEW front, ReadsAs(front, s, b),
           NEW x, NEW v, NEW left, Numeral(x, v, b, left),
           NEW a \in Nat, a + Len(x) <= Len(s), front[a] = 0,
           Backwards(s, a, x)
    PROVE  front[a + Len(x)] = v - left[Len(x)] * Power(b)[Len(x)]
<1>0. PICK P : P = Power(b)
  OBVIOUS
<1> USE DEF Numeral
<1> DEFINE m == Len(x)
           N == {l \in Nat : l <= m => front[a + l] = left[m - l] - left[m] * P[l]}
<1>1. /\ m \in Nat /\ m <= NtoaSize /\ NtoaSize \in Nat /\ Len(s) \in Nat /\ b \in Nat
      /\ m \in 0 .. NtoaSize /\ left[m] \in Nat
  <2>1. m \in Nat /\ Len(s) \in Nat /\ b \in Nat
    BY LenNat DEF Bases
  <2>2. m <= NtoaSize /\ NtoaSize \in Nat /\ left \in [0 .. NtoaSize -> Nat]
    BY PrintfAssumption
  <2> HIDE DEF m
  <2>3. m \in 0 .. NtoaSize
    BY <2>1, <2>2
  <2> QED
    BY <2>1, <2>2, <2>3
<1>2. P[0] = 1 /\ \A l \in Nat : P[l] \in Nat /\ P[l + 1] = b * P[l]
  BY <1>0, <1>1, Powers
<1>3. 0 \in N
  <2>1. a + 0 = a /\ m - 0 = m /\ left[m] * P[0] = left[m] /\ left[m] - left[m] = 0
    <3>1. left[m] \in Int /\ a \in Int /\ m \in Int
      BY <1>1
    <3> HIDE DEF m
    <3>2. left[m] * 1 = left[m]
      BY <3>1, Reordered
    <3>3. P[0] = 1
      BY <1>2, Zenon
    <3>4. a + 0 = a /\ m - 0 = m /\ left[m] - left[m] = 0
      BY <3>1
    <3> QED
      BY <3>2, <3>3, <3>4, Zenon
  <2>2. front[a + 0] = left[m - 0] - left[m] * P[0]
    BY <2>1
  <2> QED
    BY <2>2
<1>4. ASSUME NEW l \in N PROVE l + 1 \in N
  <2>1. SUFFICES ASSUME l + 1 <= m
                 PROVE  front[a + (l + 1)] = left[m - (l + 1)] - left[m] * P[l + 1]
    OBVIOUS
  <2> DEFINE k == m - (l + 1)
             q == left[m] * P[l]
  <2>2. /\ l \in Nat /\ k \in 0 .. NtoaSize - 1 /\ k + 1 = m - l /\ k + 1 \in 1 .. m
        /\ a + l \in 0 .. Len(s) - 1 /\ (a + l) + 1 = a + (l + 1)
        /\ l + 1 \in 1 .. m /\ m + 1 - (l + 1) = k + 1
    <3>1. l \in Nat /\ a \in Nat /\ a + m <= Len(s)
      BY Zenon
    <3> HIDE DEF m, q, N
    <3>2. l + 1 <= m /\ m \in Nat /\ m <= NtoaSize /\ NtoaSize \in Nat /\ Len(s) \in Nat
      BY <1>1, <2>1
    <3>3. /\ k \in 0 .. NtoaSize - 1 /\ k + 1 = m - l /\ k + 1 \in 1 .. m
          /\ l + 1 \in 1 .. m /\ m + 1 - (l + 1) = k + 1
      BY <3>1, <3>2
    <3>4. a + l \in 0 .. Len(s) - 1 /\ (a + l) + 1 = a + (l + 1)
      BY <3>1, <3>2
    <3> QED
      BY <3>1, <3>3, <3>4, Zenon
  <2>3. front[a + l] = left[k + 1] - q
    BY <1>4, <2>1, <2>2
  <2>4. front[a + (l + 1)] = Read(front[a + l], s[a + (l + 1)], b)
    <3>1. front[(a + l) + 1] = Read(front[a + l], s[(a + l) + 1], b)
      BY <2>2 DEF ReadsAs
    <3> QED
      BY <2>2, <3>1
  <2>5. s[a + (l + 1)] = x[k + 1]
    BY <2>2 DEF Backwards
  <2>6. IsDigitOf(x[k + 1], b) /\ WorthOf(x[k + 1]) = left[k] % b
    <3>1. (k + 1) - 1 = k
      BY <2>2
    <3> HIDE DEF k
    <3> QED
      BY <2>2, <3>1 DEF Carries
  <2>7. /\ left[k] \in Nat /\ left[k + 1] \in Nat
        /\ left[k] = left[k + 1] * b + (left[k] % b) /\ left[k] % b \in 0 .. b - 1
    <3> HIDE DEF k
    <3> QED
      BY <2>2, DividesOnce
  <2>8. q \in Int /\ left[m] * P[l + 1] = q * b
    <3>1. l \in Nat
      BY <2>2
    <3>2. P[l] \in Nat /\ P[l + 1] = b * P[l]
      BY <1>2, <3>1, Zenon
    <3>4. P[l] \in Int
      BY <3>2
    <3>3. left[m] \in Int /\ b \in Int
      BY <1>1
    <3> HIDE DEF m
    <3> QED
      BY <3>2, <3>3, <3>4, Reordered
  <2> HIDE DEF k, q
  <2>9. front[a + (l + 1)] = (left[k + 1] - q) * b + (left[k] % b)
    BY <2>3, <2>4, <2>5, <2>6 DEF Read
  <2>10. (left[k + 1] - q) * b + (left[k] % b) = left[k] - q * b
    <3>1. left[k + 1] \in Int /\ b \in Int
      BY <1>1, <2>7
    <3>2. (left[k + 1] - q) * b = left[k + 1] * b - q * b
      BY <2>8, <3>1, Distributed
    <3>3. left[k + 1] * b \in Int /\ q * b \in Int
      BY <1>1, <2>7, <2>8
    <3> QED
      BY <2>7, <3>2, <3>3
  <2> QED
    BY <2>8, <2>9, <2>10 DEF k
<1>5. N \in SUBSET Nat /\ \A l \in N : l + 1 \in N
  BY <1>4
<1>6. N = Nat
  <2> HIDE DEF N
  <2> QED
    BY <1>3, <1>5, AllNaturals
<1>7. front[a + m] = left[m - m] - left[m] * P[m] /\ m - m = 0
  <2>1. \A l \in Nat : l <= m => front[a + l] = left[m - l] - left[m] * P[l]
    BY <1>6
  <2> HIDE DEF m
  <2> QED
    BY <1>1, <2>1
<1>8. left[0] = v
  BY DEF Divides
<1> QED
  BY <1>0, <1>1, <1>7, <1>8

(* Digits in their place, between what shows nothing and what is no digit. *)
LEMMA ReadBack ==
    ASSUME NEW s, IsSeq(s), NEW b \in Bases,
           NEW x, NEW v, NEW left, Numeral(x, v, b, left),
           NEW a \in Nat, a + Len(x) <= Len(s),
           \A k \in 1 .. a : Skipped(s[k], b),
           Backwards(s, a, x),
           \A k \in a + Len(x) + 1 .. Len(s) : ~ IsDigitOf(s[k], b)
    PROVE  Shows(s, b) = v - left[Len(x)] * Power(b)[Len(x)]
<1>1. PICK front : ReadsAs(front, s, b) /\ Shows(s, b) = front[Len(s)]
  BY ShowsIs
<1>2. Len(s) \in Nat /\ Len(x) \in Nat
  BY DEF IsSeq, Numeral
<1>3. a \in 0 .. Len(s) /\ a + Len(x) \in 0 .. Len(s)
  BY <1>2
<1>4. front[a] = 0
  BY <1>1, <1>3, ReadsNothing
<1>5. front[a + Len(x)] = v - left[Len(x)] * Power(b)[Len(x)]
  BY <1>1, <1>4, ReadsDigits
<1>6. front[Len(s)] = front[a + Len(x)]
  BY <1>1, <1>3, ReadsNoMore
<1> QED
  BY <1>1, <1>5, <1>6

(* What is left of a number, and the powers of the base.                   *)
LEMMA LeftOf ==
    ASSUME NEW v \in Nat, NEW b \in Bases,
           NEW left \in [0 .. NtoaSize -> Nat], Divides(left, v, b)
    PROVE  \A k \in 0 .. NtoaSize :
              /\ left[k] * Power(b)[k] <= v /\ v < (left[k] + 1) * Power(b)[k]
<1>0. PICK P : P = Power(b)
  OBVIOUS
<1>1. b \in Nat /\ b > 1 /\ NtoaSize \in Nat
  BY PrintfAssumption DEF Bases
<1>2. P[0] = 1 /\ \A k \in Nat : P[k] \in Nat /\ P[k + 1] = b * P[k]
  BY <1>0, <1>1, Powers
<1> DEFINE Ok(k) == left[k] * P[k] <= v /\ v < (left[k] + 1) * P[k]
           N == {k \in Nat : k <= NtoaSize => Ok(k)}
<1>3. 0 \in N
  <2>1. left[0] = v /\ P[0] = 1
    BY <1>2, Zenon DEF Divides
  <2>2. v * 1 = v /\ (v + 1) * 1 = v + 1
    OBVIOUS
  <2>3. v <= v /\ v < v + 1
    OBVIOUS
  <2>4. Ok(0)
    BY <2>1, <2>2, <2>3, Zenon
  <2> QED
    BY <2>4
<1>4. ASSUME NEW k \in N PROVE k + 1 \in N
  <2>1. SUFFICES ASSUME k + 1 <= NtoaSize PROVE Ok(k + 1)
    OBVIOUS
  <2>2. k \in Nat /\ k \in 0 .. NtoaSize - 1
    BY <1>1, <2>1
  <2>3. Ok(k)
    BY <1>1, <2>1
  <2>4. /\ left[k] \in Nat /\ left[k + 1] \in Nat
        /\ left[k] = left[k + 1] * b + (left[k] % b) /\ left[k] % b \in 0 .. b - 1
    BY <2>2, DividesOnce
  <2>5. P[k] \in Nat /\ P[k + 1] = b * P[k]
    BY <1>2, <2>2, Zenon
  <2> DEFINE q == left[k + 1]
             r == left[k] % b
             p == P[k]
  <2>6. q \in Nat /\ r \in Nat /\ r + 1 <= b /\ p \in Nat /\ left[k] = q * b + r
    BY <1>1, <2>4, <2>5
  <2>7. /\ (q * b + r) * p <= v /\ v < ((q * b + r) + 1) * p
    BY <2>3, <2>6, Zenon
  <2> HIDE DEF q, r, p
  <2>8. q * (b * p) <= v
    <3>1. (q * b + r) * p = q * (b * p) + r * p
      BY <1>1, <2>6
    <3>2. r * p \in Nat /\ q * (b * p) \in Nat
      BY <1>1, <2>6
    <3> QED
      BY <2>7, <3>1, <3>2
  <2>9. v < (q + 1) * (b * p)
    <3>1. ((q * b + r) + 1) * p = q * (b * p) + (r + 1) * p
      BY <1>1, <2>6
    <3>2. (q + 1) * (b * p) = q * (b * p) + b * p
      BY <1>1, <2>6
    <3>3. (r + 1) * p <= b * p
      <4>1. b - (r + 1) \in Nat
        BY <1>1, <2>6
      <4>2. (b - (r + 1)) * p \in Nat
        BY <2>6, <4>1
      <4>3. (b - (r + 1)) * p = b * p - (r + 1) * p
        BY <1>1, <2>6
      <4>4. b * p \in Int /\ (r + 1) * p \in Int
        BY <1>1, <2>6
      <4> QED
        BY <4>2, <4>3, <4>4
    <3>4. q * (b * p) \in Int /\ b * p \in Int /\ (r + 1) * p \in Int
      BY <1>1, <2>6
    <3> QED
      BY <2>7, <3>1, <3>2, <3>3, <3>4
  <2> QED
    BY <2>5, <2>8, <2>9, Zenon DEF q, p
<1>5. N \in SUBSET Nat /\ \A k \in N : k + 1 \in N
  BY <1>4
<1>6. N = Nat
  <2> HIDE DEF N
  <2> QED
    BY <1>3, <1>5, AllNaturals
<1>7. \A k \in Nat : k <= NtoaSize => Ok(k)
  BY <1>6
<1>8. ASSUME NEW k \in 0 .. NtoaSize PROVE Ok(k)
  <2>1. k \in Nat /\ k <= NtoaSize
    BY <1>1
  <2> QED
    BY <1>7, <2>1, Zenon
<1> QED
  BY <1>0, <1>8, Zenon

(* Nothing is left exactly of the numbers below the power.                 *)
LEMMA NothingLeft ==
    ASSUME NEW v \in Nat, NEW b \in Bases,
           NEW left \in [0 .. NtoaSize -> Nat], Divides(left, v, b),
           NEW k \in 0 .. NtoaSize
    PROVE  /\ (left[k] = 0) = (v < Power(b)[k])
           /\ left[k] # 0 => left[k] * Power(b)[k] > 0
<1>1. PICK p : p = Power(b)[k]
  OBVIOUS
<1>2. b \in Nat /\ b > 1 /\ k \in Nat
  BY PrintfAssumption DEF Bases
<1>3. p \in Nat /\ p > 0
  <2>1. Power(b)[k] \in Nat
    BY <1>2, Powers
  <2>2. Power(b)[k] > k
    BY <1>2, PowersRise
  <2> QED
    BY <1>1, <1>2, <2>1, <2>2
<1>4. left[k] * p <= v /\ v < (left[k] + 1) * p /\ left[k] \in Nat
  BY <1>1, LeftOf
<1>5. CASE left[k] = 0
  <2>1. v < (0 + 1) * p
    BY <1>4, <1>5, Zenon
  <2>2. (0 + 1) * p = p
    BY <1>3
  <2> QED
    BY <1>1, <1>5, <2>1, <2>2
<1>6. CASE left[k] # 0
  <2>1. left[k] - 1 \in Nat
    BY <1>4, <1>6
  <2>2. (left[k] - 1) * p \in Nat
    BY <1>3, <2>1
  <2>3. (left[k] - 1) * p = left[k] * p - p
    BY <1>3, <1>4
  <2>4. left[k] * p \in Nat
    BY <1>3, <1>4
  <2>5. left[k] * p >= p
    BY <1>3, <2>2, <2>3, <2>4
  <2>6. left[k] * p > 0 /\ ~ v < p
    BY <1>3, <1>4, <2>4, <2>5
  <2> QED
    BY <1>1, <1>6, <2>6
<1> QED
  BY <1>5, <1>6

(* How many digits are written, if there is room for them.                 *)
Count(v, b, fs) == IF NoDigits(v, fs) THEN 0 ELSE DigitCount(v, b)

(* The numeral of v has c digits: nothing is left behind them, and not      *)
(* earlier.                                                                *)
LeftUntil(c, v, left) ==
    /\ \A k \in 0 .. NtoaSize : k >= c => left[k] = 0
    /\ \A k \in 0 .. NtoaSize : v # 0 /\ k < c => left[k] # 0

Spelled(d, v, b, fs, left) ==
    /\ Numeral(d, v, b, left) /\ Len(d) = Count(v, b, fs)
    /\ LeftUntil(Count(v, b, fs), v, left)

LEMMA DigitsSpell ==
    ASSUME NEW v \in Nat, NEW b \in Bases, NEW fs, Count(v, b, fs) <= NtoaSize
    PROVE  /\ Count(v, b, fs) \in Nat
           /\ \E left : Spelled(DigitsOf(v, b, fs), v, b, fs, left)
<1>1. b \in Nat /\ b > 1 /\ NtoaSize \in Nat
  BY PrintfAssumption DEF Bases
<1>2. CASE NoDigits(v, fs)
  <2>1. DigitsOf(v, b, fs) = <<>> /\ v = 0 /\ Count(v, b, fs) = 0
    BY <1>2 DEF DigitsOf, NoDigits, Count
  <2>2. PICK left \in [0 .. NtoaSize -> Nat] : Divides(left, v, b)
    BY <1>1, SomeDivides
  <2>3. ASSUME NEW k \in 0 .. NtoaSize PROVE left[k] = 0
    <3>1. k \in Nat
      BY <1>1
    <3>2. Power(b)[k] \in Nat /\ Power(b)[k] > k
      BY <1>1, <3>1, Powers, PowersRise
    <3>3. v < Power(b)[k]
      BY <2>1, <3>1, <3>2
    <3> QED
      BY <2>2, <3>3, NothingLeft
  <2>4. IsSeq(<<>>) /\ Len(<<>>) = 0
    BY ShortSeq
  <2>5. Carries(<<>>, left, b)
    BY <2>4 DEF Carries
  <2> QED
    BY <1>1, <2>1, <2>2, <2>3, <2>4, <2>5 DEF Spelled, Numeral, LeftUntil
<1>3. CASE ~ NoDigits(v, fs)
  <2>1. PICK left \in [0 .. NtoaSize -> Nat], n \in 1 .. NtoaSize :
             Written(v, b, fs, left, n)
    BY <1>1, <1>3, DigitsAre
  <2> DEFINE c == DigitCount(v, b)
             d == DigitsOf(v, b, fs)
  <2>2. /\ c \in Nat /\ c > 0 /\ v < Power(b)[c]
        /\ \A k \in Nat : Power(b)[k] <= v => k < c
        /\ \A k \in 1 .. c - 1 : Power(b)[k] <= v
    <3>1. /\ c \in Nat \ {0} /\ v < Power(b)[c]
          /\ \A k \in Nat : Power(b)[k] <= v => k < c
          /\ \A k \in 1 .. c - 1 : Power(b)[k] <= v
      BY <1>1, DigitCounts, Zenon
    <3>2. \A y \in Nat \ {0} : y \in Nat /\ y > 0
      OBVIOUS
    <3> HIDE DEF c
    <3> QED
      BY <3>1, <3>2, Zenon
  <2>3. c <= NtoaSize /\ Count(v, b, fs) = c
    BY <1>3 DEF Count
  <2> HIDE DEF c
  <2>4. Divides(left, v, b) /\ (n = NtoaSize \/ left[n] = 0) /\ \A k \in 1 .. n - 1 : left[k] # 0
    BY <2>1 DEF Written
  <2>5. n = c
    <3>1. n \in Nat /\ n > 0 /\ n <= NtoaSize /\ n \in 0 .. NtoaSize /\ c \in 0 .. NtoaSize
      BY <1>1, <2>2, <2>3
    <3>2. left[c] = 0
      BY <2>2, <2>4, <3>1, NothingLeft
    <3>3. ~ c \in 1 .. n - 1
      BY <2>4, <3>2
    <3>4. ASSUME n < c PROVE FALSE
      <4>1. n \in 1 .. c - 1 /\ n # NtoaSize
        BY <2>2, <2>3, <3>1, <3>4
      <4>2. Power(b)[n] <= v /\ Power(b)[n] \in Nat /\ left[n] = 0
        BY <1>1, <2>2, <2>4, <3>1, <4>1, Powers
      <4>3. v < Power(b)[n]
        BY <2>4, <3>1, <4>2, NothingLeft
      <4> QED
        BY <4>2, <4>3
    <3> QED
      BY <2>2, <3>1, <3>3, <3>4
  <2>6. d = [k \in 1 .. n |-> Symbols(fs)[(left[k - 1] % b) + 1]]
    BY <2>1 DEF Written
  <2>7. IsSeq(d) /\ Len(d) = n /\ n \in Nat
    BY <1>1, <2>6, TabulatedSeq
  <2>8. Carries(d, left, b)
    <3>1. ASSUME NEW k \in 1 .. n
          PROVE  IsDigitOf(d[k], b) /\ WorthOf(d[k]) = left[k - 1] % b
      <4>1. k - 1 \in 0 .. NtoaSize - 1
        BY <1>1
      <4>2. left[k - 1] % b \in 0 .. b - 1
        BY <2>4, <4>1, DividesOnce
      <4>3. d[k] = Symbols(fs)[(left[k - 1] % b) + 1]
        BY <2>6
      <4> QED
        BY <4>2, <4>3, SymbolsRead
    <3> HIDE DEF d
    <3> QED
      BY <2>7, <3>1 DEF Carries
  <2>9. ASSUME NEW k \in 0 .. NtoaSize, k >= n PROVE left[k] = 0
    <3>1. k \in Nat /\ c <= k
      BY <1>1, <2>5, <2>9
    <3>2. Power(b)[k] \in Nat /\ Power(b)[c] \in Nat /\ Power(b)[c] <= Power(b)[k]
      BY <1>1, <2>2, <3>1, Powers, PowersRise
    <3>3. v < Power(b)[k]
      BY <2>2, <3>2
    <3> QED
      BY <2>4, <3>3, NothingLeft
  <2>10. ASSUME NEW k \in 0 .. NtoaSize, v # 0, k < n PROVE left[k] # 0
    <3>1. CASE k = 0
      BY <2>4, <2>10, <3>1 DEF Divides
    <3>2. CASE k # 0
      <4>1. k \in 1 .. n - 1
        BY <1>1, <2>7, <2>10, <3>2
      <4> QED
        BY <2>4, <4>1
    <3> QED
      BY <3>1, <3>2
  <2> HIDE DEF d
  <2>11. Numeral(d, v, b, left)
    BY <2>3, <2>4, <2>5, <2>7, <2>8 DEF Numeral
  <2>12. LeftUntil(n, v, left)
    BY <2>9, <2>10 DEF LeftUntil
  <2>13. Spelled(d, v, b, fs, left)
    BY <2>3, <2>5, <2>7, <2>11, <2>12 DEF Spelled
  <2> QED
    BY <2>2, <2>3, <2>13 DEF d
<1> QED
  BY <1>2, <1>3

-----------------------------------------------------------------------------
(* The conversion buffer, filled up with zeros.                            *)
LEMMA TimesIs ==
    ASSUME NEW c, NEW n \in Int
    PROVE  /\ IsSeq(Times(c, n)) /\ Len(Times(c, n)) = Greater(n, 0)
           /\ \A k \in 1 .. Greater(n, 0) : Times(c, n)[k] = c
<1>1. Greater(n, 0) \in Nat
  BY DEF Greater
<1> DEFINE f == [k \in 1 .. Greater(n, 0) |-> c]
<1>2. Times(c, n) = f
  BY DEF Times
<1>3. f = [k \in 1 .. Greater(n, 0) |-> f[k]] /\ \A k \in 1 .. Greater(n, 0) : f[k] = c
  OBVIOUS
<1> HIDE DEF f
<1>4. IsSeq(f) /\ Len(f) = Greater(n, 0)
  BY <1>1, <1>3, TabulatedSeq
<1> QED
  BY <1>2, <1>3, <1>4

LEMMA UpToIs ==
    ASSUME NEW buf, IsSeq(buf), NEW n \in Nat
    PROVE  /\ IsSeq(UpTo(buf, n)) /\ Len(buf) \in Nat
           /\ Len(UpTo(buf, n)) = Greater(Len(buf), Lesser(n, NtoaSize))
           /\ \A k \in 1 .. Len(buf) : UpTo(buf, n)[k] = buf[k]
           /\ \A k \in Len(buf) + 1 .. Len(UpTo(buf, n)) : UpTo(buf, n)[k] = "0"
<1> DEFINE more == Lesser(n, NtoaSize) - Len(buf)
           pad  == Times("0", more)
<1>1. Len(buf) \in Nat /\ NtoaSize \in Nat /\ Lesser(n, NtoaSize) \in Nat
  BY PrintfAssumption DEF IsSeq, Lesser
<1>2. more \in Int
  BY <1>1
<1>3. /\ IsSeq(pad) /\ Len(pad) = Greater(more, 0)
      /\ \A k \in 1 .. Greater(more, 0) : pad[k] = "0"
  BY <1>2, TimesIs
<1>4. UpTo(buf, n) = buf \o pad
  BY DEF UpTo
<1>5. Len(buf) + Greater(more, 0) = Greater(Len(buf), Lesser(n, NtoaSize))
  BY <1>1 DEF Greater
<1> HIDE DEF pad
<1>6. /\ IsSeq(buf \o pad) /\ Len(buf \o pad) = Len(buf) + Greater(more, 0)
      /\ \A k \in 1 .. Len(buf) + Greater(more, 0) :
            (buf \o pad)[k] = IF k <= Len(buf) THEN buf[k] ELSE pad[k - Len(buf)]
  BY <1>3, JoinedSeq
<1>7. Greater(more, 0) \in Nat
  BY <1>2 DEF Greater
<1> HIDE DEF more
<1>8. \A k \in 1 .. Len(buf) : (buf \o pad)[k] = buf[k]
  BY <1>1, <1>6, <1>7
<1>9. ASSUME NEW k \in Len(buf) + 1 .. Len(buf) + Greater(more, 0)
      PROVE  (buf \o pad)[k] = "0"
  <2>1. /\ k \in 1 .. Len(buf) + Greater(more, 0) /\ ~ k <= Len(buf)
        /\ k - Len(buf) \in 1 .. Greater(more, 0)
    BY <1>1, <1>7
  <2> QED
    BY <1>3, <1>6, <2>1
<1> QED
  BY <1>1, <1>4, <1>5, <1>6, <1>8, <1>9

(* Zeros behind the last digit are digits of what is left there.           *)
LEMMA PaddedNumeral ==
    ASSUME NEW buf, NEW v, NEW b \in Bases, NEW left, Numeral(buf, v, b, left),
           NEW c, LeftUntil(c, v, left), c <= Len(buf), c \in Nat, NEW n \in Nat
    PROVE  Numeral(UpTo(buf, n), v, b, left)
<1> DEFINE t == UpTo(buf, n)
<1>1. IsSeq(buf) /\ Len(buf) <= NtoaSize /\ NtoaSize \in Nat
  BY PrintfAssumption DEF Numeral
<1>2. /\ IsSeq(t) /\ Len(buf) \in Nat
      /\ Len(t) = Greater(Len(buf), Lesser(n, NtoaSize))
      /\ \A k \in 1 .. Len(buf) : t[k] = buf[k]
      /\ \A k \in Len(buf) + 1 .. Len(t) : t[k] = "0"
  BY <1>1, UpToIs
<1>3. Len(t) \in Nat /\ Len(t) <= NtoaSize
  BY <1>1, <1>2 DEF Greater, Lesser
<1> HIDE DEF t
<1>4. ASSUME NEW k \in 1 .. Len(t)
      PROVE  IsDigitOf(t[k], b) /\ WorthOf(t[k]) = left[k - 1] % b
  <2>1. CASE k <= Len(buf)
    <3>1. k \in 1 .. Len(buf)
      BY <1>2, <1>3, <2>1
    <3> QED
      BY <1>2, <3>1 DEF Numeral, Carries
  <2>2. CASE ~ k <= Len(buf)
    <3>1. k \in Len(buf) + 1 .. Len(t) /\ k - 1 \in 0 .. NtoaSize /\ k - 1 >= c
      BY <1>1, <1>2, <1>3, <2>2
    <3>2. t[k] = "0" /\ left[k - 1] = 0
      BY <1>2, <3>1 DEF LeftUntil
    <3>3. 0 % b = 0
      BY DEF Bases
    <3> QED
      BY <3>2, <3>3, ZeroRead
  <2> QED
    BY <2>1, <2>2
<1> QED
  BY <1>2, <1>3, <1>4 DEF Numeral, Carries, t

(* How many chars the digits and the zeros of a field are.                 *)
ZerosLen(c, prec, w, fs) ==
    IF "LEFT" \in fs THEN c
    ELSE Greater(Greater(c, prec), IF "ZEROPAD" \in fs THEN w ELSE 0)

(* As long as the digits, the precision and the width with zeros ask for.  *)
(* All the digits of v.                                                    *)
Ended(buf, v, b, left) == Numeral(buf, v, b, left) /\ LeftUntil(Len(buf), v, left)

LEMMA ZerosIs ==
    ASSUME NEW buf, NEW v, NEW b \in Bases, NEW left, Ended(buf, v, b, left),
           NEW prec \in 0 .. NtoaSize, NEW w \in 0 .. NtoaSize, NEW fs
    PROVE  /\ Numeral(ZeroPadded(buf, prec, w, fs), v, b, left)
           /\ Len(ZeroPadded(buf, prec, w, fs)) = ZerosLen(Len(buf), prec, w, fs)
<1>1. /\ IsSeq(buf) /\ Len(buf) \in Nat /\ NtoaSize \in Nat
      /\ Numeral(buf, v, b, left) /\ LeftUntil(Len(buf), v, left)
      /\ prec \in Nat /\ w \in Nat /\ prec <= NtoaSize /\ w <= NtoaSize
  BY PrintfAssumption DEF Ended, Numeral, IsSeq
<1> DEFINE u == UpTo(buf, prec)
           w0 == IF "ZEROPAD" \in fs THEN w ELSE 0
<1>2. Numeral(u, v, b, left) /\ Len(u) = Greater(Len(buf), prec)
  <2>1. Len(u) = Greater(Len(buf), Lesser(prec, NtoaSize))
    BY <1>1, UpToIs
  <2>2. Lesser(prec, NtoaSize) = prec
    BY <1>1 DEF Lesser
  <2>3. Numeral(u, v, b, left)
    BY <1>1, PaddedNumeral
  <2> QED
    BY <2>1, <2>2, <2>3
<1>3. w0 \in Nat /\ Lesser(w0, NtoaSize) = w0
  BY <1>1 DEF Lesser
<1>4. IsSeq(u) /\ Len(u) \in Nat /\ Len(buf) <= Len(u)
  BY <1>1, <1>2 DEF Numeral, Greater
<1> HIDE DEF u, w0
<1>5. Len(UpTo(u, w0)) = Greater(Len(u), w0)
  BY <1>3, <1>4, UpToIs
<1>6. Numeral(UpTo(u, w0), v, b, left)
  BY <1>1, <1>2, <1>3, <1>4, PaddedNumeral
<1>7. CASE "LEFT" \in fs
  BY <1>1, <1>7 DEF ZeroPadded, ZerosLen
<1>8. CASE "LEFT" \notin fs
  <2>1. ZeroPadded(buf, prec, w, fs) = UpTo(u, w0)
    BY <1>8 DEF ZeroPadded, u, w0
  <2>2. ZerosLen(Len(buf), prec, w, fs) = Greater(Greater(Len(buf), prec), w0)
    BY <1>8 DEF ZerosLen, w0
  <2> QED
    BY <1>2, <1>5, <1>6, <2>1, <2>2
<1> QED
  BY <1>7, <1>8

(* A numeral loses its last chars.                                         *)
LEMMA CutNumeral ==
    ASSUME NEW x, NEW v, NEW b, NEW left, Numeral(x, v, b, left),
           NEW n \in Nat, n <= Len(x)
    PROVE  /\ Numeral(SubSeq(x, 1, n), v, b, left)
           /\ Len(SubSeq(x, 1, n)) = n
<1>1. PICK S : x \in Seq(S)
  BY DEF Numeral, IsSeq
<1> DEFINE t == SubSeq(x, 1, n)
<1>2. t \in Seq(S) /\ Len(t) = n /\ Len(x) \in Nat /\ \A k \in 1 .. n : t[k] = x[k]
  BY <1>1
<1> HIDE DEF t
<1>3. n <= NtoaSize
  BY <1>2, PrintfAssumption DEF Numeral
<1>4. \A k \in 1 .. Len(t) : k \in 1 .. Len(x) /\ t[k] = x[k]
  BY <1>2
<1>5. Carries(t, left, b)
  BY <1>4 DEF Numeral, Carries
<1> QED
  BY <1>2, <1>3, <1>5 DEF Numeral, IsSeq, t

(* The digits the prefix takes the place of.                               *)
Dropped(n, base, prec, w, fs) ==
    IF "HASH" \in fs /\ "PRECISION" \notin fs /\ n > 0 /\ n \in {prec, w}
    THEN IF base = 16 /\ n > 1 THEN 2 ELSE 1 ELSE 0

(* What the prefix leaves of them.                                         *)
Kept(buf, base, prec, w, fs) ==
    IF "HASH" \in fs THEN Shortened(buf, base, prec, w, fs) ELSE buf

LEMMA KeptIs ==
    ASSUME NEW buf, NEW v, NEW b \in Bases, NEW left, Numeral(buf, v, b, left),
           NEW prec, NEW w, NEW fs
    PROVE  /\ Numeral(Kept(buf, b, prec, w, fs), v, b, left)
           /\ Len(Kept(buf, b, prec, w, fs)) = Len(buf) - Dropped(Len(buf), b, prec, w, fs)
           /\ Len(buf) - Dropped(Len(buf), b, prec, w, fs) \in Nat
<1>1. Len(buf) \in Nat
  BY DEF Numeral, IsSeq
<1> DEFINE Cut == "HASH" \in fs /\ "PRECISION" \notin fs /\ Len(buf) > 0 /\ Len(buf) \in {prec, w}
           n == Len(buf) - (IF b = 16 /\ Len(buf) > 1 THEN 2 ELSE 1)
<1>2. CASE Cut
  <2>1. n \in Nat /\ n <= Len(buf)
    BY <1>1, <1>2
  <2>2. n = Len(buf) - Dropped(Len(buf), b, prec, w, fs)
    BY <1>1, <1>2 DEF Dropped
  <2>3. Kept(buf, b, prec, w, fs) = SubSeq(buf, 1, n)
    BY <1>2 DEF Kept, Shortened
  <2> HIDE DEF n
  <2> QED
    BY <2>1, <2>2, <2>3, CutNumeral
<1>3. CASE ~ Cut
  <2>1. Kept(buf, b, prec, w, fs) = buf
    BY <1>3 DEF Kept, Shortened
  <2>2. Dropped(Len(buf), b, prec, w, fs) = 0
    BY <1>3 DEF Dropped
  <2> QED
    BY <1>1, <2>1, <2>2
<1> QED
  BY <1>2, <1>3

-----------------------------------------------------------------------------
(* A text that begins with x, and behind it shows nothing.                 *)
Extends(buf, x, b) ==
    /\ IsSeq(buf) /\ IsSeq(x) /\ Len(x) <= Len(buf)
    /\ \A k \in 1 .. Len(x) : buf[k] = x[k]
    /\ \A k \in Len(x) + 1 .. Len(buf) : Skipped(buf[k], b)

Minus(s) == \E k \in 1 .. Len(s) : s[k] = "-"

LEMMA Added ==
    ASSUME NEW buf, NEW x, NEW b, Extends(buf, x, b), Len(buf) < NtoaSize,
           NEW s, IsSeq(s), \A k \in 1 .. Len(s) : Skipped(s[k], b)
    PROVE  /\ Extends(Room(buf, s), x, b)
           /\ Len(Room(buf, s)) = Len(buf) + Len(s)
           /\ Minus(Room(buf, s)) <=> (Minus(buf) \/ Minus(s))
<1> DEFINE t == buf \o s
<1>1. Room(buf, s) = t
  BY DEF Room
<1>2. /\ IsSeq(t) /\ Len(t) = Len(buf) + Len(s)
      /\ Len(buf) \in Nat /\ Len(s) \in Nat
      /\ \A k \in 1 .. Len(buf) + Len(s) :
            t[k] = IF k <= Len(buf) THEN buf[k] ELSE s[k - Len(buf)]
  BY JoinedSeq DEF Extends
<1> HIDE DEF t
<1>3. Len(x) \in Nat /\ Len(x) <= Len(buf)
  BY DEF Extends, IsSeq
<1>4. \A k \in 1 .. Len(buf) : t[k] = buf[k]
  BY <1>2
<1>5. \A k \in 1 .. Len(s) : Len(buf) + k \in 1 .. Len(t) /\ t[Len(buf) + k] = s[k]
  BY <1>2
<1>6. \A k \in Len(buf) + 1 .. Len(t) : k - Len(buf) \in 1 .. Len(s) /\ t[k] = s[k - Len(buf)]
  BY <1>2
<1>7. Extends(t, x, b)
  <2>1. \A k \in 1 .. Len(x) : t[k] = x[k]
    BY <1>2, <1>3, <1>4 DEF Extends
  <2>2. ASSUME NEW k \in Len(x) + 1 .. Len(t) PROVE Skipped(t[k], b)
    <3>1. CASE k <= Len(buf)
      <4>1. k \in Len(x) + 1 .. Len(buf) /\ k \in 1 .. Len(buf)
        BY <1>2, <1>3, <3>1
      <4> QED
        BY <1>4, <4>1 DEF Extends
    <3>2. CASE ~ k <= Len(buf)
      <4>1. k \in Len(buf) + 1 .. Len(t)
        BY <1>2, <1>3, <3>2
      <4> QED
        BY <1>6, <4>1
    <3> QED
      BY <3>1, <3>2
  <2> QED
    BY <1>2, <1>3, <2>1, <2>2 DEF Extends
<1>8. Minus(buf) \/ Minus(s) => Minus(t)
  BY <1>2, <1>4, <1>5 DEF Minus
<1>9. Minus(t) => Minus(buf) \/ Minus(s)
  <2> SUFFICES ASSUME NEW k \in 1 .. Len(t), t[k] = "-" PROVE Minus(buf) \/ Minus(s)
    BY DEF Minus
  <2>1. CASE k <= Len(buf)
    <3>1. k \in 1 .. Len(buf)
      BY <1>2, <2>1
    <3> QED
      BY <1>4, <3>1 DEF Minus
  <2>2. CASE ~ k <= Len(buf)
    <3>1. k \in Len(buf) + 1 .. Len(t)
      BY <1>2, <2>2
    <3> QED
      BY <1>6, <3>1 DEF Minus
  <2> QED
    BY <2>1, <2>2
<1> QED
  BY <1>1, <1>2, <1>7, <1>8, <1>9

(* The chars of the prefix and of the sign.                                *)
LetterLen(b) == IF b \in {2, 16} THEN 1 ELSE 0

LEMMA LetterIs ==
    ASSUME NEW b \in Bases, NEW fs
    PROVE  /\ IsSeq(Letter(b, fs)) /\ Len(Letter(b, fs)) = LetterLen(b)
           /\ \A k \in 1 .. Len(Letter(b, fs)) : Skipped(Letter(b, fs)[k], b)
           /\ ~ Minus(Letter(b, fs))
<1>1. CASE b = 16
  <2>1. PICK c \in {"x", "X"} : Letter(b, fs) = <<c>>
    BY <1>1 DEF Letter
  <2>2. IsSeq(<<c>>) /\ Len(<<c>>) = 1 /\ <<c>>[1] = c
    BY ShortSeq
  <2>3. \A k \in 1 .. 1 : k = 1
    OBVIOUS
  <2> QED
    BY <1>1, <2>1, <2>2, <2>3, Others DEF Skipped, LetterLen, Minus
<1>2. CASE b = 2
  <2>1. Letter(b, fs) = <<"b">>
    BY <1>2 DEF Letter
  <2>2. IsSeq(<<"b">>) /\ Len(<<"b">>) = 1 /\ <<"b">>[1] = "b"
    BY ShortSeq
  <2>3. \A k \in 1 .. 1 : k = 1
    OBVIOUS
  <2> QED
    BY <1>2, <2>1, <2>2, <2>3, Others DEF Skipped, LetterLen, Minus
<1>3. CASE b \notin {2, 16}
  <2>1. Letter(b, fs) = <<>> /\ IsSeq(<<>>) /\ Len(<<>>) = 0
    BY <1>3, ShortSeq DEF Letter
  <2> QED
    BY <1>3, <2>1 DEF LetterLen, Minus
<1> QED
  BY <1>1, <1>2, <1>3

Signs(neg, fs) == neg \/ "PLUS" \in fs \/ "SPACE" \in fs

LEMMA OnlyOne == (\A k \in 1 .. 1 : k = 1) /\ 1 \in 1 .. 1
  OBVIOUS

LEMMA SignChar ==
    ASSUME NEW b \in Bases, NEW c \in {"-", "+", " "}
    PROVE  /\ IsSeq(<<c>>) /\ Len(<<c>>) = 1
           /\ \A k \in 1 .. 1 : Skipped(<<c>>[k], b)
           /\ Minus(<<c>>) <=> c = "-"
<1>1. IsSeq(<<c>>) /\ Len(<<c>>) = 1 /\ <<c>>[1] = c
  BY ShortSeq
<1>2. (\A k \in 1 .. 1 : k = 1) /\ 1 \in 1 .. 1
  BY OnlyOne, Zenon
<1>3. Skipped(c, b)
  BY Others DEF Skipped
<1> QED
  BY <1>1, <1>2, <1>3 DEF Minus

LEMMA SignIs ==
    ASSUME NEW b \in Bases, NEW neg \in BOOLEAN, NEW fs
    PROVE  /\ IsSeq(Sign(neg, fs)) /\ Len(Sign(neg, fs)) = IF Signs(neg, fs) THEN 1 ELSE 0
           /\ \A k \in 1 .. Len(Sign(neg, fs)) : Skipped(Sign(neg, fs)[k], b)
           /\ Minus(Sign(neg, fs)) <=> neg
<1>1. CASE neg
  <2>1. Sign(neg, fs) = <<"-">> /\ Signs(neg, fs)
    BY <1>1 DEF Sign, Signs
  <2> QED
    BY <1>1, <2>1, SignChar
<1>2. CASE ~ neg /\ Signs(neg, fs)
  <2>1. PICK c \in {"+", " "} : Sign(neg, fs) = <<c>>
    BY <1>2 DEF Sign, Signs
  <2> QED
    BY <1>2, <2>1, SignChar
<1>3. CASE ~ neg /\ ~ Signs(neg, fs)
  <2>1. Sign(neg, fs) = <<>> /\ IsSeq(<<>>) /\ Len(<<>>) = 0
    BY <1>3, ShortSeq DEF Sign, Signs
  <2> QED
    BY <1>3, <2>1 DEF Minus
<1> QED
  BY <1>1, <1>2, <1>3

(* The numeral with its prefix and its sign.                               *)
PrefixLen(b, fs) == IF "HASH" \in fs THEN LetterLen(b) + 1 ELSE 0
SignLen(neg, fs) == IF Signs(neg, fs) THEN 1 ELSE 0

LEMMA WithPrefix ==
    ASSUME NEW buf, NEW v, NEW b \in Bases, NEW left, Numeral(buf, v, b, left),
           Len(buf) + 3 <= NtoaSize, NEW neg \in BOOLEAN, NEW prec, NEW w, NEW fs
    PROVE  LET x == Kept(buf, b, prec, w, fs)
               t == Room(Prefixed(buf, b, prec, w, fs), Sign(neg, fs))
           IN /\ Extends(t, x, b) /\ (Minus(t) <=> neg)
              /\ Len(t) = Len(x) + PrefixLen(b, fs) + SignLen(neg, fs)
<1> DEFINE x == Kept(buf, b, prec, w, fs)
           t1 == Room(x, Letter(b, fs))
           t2 == Room(t1, <<"0">>)
           p == Prefixed(buf, b, prec, w, fs)
<1>1. /\ Numeral(x, v, b, left) /\ Len(x) \in Nat /\ Len(x) <= Len(buf)
      /\ Len(x) + 3 <= NtoaSize /\ NtoaSize \in Nat
  <2>1. Len(buf) \in Nat /\ Dropped(Len(buf), b, prec, w, fs) \in Nat /\ NtoaSize \in Nat
    BY PrintfAssumption, LenNat DEF Numeral, Dropped
  <2>2. /\ Numeral(x, v, b, left)
        /\ Len(x) = Len(buf) - Dropped(Len(buf), b, prec, w, fs)
        /\ Len(buf) - Dropped(Len(buf), b, prec, w, fs) \in Nat
    BY KeptIs
  <2> HIDE DEF x, p
  <2> QED
    BY <2>1, <2>2
<1>2. "HASH" \in fs => p = t2
  BY DEF Prefixed, Kept
<1>3. "HASH" \notin fs => p = x
  BY DEF Prefixed, Kept
<1> HIDE DEF x, p
<1>4. IsSeq(x) /\ Extends(x, x, b)
  BY <1>1 DEF Numeral, Extends
<1>5. ~ Minus(x)
  <2> SUFFICES ASSUME NEW k \in 1 .. Len(x), x[k] = "-" PROVE FALSE
    BY DEF Minus
  <2>1. IsDigitOf("-", b)
    BY <1>1 DEF Numeral, Carries
  <2> QED
    BY <2>1, Others
<1>6. LetterLen(b) \in {0, 1}
  BY DEF LetterLen
<1>7. Extends(t1, x, b) /\ ~ Minus(t1) /\ Len(t1) = Len(x) + LetterLen(b)
  <2>1. Len(x) < NtoaSize
    BY <1>1
  <2>2. /\ IsSeq(Letter(b, fs)) /\ Len(Letter(b, fs)) = LetterLen(b)
        /\ \A k \in 1 .. Len(Letter(b, fs)) : Skipped(Letter(b, fs)[k], b)
        /\ ~ Minus(Letter(b, fs))
    BY LetterIs
  <2> QED
    BY <1>4, <1>5, <2>1, <2>2, Added
<1> HIDE DEF t1
<1>8. Extends(t2, x, b) /\ ~ Minus(t2) /\ Len(t2) = Len(x) + LetterLen(b) + 1
  <2>1. Len(t1) < NtoaSize
    BY <1>1, <1>6, <1>7
  <2>2. IsSeq(<<"0">>) /\ Len(<<"0">>) = 1 /\ <<"0">>[1] = "0" /\ \A k \in 1 .. 1 : k = 1
    BY ShortSeq
  <2>3. (\A k \in 1 .. Len(<<"0">>) : Skipped(<<"0">>[k], b)) /\ ~ Minus(<<"0">>)
    BY <2>2 DEF Skipped, Minus
  <2>4. /\ Extends(t2, x, b) /\ Len(t2) = Len(t1) + Len(<<"0">>)
        /\ Minus(t2) <=> (Minus(t1) \/ Minus(<<"0">>))
    BY <1>7, <2>1, <2>2, <2>3, Added
  <2> QED
    BY <1>1, <1>6, <1>7, <2>2, <2>3, <2>4
<1> HIDE DEF t2
<1>9. Extends(p, x, b) /\ ~ Minus(p) /\ Len(p) = Len(x) + PrefixLen(b, fs)
  BY <1>1, <1>2, <1>3, <1>4, <1>5, <1>6, <1>8 DEF PrefixLen
<1>10. Len(p) < NtoaSize
  BY <1>1, <1>6, <1>9 DEF PrefixLen
<1>11. /\ Extends(Room(p, Sign(neg, fs)), x, b)
       /\ Len(Room(p, Sign(neg, fs))) = Len(p) + Len(Sign(neg, fs))
       /\ Minus(Room(p, Sign(neg, fs))) <=> (Minus(p) \/ Minus(Sign(neg, fs)))
  <2>1. /\ IsSeq(Sign(neg, fs))
        /\ \A k \in 1 .. Len(Sign(neg, fs)) : Skipped(Sign(neg, fs)[k], b)
    BY SignIs
  <2> QED
    BY <1>9, <1>10, <2>1, Added
<1>12. Len(Sign(neg, fs)) = SignLen(neg, fs) /\ (Minus(Sign(neg, fs)) <=> neg)
  BY SignIs DEF SignLen
<1> QED
  BY <1>9, <1>11, <1>12 DEF x, p

-----------------------------------------------------------------------------
(* The field: the conversion buffer, the last char first, with its spaces. *)
Spaces(n, w, fs) ==
    IF "ZEROPAD" \in fs /\ "LEFT" \notin fs THEN 0 ELSE Greater(w - n, 0)

Framed(s, buf, f, t) ==
    /\ IsSeq(s) /\ Len(s) = f + Len(buf) + t
    /\ \A k \in 1 .. f : s[k] = " "
    /\ \A k \in 1 .. Len(buf) : s[f + k] = buf[Len(buf) + 1 - k]
    /\ \A k \in f + Len(buf) + 1 .. f + Len(buf) + t : s[k] = " "

LEMMA ReverseIs ==
    ASSUME NEW s, IsSeq(s)
    PROVE  /\ IsSeq(Reverse(s)) /\ Len(s) \in Nat /\ Len(Reverse(s)) = Len(s)
           /\ \A k \in 1 .. Len(s) : Reverse(s)[k] = s[Len(s) + 1 - k]
<1>1. Len(s) \in Nat
  BY DEF IsSeq
<1> DEFINE n == Len(s)
           f == [k \in 1 .. n |-> s[(n - k) + 1]]
<1>2. Reverse(s) = f
  BY DEF Reverse
<1>3. f = [k \in 1 .. n |-> f[k]] /\ \A k \in 1 .. n : f[k] = s[(n - k) + 1]
  OBVIOUS
<1> HIDE DEF f
<1>4. IsSeq(f) /\ Len(f) = n
  BY <1>1, <1>3, TabulatedSeq
<1>5. \A k \in 1 .. n : (n - k) + 1 = n + 1 - k
  BY <1>1
<1> QED
  BY <1>1, <1>2, <1>3, <1>4, <1>5

LEMMA ReversedIs ==
    ASSUME NEW buf, IsSeq(buf), NEW w \in Nat, NEW fs
    PROVE  \E f, t \in Nat :
              /\ f + t = Spaces(Len(buf), w, fs)
              /\ Framed(Reversed(buf, w, fs), buf, f, t)
<1> DEFINE n    == Len(buf)
           pad  == Times(" ", w - n)
           r    == Reverse(buf)
           fore == IF "LEFT" \in fs \/ "ZEROPAD" \in fs THEN <<>> ELSE pad
           aft  == IF "LEFT" \in fs THEN pad ELSE <<>>
           f == Len(fore)
           t == Len(aft)
           s1 == fore \o r
<1>1. n \in Nat /\ w - n \in Int
  BY DEF IsSeq
<1>2. /\ IsSeq(pad) /\ Len(pad) = Greater(w - n, 0)
      /\ \A k \in 1 .. Len(pad) : pad[k] = " "
  BY <1>1, TimesIs
<1>3. /\ IsSeq(r) /\ Len(r) = n /\ \A k \in 1 .. n : r[k] = buf[n + 1 - k]
  BY ReverseIs
<1>4. Reversed(buf, w, fs) = s1 \o aft
  BY DEF Reversed
<1> HIDE DEF pad, r
<1>5. IsSeq(<<>>) /\ Len(<<>>) = 0 /\ \A k \in 1 .. Len(<<>>) : <<>>[k] = " "
  BY ShortSeq
<1>6. /\ IsSeq(fore) /\ IsSeq(aft)
      /\ \A k \in 1 .. Len(fore) : fore[k] = " "
      /\ \A k \in 1 .. Len(aft) : aft[k] = " "
  BY <1>2, <1>5
<1>7. f \in Nat /\ t \in Nat /\ f + t = Spaces(n, w, fs)
  <2>1. Greater(w - n, 0) \in Nat
    BY <1>1 DEF Greater
  <2>2. CASE "LEFT" \in fs
    <3>1. fore = <<>> /\ aft = pad /\ Spaces(n, w, fs) = Greater(w - n, 0)
      BY <2>2 DEF Spaces
    <3> HIDE DEF fore, aft, n
    <3>2. f = 0 /\ t = Greater(w - n, 0)
      BY <1>2, <1>5, <3>1, Zenon
    <3> QED
      BY <2>1, <3>1, <3>2
  <2>3. CASE "LEFT" \notin fs /\ "ZEROPAD" \in fs
    <3>1. fore = <<>> /\ aft = <<>> /\ Spaces(n, w, fs) = 0
      BY <2>3 DEF Spaces
    <3> HIDE DEF fore, aft, n
    <3>2. f = 0 /\ t = 0
      BY <1>5, <3>1, Zenon
    <3> QED
      BY <3>1, <3>2
  <2>4. CASE "LEFT" \notin fs /\ "ZEROPAD" \notin fs
    <3>1. fore = pad /\ aft = <<>> /\ Spaces(n, w, fs) = Greater(w - n, 0)
      BY <2>4 DEF Spaces
    <3> HIDE DEF fore, aft, n
    <3>2. f = Greater(w - n, 0) /\ t = 0
      BY <1>2, <1>5, <3>1, Zenon
    <3> QED
      BY <2>1, <3>1, <3>2
  <2> QED
    BY <2>2, <2>3, <2>4
<1> HIDE DEF fore, aft
<1>8. /\ IsSeq(s1) /\ Len(s1) = f + n
      /\ \A k \in 1 .. f + n : s1[k] = IF k <= f THEN fore[k] ELSE r[k - f]
  <2>1. Len(fore) = f /\ Len(r) = n
    BY <1>3
  <2> HIDE DEF f, n
  <2>2. /\ IsSeq(s1) /\ Len(s1) = Len(fore) + Len(r)
        /\ \A k \in 1 .. Len(fore) + Len(r) :
              s1[k] = IF k <= Len(fore) THEN fore[k] ELSE r[k - Len(fore)]
    BY <1>3, <1>6, JoinedSeq
  <2> QED
    BY <2>1, <2>2, Zenon
<1> HIDE DEF s1
<1>9. /\ IsSeq(s1 \o aft) /\ Len(s1 \o aft) = f + n + t
      /\ \A k \in 1 .. (f + n) + t :
            (s1 \o aft)[k] = IF k <= f + n THEN s1[k] ELSE aft[k - (f + n)]
  <2>1. Len(aft) = t
    OBVIOUS
  <2> HIDE DEF t, f, n
  <2>2. /\ IsSeq(s1 \o aft) /\ Len(s1 \o aft) = Len(s1) + Len(aft)
        /\ \A k \in 1 .. Len(s1) + Len(aft) :
              (s1 \o aft)[k] = IF k <= Len(s1) THEN s1[k] ELSE aft[k - Len(s1)]
    BY <1>6, <1>8, JoinedSeq
  <2>3. Len(s1) = f + n
    BY <1>8
  <2> QED
    BY <2>1, <2>2, <2>3, Zenon
<1> DEFINE s == s1 \o aft
<1> HIDE DEF s, f, t, n
<1>10. ASSUME NEW k \in 1 .. f PROVE s[k] = " "
  <2>1. k \in 1 .. f + n /\ k <= f /\ k \in 1 .. (f + n) + t /\ k <= f + n
    BY <1>1, <1>7
  <2> QED
    BY <1>6, <1>8, <1>9, <2>1 DEF s, f
<1>11. ASSUME NEW k \in 1 .. n PROVE s[f + k] = buf[n + 1 - k]
  <2>1. /\ f + k \in 1 .. f + n /\ ~ f + k <= f /\ f + k \in 1 .. (f + n) + t
        /\ f + k <= f + n /\ (f + k) - f = k
    BY <1>1, <1>7
  <2>2. s[f + k] = s1[f + k]
    BY <1>9, <2>1 DEF s
  <2>3. s1[f + k] = r[(f + k) - f]
    BY <1>8, <2>1
  <2> QED
    BY <1>3, <2>1, <2>2, <2>3
<1>12. ASSUME NEW k \in f + n + 1 .. f + n + t PROVE s[k] = " "
  <2>1. k \in 1 .. (f + n) + t /\ ~ k <= f + n /\ k - (f + n) \in 1 .. t
    BY <1>1, <1>7
  <2> QED
    BY <1>6, <1>9, <2>1 DEF s, t
<1>13. Framed(s, buf, f, t)
  BY <1>9, <1>10, <1>11, <1>12 DEF Framed, s, n
<1> QED
  BY <1>4, <1>7, <1>13 DEF s, n

(* A field is read as what its numeral shows.                              *)
LEMMA FramedReads ==
    ASSUME NEW s, NEW buf, NEW f \in Nat, NEW t \in Nat, Framed(s, buf, f, t),
           NEW x, NEW b \in Bases, Extends(buf, x, b),
           NEW v, NEW left, Numeral(x, v, b, left)
    PROVE  Shows(s, b) = v - left[Len(x)] * Power(b)[Len(x)]
<1> DEFINE n == Len(buf)
           m == Len(x)
           a == f + (n - m)
<1>1. n \in Nat /\ m \in Nat /\ m <= n /\ IsSeq(s) /\ Len(s) = f + n + t
  BY LenNat DEF Extends, Framed
<1> HIDE DEF n, m
<1>2. a \in Nat /\ a + m = f + n /\ a + m <= Len(s)
  BY <1>1
<1>3. ASSUME NEW k \in 1 .. a PROVE Skipped(s[k], b)
  <2>1. CASE k <= f
    <3>1. k \in 1 .. f
      BY <1>1, <2>1
    <3>2. s[k] = " "
      BY <3>1 DEF Framed
    <3> QED
      BY <3>2, Others DEF Skipped
  <2>2. CASE ~ k <= f
    <3>1. /\ k - f \in 1 .. n /\ f + (k - f) = k
          /\ n + 1 - (k - f) \in m + 1 .. n
      BY <1>1, <2>2
    <3>2. s[f + (k - f)] = buf[n + 1 - (k - f)]
      BY <3>1 DEF Framed, n
    <3>3. Skipped(buf[n + 1 - (k - f)], b)
      BY <3>1 DEF Extends, n, m
    <3> QED
      BY <3>1, <3>2, <3>3
  <2> QED
    BY <2>1, <2>2
<1>4. ASSUME NEW k \in 1 .. m PROVE s[a + k] = x[m + 1 - k]
  <2>1. /\ (n - m) + k \in 1 .. n /\ f + ((n - m) + k) = a + k
        /\ n + 1 - ((n - m) + k) = m + 1 - k /\ m + 1 - k \in 1 .. m
    BY <1>1
  <2>2. s[f + ((n - m) + k)] = buf[n + 1 - ((n - m) + k)]
    BY <2>1 DEF Framed, n
  <2>3. buf[m + 1 - k] = x[m + 1 - k]
    BY <2>1 DEF Extends, m
  <2> QED
    BY <2>1, <2>2, <2>3
<1>5. ASSUME NEW k \in a + m + 1 .. Len(s) PROVE ~ IsDigitOf(s[k], b)
  <2>1. k \in f + n + 1 .. f + n + t
    BY <1>1, <1>2
  <2>2. s[k] = " "
    BY <2>1 DEF Framed, n
  <2> QED
    BY <2>2, Others
<1> HIDE DEF a
<1>6. Backwards(s, a, x)
  BY <1>4 DEF Backwards, m
<1> QED
  BY <1>1, <1>2, <1>3, <1>5, <1>6, ReadBack DEF m

(* The sign is in the field, and nowhere else is one.                      *)
LEMMA FramedMinus ==
    ASSUME NEW s, NEW buf, IsSeq(buf), NEW f \in Nat, NEW t \in Nat, Framed(s, buf, f, t)
    PROVE  Minus(s) <=> Minus(buf)
<1> DEFINE n == Len(buf)
<1>1. n \in Nat /\ Len(s) = f + n + t
  BY LenNat DEF Framed
<1>2. ASSUME NEW k \in 1 .. n, buf[k] = "-" PROVE Minus(s)
  <2>1. n + 1 - k \in 1 .. n /\ n + 1 - (n + 1 - k) = k /\ f + (n + 1 - k) \in 1 .. f + n + t
    BY <1>1
  <2>2. s[f + (n + 1 - k)] = buf[n + 1 - (n + 1 - k)]
    BY <2>1 DEF Framed
  <2> QED
    BY <1>1, <1>2, <2>1, <2>2 DEF Minus
<1>3. ASSUME NEW k \in 1 .. Len(s), s[k] = "-" PROVE Minus(buf)
  <2>1. CASE k \in 1 .. f
    BY <1>3, <2>1 DEF Framed
  <2>2. CASE k \in f + n + 1 .. f + n + t
    BY <1>3, <2>2 DEF Framed
  <2>3. CASE k - f \in 1 .. n
    <3>1. f + (k - f) = k /\ n + 1 - (k - f) \in 1 .. n
      BY <1>1, <2>3
    <3>2. s[f + (k - f)] = buf[n + 1 - (k - f)]
      BY <2>3 DEF Framed
    <3> QED
      BY <1>3, <3>1, <3>2 DEF Minus
  <2> QED
    BY <1>1, <2>1, <2>2, <2>3
<1> QED
  BY <1>2, <1>3 DEF Minus

FlagsFor(v, fs) == IF v = 0 THEN fs \ {"HASH"} ELSE fs

(* The chars the field is made of, with c digits, besides its spaces.      *)
KeptLen(v, b, c, prec, w, fs) ==
    ZerosLen(c, prec, w, fs)
    - Dropped(ZerosLen(c, prec, w, fs), b, prec, w, FlagsFor(v, fs))

InkLen(v, neg, b, c, prec, w, fs) ==
    KeptLen(v, b, c, prec, w, fs) + PrefixLen(b, FlagsFor(v, fs)) + SignLen(neg, fs)

(* A number in its field, for every number, base, sign, precision, width   *)
(* and flags that fit the conversion buffer: it is read back if the prefix *)
(* leaves all its digits, and only then.                                   *)
LEMMA NtoaIs ==
    ASSUME NEW v \in Nat, NEW neg \in BOOLEAN, NEW b \in Bases,
           NEW prec \in Nat, NEW w \in Nat, NEW fs,
           NEW c, c = Count(v, b, fs), Greater(Greater(c, prec), w) + 3 <= NtoaSize,
           NEW w1, w1 = WidthOfZeros(neg, w, fs),
           NEW s, s = Ntoa(v, neg, b, prec, w, fs)
    PROVE  /\ IsSeq(s) /\ c \in Nat
           /\ Shows(s, b) = v <=> KeptLen(v, b, c, prec, w1, fs) >= c
           /\ Minus(s) <=> neg
           /\ Len(s) = InkLen(v, neg, b, c, prec, w1, fs)
                       + Spaces(InkLen(v, neg, b, c, prec, w1, fs), w1, fs)
<1> DEFINE fs1 == FlagsFor(v, fs)
           d == DigitsOf(v, b, fs1)
           z == ZeroPadded(d, prec, w1, fs1)
           x == Kept(z, b, prec, w1, fs1)
           buf == Room(Prefixed(z, b, prec, w1, fs1), Sign(neg, fs1))
           m == KeptLen(v, b, c, prec, w1, fs)
<1>1. \A g \in {"LEFT", "ZEROPAD", "PRECISION", "PLUS", "SPACE"} : g \in fs1 <=> g \in fs
  BY DEF FlagsFor
<1>2. /\ WidthOfZeros(neg, w, fs1) = w1 /\ Count(v, b, fs1) = c
      /\ SignLen(neg, fs1) = SignLen(neg, fs)
      /\ \A n : Spaces(n, w1, fs1) = Spaces(n, w1, fs)
      /\ ZerosLen(c, prec, w1, fs1) = ZerosLen(c, prec, w1, fs)
  BY <1>1 DEF WidthOfZeros, Count, NoDigits, SignLen, Signs, Spaces, ZerosLen
<1>3. s = Reversed(buf, w1, fs1)
  BY <1>2 DEF Ntoa, NtoaFormat, FlagsFor
<1> HIDE DEF fs1
<1>4. w1 \in Nat /\ w1 <= w /\ NtoaSize \in Nat
  BY PrintfAssumption DEF WidthOfZeros
<1>5. c \in Nat /\ c <= NtoaSize /\ \E left : Spelled(d, v, b, fs1, left)
  <2>1. b \in Nat /\ b > 1
    BY DEF Bases
  <2>2. c \in Nat
    BY <2>1, DigitCounts DEF Count
  <2>3. c <= NtoaSize
    BY <1>4, <2>2 DEF Greater
  <2> QED
    BY <1>2, <2>2, <2>3, DigitsSpell
<1>6. c + 3 <= NtoaSize /\ prec + 3 <= NtoaSize /\ w1 + 3 <= NtoaSize
  BY <1>4, <1>5 DEF Greater
<1>7. PICK left : Numeral(d, v, b, left) /\ Len(d) = c /\ LeftUntil(c, v, left)
  BY <1>2, <1>5 DEF Spelled
<1> HIDE DEF d
<1>8. Numeral(z, v, b, left) /\ Len(z) = ZerosLen(c, prec, w1, fs1)
  <2>1. prec \in 0 .. NtoaSize /\ w1 \in 0 .. NtoaSize
    BY <1>4, <1>6
  <2>2. Ended(d, v, b, left)
    BY <1>7 DEF Ended
  <2>3. Numeral(z, v, b, left) /\ Len(z) = ZerosLen(Len(d), prec, w1, fs1)
    BY <2>1, <2>2, ZerosIs
  <2> QED
    BY <1>7, <2>3
<1>9. Len(z) \in Nat /\ c <= Len(z) /\ Len(z) + 3 <= NtoaSize
  BY <1>4, <1>5, <1>6, <1>8 DEF ZerosLen, Greater
<1> HIDE DEF z
<1>10. Numeral(x, v, b, left) /\ Len(x) = m /\ m \in Nat
  <2>1. m = Len(z) - Dropped(Len(z), b, prec, w1, fs1)
    BY <1>2, <1>8 DEF KeptLen, fs1
  <2> HIDE DEF m
  <2> QED
    BY <1>8, <2>1, KeptIs
<1>11. /\ Extends(buf, x, b) /\ (Minus(buf) <=> neg)
       /\ Len(buf) = Len(x) + PrefixLen(b, fs1) + SignLen(neg, fs1)
  BY <1>8, <1>9, WithPrefix
<1> HIDE DEF x, buf, m
<1>12. IsSeq(buf) /\ Len(buf) \in Nat
  BY <1>11, LenNat DEF Extends
<1>13. PICK f, t \in Nat : f + t = Spaces(Len(buf), w1, fs1) /\ Framed(s, buf, f, t)
  BY <1>3, <1>4, <1>12, ReversedIs
<1>14. Minus(s) <=> neg
  BY <1>11, <1>12, <1>13, FramedMinus
<1>15. Len(buf) = InkLen(v, neg, b, c, prec, w1, fs)
  BY <1>2, <1>10, <1>11 DEF InkLen, m, fs1
<1>16. Len(s) = Len(buf) + Spaces(Len(buf), w1, fs)
  <2>1. Len(s) = f + Len(buf) + t /\ Spaces(Len(buf), w1, fs) = f + t
    BY <1>2, <1>13 DEF Framed
  <2> QED
    BY <1>12, <1>13, <2>1
<1>17. Shows(s, b) = v - left[m] * Power(b)[m]
  BY <1>10, <1>11, <1>13, FramedReads
<1>18. m \in 0 .. NtoaSize /\ left[m] \in Nat /\ Divides(left, v, b) /\ left \in [0 .. NtoaSize -> Nat]
  <2>1. m <= NtoaSize
    BY <1>10 DEF Numeral
  <2>2. m \in 0 .. NtoaSize
    BY <1>4, <1>10, <2>1
  <2> QED
    BY <1>10, <2>2 DEF Numeral
<1>19. Power(b)[m] \in Nat
  <2>1. b \in Nat
    BY DEF Bases
  <2> QED
    BY <1>10, <2>1, Powers
<1>20. CASE m >= c
  <2>1. left[m] = 0
    BY <1>7, <1>18, <1>20 DEF LeftUntil
  <2>2. v - 0 * Power(b)[m] = v
    BY <1>19
  <2> QED
    BY <1>13, <1>14, <1>15, <1>16, <1>17, <1>20, <2>1, <2>2, <1>5 DEF m, Framed
<1>21. CASE m < c
  <2>1. v # 0
    <3>1. SUFFICES ASSUME v = 0 PROVE FALSE
      OBVIOUS
    <3>2. Dropped(Len(z), b, prec, w1, fs1) = 0
      BY <3>1 DEF Dropped, fs1, FlagsFor
    <3>3. m = Len(z) - Dropped(Len(z), b, prec, w1, fs1)
      BY <1>2, <1>8 DEF KeptLen, fs1, m
    <3> QED
      BY <1>5, <1>9, <1>10, <1>21, <3>2, <3>3
  <2>2. left[m] # 0
    BY <1>7, <1>18, <1>21, <2>1 DEF LeftUntil
  <2>3. left[m] * Power(b)[m] > 0
    BY <1>18, <2>2, NothingLeft
  <2>4. left[m] * Power(b)[m] \in Int
    BY <1>18, <1>19
  <2>5. Shows(s, b) # v
    BY <1>17, <2>3, <2>4
  <2>6. ~ m >= c
    BY <1>5, <1>10, <1>21
  <2> QED
    BY <1>13, <1>14, <1>15, <1>16, <2>5, <2>6, <1>5 DEF m, Framed
<1> QED
  BY <1>5, <1>10, <1>20, <1>21

-----------------------------------------------------------------------------
(* The same as the properties say it: with the flags of the conversion,    *)
(* and the digits of the number.                                           *)
Prefix(v, fs) == "HASH" \in fs /\ v # 0

Eats(v, neg, b, c, w, fs) ==
    LET place == IF Signs(neg, fs) /\ "LEFT" \notin fs THEN w - 1 ELSE w
    IN /\ Prefix(v, fs) /\ "PRECISION" \notin fs
       /\ \/ c = place
          \/ b = 16 /\ c = place - 1 /\ "ZEROPAD" \in fs /\ "LEFT" \notin fs

Natural(v, neg, b, c, prec, fs) ==
    (IF "LEFT" \in fs THEN c ELSE Greater(c, prec))
    + (IF Signs(neg, fs) THEN 1 ELSE 0)
    + (IF ~ Prefix(v, fs) THEN 0 ELSE IF b = 8 THEN 1 ELSE 2)

Wider(v, b, c, w, fs) ==
    IF ~ Prefix(v, fs) \/ "ZEROPAD" \notin fs \/ "LEFT" \in fs THEN 0
    ELSE IF "PRECISION" \in fs THEN 2
    ELSE IF b = 2 /\ w > c THEN 1 ELSE 0

(* What the directives let happen: a prefix and a sign are together only   *)
(* in front of a pointer, and so are a precision and zeros.                *)
Directed(v, neg, b, c, prec, fs) ==
    /\ v # 0 => c > 0
    /\ "PRECISION" \notin fs => prec = 0
    /\ "HASH" \in fs => b # 10
    /\ Prefix(v, fs) /\ Signs(neg, fs) => "ZEROPAD" \in fs /\ b = 16
    /\ Prefix(v, fs) /\ "PRECISION" \in fs /\ "ZEROPAD" \in fs => b = 16

LEMMA Dropping ==
    ASSUME NEW v, NEW n, NEW b, NEW prec, NEW w, NEW fs
    PROVE  Dropped(n, b, prec, w, FlagsFor(v, fs)) =
              IF Prefix(v, fs) /\ "PRECISION" \notin fs /\ n > 0 /\ n \in {prec, w}
              THEN IF b = 16 /\ n > 1 THEN 2 ELSE 1 ELSE 0
<1>1. "HASH" \in FlagsFor(v, fs) <=> Prefix(v, fs)
  BY DEF FlagsFor, Prefix
<1>2. "PRECISION" \in FlagsFor(v, fs) <=> "PRECISION" \in fs
  BY DEF FlagsFor
<1> QED
  BY <1>1, <1>2 DEF Dropped

LEMMA Prefixing ==
    ASSUME NEW v, NEW b \in Bases, NEW fs, "HASH" \in fs => b # 10
    PROVE  PrefixLen(b, FlagsFor(v, fs)) =
              IF ~ Prefix(v, fs) THEN 0 ELSE IF b = 8 THEN 1 ELSE 2
<1>1. "HASH" \in FlagsFor(v, fs) <=> Prefix(v, fs)
  BY DEF FlagsFor, Prefix
<1> QED
  BY <1>1 DEF PrefixLen, LetterLen, Prefix, Bases

LEMMA Laid ==
    ASSUME NEW v \in Nat, NEW neg, NEW b \in Bases, NEW c \in Nat,
           NEW prec \in Nat, NEW w \in Nat, NEW fs, Directed(v, neg, b, c, prec, fs),
           NEW w1, w1 = WidthOfZeros(neg, w, fs)
    PROVE  /\ KeptLen(v, b, c, prec, w1, fs) >= c <=> ~ Eats(v, neg, b, c, w, fs)
           /\ ~ Eats(v, neg, b, c, w, fs) =>
                 InkLen(v, neg, b, c, prec, w1, fs)
                 + Spaces(InkLen(v, neg, b, c, prec, w1, fs), w1, fs)
                 = Greater(Natural(v, neg, b, c, prec, fs), w + Wider(v, b, c, w, fs))
<1> DEFINE z == ZerosLen(c, prec, w1, fs)
           k == KeptLen(v, b, c, prec, w1, fs)
           i == InkLen(v, neg, b, c, prec, w1, fs)
           e == IF Signs(neg, fs) THEN 1 ELSE 0
           p == IF ~ Prefix(v, fs) THEN 0 ELSE IF b = 8 THEN 1 ELSE 2
           Goal == /\ k >= c <=> ~ Eats(v, neg, b, c, w, fs)
                   /\ ~ Eats(v, neg, b, c, w, fs) =>
                         i + Spaces(i, w1, fs)
                         = Greater(Natural(v, neg, b, c, prec, fs), w + Wider(v, b, c, w, fs))
<1>1. k = z - (IF Prefix(v, fs) /\ "PRECISION" \notin fs /\ z > 0 /\ z \in {prec, w1}
               THEN IF b = 16 /\ z > 1 THEN 2 ELSE 1 ELSE 0)
  BY Dropping DEF KeptLen
<1>2. i = k + p + e
  BY Prefixing DEF InkLen, SignLen, Directed
<1>3. e \in {0, 1} /\ p \in {0, 1, 2} /\ (Signs(neg, fs) => e = 1) /\ (~ Signs(neg, fs) => e = 0)
  OBVIOUS
<1> HIDE DEF k, i
<1>4. ASSUME "LEFT" \in fs PROVE Goal
  <2>1. z = c /\ w1 = w
    BY <1>4 DEF ZerosLen, WidthOfZeros
  <2>2. Eats(v, neg, b, c, w, fs) <=> Prefix(v, fs) /\ "PRECISION" \notin fs /\ c = w
    BY <1>4 DEF Eats
  <2>3. Spaces(i, w1, fs) = Greater(w - i, 0) /\ Wider(v, b, c, w, fs) = 0
    BY <1>4, <2>1 DEF Spaces, Wider
  <2>4. Natural(v, neg, b, c, prec, fs) = c + e + p
    BY <1>4 DEF Natural
  <2>5. CASE Prefix(v, fs) /\ "PRECISION" \notin fs /\ c = w
    <3>1. c > 0 /\ k < c /\ Eats(v, neg, b, c, w, fs)
      BY <1>1, <2>1, <2>2, <2>5 DEF Directed, Prefix
    <3>2. k \in Int
      BY <1>1, <2>1
    <3> QED
      BY <3>1, <3>2
  <2>6. CASE ~ (Prefix(v, fs) /\ "PRECISION" \notin fs /\ c = w)
    <3>1. k = c /\ ~ Eats(v, neg, b, c, w, fs)
      BY <1>1, <2>1, <2>2, <2>6 DEF Directed, Prefix
    <3> HIDE DEF e, p
    <3>2. i + Greater(w - i, 0) = Greater(c + e + p, w + 0)
      BY <1>2, <1>3, <3>1 DEF Greater
    <3> QED
      BY <2>3, <2>4, <3>1, <3>2
  <2> QED
    BY <2>5, <2>6
<1>5. ASSUME "LEFT" \notin fs, "ZEROPAD" \notin fs PROVE Goal
  <2>1. z = Greater(c, prec) /\ w1 = w /\ z \in Nat
    BY <1>5 DEF ZerosLen, WidthOfZeros, Greater
  <2>2. Prefix(v, fs) => e = 0 /\ ~ Signs(neg, fs)
    BY <1>5 DEF Directed
  <2>3. Eats(v, neg, b, c, w, fs) <=> Prefix(v, fs) /\ "PRECISION" \notin fs /\ c = w
    BY <1>5, <2>2 DEF Eats
  <2>4. Spaces(i, w1, fs) = Greater(w - i, 0) /\ Wider(v, b, c, w, fs) = 0
    BY <1>5, <2>1 DEF Spaces, Wider
  <2>5. Natural(v, neg, b, c, prec, fs) = z + e + p
    BY <1>5, <2>1 DEF Natural
  <2>6. "PRECISION" \notin fs => z = c /\ prec = 0
    BY <2>1 DEF Directed, Greater
  <2>7. CASE Prefix(v, fs) /\ "PRECISION" \notin fs /\ c = w
    <3>1. c > 0 /\ k < c /\ Eats(v, neg, b, c, w, fs)
      BY <1>1, <2>1, <2>3, <2>6, <2>7 DEF Directed, Prefix
    <3>2. k \in Int
      BY <1>1, <2>1
    <3> QED
      BY <3>1, <3>2
  <2>8. CASE ~ (Prefix(v, fs) /\ "PRECISION" \notin fs /\ c = w)
    <3>1. k = z /\ ~ Eats(v, neg, b, c, w, fs)
      BY <1>1, <2>1, <2>3, <2>6, <2>8 DEF Directed, Prefix
    <3> HIDE DEF e, p, z
    <3>2. i + Greater(w - i, 0) = Greater(z + e + p, w + 0)
      BY <1>2, <1>3, <2>1, <3>1 DEF Greater
    <3>3. k >= c
      BY <2>1, <3>1 DEF Greater
    <3> QED
      BY <2>4, <2>5, <3>1, <3>2, <3>3
  <2> QED
    BY <2>7, <2>8
<1>6. ASSUME "LEFT" \notin fs, "ZEROPAD" \in fs PROVE Goal
  <2>1. z = Greater(Greater(c, prec), w1) /\ w1 \in Nat /\ z \in Nat
    BY <1>6 DEF ZerosLen, WidthOfZeros, Greater
  <2>2. w1 = IF w > 0 THEN w - e ELSE w
    BY <1>3, <1>6 DEF WidthOfZeros, Signs
  <2>3. Spaces(i, w1, fs) = 0
    BY <1>6 DEF Spaces
  <2>4. Natural(v, neg, b, c, prec, fs) = Greater(c, prec) + e + p
    BY <1>6 DEF Natural
  <2>5. CASE ~ Prefix(v, fs)
    <3>1. k = z /\ p = 0 /\ ~ Eats(v, neg, b, c, w, fs) /\ Wider(v, b, c, w, fs) = 0
      BY <1>1, <2>1, <2>5 DEF Eats, Wider
    <3> HIDE DEF e, p, z
    <3>2. i = z + p + e /\ k >= c
      BY <1>2, <1>3, <2>1, <3>1 DEF Greater
    <3>3. z + p + e = Greater(Greater(c, prec) + e + p, w + 0)
      BY <1>3, <2>1, <2>2, <3>1 DEF Greater
    <3>4. i + 0 = i
      BY <1>3, <2>1, <3>2
    <3> QED
      BY <2>3, <2>4, <3>1, <3>2, <3>3, <3>4
  <2>6. CASE Prefix(v, fs) /\ "PRECISION" \in fs
    <3>1. /\ k = z /\ ~ Eats(v, neg, b, c, w, fs) /\ Wider(v, b, c, w, fs) = 2
          /\ b = 16 /\ p = 2 /\ c > 0
      BY <1>1, <1>6, <2>1, <2>6 DEF Eats, Wider, Directed, Prefix
    <3> HIDE DEF e, p, z
    <3>2. i = z + p + e /\ k >= c
      BY <1>2, <1>3, <2>1, <3>1 DEF Greater
    <3>3. z + p + e = Greater(Greater(c, prec) + e + p, w + 2)
      BY <1>3, <2>1, <2>2, <3>1 DEF Greater
    <3>4. i + 0 = i
      BY <1>3, <2>1, <3>2
    <3> QED
      BY <2>3, <2>4, <3>1, <3>2, <3>3, <3>4
  <2>7. CASE Prefix(v, fs) /\ "PRECISION" \notin fs
    <3>1. prec = 0 /\ c > 0 /\ z = Greater(c, w1) /\ z > 0 /\ b # 10 /\ (e = 1 => b = 16)
      BY <1>3, <2>1, <2>7 DEF Directed, Prefix, Greater
    <3>2. Wider(v, b, c, w, fs) = IF b = 2 /\ w > c THEN 1 ELSE 0
      BY <1>6, <2>7 DEF Wider
    <3>3. p = IF b = 8 THEN 1 ELSE 2
      BY <2>7
    <3>4. Eats(v, neg, b, c, w, fs) <=> (c = w - e \/ (b = 16 /\ c = w - e - 1))
      BY <1>6, <2>7 DEF Eats
    <3>5. k = z - (IF z = w1 THEN IF b = 16 /\ z > 1 THEN 2 ELSE 1 ELSE 0)
      BY <1>1, <2>7, <3>1
    <3>7. b \in {2, 8, 16}
      BY <3>1 DEF Bases
    <3> HIDE DEF e, p, z
    <3>8. k \in Int /\ z \in Nat /\ w1 \in Nat /\ e \in 0 .. 1
      BY <1>3, <2>1, <3>5
    <3>9. CASE c > w1
      <4>1. z = c /\ k = c /\ ~ Eats(v, neg, b, c, w, fs)
        BY <2>2, <3>1, <3>4, <3>5, <3>8, <3>9 DEF Greater
      <4>2. Wider(v, b, c, w, fs) = 0
        BY <2>2, <3>1, <3>2, <3>8, <3>9
      <4>3. i = c + p + e /\ i + 0 = i
        BY <1>2, <1>3, <3>8, <4>1
      <4>4. c + p + e = Greater(Greater(c, prec) + e + p, w + 0)
        BY <1>3, <2>2, <3>1, <3>3, <3>8, <3>9 DEF Greater
      <4> QED
        BY <2>3, <2>4, <3>8, <4>1, <4>2, <4>3, <4>4
    <3>10. CASE c <= w1
      <4>1. z = w1 /\ w > 0 /\ w1 = w - e /\ Greater(c, prec) = c
        BY <2>2, <3>1, <3>8, <3>10 DEF Greater
      <4>2. CASE b = 16
        <5>1. k = IF w1 > 1 THEN w1 - 2 ELSE w1 - 1
          BY <3>5, <3>8, <4>1, <4>2
        <5>2. k >= c <=> ~ Eats(v, neg, b, c, w, fs)
          BY <3>1, <3>4, <3>8, <3>10, <4>1, <4>2, <5>1
        <5>3. ASSUME ~ Eats(v, neg, b, c, w, fs)
              PROVE  /\ i + 0 = w /\ Wider(v, b, c, w, fs) = 0
                     /\ Greater(Greater(c, prec) + e + p, w + 0) = w
          <6>1. w1 > 1 /\ c + 2 <= w1 /\ p = 2
            BY <3>1, <3>3, <3>4, <3>8, <3>10, <4>1, <4>2, <5>3
          <6>2. i + 0 = w /\ Wider(v, b, c, w, fs) = 0
            BY <1>2, <3>2, <3>8, <4>1, <4>2, <5>1, <6>1
          <6> QED
            BY <3>8, <4>1, <6>1, <6>2 DEF Greater
        <5> QED
          BY <2>3, <2>4, <5>2, <5>3
      <4>3. CASE b # 16
        <5>1. k = w1 - 1 /\ e = 0
          BY <3>1, <3>5, <3>8, <4>1, <4>3
        <5>2. k >= c <=> ~ Eats(v, neg, b, c, w, fs)
          BY <3>4, <3>8, <3>10, <4>1, <4>3, <5>1
        <5>3. ASSUME ~ Eats(v, neg, b, c, w, fs)
              PROVE  i + 0 = Greater(Greater(c, prec) + e + p, w + Wider(v, b, c, w, fs))
          <6>1. c + 1 <= w /\ w1 = w
            BY <3>4, <3>8, <3>10, <4>1, <4>3, <5>1, <5>3
          <6>2. CASE b = 2
            BY <1>2, <3>2, <3>3, <3>8, <4>1, <5>1, <6>1, <6>2 DEF Greater
          <6>3. CASE b = 8
            BY <1>2, <3>2, <3>3, <3>8, <4>1, <5>1, <6>1, <6>3 DEF Greater
          <6> QED
            BY <3>7, <4>3, <6>2, <6>3
        <5> QED
          BY <2>3, <2>4, <5>2, <5>3
      <4> QED
        BY <4>2, <4>3
    <3> QED
      BY <3>8, <3>9, <3>10
  <2> QED
    BY <2>5, <2>6, <2>7
<1> QED
  BY <1>4, <1>5, <1>6 DEF k, i

-----------------------------------------------------------------------------
(* The fourth invariant: what is read of a directive.  No char in front of *)
(* its length is one of a length, so that what stands in front of its      *)
(* specifier is its length and nothing else; and there is no precision     *)
(* without a point.                                                        *)
LengthChars == {"h", "l", "t", "z", "j"}
LengthFlags == {"LONG", "LONG_LONG", "SHORT", "CHAR"}

LengthIs ==
    LET m == format[pos - 1]
        twice == pos > 2 /\ format[pos - 2] = m
    IN /\ "LONG_LONG" \in flags <=> m = "j" \/ (m = "l" /\ twice)
       /\ "LONG" \in flags <=> m \in {"l", "t", "z"}
       /\ "SHORT" \in flags <=> m = "h"
       /\ "CHAR" \in flags <=> m = "h" /\ twice

BeforeLength ==
    {"flags", "width", "width digits", "point", "precision", "precision digits", "length"}

DirectiveRead ==
    /\ pc \in BeforeLength =>
          format[pos - 1] \notin LengthChars /\ flags \cap LengthFlags = {}
    /\ pc \in {"flags", "width", "width digits", "point"} => precision = 0
    /\ pc \in {"precision", "precision digits"} => "PRECISION" \in flags
    /\ pc \in {"length", "specifier"} /\ "PRECISION" \notin flags => precision = 0
    /\ pc = "specifier" => LengthIs

LEMMA NoLength ==
    /\ \A c : IsDigit(c) => c \notin LengthChars
    /\ \A c \in DOMAIN FlagOf : c \notin LengthChars /\ FlagOf[c] \notin LengthFlags
    /\ {"%", "*", "."} \cap LengthChars = {}
<1>1. \A k \in 1 .. 10 : Digits[k] \notin LengthChars
  BY DEF Digits, LengthChars
<1>2. \A c \in DOMAIN FlagOf : c \notin LengthChars /\ FlagOf[c] \notin LengthFlags
  BY DEF FlagOf, LengthChars, LengthFlags
<1>3. {"%", "*", "."} \cap LengthChars = {}
  BY DEF LengthChars
<1> QED
  BY <1>1, <1>2, <1>3 DEF IsDigit

LEMMA LengthReadNext == Reads /\ DirectiveRead /\ Length => DirectiveRead'
<1> SUFFICES ASSUME Reads, DirectiveRead, Length PROVE DirectiveRead'
  OBVIOUS
<1> DEFINE twice == pos < Len(format) /\ format[pos + 1] = Ch
<1>1. /\ pc = "length" /\ pc' = "specifier" /\ format' = format /\ precision' = precision
      /\ flags' = flags \cup
            (IF Ch = "l" THEN {"LONG"} \cup (IF twice THEN {"LONG_LONG"} ELSE {})
             ELSE IF Ch = "h" THEN {"SHORT"} \cup (IF twice THEN {"CHAR"} ELSE {})
             ELSE IF Ch \in {"t", "z"} THEN {"LONG"}
             ELSE IF Ch = "j" THEN {"LONG_LONG"} ELSE {})
      /\ pos' = pos + (IF Ch \in {"l", "h"} /\ twice THEN 2
                       ELSE IF Ch \in {"l", "h", "t", "z", "j"} THEN 1 ELSE 0)
  BY DEF Length
<1> HIDE DEF twice
<1>2. pos \in Nat /\ pos > 1
  BY <1>1 DEF Reads
<1>3. /\ format[pos - 1] \notin {"h", "l", "t", "z", "j"}
      /\ "LONG" \notin flags /\ "LONG_LONG" \notin flags
      /\ "SHORT" \notin flags /\ "CHAR" \notin flags
  BY <1>1 DEF DirectiveRead, BeforeLength, LengthChars, LengthFlags
<1>4. "PRECISION" \notin flags' => precision' = 0
  BY <1>1 DEF DirectiveRead
<1>5. LengthIs'
  <2>1. CASE Ch \in {"l", "h"} /\ twice
    <3>1. /\ pos' = pos + 2 /\ pos' - 1 = pos + 1 /\ pos' - 2 = pos /\ pos' > 2
          /\ format'[pos' - 1] = Ch /\ format'[pos' - 2] = Ch
      BY <1>1, <1>2, <2>1 DEF twice, Ch
    <3> QED
      BY <1>1, <1>3, <2>1, <3>1 DEF LengthIs
  <2>2. CASE Ch \in {"l", "h"} /\ ~ twice
    <3>1. /\ pos' = pos + 1 /\ pos' - 1 = pos /\ pos' - 2 = pos - 1
          /\ format'[pos' - 1] = Ch /\ format'[pos' - 2] # Ch
      BY <1>1, <1>2, <1>3, <2>2 DEF Ch
    <3> QED
      BY <1>1, <1>3, <2>2, <3>1 DEF LengthIs
  <2>3. CASE Ch \in {"t", "z", "j"}
    <3>1. pos' = pos + 1 /\ pos' - 1 = pos /\ format'[pos' - 1] = Ch
      BY <1>1, <1>2, <2>3 DEF Ch
    <3> QED
      BY <1>1, <1>3, <2>3, <3>1 DEF LengthIs
  <2>4. CASE Ch \notin {"h", "l", "t", "z", "j"}
    <3>1. pos' = pos /\ format'[pos' - 1] = format[pos - 1] /\ flags' = flags
      BY <1>1, <1>2, <2>4
    <3> QED
      BY <1>3, <3>1 DEF LengthIs
  <2> QED
    BY <2>1, <2>2, <2>3, <2>4
<1> QED
  BY <1>1, <1>4, <1>5 DEF DirectiveRead, BeforeLength

LEMMA DirectiveReadNext == Reads /\ DirectiveRead /\ [Next]_vars => DirectiveRead'
<1> SUFFICES ASSUME Reads, DirectiveRead, [Next]_vars PROVE DirectiveRead'
  OBVIOUS
<1> DEFINE Clean == format[pos - 1] \notin LengthChars /\ flags \cap LengthFlags = {}
<1>0. pos \in Nat
  BY DEF Reads
<1>1. CASE pc' \in {"text", "done"}
  BY <1>1 DEF DirectiveRead, BeforeLength
<1>2. CASE Percent
  <2>1. pos' - 1 = pos /\ format' = format /\ Ch = "%"
    BY <1>0, <1>2 DEF Percent
  <2>2. Clean'
    BY <1>2, <2>1, NoLength DEF Percent, Ch
  <2> QED
    BY <1>2, <2>2 DEF Percent, DirectiveRead, BeforeLength
<1>3. CASE Flag
  <2>1. CASE Ch \in DOMAIN FlagOf
    <3>1. pos' - 1 = pos /\ format' = format /\ flags' = flags \cup {FlagOf[Ch]}
      BY <1>0, <1>3, <2>1 DEF Flag
    <3>2. Clean
      BY <1>3 DEF Flag, DirectiveRead, BeforeLength
    <3>3. Clean'
      BY <2>1, <3>1, <3>2, NoLength DEF Ch
    <3> QED
      BY <1>3, <2>1, <3>3 DEF Flag, DirectiveRead, BeforeLength
  <2>2. CASE Ch \notin DOMAIN FlagOf
    BY <1>3, <2>2 DEF Flag, DirectiveRead, BeforeLength
  <2> QED
    BY <2>1, <2>2
<1>4. CASE Width
  <2>1. /\ pc \in {"width", "width digits"} /\ pc' \in {"width digits", "point"}
        /\ format' = format /\ precision' = precision
        /\ flags' \in {flags, flags \cup {"LEFT"}}
        /\ pos' = pos \/ (pos' = pos + 1 /\ (IsDigit(Ch) \/ Ch = "*"))
    BY <1>4 DEF Width
  <2>2. Clean /\ precision = 0
    BY <2>1 DEF DirectiveRead, BeforeLength
  <2>3. flags' \cap LengthFlags = {}
    BY <2>1, <2>2 DEF LengthFlags
  <2>4. format'[pos' - 1] \notin LengthChars
    <3>1. CASE pos' = pos
      BY <2>1, <2>2, <3>1
    <3>2. CASE pos' = pos + 1 /\ (IsDigit(Ch) \/ Ch = "*")
      <4>1. pos' - 1 = pos
        BY <1>0, <3>2
      <4> QED
        BY <2>1, <3>2, <4>1, NoLength DEF Ch
    <3> QED
      BY <2>1, <3>1, <3>2
  <2> QED
    BY <2>1, <2>2, <2>3, <2>4 DEF DirectiveRead, BeforeLength
<1>5. CASE Point
  <2>1. /\ pc = "point" /\ format' = format /\ precision' = precision
        /\ \/ Ch = "." /\ flags' = flags \cup {"PRECISION"} /\ pos' = pos + 1 /\ pc' = "precision"
           \/ pc' = "length" /\ flags' = flags /\ pos' = pos
    BY <1>5 DEF Point
  <2>2. Clean /\ precision = 0
    BY <2>1 DEF DirectiveRead, BeforeLength
  <2>3. CASE Ch = "." /\ flags' = flags \cup {"PRECISION"} /\ pos' = pos + 1 /\ pc' = "precision"
    <3>1. pos' - 1 = pos
      BY <1>0, <2>3
    <3>2. Clean'
      BY <2>1, <2>2, <2>3, <3>1, NoLength DEF Ch, LengthFlags
    <3> QED
      BY <2>3, <3>2 DEF DirectiveRead, BeforeLength
  <2>4. CASE pc' = "length" /\ flags' = flags /\ pos' = pos
    BY <2>1, <2>2, <2>4 DEF DirectiveRead, BeforeLength
  <2> QED
    BY <2>1, <2>3, <2>4
<1>6. CASE Precision
  <2>1. /\ pc \in {"precision", "precision digits"} /\ pc' \in {"precision digits", "length"}
        /\ format' = format /\ flags' = flags
        /\ pos' = pos \/ (pos' = pos + 1 /\ (IsDigit(Ch) \/ Ch = "*"))
    BY <1>6 DEF Precision
  <2>2. Clean /\ "PRECISION" \in flags
    BY <2>1 DEF DirectiveRead, BeforeLength
  <2>3. format'[pos' - 1] \notin LengthChars
    <3>1. CASE pos' = pos
      BY <2>1, <2>2, <3>1
    <3>2. CASE pos' = pos + 1 /\ (IsDigit(Ch) \/ Ch = "*")
      <4>1. pos' - 1 = pos
        BY <1>0, <3>2
      <4> QED
        BY <2>1, <3>2, <4>1, NoLength DEF Ch
    <3> QED
      BY <2>1, <3>1, <3>2
  <2> QED
    BY <2>1, <2>2, <2>3 DEF DirectiveRead, BeforeLength
<1>7. CASE Length
  BY <1>7, LengthReadNext
<1>8. CASE Integer \/ Pointer \/ Char \/ String \/ Other
  BY <1>1, <1>8 DEF Integer, Pointer, Char, String, Other, EndDirective
<1>9. CASE Literal \/ Terminate
  BY <1>1, <1>9 DEF Literal, Terminate
<1>10. CASE UNCHANGED vars
  BY <1>10 DEF vars, directive, DirectiveRead, BeforeLength, LengthIs
<1> QED
  BY <1>2, <1>3, <1>4, <1>5, <1>6, <1>7, <1>8, <1>9, <1>10 DEF Next

-----------------------------------------------------------------------------
(* The fifth invariant: the last field is what was made of the argument in *)
(* the type the directive asks for, with the flags, the width and the      *)
(* precision that are still there.                                         *)
FieldFlags == IF Specifier = "p" THEN flags ELSE FlagsOf(Specifier)

FieldIs ==
    /\ pc \in {"text", "done"}
    /\ Specifier \in DOMAIN BaseOf \cup {"p"}
    /\ Expected \in Int /\ (~ IsSigned => Expected >= 0)
    /\ field.text = Ntoa(Magnitude, Expected < 0, Base, precision, width, FieldFlags)
    /\ Specifier = "p" => "ZEROPAD" \in flags
    /\ "PRECISION" \notin flags => precision = 0

FieldInv == field = NoField \/ FieldIs

(* The bits of the type the directive names are those the code takes.      *)
LEMMA TypeTaken ==
    ASSUME Reads, DirectiveRead, pc = "specifier", format' = format, field'.at = pos, Ch # "p"
    PROVE  TypeBits' = ValueBits
<1>1. LengthIs /\ pos \in Nat /\ pos > 1
  BY DEF DirectiveRead, Reads
<1>2. /\ Specifier' = Ch /\ Modifier' = format[pos - 1]
      /\ Doubled' = (pos > 2 /\ format[pos - 2] = format[pos - 1])
  BY DEF Specifier, Modifier, Doubled, Ch
<1>3. Specifier' # "p"
  BY <1>2
<1>4. TypeBits' = IF Modifier' = "h" THEN IF Doubled' THEN CharBits ELSE ShortBits
                  ELSE IF Modifier' = "l" THEN IF Doubled' THEN LongLongBits ELSE LongBits
                  ELSE IF Modifier' = "j" THEN LongLongBits
                  ELSE IF Modifier' \in {"z", "t"} THEN LongBits ELSE IntBits
  BY <1>3 DEF TypeBits
<1> DEFINE m == format[pos - 1]
           twice == pos > 2 /\ format[pos - 2] = m
<1>5. /\ "LONG_LONG" \in flags <=> m = "j" \/ (m = "l" /\ twice)
      /\ "LONG" \in flags <=> m \in {"l", "t", "z"}
      /\ "SHORT" \in flags <=> m = "h"
      /\ "CHAR" \in flags <=> m = "h" /\ twice
  BY <1>1 DEF LengthIs
<1>6. ValueBits = IF m = "h" THEN IF twice THEN CharBits ELSE ShortBits
                  ELSE IF m = "l" THEN IF twice THEN LongLongBits ELSE LongBits
                  ELSE IF m = "j" THEN LongLongBits
                  ELSE IF m \in {"z", "t"} THEN LongBits ELSE IntBits
  BY <1>5 DEF ValueBits, ArgBits
<1> QED
  BY <1>2, <1>4, <1>6

LEMMA IntegerField ==
    ASSUME Reads, DirectiveRead, Integer PROVE FieldIs'
<1>0. PICK v \in Int : \E s :
          /\ Converted(Ch, v) \in Int
          /\ s = Ntoa(Absolute(Converted(Ch, v)), Converted(Ch, v) < 0, BaseOf[Ch],
                      precision, width, FlagsOf(Ch))
          /\ field' = [text |-> s, arg |-> v, at |-> pos]
  BY IntegerShows
<1>1. PICK s :
          /\ Converted(Ch, v) \in Int
          /\ s = Ntoa(Absolute(Converted(Ch, v)), Converted(Ch, v) < 0, BaseOf[Ch],
                      precision, width, FlagsOf(Ch))
          /\ field' = [text |-> s, arg |-> v, at |-> pos]
  BY <1>0
<1>2. /\ pc = "specifier" /\ pc' = "text" /\ Ch \in DOMAIN BaseOf
      /\ format' = format /\ flags' = flags /\ width' = width /\ precision' = precision
  BY DEF Integer, EndDirective, directive
<1>3. field'.at = pos /\ field'.arg = v /\ field'.text = s
  BY <1>1
<1>4. Specifier' = Ch /\ Ch # "p"
  BY <1>2, <1>3 DEF Specifier, Ch, BaseOf
<1>5. TypeBits' = ValueBits
  BY <1>2, <1>3, <1>4, TypeTaken
<1>6. IsSigned' = (Ch \in {"d", "i"}) /\ Base' = BaseOf[Ch]
  BY <1>4 DEF IsSigned, Base
<1>7. Expected' = Converted(Ch, v)
  BY <1>3, <1>5, <1>6 DEF Expected, Converted
<1>8. ~ IsSigned' => Expected' >= 0
  <2>1. SUFFICES ASSUME ~ IsSigned' PROVE Expected' >= 0
    OBVIOUS
  <2>2. Converted(Ch, v) = Unsigned(v, ValueBits)
    BY <1>6, <2>1 DEF Converted
  <2>3. Unsigned(v, ValueBits) \in Nat
    BY Conversions, BitsOfTypes
  <2> QED
    BY <1>7, <2>2, <2>3
<1>9. Magnitude' = Absolute(Converted(Ch, v))
  BY <1>1, <1>7 DEF Magnitude, Absolute
<1>10. FieldFlags' = FlagsOf(Ch)
  BY <1>2, <1>4 DEF FieldFlags, FlagsOf
<1>11. field'.text = Ntoa(Magnitude', Expected' < 0, Base', precision', width', FieldFlags')
  BY <1>1, <1>2, <1>3, <1>6, <1>7, <1>9, <1>10
<1>12. "PRECISION" \notin flags' => precision' = 0
  BY <1>2 DEF DirectiveRead
<1> QED
  BY <1>1, <1>2, <1>4, <1>7, <1>8, <1>11, <1>12 DEF FieldIs

LEMMA PointerField ==
    ASSUME DirectiveRead, Pointer PROVE FieldIs'
<1>0. PICK v \in Nat : \E s :
          /\ Unsigned(v, LongBits) = v
          /\ s = Ntoa(v, FALSE, 16, precision, width', flags')
          /\ field' = [text |-> s, arg |-> v, at |-> pos]
  BY PointerShows
<1>1. PICK s :
          /\ Unsigned(v, LongBits) = v
          /\ s = Ntoa(v, FALSE, 16, precision, width', flags')
          /\ field' = [text |-> s, arg |-> v, at |-> pos]
  BY <1>0
<1>2. /\ pc = "specifier" /\ pc' = "text" /\ Ch = "p"
      /\ format' = format /\ precision' = precision
      /\ flags' = flags \cup {"ZEROPAD", "UPPERCASE"}
  BY DEF Pointer, EndDirective
<1>3. field'.at = pos /\ field'.arg = v /\ field'.text = s
  BY <1>1
<1>4. Specifier' = "p"
  BY <1>2, <1>3 DEF Specifier, Ch
<1>5. IsSigned' = FALSE /\ Base' = 16 /\ TypeBits' = LongBits /\ FieldFlags' = flags'
  BY <1>4 DEF IsSigned, Base, TypeBits, FieldFlags
<1>6. Expected' = v
  BY <1>1, <1>3, <1>5 DEF Expected
<1>7. Magnitude' = v /\ (Expected' < 0) = FALSE
  BY <1>6 DEF Magnitude
<1>8. field'.text = Ntoa(Magnitude', Expected' < 0, Base', precision', width', FieldFlags')
  BY <1>1, <1>2, <1>3, <1>5, <1>7
<1>9. "PRECISION" \notin flags' => precision' = 0
  BY <1>2 DEF DirectiveRead
<1>10. Expected' \in Int /\ Expected' >= 0
  BY <1>6
<1> QED
  BY <1>2, <1>4, <1>8, <1>9, <1>10 DEF FieldIs

LEMMA FieldNext == Reads /\ DirectiveRead /\ FieldInv /\ [Next]_vars => FieldInv'
<1> SUFFICES ASSUME Reads, DirectiveRead, FieldInv, [Next]_vars PROVE FieldInv'
  OBVIOUS
<1>1. ASSUME field' = field, UNCHANGED <<format, flags, width, precision>>,
             pc' \in {"text", "done"}
      PROVE  FieldInv'
  <2>1. /\ Specifier' = Specifier /\ IsSigned' = IsSigned /\ Base' = Base
        /\ TypeBits' = TypeBits
    BY <1>1 DEF Specifier, IsSigned, Base, TypeBits, Modifier, Doubled
  <2>2. Expected' = Expected
    BY <1>1, <2>1 DEF Expected
  <2>3. Magnitude' = Magnitude /\ FieldFlags' = FieldFlags
    BY <1>1, <2>1, <2>2 DEF Magnitude, FieldFlags, FlagsOf
  <2> QED
    BY <1>1, <2>1, <2>2, <2>3 DEF FieldInv, FieldIs, NoField
<1>2. ASSUME field' = field, pc \notin {"text", "done"} PROVE FieldInv'
  BY <1>2 DEF FieldInv, FieldIs, NoField
<1>3. CASE Literal \/ Terminate
  BY <1>1, <1>3 DEF Literal, Terminate, directive
<1>4. CASE Percent
  BY <1>4 DEF Percent, FieldInv, NoField
<1>5. CASE Flag \/ Width \/ Point \/ Precision \/ Length \/ Char \/ String \/ Other
  BY <1>2, <1>5 DEF Flag, Width, Point, Precision, Length, Char, String, Other
<1>6. CASE Integer
  BY <1>6, IntegerField DEF FieldInv
<1>7. CASE Pointer
  BY <1>7, PointerField DEF FieldInv
<1>8. CASE UNCHANGED vars
  <2>1. /\ field' = field /\ UNCHANGED <<format, flags, width, precision>> /\ pc' = pc
    BY <1>8 DEF vars, directive
  <2> QED
    BY <1>1, <1>2, <2>1
<1> QED
  BY <1>3, <1>4, <1>5, <1>6, <1>7, <1>8 DEF Next

(* The flags of the field, and what the properties say of them.            *)
LEMMA FieldFlagsAre ==
    ASSUME FieldIs
    PROVE  /\ "LEFT" \in FieldFlags <=> "LEFT" \in flags
           /\ "PRECISION" \in FieldFlags <=> "PRECISION" \in flags
           /\ "HASH" \in FieldFlags <=> "HASH" \in flags /\ (Specifier = "p" \/ Base # 10)
           /\ "ZEROPAD" \in FieldFlags <=>
                 "ZEROPAD" \in flags /\ (Specifier = "p" \/ "PRECISION" \notin flags)
           /\ \A g \in {"PLUS", "SPACE"} :
                 g \in FieldFlags <=> g \in flags /\ Specifier \in {"d", "i", "p"}
           /\ Specifier \in {"d", "i"} => Base = 10
           /\ Specifier = "p" => Base = 16
           /\ Base \in Bases
<1>1. CASE Specifier = "p"
  <2>1. FieldFlags = flags /\ Base = 16
    BY <1>1 DEF FieldFlags, Base
  <2> QED
    BY <1>1, <2>1 DEF Bases
<1>2. CASE Specifier # "p"
  <2>1. Specifier \in DOMAIN BaseOf /\ Base = BaseOf[Specifier] /\ FieldFlags = FlagsOf(Specifier)
    BY <1>2 DEF FieldIs, Base, FieldFlags
  <2>2. Base \in Bases /\ (Specifier \in {"d", "i"} => Base = 10)
    BY <2>1 DEF BaseOf, Bases
  <2> QED
    BY <1>2, <2>1, <2>2 DEF FlagsOf
<1> QED
  BY <1>1, <1>2

-----------------------------------------------------------------------------
(* A field, its number and its directive.                                  *)
LEMMA FieldShows ==
    ASSUME FieldIs, width \in Nat, precision \in Nat, FitsTheConversion
    PROVE  /\ Shows(field.text, Base) = Magnitude <=> ~ PrefixEatsDigits
           /\ Expected < 0 <=> \E k \in DOMAIN field.text : field.text[k] = "-"
           /\ ~ PrefixEatsDigits =>
                 Len(field.text) = Greater(NaturalLength, width + Excess)
<1> DEFINE v == Magnitude
           neg == Expected < 0
           fs == FieldFlags
           c == DigitsShown
           s == field.text
           w1 == WidthOfZeros(neg, width, fs)
<1>1. /\ Expected \in Int /\ (~ IsSigned => Expected >= 0)
      /\ s = Ntoa(v, neg, Base, precision, width, fs)
      /\ Specifier = "p" => "ZEROPAD" \in flags
      /\ "PRECISION" \notin flags => precision = 0
  BY DEF FieldIs
<1>2. v \in Nat /\ (v = 0 <=> Expected = 0)
  BY <1>1 DEF Magnitude
<1>3. /\ "LEFT" \in fs <=> "LEFT" \in flags
      /\ "PRECISION" \in fs <=> "PRECISION" \in flags
      /\ "HASH" \in fs <=> "HASH" \in flags /\ (Specifier = "p" \/ Base # 10)
      /\ "ZEROPAD" \in fs <=>
            "ZEROPAD" \in flags /\ (Specifier = "p" \/ "PRECISION" \notin flags)
      /\ \A g \in {"PLUS", "SPACE"} :
            g \in fs <=> g \in flags /\ Specifier \in {"d", "i", "p"}
      /\ Specifier \in {"d", "i"} => Base = 10
      /\ Specifier = "p" => Base = 16
      /\ Base \in Bases
  BY FieldFlagsAre
<1>4. neg => Specifier \in {"d", "i"}
  BY <1>1 DEF IsSigned
<1>5. c = Count(v, Base, fs)
  BY <1>2, <1>3 DEF DigitsShown, Count, NoDigits
<1>6. Greater(Greater(c, precision), width) + 3 <= NtoaSize
  BY DEF FitsTheConversion
<1>7. HasPrefix <=> Prefix(v, fs)
  BY <1>2, <1>3 DEF HasPrefix, Prefix
<1>8. HasSign <=> Signs(neg, fs)
  BY <1>3, <1>4 DEF HasSign, Signs
<1>9. neg \in BOOLEAN
  OBVIOUS
<1>10. v # 0 => c > 0
  <2>1. Base \in Nat /\ Base > 1
    BY <1>3 DEF Bases
  <2>2. DigitCount(v, Base) \in Nat \ {0}
    BY <1>2, <2>1, DigitCounts
  <2> QED
    BY <1>2, <2>2 DEF DigitsShown
<1>11. Directed(v, neg, Base, c, precision, fs)
  <2>1. "HASH" \in fs => Base # 10
    BY <1>3
  <2>2. Prefix(v, fs) /\ Signs(neg, fs) => "ZEROPAD" \in fs /\ Base = 16
    <3>1. SUFFICES ASSUME Prefix(v, fs), Signs(neg, fs) PROVE "ZEROPAD" \in fs /\ Base = 16
      OBVIOUS
    <3>2. Specifier \in {"d", "i", "p"} /\ Base # 10
      BY <1>3, <1>4, <2>1, <3>1 DEF Signs, Prefix
    <3> QED
      BY <1>1, <1>3, <3>2
  <2>3. "PRECISION" \in fs /\ "ZEROPAD" \in fs => Base = 16
    BY <1>3
  <2> QED
    BY <1>1, <1>3, <1>10, <2>1, <2>2, <2>3 DEF Directed
<1>12. PrefixEatsDigits <=> Eats(v, neg, Base, c, width, fs)
  BY <1>3, <1>7, <1>8 DEF PrefixEatsDigits, Eats
<1>13. NaturalLength = Natural(v, neg, Base, c, precision, fs)
  BY <1>3, <1>7, <1>8 DEF NaturalLength, Natural
<1>14. Excess = Wider(v, Base, c, width, fs)
  BY <1>3, <1>7 DEF Excess, Wider
<1> HIDE DEF v, neg, fs, c, s
<1>15. /\ IsSeq(s) /\ c \in Nat
       /\ Shows(s, Base) = v <=> KeptLen(v, Base, c, precision, w1, fs) >= c
       /\ Minus(s) <=> neg
       /\ Len(s) = InkLen(v, neg, Base, c, precision, w1, fs)
                   + Spaces(InkLen(v, neg, Base, c, precision, w1, fs), w1, fs)
  BY <1>1, <1>2, <1>3, <1>5, <1>6, <1>9, NtoaIs
<1>16. /\ KeptLen(v, Base, c, precision, w1, fs) >= c <=> ~ Eats(v, neg, Base, c, width, fs)
       /\ ~ Eats(v, neg, Base, c, width, fs) =>
             InkLen(v, neg, Base, c, precision, w1, fs)
             + Spaces(InkLen(v, neg, Base, c, precision, w1, fs), w1, fs)
             = Greater(Natural(v, neg, Base, c, precision, fs),
                       width + Wider(v, Base, c, width, fs))
  BY <1>2, <1>3, <1>11, <1>15, Laid
<1>17. DOMAIN s = 1 .. Len(s)
  BY <1>15 DEF IsSeq
<1>18. Minus(s) <=> \E k \in DOMAIN s : s[k] = "-"
  BY <1>17 DEF Minus
<1> HIDE DEF w1
<1> QED
  BY <1>12, <1>13, <1>14, <1>15, <1>16, <1>18 DEF v, neg, fs, c, s

(* Together with what was shown of the format and of the text.             *)
Numbers == Inv /\ Reads /\ DirectiveRead /\ FieldInv

LEMMA InitNumbers == Init => Numbers
<1> SUFFICES ASSUME Init PROVE Numbers
  OBVIOUS
<1>1. Inv
  BY InitInv
<1>2. Reads
  BY PrintfAssumption DEF Init, Reads
<1>3. DirectiveRead /\ FieldInv
  BY DEF Init, DirectiveRead, BeforeLength, FieldInv
<1> QED
  BY <1>1, <1>2, <1>3 DEF Numbers

LEMMA NextNumbers == Numbers /\ [Next]_vars => Numbers'
  BY NextInv, ReadsNext, DirectiveReadNext, FieldNext DEF Numbers

LEMMA NumbersShow ==
    ASSUME Numbers, field # NoField, FitsTheConversion
    PROVE  /\ Shows(field.text, Base) = Magnitude <=> ~ PrefixEatsDigits
           /\ Expected < 0 <=> \E k \in DOMAIN field.text : field.text[k] = "-"
           /\ ~ PrefixEatsDigits =>
                 Len(field.text) = Greater(NaturalLength, width + Excess)
<1>1. FieldIs /\ width \in Nat /\ precision \in Nat
  BY DEF Numbers, FieldInv, Inv
<1> QED
  BY <1>1, FieldShows

(* Whatever is asked for, a number that fits the conversion buffer is read *)
(* back from its field as the argument in the type of the directive, with  *)
(* its sign, unless the prefix of # takes the place of digits: for every   *)
(* format, every argument and every width of the types.                    *)
THEOREM DenotesThm == Spec => []Denotes
<1>1. Numbers => Denotes
  BY NumbersShow, Zenon DEF Denotes
<1> QED
  BY <1>1, InitNumbers, NextNumbers, PTL DEF Spec

(* And the field is exactly as wide as the directive asks for, as the      *)
(* number needs, or as its prefix makes it: for every format as well.      *)
THEOREM FieldWidthThm == Spec => []FieldWidth
<1>1. Numbers => FieldWidth
  BY NumbersShow, Zenon DEF FieldWidth
<1> QED
  BY <1>1, InitNumbers, NextNumbers, PTL DEF Spec
=============================================================================
