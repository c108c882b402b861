------------------------------ MODULE Induction ------------------------------
(***************************************************************************)
(* Induction over the natural numbers in a form that speaks of sets, not   *)
(* of predicates: a set of numbers for which a claim fails has a least     *)
(* element, for which the claim is then proved from the numbers below it.  *)
(* With it, that a recursive function exists, and what Power and           *)
(* DigitCount of Numerals are.                                             *)
(***************************************************************************)
EXTENDS Numerals, WellFoundedInduction, TLAPS

LEMMA LessIsWellFounded ==
    \E R : IsWellFoundedOn(R, Nat) /\ R = {ss \in Nat \X Nat : ss[1] < ss[2]}
<1>1. OpToRel(<, Nat) = {ss \in Nat \X Nat : ss[1] < ss[2]}
  BY Zenon DEF OpToRel
<1> QED
  BY Zenon, <1>1, NatLessThanWellFounded

(* A set of natural numbers that is not empty has a least element.         *)
LEMMA Least ==
    ASSUME NEW S \in SUBSET Nat, S # {}
    PROVE  \E m \in S : \A k \in S : m <= k
<1>1. PICK R : IsWellFoundedOn(R, Nat) /\ R = {ss \in Nat \X Nat : ss[1] < ss[2]}
  BY LessIsWellFounded
<1>2. PICK m \in S : \A k \in S : <<k, m>> \notin R
  BY <1>1, WFMin
<1>3. ASSUME NEW k \in S PROVE m <= k
  <2>1. k \in Nat /\ m \in Nat
    OBVIOUS
  <2>2. <<k, m>> \in Nat \X Nat /\ <<k, m>>[1] = k /\ <<k, m>>[2] = m
    BY <2>1
  <2>3. ~ (k < m)
    BY <1>1, <1>2, <2>2
  <2> QED
    BY <2>1, <2>3
<1> QED
  BY <1>3

(* A set of natural numbers that has 0, and with a number the next one.    *)
LEMMA AllNaturals ==
    ASSUME NEW S \in SUBSET Nat, 0 \in S, \A n \in S : n + 1 \in S
    PROVE  S = Nat
<1>1. SUFFICES ASSUME Nat \ S # {} PROVE FALSE
  OBVIOUS
<1>2. PICK m \in Nat \ S : \A k \in Nat \ S : m <= k
  BY <1>1, Least
<1>3. m # 0 /\ m - 1 \in Nat /\ (m - 1) + 1 = m
  BY <1>2
<1>4. m - 1 \in S
  BY <1>2, <1>3
<1> QED
  BY <1>2, <1>3, <1>4

(* A function is defined by its value at 0 and by how each value follows   *)
(* from the one before.                                                    *)
Follows(f, n, a, g) == f[0] = a /\ \A k \in 0 .. n - 1 : f[k + 1] = g[<<k, f[k]>>]

Recursive(f, a, g) == f[0] = a /\ \A k \in Nat : f[k + 1] = g[<<k, f[k]>>]

LEMMA Recursion ==
    ASSUME NEW S, NEW a \in S, NEW g \in [Nat \X S -> S]
    PROVE  \E f \in [Nat -> S] : Recursive(f, a, g)
<1> DEFINE Starts == {n \in Nat : \E f \in [0 .. n -> S] : Follows(f, n, a, g)}
           start(n) == CHOOSE f \in [0 .. n -> S] : Follows(f, n, a, g)
           whole == [n \in Nat |-> start(n)[n]]
<1>1. Starts = Nat
  <2>1. 0 \in Starts
    <3>1. [k \in 0 .. 0 |-> a] \in [0 .. 0 -> S] /\ Follows([k \in 0 .. 0 |-> a], 0, a, g)
      BY DEF Follows
    <3> QED
      BY <3>1
  <2>2. ASSUME NEW n \in Starts PROVE n + 1 \in Starts
    <3>1. PICK f \in [0 .. n -> S] : Follows(f, n, a, g)
      OBVIOUS
    <3> DEFINE h == [k \in 0 .. n + 1 |-> IF k = n + 1 THEN g[<<n, f[n]>>] ELSE f[k]]
    <3>2. n \in Nat /\ f[n] \in S /\ g[<<n, f[n]>>] \in S
      OBVIOUS
    <3>3. h \in [0 .. n + 1 -> S]
      BY <3>2
    <3>4. h[0] = a
      BY <3>1, <3>2 DEF Follows
    <3>5. /\ \A k \in 0 .. n : h[k] = f[k]
          /\ h[n + 1] = g[<<n, f[n]>>]
      BY <3>2
    <3>6. Follows(h, n + 1, a, g)
      <4>1. ASSUME NEW k \in 0 .. (n + 1) - 1 PROVE h[k + 1] = g[<<k, h[k]>>]
        <5>1. k \in 0 .. n /\ h[k] = f[k]
          BY <3>2, <3>5
        <5>2. CASE k = n
          BY <3>5, <5>1, <5>2
        <5>3. CASE k # n
          <6>1. k \in 0 .. n - 1 /\ k + 1 \in 0 .. n
            BY <3>2, <5>1, <5>3
          <6>2. f[k + 1] = g[<<k, f[k]>>] /\ h[k + 1] = f[k + 1]
            BY <3>1, <3>5, <6>1 DEF Follows
          <6> QED
            BY <5>1, <6>2
        <5> QED
          BY <5>2, <5>3
      <4> HIDE DEF h
      <4> QED
        BY <3>4, <4>1 DEF Follows
    <3> QED
      BY <3>2, <3>3, <3>6
  <2>3. \A n \in Starts : n + 1 \in Starts
    BY <2>2
  <2>4. Starts \in SUBSET Nat
    OBVIOUS
  <2> HIDE DEF Starts
  <2> QED
    BY <2>1, <2>3, <2>4, AllNaturals
<1>2. \A n \in Nat : start(n) \in [0 .. n -> S] /\ Follows(start(n), n, a, g)
  BY <1>1
<1> HIDE DEF start, Starts
<1>3. ASSUME NEW m \in Nat, NEW n \in Nat, m <= n PROVE start(m)[m] = start(n)[m]
  <2> DEFINE Same == {k \in Nat : k <= m => start(m)[k] = start(n)[k]}
  <2>1. 0 \in Same
    BY <1>2 DEF Follows
  <2>2. ASSUME NEW k \in Same PROVE k + 1 \in Same
    <3>1. SUFFICES ASSUME k + 1 <= m PROVE start(m)[k + 1] = start(n)[k + 1]
      OBVIOUS
    <3>2. k \in 0 .. m - 1 /\ k \in 0 .. n - 1 /\ start(m)[k] = start(n)[k]
      BY <1>3, <3>1
    <3>3. /\ start(m)[k + 1] = g[<<k, start(m)[k]>>]
          /\ start(n)[k + 1] = g[<<k, start(n)[k]>>]
      BY <1>2, <3>2 DEF Follows
    <3> QED
      BY <3>2, <3>3
  <2>3. \A k \in Same : k + 1 \in Same
    BY <2>2
  <2>4. Same \in SUBSET Nat
    OBVIOUS
  <2>5. Same = Nat
    <3> HIDE DEF Same
    <3> QED
      BY <2>1, <2>3, <2>4, AllNaturals
  <2> QED
    BY <2>5
<1>4. \A n \in Nat : whole[n] = start(n)[n] /\ start(n)[n] \in S
  BY <1>2
<1>5. whole \in [Nat -> S]
  BY <1>4
<1>6. whole[0] = a
  BY <1>2, <1>4 DEF Follows
<1>7. ASSUME NEW k \in Nat PROVE whole[k + 1] = g[<<k, whole[k]>>]
  <2>1. k + 1 \in Nat /\ k <= k + 1 /\ k \in 0 .. (k + 1) - 1
    OBVIOUS
  <2>2. start(k + 1)[k] = start(k)[k]
    BY <1>3, <2>1
  <2>3. Follows(start(k + 1), k + 1, a, g)
    BY <1>2, <2>1
  <2>4. start(k + 1)[k + 1] = g[<<k, start(k + 1)[k]>>]
    BY <2>1, <2>3 DEF Follows
  <2> QED
    BY <1>4, <2>1, <2>2, <2>4
<1> HIDE DEF whole
<1> QED
  BY <1>5, <1>6, <1>7 DEF Recursive

-----------------------------------------------------------------------------
(* Powers.                                                                 *)
LEMMA Powers ==
    ASSUME NEW b \in Nat
    PROVE  /\ Power(b) \in [Nat -> Nat] /\ Power(b)[0] = 1
           /\ \A k \in Nat : Power(b)[k + 1] = b * Power(b)[k]
<1> DEFINE g == [p \in Nat \X Nat |-> b * p[2]]
           Eq(f) == f = [k \in Nat |-> IF k = 0 THEN 1 ELSE b * f[k - 1]]
<1>1. g \in [Nat \X Nat -> Nat] /\ \A k, x \in Nat : g[<<k, x>>] = b * x
  OBVIOUS
<1>2. PICK f \in [Nat -> Nat] : Recursive(f, 1, g)
  <2> HIDE DEF g
  <2> QED
    BY <1>1, Recursion
<1>3. Eq(f)
  <2>1. ASSUME NEW k \in Nat PROVE f[k] = IF k = 0 THEN 1 ELSE b * f[k - 1]
    <3>1. CASE k = 0
      BY <1>2, <3>1 DEF Recursive
    <3>2. CASE k # 0
      <4>1. k - 1 \in Nat /\ (k - 1) + 1 = k /\ f[k - 1] \in Nat
        BY <1>2, <3>2
      <4> QED
        BY <1>1, <1>2, <3>2, <4>1 DEF Recursive
    <3> QED
      BY <3>1, <3>2
  <2> QED
    BY <2>1
<1>4. Eq(Power(b))
  <2>1. \E h : Eq(h)
    BY <1>3
  <2> QED
    BY <2>1, Zenon DEF Power
<1>5. \A k \in Nat : Power(b)[k] = IF k = 0 THEN 1 ELSE b * Power(b)[k - 1]
  BY <1>4, Zenon
<1>6. \A k \in Nat : Power(b)[k + 1] = b * Power(b)[k]
  <2> TAKE k \in Nat
  <2>1. k + 1 \in Nat /\ k + 1 # 0 /\ (k + 1) - 1 = k
    OBVIOUS
  <2> QED
    BY <1>5, <2>1
<1>7. Power(b)[0] = 1
  BY <1>5
<1>8. \A k \in Nat : Power(b)[k] \in Nat
  <2> DEFINE N == {k \in Nat : Power(b)[k] \in Nat}
  <2>1. 0 \in N /\ \A k \in N : k + 1 \in N
    BY <1>6, <1>7
  <2>2. N = Nat
    <3>1. N \in SUBSET Nat
      OBVIOUS
    <3> HIDE DEF N
    <3> QED
      BY <2>1, <3>1, AllNaturals
  <2> QED
    BY <2>2
<1>9. Power(b) = [k \in Nat |-> IF k = 0 THEN 1 ELSE b * Power(b)[k - 1]]
  BY <1>4
<1>10. \A k \in Nat : (IF k = 0 THEN 1 ELSE b * Power(b)[k - 1]) \in Nat
  BY <1>5, <1>8
<1>11. Power(b) \in [Nat -> Nat]
  BY <1>9, <1>10, Zenon
<1> QED
  BY <1>6, <1>7, <1>11

LEMMA PowersRise ==
    ASSUME NEW b \in Nat, b > 1
    PROVE  /\ \A k \in Nat : Power(b)[k] > k
           /\ \A j, k \in Nat : j <= k => Power(b)[j] <= Power(b)[k]
<1>1. \A k \in Nat : /\ Power(b)[k] \in Nat /\ Power(b)[k + 1] = b * Power(b)[k]
  BY Powers
<1>2. ASSUME NEW x \in Nat PROVE b * x >= x + x
  <2>1. (b - 2) \in Nat /\ (b - 2) * x \in Nat /\ (b - 2) * x = b * x - 2 * x
    OBVIOUS
  <2> QED
    BY <2>1
<1>3. \A k \in Nat : Power(b)[k] > k
  <2> DEFINE N == {k \in Nat : Power(b)[k] > k}
  <2>1. 0 \in N
    <3>1. Power(b)[0] = 1
      BY Powers
    <3> QED
      BY <3>1
  <2>2. ASSUME NEW k \in N PROVE k + 1 \in N
    <3>1. Power(b)[k + 1] >= Power(b)[k] + Power(b)[k]
      BY <1>1, <1>2
    <3> QED
      BY <1>1, <3>1
  <2>3. N \in SUBSET Nat /\ \A k \in N : k + 1 \in N
    BY <2>2
  <2>4. N = Nat
    <3> HIDE DEF N
    <3> QED
      BY <2>1, <2>3, AllNaturals
  <2> QED
    BY <2>4
<1>4. ASSUME NEW j \in Nat PROVE \A k \in Nat : j <= k => Power(b)[j] <= Power(b)[k]
  <2> DEFINE N == {k \in Nat : j <= k => Power(b)[j] <= Power(b)[k]}
  <2>1. 0 \in N
    <3>1. Power(b)[0] \in Nat
      BY <1>1
    <3>2. CASE j = 0
      BY <3>1, <3>2
    <3>3. CASE j # 0
      BY <3>3
    <3> QED
      BY <3>2, <3>3
  <2>2. ASSUME NEW k \in N PROVE k + 1 \in N
    <3>1. Power(b)[k + 1] >= Power(b)[k] + Power(b)[k] /\ Power(b)[k] \in Nat
      BY <1>1, <1>2
    <3>2. Power(b)[k + 1] \in Nat /\ Power(b)[j] \in Nat
      BY <1>1
    <3>3. CASE j = k + 1
      BY <3>2, <3>3
    <3>4. CASE j # k + 1
      BY <3>1, <3>2, <3>4
    <3> QED
      BY <3>3, <3>4
  <2>3. N \in SUBSET Nat /\ \A k \in N : k + 1 \in N
    BY <2>2
  <2>4. N = Nat
    <3> HIDE DEF N
    <3> QED
      BY <2>1, <2>3, AllNaturals
  <2> QED
    BY <2>4
<1> QED
  BY <1>3, <1>4

(* A number has more digits than the powers that are not above it.         *)
LEMMA DigitCounts ==
    ASSUME NEW v \in Nat, NEW b \in Nat, b > 1
    PROVE  /\ DigitCount(v, b) \in Nat \ {0} /\ v < Power(b)[DigitCount(v, b)]
           /\ \A k \in Nat : Power(b)[k] <= v => k < DigitCount(v, b)
           /\ \A k \in 1 .. DigitCount(v, b) - 1 : Power(b)[k] <= v
<1> DEFINE N == {k \in Nat : k > 0 /\ v < Power(b)[k]}
           Is(k) == v < Power(b)[k] /\ (k = 1 \/ v >= Power(b)[k - 1])
<1>1. \A k \in Nat : Power(b)[k] \in Nat
  BY Powers
<1>2. v + 1 \in N
  BY <1>1, PowersRise
<1>3. PICK m \in N : \A k \in N : m <= k
  <2> HIDE DEF N
  <2>1. N # {} /\ N \in SUBSET Nat
    BY <1>2 DEF N
  <2> QED
    BY <2>1, Least
<1>4. m \in 1 .. v + 1 /\ Is(m)
  <2>1. m \in Nat /\ m > 0 /\ m <= v + 1 /\ v < Power(b)[m]
    BY <1>2, <1>3
  <2>2. ASSUME m # 1 PROVE v >= Power(b)[m - 1]
    <3>1. m - 1 \in Nat /\ m - 1 > 0 /\ m - 1 \notin N
      BY <1>3, <2>1, <2>2
    <3> QED
      BY <1>1, <3>1
  <2> QED
    BY <2>1, <2>2
<1>5. DigitCount(v, b) \in 1 .. v + 1 /\ Is(DigitCount(v, b))
  BY <1>4 DEF DigitCount
<1> DEFINE c == DigitCount(v, b)
<1>6. c \in Nat /\ c >= 1 /\ v < Power(b)[c] /\ (c = 1 \/ v >= Power(b)[c - 1])
  BY <1>5
<1> HIDE DEF c
<1>7. ASSUME NEW k \in Nat, Power(b)[k] <= v PROVE k < c
  <2>1. SUFFICES ASSUME c <= k PROVE FALSE
    BY <1>6
  <2>2. Power(b)[c] <= Power(b)[k] /\ Power(b)[c] \in Nat /\ Power(b)[k] \in Nat
    BY <1>1, <1>6, <2>1, PowersRise
  <2> QED
    BY <1>6, <1>7, <2>2
<1>8. ASSUME NEW k \in 1 .. c - 1 PROVE Power(b)[k] <= v
  <2>1. c - 1 \in Nat /\ k \in Nat /\ k <= c - 1 /\ c # 1
    BY <1>6
  <2>2. Power(b)[k] <= Power(b)[c - 1]
    BY <2>1, PowersRise
  <2>3. Power(b)[k] \in Nat /\ Power(b)[c - 1] \in Nat
    BY <1>1, <2>1
  <2> QED
    BY <1>6, <2>1, <2>2, <2>3
<1> QED
  BY <1>6, <1>7, <1>8 DEF c
=============================================================================
