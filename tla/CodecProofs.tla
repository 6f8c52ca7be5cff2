----------------------------- MODULE CodecProofs ----------------------------
(***************************************************************************)
(* What holds of varints, of scalars and of skipping for every number and  *)
(* every buffer, whatever the widths are.                                  *)
(***************************************************************************)
EXTENDS Scalars, WellFoundedInduction, TLAPS

(***************************************************************************)
(* Induction over numbers, and recursive functions of them, as statements  *)
(* about sets and functions: the proofs cite them with the set of the      *)
(* numbers for which something holds.                                      *)
(***************************************************************************)

(* A set of natural numbers that is not empty has a least element.         *)
LEMMA SetsHaveLeast ==
  ASSUME NEW S \in SUBSET Nat, S # {}
  PROVE  \E n \in S : \A m \in S : n <= m
<1> DEFINE R == OpToRel(<, Nat)
<1>1. IsWellFoundedOn(R, Nat)
  BY NatLessThanWellFounded
<1>2. \A n, m \in Nat : <<m, n>> \in R <=> m < n
  BY DEF OpToRel
<1> HIDE DEF R
<1>3. PICK n \in S : \A m \in S : ~ (<<m, n>> \in R)
  BY <1>1, WFMin
<1>4. \A m \in S : ~ (m < n)
  BY <1>2, <1>3, Zenon
<1> QED
  BY <1>4

(* Complete induction: a set that has each number whose predecessors it    *)
(* has, has them all.                                                      *)
LEMMA SetsAreAll ==
  ASSUME NEW T \in SUBSET Nat,
         \A n \in Nat : (\A m \in 0 .. n - 1 : m \in T) => n \in T
  PROVE  T = Nat
<1> DEFINE S == Nat \ T
<1> SUFFICES ASSUME S # {}
             PROVE  FALSE
  OBVIOUS
<1>1. PICK n \in S : \A m \in S : n <= m
  <2>1. S \in SUBSET Nat
    OBVIOUS
  <2> HIDE DEF S
  <2> QED
    BY <2>1, SetsHaveLeast
<1>2. \A m \in 0 .. n - 1 : m \in T
  BY <1>1
<1> QED
  BY <1>1, <1>2

(* What holds of 0, and of the next number up to n, holds of n.            *)
LEMMA SetsClimb ==
  ASSUME NEW n \in Nat, NEW T \in SUBSET Nat, 0 \in T,
         \A k \in Nat : k < n /\ k \in T => k + 1 \in T
  PROVE  n \in T
<1> DEFINE U == {k \in Nat : k <= n => k \in T}
<1>1. ASSUME NEW m \in Nat, \A k \in 0 .. m - 1 : k \in U
      PROVE  m \in U
  <2>1. CASE m = 0
    BY <2>1
  <2>2. CASE m # 0
    <3>1. m - 1 \in Nat /\ m - 1 \in U /\ (m - 1) + 1 = m
      BY <1>1, <2>2
    <3> QED
      BY <3>1
  <2> QED
    BY <2>1, <2>2
<1>2. U \in SUBSET Nat
  OBVIOUS
<1>3. U = Nat
  <2> HIDE DEF U
  <2> QED
    BY <1>1, <1>2, SetsAreAll
<1> QED
  BY <1>3

(* From every number of D outside B, pred leads to a lesser one of D.      *)
Descends(D, B, pred) == \A k \in D \ B : pred[k] \in D /\ pred[k] < k

(* The value of f is given by base in B, and outside of it made of the     *)
(* value at the number to which pred leads.                                *)
Recurs(f, D, B, base, pred, rec) ==
  \A k \in D : f[k] = IF k \in B THEN base[k] ELSE rec[k][f[pred[k]]]

(* Such a function exists.                                                 *)
LEMMA RecursionExists ==
  ASSUME NEW D \in SUBSET Nat, NEW V, V # {},
         NEW B \in SUBSET D, NEW base \in [B -> V],
         NEW pred \in [D -> Nat], NEW rec \in [D -> [V -> V]],
         Descends(D, B, pred)
  PROVE  \E f \in [D -> V] : Recurs(f, D, B, base, pred, rec)
<1> USE DEF Descends
<1> DEFINE Step(f, k) == IF k \in B THEN base[k] ELSE rec[k][f[pred[k]]]
           Right(f, n) == \A k \in D : k < n => f[k] = Step(f, k)
           T == {n \in Nat : \E f \in [D -> V] : Right(f, n)}
           A == {n \in Nat : \A f, g \in [D -> V], k \in D :
                               Right(f, n + 1) /\ Right(g, n + 1) /\ k = n => f[k] = g[k]}
<1>1. ASSUME NEW f \in [D -> V], NEW k \in D
      PROVE  Step(f, k) \in V
  OBVIOUS
<1>2. T = Nat
  <2>1. ASSUME NEW n \in Nat, \A m \in 0 .. n - 1 : m \in T
        PROVE  n \in T
    <3>1. CASE n = 0
      <4>1. PICK v \in V : TRUE
        OBVIOUS
      <4>2. [k \in D |-> v] \in [D -> V] /\ Right([k \in D |-> v], n)
        BY <3>1
      <4> QED
        BY <4>2
    <3>2. CASE n # 0
      <4>1. n - 1 \in T
        BY <2>1, <3>2
      <4>2. PICK f \in [D -> V] : Right(f, n - 1)
        BY <4>1
      <4> DEFINE g == [f EXCEPT ![n - 1] = Step(f, n - 1)]
      <4>3. g \in [D -> V]
        BY <1>1
      <4>4. ASSUME NEW k \in D, k < n
            PROVE  g[k] = Step(g, k)
        <5>1. Step(g, k) = Step(f, k)
          BY <4>4
        <5>2. CASE k = n - 1
          BY <5>1, <5>2
        <5>3. CASE k < n - 1
          BY <4>2, <5>1, <5>3
        <5> QED
          BY <4>4, <5>2, <5>3
      <4> QED
        BY <4>3, <4>4
    <3> QED
      BY <3>1, <3>2
  <2>2. T \in SUBSET Nat
    OBVIOUS
  <2> HIDE DEF T
  <2> QED
    BY <2>1, <2>2, SetsAreAll
<1>3. A = Nat
  <2>1. ASSUME NEW n \in Nat, \A m \in 0 .. n - 1 : m \in A
        PROVE  n \in A
    <3> SUFFICES ASSUME NEW f \in [D -> V], NEW g \in [D -> V], n \in D,
                        Right(f, n + 1), Right(g, n + 1)
                 PROVE  f[n] = g[n]
      OBVIOUS
    <3>1. f[n] = Step(f, n) /\ g[n] = Step(g, n)
      OBVIOUS
    <3>2. CASE n \in B
      BY <3>1, <3>2
    <3>3. CASE n \notin B
      <4>1. pred[n] \in 0 .. n - 1 /\ pred[n] \in D
        BY <3>3
      <4>2. pred[n] \in A
        BY <2>1, <4>1
      <4>3. Right(f, pred[n] + 1) /\ Right(g, pred[n] + 1)
        BY <4>1
      <4> QED
        BY <3>1, <3>3, <4>1, <4>2, <4>3
    <3> QED
      BY <3>2, <3>3
  <2>2. A \in SUBSET Nat
    OBVIOUS
  <2> HIDE DEF A
  <2> QED
    BY <2>1, <2>2, SetsAreAll
<1> DEFINE upto == [n \in Nat |-> CHOOSE f \in [D -> V] : Right(f, n)]
           F == [k \in D |-> upto[k + 1][k]]
<1>4. \A n \in Nat : upto[n] \in [D -> V] /\ Right(upto[n], n)
  <2> TAKE n \in Nat
  <2>1. n \in T
    BY <1>2
  <2>2. \E f \in [D -> V] : Right(f, n)
    BY <2>1
  <2> HIDE DEF Right
  <2> QED
    BY <2>2
<1> HIDE DEF upto
<1>5. F \in [D -> V]
  BY <1>4
<1>6. ASSUME NEW k \in D
      PROVE  F[k] = Step(F, k)
  <2>1. F[k] = Step(upto[k + 1], k)
    <3>1. k + 1 \in Nat /\ k < k + 1
      OBVIOUS
    <3>2. Right(upto[k + 1], k + 1)
      BY <1>4, <3>1
    <3>3. upto[k + 1][k] = Step(upto[k + 1], k)
      BY <3>1, <3>2
    <3> QED
      BY <3>3
  <2>2. CASE k \in B
    BY <2>1, <2>2
  <2>3. CASE k \notin B
    <3>1. pred[k] \in D /\ pred[k] < k /\ pred[k] \in A
      BY <1>3, <2>3
    <3>2. Right(upto[k + 1], pred[k] + 1)
      BY <1>4, <3>1
    <3>3. upto[k + 1][pred[k]] = upto[pred[k] + 1][pred[k]]
      BY <1>4, <3>1, <3>2
    <3> QED
      BY <2>1, <2>3, <3>1, <3>3
  <2> QED
    BY <2>2, <2>3
<1> QED
  BY <1>5, <1>6 DEF Recurs

(***************************************************************************)
(* Division.                                                               *)
(***************************************************************************)

(* A product does not fall when a factor grows.                            *)
LEMMA Products ==
  ASSUME NEW m \in Nat, NEW a \in Nat, NEW b \in Nat, a < b
  PROVE  m * a \in Nat /\ m * b \in Nat /\ (m * a) + m <= m * b
<1>1. PICK c \in Nat : b = (a + 1) + c
  <2>1. b - (a + 1) \in Nat /\ b = (a + 1) + (b - (a + 1))
    OBVIOUS
  <2> QED
    BY <2>1
<1>2. m * b = ((m * a) + m) + (m * c)
  BY <1>1
<1>3. m * a \in Nat /\ m * c \in Nat
  OBVIOUS
<1> QED
  BY <1>2, <1>3

(* Quotient and remainder.                                                 *)
LEMMA Divides ==
  ASSUME NEW k \in Nat, NEW m \in Nat \ {0}
  PROVE  /\ k \div m \in Nat /\ k % m \in 0 .. m - 1
         /\ k = (m * (k \div m)) + (k % m)
<1>1. k % m \in 0 .. m - 1 /\ k \div m \in Nat
  OBVIOUS
<1>2. k = (m * (k \div m)) + (k % m)
  OBVIOUS
<1> QED
  BY <1>1, <1>2

(* There is only one of each.                                              *)
LEMMA DivisionIsUnique ==
  ASSUME NEW m \in Nat \ {0}, NEW q \in Nat, NEW r \in 0 .. m - 1
  PROVE  /\ (m * q) + r \in Nat
         /\ ((m * q) + r) \div m = q
         /\ ((m * q) + r) % m = r
<1> DEFINE k == (m * q) + r
           d == k \div m
<1>1. k \in Nat
  OBVIOUS
<1>2. d \in Nat /\ k % m \in 0 .. m - 1 /\ k = (m * d) + (k % m)
  BY <1>1, Divides
<1>3. ~ (d < q)
  <2>1. d < q => (m * d) + m <= m * q /\ m * d \in Nat /\ m * q \in Nat
    BY <1>2, Products
  <2> QED
    BY <1>2, <2>1
<1>4. ~ (q < d)
  <2>1. q < d => (m * q) + m <= m * d /\ m * d \in Nat /\ m * q \in Nat
    BY <1>2, Products
  <2> QED
    BY <1>2, <2>1
<1>5. d = q
  BY <1>2, <1>3, <1>4
<1>6. k % m = r
  <2>1. m * q \in Nat /\ m * d = m * q
    BY <1>5
  <2> HIDE DEF d
  <2> QED
    BY <1>2, <2>1
<1> QED
  BY <1>1, <1>5, <1>6

(* A number that is less than the divisor is its own remainder.            *)
LEMMA LittleRemains ==
  ASSUME NEW m \in Nat, NEW n \in 0 .. m - 1
  PROVE  n % m = n
<1>1. m \in Nat \ {0} /\ 0 \in Nat /\ m * 0 = 0 /\ 0 + n = n
  OBVIOUS
<1>2. ((m * 0) + n) % m = n
  BY <1>1, DivisionIsUnique
<1> QED
  BY <1>1, <1>2

(* A quotient by more than one is less, and no quotient grows when the     *)
(* number falls.                                                           *)
LEMMA QuotientFalls ==
  ASSUME NEW k \in Nat, NEW m \in Nat \ {0}, m > 1, k >= m
  PROVE  k \div m \in Nat \ {0} /\ k \div m < k
<1> DEFINE q == k \div m
<1>1. q \in Nat /\ k % m \in 0 .. m - 1 /\ k = (m * q) + (k % m)
  BY Divides
<1> HIDE DEF q
<1>2. q # 0
  <2>1. q = 0 => m * q = 0
    OBVIOUS
  <2> QED
    BY <1>1, <2>1
<1>3. q < m * q
  <2>1. (q * 1) + q <= q * m
    BY <1>1, Products
  <2>2. q * m = m * q /\ q * 1 = q
    BY <1>1
  <2> QED
    BY <1>1, <1>2, <2>1, <2>2
<1>4. m * q \in Nat
  BY <1>1
<1> QED
  BY <1>1, <1>2, <1>3, <1>4 DEF q

LEMMA QuotientIsMonotone ==
  ASSUME NEW k \in Nat, NEW n \in Nat, k <= n, NEW m \in Nat \ {0}
  PROVE  k \div m <= n \div m
<1> DEFINE q == k \div m
           d == n \div m
<1>1. q \in Nat /\ k % m \in 0 .. m - 1 /\ k = (m * q) + (k % m)
  BY Divides
<1>2. d \in Nat /\ n % m \in 0 .. m - 1 /\ n = (m * d) + (n % m)
  BY Divides
<1> HIDE DEF q, d
<1>3. d < q => (m * d) + m <= m * q
  BY <1>1, <1>2, Products
<1>4. m * d \in Nat /\ m * q \in Nat
  BY <1>1, <1>2
<1>5. ~ (d < q)
  BY <1>1, <1>2, <1>3, <1>4
<1> QED
  BY <1>1, <1>2, <1>5 DEF q, d

(* A byte carries the last digit of a number, and the rest is less.        *)
Digit(k) == k % Radix
Rest(k)  == k \div Radix
Shift(k) == Radix * k

LEMMA RadixType == Radix \in Nat /\ Radix > 1
BY WordAssumption

LEMMA ByteType == /\ \A b \in Byte : b \in Nat
                  /\ \A d \in 0 .. Radix - 1 : d \in Byte /\ d + Radix \in Byte
BY RadixType DEF Byte

LEMMA Shifted ==
  ASSUME NEW k \in Nat
  PROVE  /\ Rest(k) \in Nat /\ Digit(k) \in 0 .. Radix - 1 /\ Shift(k) \in Nat
         /\ k = Digit(k) + Shift(Rest(k))
         /\ k >= Radix => Rest(k) < k /\ Rest(k) # 0
         /\ k < Radix => Digit(k) = k
         /\ k < Radix => Digit(k + Radix) = k
<1>1. Radix \in Nat \ {0} /\ Radix > 1
  BY RadixType
<1>2. /\ k \div Radix \in Nat /\ k % Radix \in 0 .. Radix - 1
      /\ k = (Radix * (k \div Radix)) + (k % Radix)
  BY <1>1, Divides
<1>3. Radix * (k \div Radix) \in Nat /\ Radix * k \in Nat
  BY <1>1, <1>2
<1>4. k >= Radix => k \div Radix < k /\ k \div Radix # 0
  BY <1>1, QuotientFalls
<1>5. ASSUME k < Radix
      PROVE  Digit(k) = k /\ Digit(k + Radix) = k
  <2>1. ((Radix * 0) + k) % Radix = k /\ ((Radix * 1) + k) % Radix = k
    BY <1>1, <1>5, DivisionIsUnique
  <2>2. (Radix * 0) + k = k /\ (Radix * 1) + k = k + Radix
    BY <1>1
  <2> QED
    BY <2>1, <2>2 DEF Digit
<1>6. Digit(k) = k % Radix /\ Rest(k) = k \div Radix /\ Shift(k) = Radix * k
        /\ Shift(Rest(k)) = Radix * (k \div Radix)
  BY DEF Digit, Rest, Shift
<1>7. Digit(k) + Shift(Rest(k)) = Shift(Rest(k)) + Digit(k)
  BY <1>2, <1>3, <1>6
<1>8. k = Digit(k) + Shift(Rest(k))
  BY <1>2, <1>6, <1>7
<1>9. Rest(k) \in Nat /\ Digit(k) \in 0 .. Radix - 1 /\ Shift(k) \in Nat
  BY <1>2, <1>3, <1>6
<1>10. k >= Radix => Rest(k) < k /\ Rest(k) # 0
  BY <1>4, <1>6
<1> QED
  BY <1>5, <1>8, <1>9, <1>10

(* What is put together of a number and a digit is taken apart again.      *)
LEMMA Unshifted ==
  ASSUME NEW x \in Nat, NEW d \in 0 .. Radix - 1
  PROVE  /\ Shift(0) = 0 /\ d + Shift(x) \in Nat
         /\ Rest(d + Shift(x)) = x /\ Digit(d + Shift(x)) = d
<1>1. Radix \in Nat \ {0}
  BY RadixType
<1>2. d + Shift(x) = (Radix * x) + d /\ Shift(0) = 0
  BY <1>1 DEF Shift
<1>3. ((Radix * x) + d) \div Radix = x /\ ((Radix * x) + d) % Radix = d
  BY <1>1, DivisionIsUnique
<1>4. Rest(d + Shift(x)) = x /\ Digit(d + Shift(x)) = d
  BY <1>2, <1>3, Zenon DEF Rest, Digit
<1>5. Radix * x \in Nat
  BY <1>1
<1> QED
  BY <1>1, <1>2, <1>4, <1>5

(***************************************************************************)
(* Sizes.                                                                  *)
(***************************************************************************)

(* The sizes are those the recursion says: there is a function that does.  *)
LEMMA SizeOfNumber ==
  \A k \in Nat : /\ VarintSize(k) \in Nat \ {0}
                 /\ VarintSize(k) = IF k < Radix THEN 1 ELSE 1 + VarintSize(Rest(k))
<1> DEFINE S == Nat \ {0}
           B == {k \in Nat : k < Radix}
           base == [k \in B |-> 1]
           pred == [k \in Nat |-> Rest(k)]
           rec == [k \in Nat |-> [x \in S |-> 1 + x]]
           size[k \in Nat] == IF k < Radix THEN 1 ELSE 1 + size[Rest(k)]
<1>1. /\ B \in SUBSET Nat /\ base \in [B -> S] /\ S # {} /\ Nat \in SUBSET Nat
      /\ pred \in [Nat -> Nat] /\ rec \in [Nat -> [S -> S]]
  BY Shifted
<1>2. Descends(Nat, B, pred)
  BY Shifted, WordAssumption DEF Descends
<1>3. \E f \in [Nat -> S] : Recurs(f, Nat, B, base, pred, rec)
  <2> HIDE DEF S, B, base, pred, rec
  <2> QED
    BY <1>1, <1>2, RecursionExists, Zenon
<1>4. PICK f \in [Nat -> S] : \A k \in Nat : f[k] = IF k < Radix THEN 1 ELSE 1 + f[Rest(k)]
  BY <1>3, Shifted DEF Recurs
<1>5. f = [k \in Nat |-> IF k < Radix THEN 1 ELSE 1 + f[Rest(k)]]
  BY <1>4
<1>6. size = [k \in Nat |-> IF k < Radix THEN 1 ELSE 1 + size[Rest(k)]]
  BY <1>5
<1>7. \A k \in Nat : VarintSize(k) = size[k]
  BY DEF VarintSize, Rest
<1> HIDE DEF size
<1>9. \A k \in Nat : Rest(k) \in Nat /\ Radix \in Nat
  BY Shifted, RadixType
<1>10. \A k \in Nat : size[k] = IF k < Radix THEN 1 ELSE 1 + size[Rest(k)]
  BY <1>6
<1>8. size \in [Nat -> S]
  <2> DEFINE T == {n \in Nat : size[n] \in S}
  <2>1. ASSUME NEW n \in Nat, \A m \in 0 .. n - 1 : m \in T
        PROVE  n \in T
    <3>1. CASE n < Radix
      BY <1>6, <3>1
    <3>2. CASE n >= Radix
      <4>1. Rest(n) \in T
        BY <2>1, <3>2, Shifted
      <4>2. size[n] = 1 + size[Rest(n)]
        BY <1>6, <3>2, WordAssumption
      <4> QED
        BY <4>1, <4>2
    <3> QED
      BY <3>1, <3>2, WordAssumption
  <2>2. T \in SUBSET Nat
    OBVIOUS
  <2>3. T = Nat
    <3> HIDE DEF T
    <3> QED
      BY <2>1, <2>2, SetsAreAll
  <2> QED
    BY <1>6, <2>3
<1>11. \A k \in Nat : size[k] \in S
  BY <1>8
<1> HIDE DEF S
<1>12. \A k \in Nat : VarintSize(k) \in S
  BY <1>7, <1>11
<1>13. \A k \in Nat : VarintSize(k) = IF k < Radix THEN 1 ELSE 1 + VarintSize(Rest(k))
  BY <1>7, <1>9, <1>10
<1> QED
  BY <1>12, <1>13 DEF S

(* A greater number does not take fewer bytes.                             *)
LEMMA SizesAreMonotone ==
  ASSUME NEW n \in Nat, NEW m \in 0 .. n
  PROVE  VarintSize(m) <= VarintSize(n)
<1> DEFINE T == {k \in Nat : \A l \in 0 .. k : VarintSize(l) <= VarintSize(k)}
<1>1. ASSUME NEW k \in Nat, \A j \in 0 .. k - 1 : j \in T
      PROVE  k \in T
  <2> SUFFICES ASSUME NEW l \in 0 .. k
               PROVE  VarintSize(l) <= VarintSize(k)
    OBVIOUS
  <2>1. CASE l < Radix
    BY <2>1, SizeOfNumber
  <2>2. CASE l >= Radix
    <3>1. k >= Radix /\ k \in Nat /\ l \in Nat /\ Radix \in Nat \ {0}
      BY <2>2, WordAssumption
    <3>2. Rest(k) \in 0 .. k - 1
      BY <3>1, Shifted
    <3>6. Rest(l) \in 0 .. Rest(k)
      BY <3>1, Shifted, QuotientIsMonotone DEF Rest
    <3>3. VarintSize(Rest(l)) <= VarintSize(Rest(k))
      BY <1>1, <3>2, <3>6
    <3>4. /\ VarintSize(k) = 1 + VarintSize(Rest(k))
          /\ VarintSize(l) = 1 + VarintSize(Rest(l))
      BY <2>2, <3>1, SizeOfNumber
    <3>5. VarintSize(Rest(k)) \in Nat /\ VarintSize(Rest(l)) \in Nat
      BY <3>1, Shifted, SizeOfNumber
    <3> QED
      BY <3>3, <3>4, <3>5
  <2> QED
    BY <2>1, <2>2, WordAssumption
<1>2. T = Nat
  <2>1. T \in SUBSET Nat
    OBVIOUS
  <2> HIDE DEF T
  <2> QED
    BY <1>1, <2>1, SetsAreAll
<1> QED
  BY <1>2

(* No number of a word takes more bytes than a reader of the word allows.  *)
LEMMA SizesFit ==
  /\ Groups \in Nat \ {0} /\ Groups32 \in 1 .. Groups
  /\ \A n \in 0 .. Word - 1 : VarintSize(n) \in 1 .. Groups
  /\ \A n \in 0 .. Word32 - 1 : VarintSize(n) \in 1 .. Groups32
<1>1. Word \in Nat /\ Word32 \in 0 .. Word - 1 /\ Word - 1 \in Nat /\ Word32 - 1 \in Nat
  BY WordAssumption
<1>2. /\ \A n \in 0 .. Word - 1 : VarintSize(n) <= Groups
      /\ \A n \in 0 .. Word32 - 1 : VarintSize(n) <= Groups32
  BY <1>1, SizesAreMonotone, GroupsAssumption
<1>3. \A n \in 0 .. Word : VarintSize(n) \in Nat \ {0}
  BY <1>1, SizeOfNumber
<1>4. Groups \in Nat \ {0} /\ Groups32 \in Nat \ {0}
  BY <1>1, <1>3, GroupsAssumption
<1>5. Groups32 <= Groups
  BY <1>1, <1>2, GroupsAssumption
<1> QED
  BY <1>1, <1>2, <1>3, <1>4, <1>5

(***************************************************************************)
(* Writing.                                                                *)
(***************************************************************************)

(* The bytes are those the recursion says.                                 *)
LEMMA BytesOfNumber ==
  \A k \in Nat :
    /\ WriteVarint(k) \in Seq(Byte)
    /\ WriteVarint(k) = IF k < Radix THEN <<k>>
                        ELSE <<Digit(k) + Radix>> \o WriteVarint(Rest(k))
<1> DEFINE S == Seq(Byte)
           More(k, w) == <<Digit(k) + Radix>> \o w
           B == {k \in Nat : k < Radix}
           base == [k \in B |-> <<k>>]
           pred == [k \in Nat |-> Rest(k)]
           rec == [k \in Nat |-> [w \in S |-> More(k, w)]]
           write[k \in Nat] == IF k < Radix THEN <<k>> ELSE More(k, write[Rest(k)])
<1>1. \A k \in Nat : k < Radix => <<k>> \in S
  BY WordAssumption DEF Byte
<1>2. \A k \in Nat, w \in S : More(k, w) \in S
  <2>1. \A k \in Nat : Digit(k) + Radix \in Byte
    <3>1. \A k \in Nat : Digit(k) \in 0 .. Radix - 1
      BY Shifted
    <3> QED
      BY <3>1, WordAssumption DEF Byte
  <2> QED
    BY <2>1
<1>3. S # {}
  <2>1. <<>> \in S
    OBVIOUS
  <2> HIDE DEF S
  <2> QED
    BY <2>1
<1>4. \A k \in Nat : WriteVarint(k) = write[k]
  BY DEF WriteVarint, Rest, Digit
<1> HIDE DEF S, More
<1>5. /\ B \in SUBSET Nat /\ Nat \in SUBSET Nat /\ pred \in [Nat -> Nat]
      /\ base \in [B -> S] /\ rec \in [Nat -> [S -> S]]
  BY <1>1, <1>2, Shifted
<1>6. Descends(Nat, B, pred)
  BY Shifted, WordAssumption DEF Descends
<1>7. \E f \in [Nat -> S] : Recurs(f, Nat, B, base, pred, rec)
  <2> HIDE DEF B, base, pred, rec
  <2> QED
    BY <1>3, <1>5, <1>6, RecursionExists, Zenon
<1>8. PICK f \in [Nat -> S] :
        \A k \in Nat : f[k] = IF k < Radix THEN <<k>> ELSE More(k, f[Rest(k)])
  BY <1>7, Shifted DEF Recurs
<1>9. f = [k \in Nat |-> IF k < Radix THEN <<k>> ELSE More(k, f[Rest(k)])]
  BY <1>8
<1>10. write = [k \in Nat |-> IF k < Radix THEN <<k>> ELSE More(k, write[Rest(k)])]
  BY <1>9
<1> HIDE DEF write
<1>11. write \in [Nat -> S]
  <2> DEFINE T == {n \in Nat : write[n] \in S}
  <2>1. ASSUME NEW n \in Nat, \A m \in 0 .. n - 1 : m \in T
        PROVE  n \in T
    <3>1. CASE n < Radix
      BY <1>1, <1>10, <3>1
    <3>2. CASE n >= Radix
      <4>1. Rest(n) \in T
        BY <2>1, <3>2, Shifted
      <4>2. write[n] = More(n, write[Rest(n)])
        BY <1>10, <3>2, WordAssumption
      <4> QED
        BY <1>2, <4>1, <4>2
    <3> QED
      BY <3>1, <3>2, WordAssumption
  <2>2. T \in SUBSET Nat
    OBVIOUS
  <2>3. T = Nat
    <3> HIDE DEF T
    <3> QED
      BY <2>1, <2>2, SetsAreAll
  <2> QED
    BY <1>10, <2>3
<1>12. \A k \in Nat : /\ WriteVarint(k) \in S
                      /\ WriteVarint(k) = IF k < Radix THEN <<k>>
                                          ELSE More(k, WriteVarint(Rest(k)))
  <2> SUFFICES ASSUME NEW k \in Nat
               PROVE  /\ WriteVarint(k) \in S
                      /\ k < Radix => WriteVarint(k) = <<k>>
                      /\ ~ (k < Radix) => WriteVarint(k) = More(k, WriteVarint(Rest(k)))
    OBVIOUS
  <2>1. Rest(k) \in Nat
    BY Shifted
  <2>2. WriteVarint(k) = write[k] /\ WriteVarint(Rest(k)) = write[Rest(k)]
    BY <1>4, <2>1
  <2>3. write[k] \in S
    BY <1>11
  <2>4. write[k] = IF k < Radix THEN <<k>> ELSE More(k, write[Rest(k)])
    BY <1>10
  <2> QED
    BY <2>2, <2>3, <2>4
<1> QED
  BY <1>12 DEF S, More

(***************************************************************************)
(* Reading.                                                                *)
(***************************************************************************)

(* The digits from p to last are the digit at p and those behind it.       *)
LEMMA DigitsFrom ==
  ASSUME NEW s \in Seq(Byte), NEW last \in 0 .. Len(s)
  PROVE  \A p \in 1 .. last + 1 :
           /\ Digits(s, p, last) \in Nat
           /\ Digits(s, p, last) = IF p = last + 1 THEN 0
                                   ELSE Digit(s[p]) + Shift(Digits(s, p + 1, last))
<1> DEFINE D == 0 .. last
           More(k, x) == Digit(s[last + 1 - k]) + Shift(x)
           B == {0}
           base == [k \in B |-> 0]
           pred == [k \in D |-> IF k = 0 THEN 0 ELSE k - 1]
           rec == [k \in D |-> [x \in Nat |-> IF k = 0 THEN 0 ELSE More(k, x)]]
           top[k \in D] == IF k = 0 THEN 0 ELSE More(k, top[k - 1])
<1>1. \A k \in D \ {0}, x \in Nat : More(k, x) \in Nat
  <2> SUFFICES ASSUME NEW k \in D \ {0}, NEW x \in Nat
               PROVE  More(k, x) \in Nat
    OBVIOUS
  <2>1. s[last + 1 - k] \in Nat
    <3>1. last + 1 - k \in 1 .. Len(s)
      OBVIOUS
    <3> QED
      BY <3>1, ByteType
  <2>2. Digit(s[last + 1 - k]) \in 0 .. Radix - 1
    BY <2>1, Shifted
  <2>3. Shift(x) \in Nat /\ Radix \in Nat
    BY Shifted, RadixType
  <2> QED
    BY <2>2, <2>3
<1>2. \A p : Digits(s, p, last) = top[last + 1 - p]
  BY DEF Digits, Digit, Shift
<1>12. 0 \in D /\ D \in SUBSET Nat /\ \A k \in D \ {0} : k - 1 \in D
  OBVIOUS
<1> HIDE DEF More, D
<1>3. /\ B \in SUBSET D /\ D \in SUBSET Nat /\ pred \in [D -> Nat]
      /\ base \in [B -> Nat] /\ rec \in [D -> [Nat -> Nat]] /\ Nat # {}
  BY <1>1, <1>12
<1>4. Descends(D, B, pred)
  BY <1>12 DEF Descends
<1>5. \E f \in [D -> Nat] : Recurs(f, D, B, base, pred, rec)
  <2> HIDE DEF B, D, base, pred, rec
  <2> QED
    BY <1>3, <1>4, RecursionExists, Zenon
<1>6. PICK f \in [D -> Nat] : \A k \in D : f[k] = IF k = 0 THEN 0 ELSE More(k, f[k - 1])
  BY <1>5, <1>12 DEF Recurs
<1>7. f = [k \in D |-> IF k = 0 THEN 0 ELSE More(k, f[k - 1])]
  BY <1>6
<1>8. top = [k \in D |-> IF k = 0 THEN 0 ELSE More(k, top[k - 1])]
  BY <1>7
<1> HIDE DEF top
<1>9. top \in [D -> Nat]
  <2> DEFINE T == {n \in Nat : n \in D => top[n] \in Nat}
  <2>1. ASSUME NEW n \in Nat, \A m \in 0 .. n - 1 : m \in T
        PROVE  n \in T
    <3> SUFFICES ASSUME n \in D
                 PROVE  top[n] \in Nat
      OBVIOUS
    <3>1. CASE n = 0
      BY <1>8, <3>1
    <3>2. CASE n # 0
      <4>1. n - 1 \in T /\ n - 1 \in D
        BY <2>1, <3>2, <1>12
      <4>2. top[n] = More(n, top[n - 1])
        BY <1>8, <3>2
      <4> QED
        BY <1>1, <3>2, <4>1, <4>2
    <3> QED
      BY <3>1, <3>2
  <2>2. T \in SUBSET Nat
    OBVIOUS
  <2>3. T = Nat
    <3> HIDE DEF T
    <3> QED
      BY <2>1, <2>2, SetsAreAll
  <2>4. ASSUME NEW n \in D
        PROVE  top[n] \in Nat
    <3>1. n \in Nat
      BY <1>12
    <3>2. n \in T
      BY <2>3, <3>1
    <3> QED
      BY <3>2
  <2> QED
    BY <1>8, <2>4
<1> USE DEF D
<1>10. ASSUME NEW p \in 1 .. last + 1
       PROVE  /\ top[last + 1 - p] \in Nat
              /\ p = last + 1 => top[last + 1 - p] = 0
              /\ p # last + 1 => top[last + 1 - p] = More(last + 1 - p, top[last + 1 - (p + 1)])
  <2>1. last + 1 - p \in D /\ (last + 1 - p = 0 <=> p = last + 1)
    OBVIOUS
  <2>2. (last + 1 - p) - 1 = last + 1 - (p + 1)
    OBVIOUS
  <2> QED
    BY <1>8, <1>9, <2>1, <2>2
<1>11. ASSUME NEW p \in 1 .. last + 1
       PROVE  More(last + 1 - p, top[last + 1 - (p + 1)])
                = Digit(s[p]) + Shift(top[last + 1 - (p + 1)])
  <2>1. last + 1 - (last + 1 - p) = p
    OBVIOUS
  <2> QED
    BY <2>1 DEF More
<1> QED
  BY <1>2, <1>10, <1>11

(* What a byte in front of others does to them.                            *)
LEMMA Prepended ==
  ASSUME NEW v \in Seq(Byte), NEW b \in Byte
  PROVE  /\ Len(<<b>> \o v) = 1 + Len(v)
         /\ (<<b>> \o v)[1] = b
         /\ \A i \in 1 .. Len(v) : (<<b>> \o v)[i + 1] = v[i]
OBVIOUS

(* Digits that the bytes of a number bring are those of the number.        *)
LEMMA DigitsOfNumber ==
  ASSUME NEW n \in Nat
  PROVE  LET w == WriteVarint(n)
         IN  /\ Len(w) = VarintSize(n)
             /\ \A i \in 1 .. Len(w) : Continues(w[i]) <=> i < Len(w)
             /\ \A s \in Seq(Byte), p \in Nat \ {0} :
                   /\ p + Len(w) - 1 <= Len(s)
                   /\ \A i \in 1 .. Len(w) : s[p + i - 1] = w[i]
                   => Digits(s, p, p + Len(w) - 1) = n
<1> DEFINE Ends(w) == \A i \in 1 .. Len(w) : Continues(w[i]) <=> i < Len(w)
           At(s, p, w) == /\ p + Len(w) - 1 <= Len(s)
                          /\ \A i \in 1 .. Len(w) : s[p + i - 1] = w[i]
           Holds(k) == /\ Len(WriteVarint(k)) = VarintSize(k)
                       /\ Ends(WriteVarint(k))
                       /\ \A s \in Seq(Byte), p \in Nat \ {0} :
                            At(s, p, WriteVarint(k))
                              => Digits(s, p, p + Len(WriteVarint(k)) - 1) = k
           T == {k \in Nat : Holds(k)}
<1>1. ASSUME NEW k \in Nat, \A m \in 0 .. k - 1 : m \in T
      PROVE  k \in T
  <2> DEFINE w == WriteVarint(k)
  <2>1. w \in Seq(Byte) /\ VarintSize(k) \in Nat \ {0}
    BY BytesOfNumber, SizeOfNumber
  <2>2. CASE k < Radix
    <3>1. w = <<k>> /\ VarintSize(k) = 1
      BY <2>2, BytesOfNumber, SizeOfNumber
    <3>2. ~Continues(k) /\ Digit(k) = k
      BY <2>2, Shifted, RadixType DEF Continues
    <3>3. Len(w) = 1 /\ w[1] = k
      BY <3>1
    <3>4. Ends(w)
      BY <3>2, <3>3
    <3>5. ASSUME NEW s \in Seq(Byte), NEW p \in Nat \ {0}, At(s, p, w)
          PROVE  Digits(s, p, p + Len(w) - 1) = k
      <4>1. p \in 0 .. Len(s) /\ s[p] = k
        BY <3>3, <3>5
      <4>2. Digits(s, p, p) = Digit(k) + Shift(Digits(s, p + 1, p)) /\ Digits(s, p + 1, p) = 0
        BY <4>1, DigitsFrom
      <4>3. Shift(0) = 0 /\ p + 1 - 1 = p /\ k + 0 = k
        BY Unshifted, RadixType
      <4> QED
        BY <3>2, <3>3, <4>2, <4>3
    <3> QED
      BY <3>1, <3>3, <3>4, <3>5
  <2>3. CASE k >= Radix
    <3> DEFINE v == WriteVarint(Rest(k))
               b == Digit(k) + Radix
    <3>1. Rest(k) \in Nat /\ Rest(k) \in T /\ Digit(k) \in 0 .. Radix - 1
      <4>1. Rest(k) \in Nat /\ Rest(k) < k /\ Digit(k) \in 0 .. Radix - 1
        BY <2>3, Shifted
      <4>2. Rest(k) \in 0 .. k - 1
        BY <4>1
      <4> HIDE DEF T
      <4> QED
        BY <1>1, <4>1, <4>2
    <3>2. /\ v \in Seq(Byte) /\ Len(v) = VarintSize(Rest(k)) /\ Ends(v)
          /\ VarintSize(Rest(k)) \in Nat \ {0}
      BY <3>1, BytesOfNumber, SizeOfNumber
    <3>3. w = <<b>> \o v /\ VarintSize(k) = 1 + VarintSize(Rest(k))
      <4>1. ~ (k < Radix)
        BY <2>3, RadixType
      <4>2. VarintSize(k) = 1 + VarintSize(Rest(k))
        BY <4>1, SizeOfNumber, Zenon
      <4>3. w = <<b>> \o v
        BY <4>1, BytesOfNumber, Zenon
      <4> QED
        BY <4>2, <4>3
    <3>4. b \in Nat /\ b \in Byte /\ Continues(b) /\ Digit(b) = Digit(k)
      <4>1. b \in Byte
        BY <3>1, ByteType
      <4>2. b >= Radix /\ Digit(k) \in Nat /\ Digit(k) < Radix
        BY <3>1, RadixType
      <4>3. Digit(b) = Digit(k)
        BY <4>2, Shifted
      <4> QED
        BY <4>1, <4>2, <4>3, ByteType DEF Continues
    <3> HIDE DEF v, b
    <3>5. Len(w) = 1 + Len(v) /\ w[1] = b /\ \A i \in 1 .. Len(v) : w[i + 1] = v[i]
      BY <3>2, <3>3, <3>4, Prepended
    <3> HIDE DEF w
    <3>6. Len(v) \in Nat \ {0} /\ Len(w) = VarintSize(k)
      BY <3>2, <3>3, <3>5
    <3>7. Ends(w)
      <4> SUFFICES ASSUME NEW i \in 1 .. Len(w)
                   PROVE  Continues(w[i]) <=> i < Len(w)
        OBVIOUS
      <4>1. CASE i = 1
        BY <3>4, <3>5, <3>6, <4>1
      <4>2. CASE i # 1
        <5>1. i - 1 \in 1 .. Len(v) /\ w[i] = v[i - 1]
          BY <3>5, <3>6, <4>2
        <5> QED
          BY <3>2, <3>5, <3>6, <5>1
      <4> QED
        BY <4>1, <4>2
    <3>8. ASSUME NEW s \in Seq(Byte), NEW p \in Nat \ {0}, At(s, p, w)
          PROVE  Digits(s, p, p + Len(w) - 1) = k
      <4> DEFINE last == p + Len(w) - 1
      <4>1. last \in 0 .. Len(s) /\ p \in 1 .. last /\ p + 1 \in Nat \ {0}
        BY <3>5, <3>6, <3>8
      <4>2. s[p] = b
        BY <3>5, <3>6, <3>8
      <4>3. At(s, p + 1, v)
        <5>1. (p + 1) + Len(v) - 1 <= Len(s)
          BY <3>5, <3>6, <3>8
        <5>2. ASSUME NEW i \in 1 .. Len(v)
              PROVE  s[(p + 1) + i - 1] = v[i]
          <6>1. i + 1 \in 1 .. Len(w) /\ p + (i + 1) - 1 = (p + 1) + i - 1
            BY <3>5, <3>6
          <6> QED
            BY <3>5, <3>8, <6>1
        <5> QED
          BY <5>1, <5>2
      <4>4. Digits(s, p + 1, (p + 1) + Len(v) - 1) = Rest(k)
        BY <3>1, <4>1, <4>3 DEF v
      <4>5. (p + 1) + Len(v) - 1 = last
        BY <3>5, <3>6
      <4>6. Digits(s, p, last) = Digit(s[p]) + Shift(Digits(s, p + 1, last))
        <5> HIDE DEF last
        <5>1. p \in 1 .. last + 1 /\ p # last + 1
          BY <4>1
        <5> QED
          BY <4>1, <5>1, DigitsFrom
      <4>7. k = Digit(k) + Shift(Rest(k))
        BY Shifted
      <4> QED
        BY <3>4, <4>2, <4>4, <4>5, <4>6, <4>7
    <3> QED
      BY <3>6, <3>7, <3>8 DEF w
  <2> QED
    BY <2>2, <2>3, WordAssumption
<1>2. T = Nat
  <2>1. T \in SUBSET Nat
    OBVIOUS
  <2> HIDE DEF T
  <2> QED
    BY <1>1, <2>1, SetsAreAll
<1> QED
  BY <1>2

(* Different numbers are written differently.                              *)
LEMMA NumbersDiffer ==
  ASSUME NEW m \in Nat, NEW n \in Nat, WriteVarint(m) = WriteVarint(n)
  PROVE  m = n
<1> DEFINE w == WriteVarint(m)
<1>1. w \in Seq(Byte) /\ WriteVarint(n) = w
  <2>1. \A k \in Nat : WriteVarint(k) \in Seq(Byte)
    BY BytesOfNumber
  <2> QED
    BY <2>1
<1> HIDE DEF w
<1>2. /\ Len(w) \in Nat /\ 1 \in Nat \ {0} /\ 1 + Len(w) - 1 <= Len(w)
      /\ \A i \in 1 .. Len(w) : w[1 + i - 1] = w[i]
  BY <1>1
<1>3. Digits(w, 1, 1 + Len(w) - 1) = m
  BY <1>1, <1>2, DigitsOfNumber DEF w
<1>4. Digits(w, 1, 1 + Len(w) - 1) = n
  BY <1>1, <1>2, DigitsOfNumber
<1> QED
  BY <1>3, <1>4

(* No number with k digits takes more than k bytes.                        *)
LEMMA DigitsFit ==
  ASSUME NEW s \in Seq(Byte), NEW last \in 0 .. Len(s), NEW p \in 1 .. last
  PROVE  VarintSize(Digits(s, p, last)) <= last + 1 - p
<1> DEFINE T == {k \in Nat : \A q \in 1 .. last :
                               last - q = k => VarintSize(Digits(s, q, last)) <= k + 1}
<1>1. ASSUME NEW k \in Nat, \A m \in 0 .. k - 1 : m \in T
      PROVE  k \in T
  <2> SUFFICES ASSUME NEW q \in 1 .. last, last - q = k
               PROVE  VarintSize(Digits(s, q, last)) <= k + 1
    OBVIOUS
  <2> DEFINE x == Digits(s, q + 1, last)
             d == Digit(s[q])
  <2>1. Digits(s, q, last) = d + Shift(x) /\ x \in Nat /\ (k = 0 => x = 0)
    <3>1. q \in 1 .. last + 1 /\ q + 1 \in 1 .. last + 1 /\ q # last + 1 /\ (k = 0 => q + 1 = last + 1)
      OBVIOUS
    <3> QED
      BY <3>1, DigitsFrom
  <2>2. d \in 0 .. Radix - 1
    <3>1. s[q] \in Nat
      <4>1. q \in 1 .. Len(s)
        OBVIOUS
      <4> QED
        BY <4>1, ByteType
    <3> QED
      BY <3>1, Shifted
  <2> HIDE DEF x, d
  <2> DEFINE n == d + Shift(x)
  <2>3. n \in Nat /\ Rest(n) = x /\ Digit(n) = d /\ Shift(0) = 0
    BY <2>1, <2>2, Unshifted
  <2>4. CASE n < Radix
    <3>1. VarintSize(n) = 1
      BY <2>3, <2>4, SizeOfNumber
    <3> QED
      BY <2>1, <3>1
  <2>5. CASE ~ (n < Radix)
    <3> HIDE DEF n
    <3>1. VarintSize(n) = 1 + VarintSize(x) /\ VarintSize(x) \in Nat
      <4>1. VarintSize(n) = 1 + VarintSize(Rest(n))
        BY <2>3, <2>5, SizeOfNumber, Zenon
      <4>2. VarintSize(x) \in Nat
        BY <2>1, SizeOfNumber
      <4> QED
        BY <2>3, <4>1, <4>2
    <3>2. k # 0
      <4>1. x = 0 => n = d
        <5>1. d + 0 = d
          BY <2>2, RadixType
        <5> QED
          BY <2>3, <5>1 DEF n
      <4> QED
        BY <2>1, <2>2, <2>5, <4>1, RadixType
    <3>3. k - 1 \in 0 .. k - 1 /\ q + 1 \in 1 .. last /\ last - (q + 1) = k - 1
      BY <3>2
    <3>4. VarintSize(x) <= (k - 1) + 1
      BY <1>1, <3>3 DEF x
    <3> QED
      BY <2>1, <3>1, <3>4 DEF n
  <2> QED
    BY <2>4, <2>5
<1>2. T = Nat
  <2>1. T \in SUBSET Nat
    OBVIOUS
  <2> HIDE DEF T
  <2> QED
    BY <1>1, <2>1, SetsAreAll
<1>3. last - p \in Nat /\ last + 1 - p = (last - p) + 1
  OBVIOUS
<1>4. last - p \in T
  BY <1>2, <1>3
<1> QED
  BY <1>3, <1>4

(* The least element of a set is its minimum.                              *)
LEMMA MinIsLeast ==
  ASSUME NEW S \in SUBSET Nat, NEW m \in S, \A n \in S : m <= n
  PROVE  Min(S) = m
<1>1. \E x \in S : \A y \in S : x <= y
  OBVIOUS
<1> DEFINE x == Min(S)
<1>2. x \in S /\ \A y \in S : x <= y
  BY <1>1, Zenon DEF Min
<1> HIDE DEF x
<1>3. x \in Nat /\ m \in Nat /\ x <= m /\ m <= x
  BY <1>2
<1>4. x = m
  BY <1>3
<1> QED
  BY <1>4 DEF x

LEMMA MinOfPair ==
  ASSUME NEW a \in Nat, NEW b \in Nat
  PROVE  Min({a, b}) = IF a <= b THEN a ELSE b
BY DEF Min

(* A number that starts at p ends at last.                                 *)
EndsAt(s, p, last) ==
  /\ last \in p .. Len(s)
  /\ ~Continues(s[last])
  /\ \A i \in p .. last - 1 : Continues(s[i])

(* A reader finds that end, if it takes as many bytes.                     *)
LEMMA ReadingFindsEnd ==
  ASSUME NEW s \in Seq(Byte), NEW p \in Nat \ {0}, NEW groups \in Nat, NEW word,
         NEW last, EndsAt(s, p, last), last <= p + groups - 1
  PROVE  ReadLoop(s, p, groups, word) = [ptr |-> last + 1, value |-> Digits(s, p, last) % word]
<1> DEFINE m == Min({p + groups - 1, Len(s)})
           I == {i \in p .. m : ~Continues(s[i])}
<1>1. m \in Nat /\ last <= m /\ m <= Len(s)
  <2>1. p + groups - 1 \in Nat /\ Len(s) \in Nat /\ last \in p .. Len(s)
    BY DEF EndsAt
  <2> QED
    BY <2>1, MinOfPair
<1> HIDE DEF m
<1>2. I \in SUBSET Nat /\ last \in I /\ \A i \in I : last <= i
  BY <1>1 DEF EndsAt
<1>3. Min(I) = last /\ last # 0
  <2> HIDE DEF I
  <2>1. Min(I) = last
    BY <1>2, MinIsLeast
  <2> QED
    BY <2>1 DEF EndsAt
<1>4. SelectInSubSeq(s, p, m, LAMBDA b : ~Continues(b)) = last
  BY <1>2, <1>3 DEF SelectInSubSeq
<1> QED
  BY <1>3, <1>4 DEF ReadLoop, m

(* Where there is none among them, it says so.                             *)
LEMMA ReadingFindsNone ==
  ASSUME NEW s \in Seq(Byte), NEW p \in Nat \ {0}, NEW groups \in Nat, NEW word,
         \A last : EndsAt(s, p, last) => last > p + groups - 1
  PROVE  ReadLoop(s, p, groups, word)
           = [ptr |-> IF p + groups - 1 <= Len(s) THEN Null ELSE Beyond(s), value |-> 0]
<1> DEFINE m == Min({p + groups - 1, Len(s)})
           I == {i \in p .. m : ~Continues(s[i])}
<1>1. m \in Nat /\ m <= p + groups - 1 /\ m <= Len(s)
  <2>1. p + groups - 1 \in Nat /\ Len(s) \in Nat
    OBVIOUS
  <2> QED
    BY <2>1, MinOfPair
<1> HIDE DEF m
<1>2. I = {}
  <2> SUFFICES ASSUME I # {}
               PROVE  FALSE
    OBVIOUS
  <2>1. I \in SUBSET Nat
    BY <1>1
  <2>2. PICK last \in I : \A i \in I : last <= i
    <3> HIDE DEF I
    <3> QED
      BY <2>1, SetsHaveLeast
  <2>3. EndsAt(s, p, last)
    BY <1>1, <2>2 DEF EndsAt
  <2> QED
    BY <1>1, <2>2, <2>3
<1>3. SelectInSubSeq(s, p, m, LAMBDA b : ~Continues(b)) = 0
  BY <1>2 DEF SelectInSubSeq
<1> QED
  BY <1>3 DEF ReadLoop, m

(***************************************************************************)
(* The properties.                                                         *)
(***************************************************************************)

(* What is written for n stands at p in s.                                 *)
StandsAt(s, p, n) ==
  /\ p + VarintSize(n) - 1 <= Len(s)
  /\ \A i \in 1 .. VarintSize(n) : s[p + i - 1] = WriteVarint(n)[i]

(* It is read from there, by a reader for numbers of its size.             *)
LEMMA NumberIsRead ==
  ASSUME NEW s \in Seq(Byte), NEW p \in Nat \ {0}, NEW groups \in Nat, NEW word \in Nat,
         NEW n \in 0 .. word - 1, VarintSize(n) <= groups,
         StandsAt(s, p, n)
  PROVE  ReadLoop(s, p, groups, word) = [ptr |-> p + VarintSize(n), value |-> n]
<1> DEFINE w == WriteVarint(n)
           last == p + Len(w) - 1
<1>1. /\ Len(w) = VarintSize(n) /\ VarintSize(n) \in Nat \ {0}
      /\ \A i \in 1 .. Len(w) : Continues(w[i]) <=> i < Len(w)
  <2>1. n \in Nat
    OBVIOUS
  <2> QED
    BY <2>1, DigitsOfNumber, SizeOfNumber
<1>2. p + Len(w) - 1 <= Len(s) /\ \A i \in 1 .. Len(w) : s[p + i - 1] = w[i]
  BY <1>1 DEF StandsAt
<1>3. Digits(s, p, last) = n
  <2>1. n \in Nat
    OBVIOUS
  <2>2. p + Len(WriteVarint(n)) - 1 <= Len(s)
        /\ (\A i \in 1 .. Len(WriteVarint(n)) : s[p + i - 1] = WriteVarint(n)[i])
        => Digits(s, p, p + Len(WriteVarint(n)) - 1) = n
    BY <2>1, DigitsOfNumber, Zenon
  <2> QED
    BY <1>2, <2>2
<1> HIDE DEF w
<1>4. EndsAt(s, p, last)
  <2>1. last \in p .. Len(s)
    BY <1>1, <1>2
  <2>2. ~Continues(s[last])
    <3>1. Len(w) \in 1 .. Len(w)
      BY <1>1
    <3> QED
      BY <1>1, <1>2, <3>1
  <2>3. ASSUME NEW i \in p .. last - 1
        PROVE  Continues(s[i])
    <3>1. i - p + 1 \in 1 .. Len(w) /\ p + (i - p + 1) - 1 = i /\ i - p + 1 < Len(w)
      BY <1>1
    <3> QED
      BY <1>1, <1>2, <3>1
  <2> HIDE DEF last
  <2> QED
    BY <2>1, <2>2, <2>3 DEF EndsAt
<1>5. last <= p + groups - 1 /\ last + 1 = p + VarintSize(n)
  BY <1>1
<1>6. n % word = n
  BY LittleRemains
<1> HIDE DEF last
<1>7. ReadLoop(s, p, groups, word) = [ptr |-> last + 1, value |-> Digits(s, p, last) % word]
  BY <1>4, <1>5, ReadingFindsEnd
<1> QED
  BY <1>3, <1>5, <1>6, <1>7, Zenon

(* Every number of 64 bits is read back from what is written for it,       *)
(* whatever follows, and so is every number of 32 bits by LazyField.       *)
THEOREM EveryNumberIsReadBack ==
  ASSUME NEW s \in Seq(Byte)
  PROVE  /\ \A n \in 0 .. Word - 1 :
              ReadVarint(WriteVarint(n) \o s, 1) = [ptr |-> VarintSize(n) + 1, value |-> n]
         /\ \A n \in 0 .. Word32 - 1 :
              ReadVarint32(WriteVarint32(n) \o s, 1) = [ptr |-> Varint32Size(n) + 1, value |-> n]
<1>1. ASSUME NEW n \in Nat
      PROVE  /\ WriteVarint(n) \o s \in Seq(Byte)
             /\ VarintSize(n) \in Nat \ {0}
             /\ StandsAt(WriteVarint(n) \o s, 1, n)
  <2> DEFINE w == WriteVarint(n)
  <2>1. w \in Seq(Byte) /\ Len(w) = VarintSize(n) /\ VarintSize(n) \in Nat \ {0}
    BY BytesOfNumber, DigitsOfNumber, SizeOfNumber
  <2> HIDE DEF w
  <2>2. w \o s \in Seq(Byte) /\ Len(w \o s) = Len(w) + Len(s)
        /\ \A i \in 1 .. Len(w) : (w \o s)[i] = w[i]
    BY <2>1
  <2>3. \A i \in 1 .. Len(w) : 1 + i - 1 = i
    OBVIOUS
  <2> QED
    BY <2>1, <2>2, <2>3 DEF w, StandsAt
<1>2. Word \in Nat /\ Word32 \in Nat
  BY WordAssumption
<1>3. ASSUME NEW n \in 0 .. Word - 1
      PROVE  ReadVarint(WriteVarint(n) \o s, 1) = [ptr |-> VarintSize(n) + 1, value |-> n]
  <2>1. n \in Nat /\ VarintSize(n) <= Groups /\ Groups \in Nat /\ 1 \in Nat \ {0}
    BY <1>2, SizesFit
  <2>2. ReadLoop(WriteVarint(n) \o s, 1, Groups, Word) = [ptr |-> 1 + VarintSize(n), value |-> n]
    <3> DEFINE t == WriteVarint(n) \o s
    <3>1. t \in Seq(Byte) /\ StandsAt(t, 1, n)
      BY <1>1, <2>1
    <3> HIDE DEF t
    <3>2. ReadLoop(t, 1, Groups, Word) = [ptr |-> 1 + VarintSize(n), value |-> n]
      BY <1>2, <2>1, <3>1, NumberIsRead
    <3> QED
      BY <3>2 DEF t
  <2>3. 1 + VarintSize(n) = VarintSize(n) + 1
    BY <1>1, <2>1
  <2> QED
    BY <2>2, <2>3 DEF ReadVarint
<1>4. ASSUME NEW n \in 0 .. Word32 - 1
      PROVE  ReadVarint32(WriteVarint32(n) \o s, 1) = [ptr |-> Varint32Size(n) + 1, value |-> n]
  <2>1. n \in Nat /\ VarintSize(n) <= Groups32 /\ Groups32 \in Nat /\ 1 \in Nat \ {0}
    BY <1>2, SizesFit
  <2>2. ReadLoop(WriteVarint(n) \o s, 1, Groups32, Word32) = [ptr |-> 1 + VarintSize(n), value |-> n]
    <3> DEFINE t == WriteVarint(n) \o s
    <3>1. t \in Seq(Byte) /\ StandsAt(t, 1, n)
      BY <1>1, <2>1
    <3> HIDE DEF t
    <3>2. ReadLoop(t, 1, Groups32, Word32) = [ptr |-> 1 + VarintSize(n), value |-> n]
      BY <1>2, <2>1, <3>1, NumberIsRead
    <3> QED
      BY <3>2 DEF t
  <2>3. 1 + VarintSize(n) = VarintSize(n) + 1
    BY <1>1, <2>1
  <2>4. n % Word32 = n
    BY <1>2, LittleRemains
  <2> QED
    BY <2>2, <2>3, <2>4 DEF ReadVarint32, WriteVarint32, Varint32Size
<1> QED
  BY <1>3, <1>4

(* What a reader makes of s: it stops at the end of a number that is near  *)
(* enough, or nowhere in s.                                                *)
LEMMA ReadingIsBounded ==
  ASSUME NEW s \in Seq(Byte), NEW p \in Nat \ {0}, NEW groups \in Nat, NEW word
  PROVE  LET r == ReadLoop(s, p, groups, word)
         IN  \/ \E last \in p .. Len(s) :
                  /\ EndsAt(s, p, last) /\ last <= p + groups - 1
                  /\ r = [ptr |-> last + 1, value |-> Digits(s, p, last) % word]
             \/ /\ \A last : EndsAt(s, p, last) => last > p + groups - 1
                /\ r = [ptr |-> IF p + groups - 1 <= Len(s) THEN Null ELSE Beyond(s),
                         value |-> 0]
<1>1. CASE \A last : EndsAt(s, p, last) => last > p + groups - 1
  BY <1>1, ReadingFindsNone
<1>2. ASSUME NEW last, EndsAt(s, p, last), ~ (last > p + groups - 1)
      PROVE  /\ last \in p .. Len(s) /\ last <= p + groups - 1
             /\ ReadLoop(s, p, groups, word)
                  = [ptr |-> last + 1, value |-> Digits(s, p, last) % word]
  <2>1. last \in p .. Len(s) /\ last <= p + groups - 1
    BY <1>2 DEF EndsAt
  <2> QED
    BY <1>2, <2>1, ReadingFindsEnd
<1> QED
  BY <1>1, <1>2

(* A number ends at one place.                                             *)
LEMMA EndIsUnique ==
  ASSUME NEW s \in Seq(Byte), NEW p \in Nat \ {0}, NEW a, NEW b, EndsAt(s, p, a), EndsAt(s, p, b)
  PROVE  a = b
<1>1. a \in p .. Len(s) /\ b \in p .. Len(s)
  BY DEF EndsAt
<1>2. ~ (a < b) /\ ~ (b < a)
  BY <1>1 DEF EndsAt
<1> QED
  BY <1>1, <1>2

(* The low part of the low part of a number is its low part.               *)
LEMMA LowOfLow ==
  ASSUME NEW k \in Nat
  PROVE  /\ k % Word \in 0 .. Word - 1
         /\ (k % Word) % Word32 = k % Word32
<1> DEFINE q == k \div Word
           r == k % Word
           c == Word \div Word32
           d == r \div Word32
           e == r % Word32
<1>1. Word \in Nat \ {0} /\ Word32 \in Nat \ {0} /\ Word % Word32 = 0
  BY WordAssumption
<1>2. q \in Nat /\ r \in 0 .. Word - 1 /\ k = (Word * q) + r
  BY <1>1, Divides
<1>3. c \in Nat /\ Word = (Word32 * c) + 0
  BY <1>1, Divides
<1>4. d \in Nat /\ e \in 0 .. Word32 - 1 /\ r = (Word32 * d) + e
  <2> HIDE DEF r
  <2>1. r \in Nat
    BY <1>1, <1>2
  <2> QED
    BY <1>1, <2>1, Divides
<1> HIDE DEF q, r, c, d, e
<1>5. k = (Word32 * ((c * q) + d)) + e
  <2>1. Word * q = Word32 * (c * q)
    BY <1>1, <1>2, <1>3
  <2>2. c * q \in Nat /\ Word32 * ((c * q) + d) = (Word32 * (c * q)) + (Word32 * d)
    BY <1>1, <1>2, <1>3, <1>4
  <2>3. Word32 * (c * q) \in Nat /\ Word32 * d \in Nat
    BY <1>1, <1>4, <2>2
  <2> QED
    BY <1>1, <1>2, <1>4, <2>1, <2>2, <2>3
<1>6. (c * q) + d \in Nat
  BY <1>2, <1>3, <1>4
<1>7. ((Word32 * ((c * q) + d)) + e) % Word32 = e
  BY <1>1, <1>4, <1>6, DivisionIsUnique
<1>8. k % Word32 = e
  BY <1>5, <1>7
<1> QED
  BY <1>2, <1>8 DEF r, e

(***************************************************************************)
(* Readers return pointers.                                                *)
(***************************************************************************)

(* What a reader returns, and where its pointer can be.                    *)
Readings(word) == [ptr : Nat, value : 0 .. word - 1]
Leads(s, p, q) == q = Null \/ q > p \/ q = Beyond(s)

(* A reader that starts behind the end stays there.                        *)
LEMMA ReadingIsTyped ==
  ASSUME NEW s \in Seq(Byte), NEW p \in Nat \ {0}, NEW groups \in Nat, NEW word \in Nat \ {0}
  PROVE  /\ ReadLoop(s, p, groups, word) \in Readings(word)
         /\ Leads(s, p, ReadLoop(s, p, groups, word).ptr)
         /\ p > Len(s) /\ groups > 0 => ReadLoop(s, p, groups, word).ptr = Beyond(s)
<1> DEFINE r == ReadLoop(s, p, groups, word)
<1>1. CASE \E last \in p .. Len(s) : r = [ptr |-> last + 1, value |-> Digits(s, p, last) % word]
  <2>1. PICK last \in p .. Len(s) : r = [ptr |-> last + 1, value |-> Digits(s, p, last) % word]
    BY <1>1
  <2>2. last \in 0 .. Len(s) /\ p \in 1 .. last + 1 /\ last \in Nat
    OBVIOUS
  <2>3. Digits(s, p, last) \in Nat
    BY <2>2, DigitsFrom
  <2>4. Digits(s, p, last) % word \in 0 .. word - 1
    BY <2>3, Divides
  <2> HIDE DEF r
  <2>5. r.ptr = last + 1 /\ r \in Readings(word)
    BY <2>1, <2>2, <2>4 DEF Readings
  <2> QED
    BY <2>2, <2>5 DEF Leads, r
<1>2. CASE r = [ptr |-> IF p + groups - 1 <= Len(s) THEN Null ELSE Beyond(s), value |-> 0]
  BY <1>2 DEF Readings, Leads, Null, Beyond
<1> QED
  BY <1>1, <1>2, ReadingIsBounded

(* The largest varints have at least a byte.                               *)
LEMMA ReadersAreTyped ==
  ASSUME NEW s \in Seq(Byte), NEW p \in Nat \ {0}
  PROVE  /\ ReadVarint(s, p) \in Readings(Word) /\ Leads(s, p, ReadVarint(s, p).ptr)
         /\ ReadVarint32(s, p) \in Readings(Word32) /\ Leads(s, p, ReadVarint32(s, p).ptr)
         /\ ReadVarint32Inline(s, p) \in Readings(Word)
         /\ Leads(s, p, ReadVarint32Inline(s, p).ptr)
         /\ p > Len(s) => ReadVarint32Inline(s, p) = [ptr |-> Beyond(s), value |-> 0]
<1>1. /\ Word \in Nat \ {0} /\ Word32 \in Nat \ {0}
      /\ Groups \in Nat /\ Groups > 0 /\ Groups32 \in Nat
  <2>1. Word \in Nat \ {0} /\ Word32 \in Nat \ {0} /\ Groups32 \in Nat
    BY WordAssumption
  <2>2. Groups \in Nat \ {0}
    BY <2>1, GroupsAssumption, SizeOfNumber
  <2> QED
    BY <2>1, <2>2
<1>2. /\ ReadVarint(s, p) \in Readings(Word) /\ Leads(s, p, ReadVarint(s, p).ptr)
      /\ p > Len(s) => ReadVarint(s, p).ptr = Beyond(s)
  BY <1>1, ReadingIsTyped DEF ReadVarint
<1>3. ReadVarint32(s, p) \in Readings(Word32) /\ Leads(s, p, ReadVarint32(s, p).ptr)
  BY <1>1, ReadingIsTyped DEF ReadVarint32
<1>4. ReadVarint64Inline(s, p) = ReadVarint(s, p)
  BY DEF ReadVarint64Inline, ReadVarint
<1>5. ReadVarint32Inline(s, p) = ReadVarint(s, p)
        \/ ReadVarint32Inline(s, p) = [ptr |-> Null, value |-> 0]
  BY <1>4 DEF ReadVarint32Inline
<1>6. p > Len(s) => ReadVarint(s, p) = [ptr |-> Beyond(s), value |-> 0]
  <2>1. ASSUME p > Len(s)
        PROVE  /\ \A last : EndsAt(s, p, last) => last > p + Groups - 1
               /\ ~ (p + Groups - 1 <= Len(s))
    BY <1>1, <2>1 DEF EndsAt
  <2> QED
    BY <1>1, <2>1, ReadingFindsNone DEF ReadVarint
<1> QED
  BY <1>1, <1>2, <1>3, <1>4, <1>5, <1>6 DEF ReadVarint32Inline, Readings, Leads, Null

(* Skipping a field that is no group leads on, or nowhere.                 *)
LEMMA ScalarsAreSkipped ==
  ASSUME NEW s \in Seq(Byte), NEW p \in Nat \ {0}, NEW type
  PROVE  SkipScalarInline(s, p, type) \in Nat /\ Leads(s, p, SkipScalarInline(s, p, type))
<1>1. SkipVarintInline(s, p) = ReadVarint(s, p).ptr
  BY DEF SkipVarintInline, ReadVarint
<1>2. /\ SkipVarintInline(s, p) \in Nat /\ Leads(s, p, SkipVarintInline(s, p))
  BY <1>1, ReadersAreTyped DEF Readings
<1>3. /\ SkipFixed64Inline(s, p) \in Nat /\ Leads(s, p, SkipFixed64Inline(s, p))
      /\ SkipFixed32Inline(s, p) \in Nat /\ Leads(s, p, SkipFixed32Inline(s, p))
  BY FixedAssumption DEF SkipFixed64Inline, SkipFixed32Inline, Leads
<1>4. /\ SkipLengthDelimitedInline(s, p) \in Nat
      /\ Leads(s, p, SkipLengthDelimitedInline(s, p))
  <2> DEFINE r == ReadVarint32Inline(s, p)
  <2>1. r \in Readings(Word) /\ Leads(s, p, r.ptr)
    BY ReadersAreTyped
  <2>2. SkipLengthDelimitedInline(s, p) = IF r.ptr = Null THEN Null ELSE r.ptr + r.value
    BY DEF SkipLengthDelimitedInline
  <2>3. Word \in Nat
    BY WordAssumption
  <2> HIDE DEF r
  <2>4. r.ptr \in Nat /\ r.value \in Nat
    BY <2>1, <2>3 DEF Readings
  <2>5. CASE r.ptr = Null
    BY <2>2, <2>5 DEF Leads, Null
  <2>6. CASE r.ptr # Null /\ r.ptr > p
    BY <2>2, <2>4, <2>6 DEF Leads
  <2>7. CASE r.ptr # Null /\ ~ (r.ptr > p)
    <3>1. r.ptr = Beyond(s)
      BY <2>1, <2>7 DEF Leads
    <3>2. p > Len(s)
      BY <2>4, <2>7, <3>1 DEF Beyond
    <3>3. SkipLengthDelimitedInline(s, p) = Beyond(s)
      <4>1. r = [ptr |-> Beyond(s), value |-> 0]
        BY <3>2, ReadersAreTyped DEF r
      <4> QED
        BY <2>2, <2>4, <2>7, <4>1
    <3> QED
      BY <2>4, <3>1, <3>3 DEF Leads
  <2> QED
    BY <2>5, <2>6, <2>7
<1> QED
  BY <1>2, <1>3, <1>4 DEF SkipScalarInline, Leads, Null

(***************************************************************************)
(* Walks over groups.  Both versions of the skipper walk over the fields of*)
(* a group, but they read tags, and skip what is no group, differently:    *)
(* T[p] is the tag that one reads at p, with Null or Beyond where it finds *)
(* none, and S[p][type] is where it gets to behind a field at p.           *)
(***************************************************************************)

Reads(s, T, S) ==
  /\ T \in [Nat \ {0} -> [ptr : Nat, value : Nat]]
  /\ S \in [Nat \ {0} -> [Nat -> Nat]]
  /\ \A p \in Nat \ {0} :
       /\ Leads(s, p, T[p].ptr)
       /\ p > Len(s) => T[p].ptr \in {Null, Beyond(s)}
       /\ \A type \in Nat : Leads(s, p, S[p][type])

(* One step of a walk at p, where skip is what the calls behind p return;  *)
(* and that it has been made.                                              *)
Onward(T, S, skip, p) ==
  IF WireType(T[p].value) = START_GROUP
  THEN skip[T[p].ptr][Number(T[p].value)]
  ELSE S[T[p].ptr][WireType(T[p].value)]

GroupStep(s, T, S, skip, p, n) ==
  IF p = Null THEN Null
  ELSE IF T[p].ptr = Beyond(s) THEN Beyond(s)
  ELSE IF T[p].ptr = Null \/ T[p].value = 0 THEN Null
  ELSE IF WireType(T[p].value) = END_GROUP
       THEN IF Number(T[p].value) = n THEN T[p].ptr ELSE Null
  ELSE skip[Onward(T, S, skip, p)][n]

Skips(s, T, S, skip, p) ==
  \A n \in Nat : skip[p][n] = GroupStep(s, T, S, skip, p, n) /\ Leads(s, p, skip[p][n])

(* The tag at p is a number, and there is none behind the end.             *)
LEMMA TagsAreTyped ==
  ASSUME NEW s \in Seq(Byte), NEW T, NEW S, Reads(s, T, S), NEW p \in Nat \ {0}
  PROVE  /\ T[p].ptr \in Nat /\ T[p].value \in Nat
         /\ Number(T[p].value) \in Nat /\ WireType(T[p].value) \in Nat
         /\ Leads(s, p, T[p].ptr)
         /\ p > Len(s) => T[p].ptr \in {Null, Beyond(s)}
<1>1. T[p] \in [ptr : Nat, value : Nat]
  BY DEF Reads
<1>2. T[p].ptr \in Nat /\ T[p].value \in Nat
  BY <1>1
<1>3. Number(T[p].value) \in Nat /\ WireType(T[p].value) \in Nat
  BY <1>2 DEF Number, WireType
<1> QED
  BY <1>2, <1>3 DEF Reads

(* What follows a tag in a group begins behind the tag.                    *)
LEMMA OnwardIsBehind ==
  ASSUME NEW s \in Seq(Byte), NEW T, NEW S, Reads(s, T, S), NEW skip \in [Nat -> [Nat -> Nat]],
         NEW q \in Nat, \A i \in Nat : i > q => Skips(s, T, S, skip, i),
         NEW p \in Nat \ {0}, p >= q,
         T[p].ptr \notin {Null, Beyond(s)}
  PROVE  /\ T[p].ptr > p
         /\ Onward(T, S, skip, p) \in Nat
         /\ Onward(T, S, skip, p) = Null \/ Onward(T, S, skip, p) > p
<1> DEFINE t == T[p].ptr
           n == Number(T[p].value)
           i == Onward(T, S, skip, p)
<1>1. t \in Nat /\ n \in Nat /\ t > p /\ p <= Len(s)
  <2>1. t \in Nat /\ n \in Nat /\ Leads(s, p, t) /\ (p > Len(s) => t \in {Null, Beyond(s)})
    BY TagsAreTyped
  <2>2. t # Null /\ t # Beyond(s)
    OBVIOUS
  <2> HIDE DEF t, n
  <2> QED
    BY <2>1, <2>2 DEF Leads
<1>2. t > q /\ t \in Nat \ {0}
  <2> HIDE DEF t, n
  <2>1. p \in Nat /\ p # 0
    OBVIOUS
  <2>2. t > q
    BY <1>1, <2>1
  <2>3. t # 0
    BY <1>1, <2>1
  <2> QED
    BY <1>1, <2>2, <2>3
<1>3. i \in Nat /\ Leads(s, t, i)
  <2>1. skip[t][n] \in Nat /\ Leads(s, t, skip[t][n])
    <3> HIDE DEF t, n
    <3>1. Skips(s, T, S, skip, t)
      BY <1>1, <1>2
    <3> QED
      BY <1>1, <3>1 DEF Skips
  <2>2. \A type \in Nat : S[t][type] \in Nat /\ Leads(s, t, S[t][type])
    <3> HIDE DEF t
    <3>1. S[t] \in [Nat -> Nat]
      BY <1>2 DEF Reads
    <3> QED
      BY <1>2, <3>1 DEF Reads
  <2>3. WireType(T[p].value) \in Nat
    BY TagsAreTyped
  <2> QED
    BY <2>1, <2>2, <2>3 DEF Onward
<1> HIDE DEF t, n, i
<1>4. i = Null \/ i > p
  <2>1. Len(s) \in Nat
    OBVIOUS
  <2>2. CASE i > t
    BY <1>1, <1>3, <2>2
  <2>3. CASE i = Len(s) + 2
    BY <1>1, <2>1, <2>3
  <2> QED
    BY <1>3, <2>2, <2>3 DEF Leads, Beyond
<1> QED
  BY <1>1, <1>3, <1>4 DEF t, i

(* Positions only grow.                                                    *)
LEMMA Further ==
  ASSUME NEW a \in Nat, NEW b \in Nat, NEW c \in Nat, b >= a, c > b
  PROVE  c > a
OBVIOUS

(* A step with what is known is a pointer.                                 *)
LEMMA StepIsTyped ==
  ASSUME NEW s \in Seq(Byte), NEW T, NEW S, Reads(s, T, S), NEW skip \in [Nat -> [Nat -> Nat]],
         NEW q \in Nat, \A i \in Nat : i = Null \/ i > q => Skips(s, T, S, skip, i),
         NEW p \in Nat, p >= q, NEW n \in Nat
  PROVE  GroupStep(s, T, S, skip, p, n) \in Nat /\ Leads(s, p, GroupStep(s, T, S, skip, p, n))
<1> DEFINE t == T[p]
           i == Onward(T, S, skip, p)
<1>1. Null \in Nat /\ Beyond(s) \in Nat /\ Leads(s, p, Null) /\ Leads(s, p, Beyond(s))
  BY DEF Null, Beyond, Leads
<1>2. CASE p = Null \/ t.ptr \in {Null, Beyond(s)}
  BY <1>1, <1>2 DEF GroupStep
<1>3. CASE ~ (p = Null \/ t.ptr \in {Null, Beyond(s)})
  <2>1. p \in Nat \ {0}
    BY <1>3 DEF Null
  <2>2. /\ t.ptr > p /\ i \in Nat
        /\ i = Null \/ i > p
    BY <1>3, <2>1, OnwardIsBehind
  <2>3. t.ptr \in Nat /\ Leads(s, p, t.ptr)
    BY <2>1, TagsAreTyped
  <2> HIDE DEF i
  <2>4. skip[i][n] \in Nat /\ Leads(s, p, skip[i][n])
    <3>1. skip[i][n] \in Nat
      BY <2>2
    <3>2. CASE i = Null
      <4>1. skip[Null][n] = GroupStep(s, T, S, skip, Null, n)
        BY <1>1 DEF Skips
      <4>2. skip[i][n] = Null
        BY <3>2, <4>1 DEF GroupStep
      <4> QED
        BY <1>1, <4>2
    <3>3. CASE i > p
      <4>1. i > q
        BY <2>2, <3>3, Further
      <4>2. Leads(s, i, skip[i][n])
        BY <2>2, <4>1 DEF Skips
      <4>3. skip[i][n] > i => skip[i][n] > p
        <5>1. i >= p
          BY <2>2, <3>3
        <5> QED
          BY <2>2, <3>1, <5>1, Further
      <4> QED
        BY <3>1, <4>2, <4>3 DEF Leads
    <3> QED
      BY <2>2, <3>2, <3>3
  <2>5. GroupStep(s, T, S, skip, p, n) \in {Null, Beyond(s), t.ptr, skip[i][n]}
    BY DEF GroupStep, i
  <2> QED
    BY <1>1, <2>3, <2>4, <2>5
<1> QED
  BY <1>2, <1>3

(* A step looks behind p only.                                             *)
Calls == [Nat -> [Nat -> Nat]]
Agree(s, T, S, f, g, q) == \A i \in Nat : i = Null \/ i > q => Skips(s, T, S, f, i) /\ g[i] = f[i]

(* So two functions that agree behind q take the same step there.          *)
LEMMA StepLooksBehind ==
  ASSUME NEW s \in Seq(Byte), NEW T, NEW S, Reads(s, T, S), NEW f \in Calls, NEW g,
         NEW q \in Nat, Agree(s, T, S, f, g, q),
         NEW p \in Nat, p = Null \/ p >= q
  PROVE  \A n \in Nat : GroupStep(s, T, S, g, p, n) = GroupStep(s, T, S, f, p, n)
<1> SUFFICES ASSUME NEW n \in Nat
             PROVE  GroupStep(s, T, S, g, p, n) = GroupStep(s, T, S, f, p, n)
  OBVIOUS
<1> USE DEF Agree, Calls
<1> DEFINE t == T[p]
           i == Onward(T, S, f, p)
<1>1. CASE p = Null \/ t.ptr \in {Null, Beyond(s)}
  BY <1>1 DEF GroupStep
<1>2. CASE ~ (p = Null \/ t.ptr \in {Null, Beyond(s)})
  <2>1. p \in Nat \ {0} /\ p >= q
    BY <1>2 DEF Null
  <2>2. /\ t.ptr > p /\ i \in Nat
        /\ i = Null \/ i > p
    BY <1>2, <2>1, OnwardIsBehind
  <2>3. t.ptr \in Nat
    BY <2>1, TagsAreTyped
  <2>4. t.ptr > q /\ (i > p => i > q)
    <3> HIDE DEF i, t
    <3>1. p \in Nat
      OBVIOUS
    <3>2. t.ptr > q
      BY <2>1, <2>2, <2>3, <3>1, Further
    <3>3. i > p => i > q
      BY <2>1, <2>2, <3>1, Further
    <3> QED
      BY <3>2, <3>3
  <2>5. g[t.ptr] = f[t.ptr] /\ g[i] = f[i]
    <3> HIDE DEF i, t
    <3> QED
      BY <2>2, <2>3, <2>4
  <2>6. Onward(T, S, g, p) = i
    BY <2>5 DEF Onward
  <2> QED
    BY <2>5, <2>6 DEF GroupStep
<1> QED
  BY <1>1, <1>2

(* The calls from p on return what the code says.                          *)
Known(s, T, S, f, q) == \A p \in Nat : p = Null \/ p > q => Skips(s, T, S, f, p)

(* From what the calls behind q return follows what those at q do,         *)
LEMMA OneMoreIsKnown ==
  ASSUME NEW s \in Seq(Byte), NEW T, NEW S, Reads(s, T, S), NEW q \in Nat \ {0},
         NEW f \in Calls, Known(s, T, S, f, q)
  PROVE  \E g \in Calls : Known(s, T, S, g, q - 1)
<1> DEFINE g == [f EXCEPT ![q] = [n \in Nat |-> GroupStep(s, T, S, f, q, n)]]
<1>1. \A p \in Nat : p = Null \/ p > q => Skips(s, T, S, f, p)
  BY DEF Known
<1>2. \A n \in Nat : GroupStep(s, T, S, f, q, n) \in Nat /\ Leads(s, q, GroupStep(s, T, S, f, q, n))
  <2>1. q \in Nat /\ q >= q
    OBVIOUS
  <2> QED
    BY <1>1, <2>1, StepIsTyped DEF Calls
<1>3. g \in Calls
  BY <1>2 DEF Calls
<1>4. \A p \in Nat : p # q => g[p] = f[p]
  BY DEF Calls
<1>5. \A n \in Nat : g[q][n] = GroupStep(s, T, S, f, q, n)
  BY DEF Calls
<1>6. q # Null /\ ~ (q > q)
  BY DEF Null
<1> HIDE DEF g
<1>7. ASSUME NEW p \in Nat, p = Null \/ p > q - 1
      PROVE  Skips(s, T, S, g, p)
  <2>1. p = Null \/ p >= q
    BY <1>7
  <2>2. Agree(s, T, S, f, g, q)
    BY <1>1, <1>4, <1>6 DEF Agree
  <2>3. \A n \in Nat : GroupStep(s, T, S, g, p, n) = GroupStep(s, T, S, f, p, n)
    <3>1. q \in Nat
      OBVIOUS
    <3> QED
      BY <2>1, <2>2, <3>1, StepLooksBehind
  <2>4. CASE p = q
    BY <1>2, <1>5, <2>3, <2>4 DEF Skips
  <2>5. CASE p # q
    <3>1. p = Null \/ p > q
      <4>1. p \in Nat /\ q \in Nat
        OBVIOUS
      <4> QED
        BY <2>1, <2>5, <4>1
    <3>2. Skips(s, T, S, f, p) /\ g[p] = f[p]
      BY <1>1, <1>4, <2>5, <3>1
    <3> QED
      BY <2>3, <3>2 DEF Skips
  <2> QED
    BY <2>4, <2>5
<1> QED
  BY <1>3, <1>7 DEF Known

(* and so, from the end of the buffer backwards, what all of them do.      *)
LEMMA EveryStepIsKnown ==
  ASSUME NEW s \in Seq(Byte), NEW T, NEW S, Reads(s, T, S)
  PROVE  \E f \in Calls : Known(s, T, S, f, 0)
<1> DEFINE F == Calls
           L == Len(s)
           D == {k \in Nat : k <= L => \E f \in F : Known(s, T, S, f, L - k)}
<1>1. L \in Nat
  OBVIOUS
<1>2. \E f \in F : Known(s, T, S, f, L)
  <2> DEFINE f == [p \in Nat |-> [n \in Nat |-> IF p > L THEN T[p].ptr ELSE Null]]
  <2>1. f \in F
    <3>1. \A p \in Nat : p > L => p \in Nat \ {0}
      BY <1>1
    <3>2. \A p \in Nat : p > L => T[p].ptr \in Nat
      BY <3>1, TagsAreTyped
    <3> QED
      BY <3>2 DEF Null, Calls
  <2>2. ASSUME NEW p \in Nat, p = Null \/ p > L
        PROVE  Skips(s, T, S, f, p)
    <3>1. CASE p = Null
      <4>1. p \in Nat /\ ~ (p > L)
        BY <1>1, <3>1 DEF Null
      <4>2. \A n \in Nat : f[p][n] = Null
        BY <4>1
      <4> QED
        BY <3>1, <4>2 DEF Skips, GroupStep, Leads
    <3>2. CASE p # Null
      <4>1. p \in Nat \ {0} /\ p > Len(s)
        BY <2>2, <3>2 DEF Null
      <4>2. T[p].ptr \in {Null, Beyond(s)}
        BY <4>1, TagsAreTyped
      <4>3. \A n \in Nat : f[p][n] = T[p].ptr
        BY <4>1
      <4> QED
        BY <3>2, <4>2, <4>3 DEF Skips, GroupStep, Leads
    <3> QED
      BY <3>1, <3>2
  <2> HIDE DEF f, F, L
  <2> QED
    BY <2>1, <2>2 DEF Known
<1> HIDE DEF L
<1>3. D = Nat
  <2>1. ASSUME NEW n \in Nat, \A m \in 0 .. n - 1 : m \in D
        PROVE  n \in D
    <3>1. CASE n = 0
      <4>1. L - n = L
        BY <1>1, <3>1
      <4> QED
        BY <1>2, <4>1
    <3>2. CASE n # 0 /\ n <= L
      <4>1. n - 1 \in 0 .. n - 1 /\ n - 1 <= L
        BY <1>1, <3>2
      <4>2. n - 1 \in D
        BY <2>1, <4>1
      <4>3. PICK f \in F : Known(s, T, S, f, L - (n - 1))
        BY <4>1, <4>2
      <4>4. L - (n - 1) \in Nat \ {0} /\ (L - (n - 1)) - 1 = L - n
        BY <1>1, <3>2
      <4>5. \E g \in F : Known(s, T, S, g, (L - (n - 1)) - 1)
        BY <4>3, <4>4, OneMoreIsKnown
      <4> QED
        BY <4>4, <4>5
    <3> QED
      BY <3>1, <3>2
  <2>2. D \in SUBSET Nat
    OBVIOUS
  <2> HIDE DEF D
  <2> QED
    BY <2>1, <2>2, SetsAreAll
<1>4. L \in D
  BY <1>1, <1>3
<1>5. L <= L /\ L - L = 0
  BY <1>1
<1> QED
  BY <1>4, <1>5

(* Functions that take these steps are equal.                              *)
Takes(s, T, S, h) == \A p \in Nat : h[p] = [n \in Nat |-> GroupStep(s, T, S, h, p, n)]

(* There is no other function than the one found so.                       *)
LEMMA StepsDecide ==
  ASSUME NEW s \in Seq(Byte), NEW T, NEW S, Reads(s, T, S),
         NEW f \in Calls, Known(s, T, S, f, 0),
         NEW h, Takes(s, T, S, h)
  PROVE  \A p \in Nat : h[p] = f[p]
<1>0. \A p \in Nat : Skips(s, T, S, f, p)
  BY DEF Known, Null
<1> USE <1>0 DEF Takes
<1> DEFINE L == Len(s)
           U == {k \in Nat : \A p \in Nat : p > L - k => h[p] = f[p]}
<1>1. L \in Nat
  OBVIOUS
<1>2. ASSUME NEW p \in Nat, \A n \in Nat : GroupStep(s, T, S, h, p, n) = GroupStep(s, T, S, f, p, n)
      PROVE  h[p] = f[p]
  <2>1. \A n \in Nat : f[p][n] = GroupStep(s, T, S, f, p, n)
    BY DEF Skips
  <2>2. f[p] = [n \in Nat |-> GroupStep(s, T, S, f, p, n)]
    BY <2>1 DEF Calls
  <2>3. h[p] = [n \in Nat |-> GroupStep(s, T, S, h, p, n)]
    OBVIOUS
  <2> QED
    BY <1>2, <2>2, <2>3
<1>3. h[Null] = f[Null]
  <2>1. Null \in Nat
    BY DEF Null
  <2>2. \A n \in Nat : GroupStep(s, T, S, h, Null, n) = GroupStep(s, T, S, f, Null, n)
    BY DEF GroupStep
  <2> QED
    BY <1>2, <2>1, <2>2
<1>4. ASSUME NEW p \in Nat, p > L
      PROVE  h[p] = f[p]
  <2>1. p \in Nat \ {0} /\ p > Len(s)
    BY <1>1, <1>4
  <2>2. T[p].ptr \in {Null, Beyond(s)}
    BY <2>1, TagsAreTyped
  <2>3. \A n \in Nat : GroupStep(s, T, S, h, p, n) = GroupStep(s, T, S, f, p, n)
    BY <2>2 DEF GroupStep
  <2> QED
    BY <1>2, <2>3
<1>5. ASSUME NEW q \in Nat, \A p \in Nat : p > q => h[p] = f[p]
      PROVE  h[q] = f[q]
  <2>1. Agree(s, T, S, f, h, q)
    BY <1>3, <1>5 DEF Agree
  <2>2. q >= q
    OBVIOUS
  <2>3. \A n \in Nat : GroupStep(s, T, S, h, q, n) = GroupStep(s, T, S, f, q, n)
    BY <2>1, <2>2, StepLooksBehind
  <2> QED
    BY <1>2, <2>3
<1> HIDE DEF L
<1>6. U = Nat
  <2>1. ASSUME NEW k \in Nat, \A m \in 0 .. k - 1 : m \in U
        PROVE  k \in U
    <3>1. CASE k = 0
      BY <1>1, <1>4, <3>1
    <3>2. CASE k # 0
      <4> SUFFICES ASSUME NEW p \in Nat, p > L - k
                   PROVE  h[p] = f[p]
        OBVIOUS
      <4>1. k - 1 \in U
        BY <2>1, <3>2
      <4>2. \A i \in Nat : i > p => i > L - (k - 1)
        BY <1>1, <3>2
      <4>3. \A i \in Nat : i > p => h[i] = f[i]
        BY <4>1, <4>2
      <4> QED
        BY <1>5, <4>3
    <3> QED
      BY <3>1, <3>2
  <2>2. U \in SUBSET Nat
    OBVIOUS
  <2> HIDE DEF U
  <2> QED
    BY <2>1, <2>2, SetsAreAll
<1>7. ASSUME NEW p \in Nat
      PROVE  h[p] = f[p]
  <2>1. L + 1 \in U
    <3> HIDE DEF U
    <3> QED
      BY <1>1, <1>6
  <2>2. p > L - (L + 1)
    BY <1>1
  <2> QED
    BY <2>1, <2>2
<1> QED
  BY <1>7

(***************************************************************************)
(* What the two versions of the skipper read, as functions.                *)
(***************************************************************************)

InlineTags(s)    == [p \in Nat \ {0} |-> ReadVarint32Inline(s, p)]
InlineScalars(s) == [p \in Nat \ {0} |-> [type \in Nat |-> SkipScalarInline(s, p, type)]]

(* A tag that is zero ends the walk over a stream.                         *)
StreamTag(s, p) ==
  IF StreamReadTag(s, p).value = 0 THEN [ptr |-> Null, value |-> 0] ELSE StreamReadTag(s, p)
StreamTags(s)    == [p \in Nat \ {0} |-> StreamTag(s, p)]
StreamScalars(s) == [p \in Nat \ {0} |-> [type \in Nat |-> SkipScalar(s, p, type)]]

LEMMA InlineReads ==
  ASSUME NEW s \in Seq(Byte)
  PROVE  Reads(s, InlineTags(s), InlineScalars(s))
<1> DEFINE T == InlineTags(s)
           S == InlineScalars(s)
<1>1. ASSUME NEW p \in Nat \ {0}
      PROVE  /\ ReadVarint32Inline(s, p) \in [ptr : Nat, value : Nat]
             /\ Leads(s, p, ReadVarint32Inline(s, p).ptr)
             /\ p > Len(s) => ReadVarint32Inline(s, p).ptr \in {Null, Beyond(s)}
  <2>1. /\ ReadVarint32Inline(s, p) \in Readings(Word) /\ Leads(s, p, ReadVarint32Inline(s, p).ptr)
        /\ p > Len(s) => ReadVarint32Inline(s, p) = [ptr |-> Beyond(s), value |-> 0]
    BY ReadersAreTyped
  <2>2. Word \in Nat
    BY WordAssumption
  <2>3. Readings(Word) \subseteq [ptr : Nat, value : Nat]
    BY <2>2 DEF Readings
  <2>4. p > Len(s) => ReadVarint32Inline(s, p).ptr = Beyond(s)
    BY <2>1
  <2> QED
    BY <2>1, <2>3, <2>4
<1>2. T \in [Nat \ {0} -> [ptr : Nat, value : Nat]]
  BY <1>1 DEF InlineTags
<1>3. S \in [Nat \ {0} -> [Nat -> Nat]]
  BY ScalarsAreSkipped DEF InlineScalars
<1>4. ASSUME NEW p \in Nat \ {0}
      PROVE  /\ T[p] = ReadVarint32Inline(s, p)
             /\ \A type \in Nat : S[p][type] = SkipScalarInline(s, p, type)
  BY DEF InlineTags, InlineScalars
<1>5. Reads(s, T, S)
  <2>1. ASSUME NEW p \in Nat \ {0}
        PROVE  /\ Leads(s, p, T[p].ptr)
               /\ p > Len(s) => T[p].ptr \in {Null, Beyond(s)}
               /\ \A type \in Nat : Leads(s, p, S[p][type])
    <3>1. \A type \in Nat : Leads(s, p, S[p][type])
      BY <1>4, ScalarsAreSkipped
    <3> QED
      BY <1>1, <1>4, <3>1
  <2> HIDE DEF T, S
  <2> QED
    BY <1>2, <1>3, <2>1 DEF Reads
<1> QED
  BY <1>5

(* A place in a stream is inside, or there is none.                        *)
LEMMA StreamIsInside ==
  ASSUME NEW s \in Seq(Byte), NEW p \in Nat
  PROVE  /\ StreamAt(s, p) \in Nat
         /\ StreamAt(s, p) # Null => StreamAt(s, p) = p /\ Inside(s, p)
         /\ Inside(s, p) => StreamAt(s, p) = p /\ p # Null
         /\ ~Inside(s, p) => StreamAt(s, p) = Null
BY DEF StreamAt, Null, Inside

(* Reading a number from a stream leads on, or nowhere.                    *)
LEMMA StreamVarintIsTyped ==
  ASSUME NEW s \in Seq(Byte), NEW p \in Nat \ {0}, NEW word \in Nat \ {0}
  PROVE  LET r == ReadLoop(s, p, Groups, word)
             v == StreamVarint(s, p, word)
         IN  /\ r \in Readings(word) /\ r.ptr \in Nat /\ r.value \in Nat
             /\ v.ptr = StreamAt(s, r.ptr) /\ v.value = r.value
             /\ v.ptr \in Nat
             /\ v.ptr # Null => v.ptr > p
             /\ p > Len(s) => v.ptr = Null
<1> DEFINE r == ReadLoop(s, p, Groups, word)
           v == StreamVarint(s, p, word)
<1>1. Groups \in Nat /\ Groups > 0
  BY SizesFit
<1>2. r \in Readings(word) /\ Leads(s, p, r.ptr) /\ (p > Len(s) => r.ptr = Beyond(s))
  BY <1>1, ReadingIsTyped
<1>3. v = [r EXCEPT !.ptr = StreamAt(s, r.ptr)]
  BY DEF StreamVarint
<1> HIDE DEF r, v
<1>4. r.ptr \in Nat /\ r.value \in Nat
  BY <1>2 DEF Readings
<1>5. v.ptr = StreamAt(s, r.ptr) /\ v.value = r.value
  BY <1>2, <1>3 DEF Readings
<1>6. ~Inside(s, Beyond(s))
  BY DEF Inside, Beyond
<1>7. /\ v.ptr \in Nat
      /\ v.ptr # Null => v.ptr > p
      /\ p > Len(s) => v.ptr = Null
  BY <1>2, <1>4, <1>5, <1>6, StreamIsInside DEF Leads
<1> QED
  BY <1>2, <1>4, <1>5, <1>7 DEF r, v

(* So does skipping a field that is no group.                              *)
LEMMA StreamScalarsAreSkipped ==
  ASSUME NEW s \in Seq(Byte), NEW p \in Nat \ {0}, NEW type
  PROVE  SkipScalar(s, p, type) \in Nat /\ (SkipScalar(s, p, type) # Null => SkipScalar(s, p, type) > p)
<1>1. Word \in Nat \ {0} /\ Word32 \in Nat \ {0}
  BY WordAssumption
<1>2. SkipVarint(s, p) \in Nat /\ (SkipVarint(s, p) # Null => SkipVarint(s, p) > p)
  BY <1>1, StreamVarintIsTyped DEF SkipVarint
<1>3. /\ p + Fixed64Size \in Nat /\ p + Fixed64Size > p
      /\ p + Fixed32Size \in Nat /\ p + Fixed32Size > p
  BY FixedAssumption
<1>4. /\ SkipFixed64(s, p) \in Nat /\ (SkipFixed64(s, p) # Null => SkipFixed64(s, p) > p)
      /\ SkipFixed32(s, p) \in Nat /\ (SkipFixed32(s, p) # Null => SkipFixed32(s, p) > p)
  BY <1>3, StreamIsInside DEF SkipFixed64, SkipFixed32
<1>5. /\ SkipLengthDelimited(s, p) \in Nat
      /\ SkipLengthDelimited(s, p) # Null => SkipLengthDelimited(s, p) > p
  <2> DEFINE v == StreamVarint(s, p, Word32)
  <2>1. v.ptr \in Nat /\ v.value \in Nat /\ (v.ptr # Null => v.ptr > p)
    BY <1>1, StreamVarintIsTyped
  <2>2. SkipLengthDelimited(s, p) = StreamSkip(s, v)
    BY DEF SkipLengthDelimited
  <2> HIDE DEF v
  <2>3. v.ptr + v.value \in Nat /\ (v.ptr # Null => v.ptr + v.value > p)
    BY <2>1
  <2>4. StreamSkip(s, v) \in {Null, StreamAt(s, v.ptr + v.value)}
        /\ (StreamSkip(s, v) # Null => v.ptr # Null)
    BY DEF StreamSkip
  <2> QED
    BY <2>2, <2>3, <2>4, StreamIsInside DEF Null
<1> QED
  BY <1>2, <1>4, <1>5 DEF SkipScalar, Null

LEMMA StreamReads ==
  ASSUME NEW s \in Seq(Byte)
  PROVE  Reads(s, StreamTags(s), StreamScalars(s))
<1> DEFINE T == StreamTags(s)
           S == StreamScalars(s)
<1>1. ASSUME NEW p \in Nat \ {0}
      PROVE  /\ StreamTag(s, p) \in [ptr : Nat, value : Nat]
             /\ Leads(s, p, StreamTag(s, p).ptr)
             /\ p > Len(s) => StreamTag(s, p).ptr \in {Null, Beyond(s)}
  <2> DEFINE v == StreamVarint(s, p, Word32)
             t == StreamTag(s, p)
  <2>1. Word32 \in Nat \ {0}
    BY WordAssumption
  <2>2. v.ptr \in Nat /\ v.value \in Nat /\ (v.ptr # Null => v.ptr > p) /\ (p > Len(s) => v.ptr = Null)
    BY <2>1, StreamVarintIsTyped
  <2>3. v = [ptr |-> v.ptr, value |-> v.value]
    <3> DEFINE r == ReadLoop(s, p, Groups, Word32)
    <3>1. r \in Readings(Word32)
      BY <2>1, StreamVarintIsTyped
    <3>2. v = [r EXCEPT !.ptr = StreamAt(s, r.ptr)]
      BY DEF StreamVarint
    <3> HIDE DEF r, v
    <3> QED
      BY <3>1, <3>2 DEF Readings
  <2>4. t = [ptr |-> Null, value |-> 0] \/ (t = v /\ v.ptr # Null)
    BY DEF StreamTag, StreamReadTag
  <2> HIDE DEF v, t
  <2>5. v \in [ptr : Nat, value : Nat]
    BY <2>2, <2>3
  <2>6. CASE t = [ptr |-> Null, value |-> 0]
    BY <2>6 DEF Leads, Null, t
  <2>7. CASE t = v /\ v.ptr # Null
    BY <2>2, <2>5, <2>7 DEF Leads, t
  <2> QED
    BY <2>4, <2>6, <2>7
<1>2. T \in [Nat \ {0} -> [ptr : Nat, value : Nat]]
  BY <1>1 DEF StreamTags
<1>3. S \in [Nat \ {0} -> [Nat -> Nat]]
  BY StreamScalarsAreSkipped DEF StreamScalars
<1>4. ASSUME NEW p \in Nat \ {0}
      PROVE  /\ T[p] = StreamTag(s, p)
             /\ \A type \in Nat : S[p][type] = SkipScalar(s, p, type)
  BY DEF StreamTags, StreamScalars
<1>5. Reads(s, T, S)
  <2>1. ASSUME NEW p \in Nat \ {0}
        PROVE  /\ Leads(s, p, T[p].ptr)
               /\ p > Len(s) => T[p].ptr \in {Null, Beyond(s)}
               /\ \A type \in Nat : Leads(s, p, S[p][type])
    <3>1. \A type \in Nat : Leads(s, p, S[p][type])
      BY <1>4, StreamScalarsAreSkipped DEF Leads
    <3> QED
      BY <1>1, <1>4, <3>1
  <2> HIDE DEF T, S
  <2> QED
    BY <1>2, <1>3, <2>1 DEF Reads
<1> QED
  BY <1>5

(* A function that takes the steps of a walk is what the walk does.        *)
LEMMA WalksExist ==
  ASSUME NEW s \in Seq(Byte), NEW T, NEW S, Reads(s, T, S)
  PROVE  \E f \in Calls : Known(s, T, S, f, 0) /\ Takes(s, T, S, f)
<1>1. PICK f \in Calls : Known(s, T, S, f, 0)
  BY EveryStepIsKnown
<1>2. \A p \in Nat : Skips(s, T, S, f, p)
  BY <1>1 DEF Known, Null
<1>3. Takes(s, T, S, f)
  <2>1. \A p \in Nat, n \in Nat : f[p][n] = GroupStep(s, T, S, f, p, n)
    BY <1>2 DEF Skips
  <2>2. \A p \in Nat : f[p] \in [Nat -> Nat]
    BY DEF Calls
  <2> QED
    BY <2>1, <2>2 DEF Takes
<1> QED
  BY <1>1, <1>3

(* The steps of SkipGroupInline() and of SkipGroup(), as they are written. *)
InlineStep(s, skip, p, n) ==
  LET tag  == ReadVarint32Inline(s, p)
      type == WireType(tag.value)
  IN  IF p = Null THEN Null
      ELSE IF tag.ptr = Beyond(s) THEN Beyond(s)
      ELSE IF tag.ptr = Null \/ tag.value = 0 THEN Null
      ELSE IF type = END_GROUP
           THEN IF Number(tag.value) = n THEN tag.ptr ELSE Null
      ELSE skip[IF type = START_GROUP THEN skip[tag.ptr][Number(tag.value)]
                ELSE SkipScalarInline(s, tag.ptr, type)][n]

StreamStep(s, skip, p, n) ==
  LET tag  == StreamReadTag(s, p)
      type == WireType(tag.value)
  IN  IF p = Null \/ tag.value = 0 THEN Null
      ELSE IF type = END_GROUP
           THEN IF Number(tag.value) = n THEN tag.ptr ELSE Null
      ELSE skip[IF type = START_GROUP THEN skip[tag.ptr][Number(tag.value)]
                ELSE SkipScalar(s, tag.ptr, type)][n]

LEMMA InlineSteps ==
  ASSUME NEW s \in Seq(Byte), NEW skip, NEW p \in Nat, NEW n \in Nat
  PROVE  InlineStep(s, skip, p, n) = GroupStep(s, InlineTags(s), InlineScalars(s), skip, p, n)
<1> DEFINE T   == InlineTags(s)
           S   == InlineScalars(s)
           tag == ReadVarint32Inline(s, p)
<1>1. CASE p = Null
  BY <1>1 DEF InlineStep, GroupStep
<1>2. CASE p # Null
  <2>1. p \in Nat \ {0}
    BY <1>2 DEF Null
  <2>2. T[p] = tag
    BY <2>1 DEF InlineTags
  <2>3. Reads(s, T, S)
    BY InlineReads
  <2>4. tag.ptr \in Nat /\ WireType(tag.value) \in Nat
    <3> HIDE DEF T, S
    <3> QED
      BY <2>1, <2>2, <2>3, TagsAreTyped
  <2>5. tag.ptr # Null => S[tag.ptr][WireType(tag.value)] = SkipScalarInline(s, tag.ptr, WireType(tag.value))
    <3> HIDE DEF tag
    <3> QED
      BY <2>4 DEF InlineScalars, Null
  <2> HIDE DEF T, S
  <2>6. GroupStep(s, T, S, skip, p, n) = InlineStep(s, skip, p, n)
    BY <1>2, <2>2, <2>5 DEF GroupStep, InlineStep, Onward
  <2> QED
    BY <2>6 DEF T, S
<1> QED
  BY <1>1, <1>2

LEMMA StreamSteps ==
  ASSUME NEW s \in Seq(Byte), NEW skip, NEW p \in Nat, NEW n \in Nat
  PROVE  StreamStep(s, skip, p, n) = GroupStep(s, StreamTags(s), StreamScalars(s), skip, p, n)
<1> DEFINE T   == StreamTags(s)
           S   == StreamScalars(s)
           tag == StreamReadTag(s, p)
<1>1. CASE p = Null
  BY <1>1 DEF StreamStep, GroupStep
<1>2. CASE p # Null
  <2>1. p \in Nat \ {0}
    BY <1>2 DEF Null
  <2>2. T[p] = StreamTag(s, p)
    BY <2>1 DEF StreamTags
  <2>3. Reads(s, T, S)
    BY StreamReads
  <2>4. T[p].ptr \in Nat /\ WireType(T[p].value) \in Nat
    <3> HIDE DEF T, S
    <3> QED
      BY <2>1, <2>3, TagsAreTyped
  <2>5. CASE tag.value = 0
    <3>1. T[p].ptr = Null
      BY <2>2, <2>5 DEF StreamTag
    <3>2. StreamStep(s, skip, p, n) = Null
      BY <2>5 DEF StreamStep
    <3>3. Null # Beyond(s)
      BY DEF Null, Beyond
    <3> QED
      BY <1>2, <3>1, <3>2, <3>3 DEF GroupStep
  <2>6. CASE tag.value # 0
    <3>1. T[p] = tag
      BY <2>2, <2>6 DEF StreamTag
    <3>2. tag.ptr # Null /\ tag.ptr # Beyond(s)
      <4> DEFINE v == StreamVarint(s, p, Word32)
      <4>1. Word32 \in Nat \ {0}
        BY WordAssumption
      <4>2. tag = v /\ v.ptr # Null
        BY <2>6 DEF StreamReadTag
      <4>3. v.ptr = StreamAt(s, ReadLoop(s, p, Groups, Word32).ptr)
            /\ ReadLoop(s, p, Groups, Word32).ptr \in Nat
        BY <2>1, <4>1, StreamVarintIsTyped
      <4> HIDE DEF v, tag
      <4>4. Inside(s, v.ptr)
        BY <4>2, <4>3, StreamIsInside
      <4> QED
        BY <4>2, <4>4 DEF Inside, Beyond
    <3>3. S[tag.ptr][WireType(tag.value)] = SkipScalar(s, tag.ptr, WireType(tag.value))
      <4>1. tag.ptr \in Nat \ {0} /\ WireType(tag.value) \in Nat
        <5> HIDE DEF T, tag
        <5> QED
          BY <2>4, <3>1, <3>2 DEF Null
      <4> HIDE DEF tag
      <4> QED
        BY <4>1 DEF StreamScalars
    <3> HIDE DEF T, S
    <3>4. GroupStep(s, T, S, skip, p, n) = StreamStep(s, skip, p, n)
      BY <1>2, <2>6, <3>1, <3>2, <3>3 DEF GroupStep, StreamStep, Onward
    <3> QED
      BY <3>4 DEF T, S
  <2> QED
    BY <2>5, <2>6
<1> QED
  BY <1>1, <1>2

(* SkipGroupInline() is a walk.                                            *)
LEMMA InlineWalks ==
  ASSUME NEW s \in Seq(Byte)
  PROVE  \E f \in Calls :
           /\ Known(s, InlineTags(s), InlineScalars(s), f, 0)
           /\ \A start \in Nat, tag \in Nat : SkipGroupInline(s, start, tag) = f[start][Number(tag)]
<1> DEFINE T == InlineTags(s)
           S == InlineScalars(s)
           Made(h) == [p \in Nat |-> [n \in Nat |-> InlineStep(s, h, p, n)]]
           skip[p \in Nat] == [n \in Nat |-> InlineStep(s, skip, p, n)]
<1>1. Reads(s, T, S)
  BY InlineReads
<1>2. PICK f \in Calls : Known(s, T, S, f, 0) /\ Takes(s, T, S, f)
  <2> HIDE DEF T, S
  <2> QED
    BY <1>1, WalksExist
<1>3. f = Made(f)
  <2>1. \A p \in Nat, n \in Nat : InlineStep(s, f, p, n) = GroupStep(s, T, S, f, p, n)
    BY InlineSteps
  <2> HIDE DEF T, S
  <2>2. \A p \in Nat : f[p] = [n \in Nat |-> InlineStep(s, f, p, n)]
    BY <1>2, <2>1 DEF Takes
  <2> QED
    BY <2>2 DEF Calls
<1>4. skip = Made(skip)
  BY <1>3
<1>5. \A start, tag : SkipGroupInline(s, start, tag) = skip[start][Number(tag)]
  BY DEF SkipGroupInline, InlineStep
<1> HIDE DEF skip
<1>6. \A p \in Nat : skip[p] = f[p]
  <2>1. Takes(s, T, S, skip)
    <3>1. \A p \in Nat, n \in Nat : InlineStep(s, skip, p, n) = GroupStep(s, T, S, skip, p, n)
      BY InlineSteps
    <3>2. \A p \in Nat : skip[p] = [n \in Nat |-> InlineStep(s, skip, p, n)]
      BY <1>4
    <3> HIDE DEF T, S
    <3> QED
      BY <3>1, <3>2 DEF Takes
  <2> HIDE DEF T, S
  <2> QED
    BY <1>1, <1>2, <2>1, StepsDecide
<1> QED
  BY <1>2, <1>5, <1>6

(* So is SkipGroup().                                                      *)
LEMMA StreamWalks ==
  ASSUME NEW s \in Seq(Byte)
  PROVE  \E f \in Calls :
           /\ Known(s, StreamTags(s), StreamScalars(s), f, 0)
           /\ \A start \in Nat, tag \in Nat : SkipGroup(s, start, tag) = f[start][Number(tag)]
<1> DEFINE T == StreamTags(s)
           S == StreamScalars(s)
           Made(h) == [p \in Nat |-> [n \in Nat |-> StreamStep(s, h, p, n)]]
           skip[p \in Nat] == [n \in Nat |-> StreamStep(s, skip, p, n)]
<1>1. Reads(s, T, S)
  BY StreamReads
<1>2. PICK f \in Calls : Known(s, T, S, f, 0) /\ Takes(s, T, S, f)
  <2> HIDE DEF T, S
  <2> QED
    BY <1>1, WalksExist
<1>3. f = Made(f)
  <2>1. \A p \in Nat, n \in Nat : StreamStep(s, f, p, n) = GroupStep(s, T, S, f, p, n)
    BY StreamSteps
  <2> HIDE DEF T, S
  <2>2. \A p \in Nat : f[p] = [n \in Nat |-> StreamStep(s, f, p, n)]
    BY <1>2, <2>1 DEF Takes
  <2> QED
    BY <2>2 DEF Calls
<1>4. skip = Made(skip)
  BY <1>3
<1>5. \A start, tag : SkipGroup(s, start, tag) = skip[start][Number(tag)]
  BY DEF SkipGroup, StreamStep
<1> HIDE DEF skip
<1>6. \A p \in Nat : skip[p] = f[p]
  <2>1. Takes(s, T, S, skip)
    <3>1. \A p \in Nat, n \in Nat : StreamStep(s, skip, p, n) = GroupStep(s, T, S, skip, p, n)
      BY StreamSteps
    <3>2. \A p \in Nat : skip[p] = [n \in Nat |-> StreamStep(s, skip, p, n)]
      BY <1>4
    <3> HIDE DEF T, S
    <3> QED
      BY <3>1, <3>2 DEF Takes
  <2> HIDE DEF T, S
  <2> QED
    BY <1>1, <1>2, <2>1, StepsDecide
<1> QED
  BY <1>2, <1>5, <1>6

(* Skipping a group comes to an end: it ends behind the place where it     *)
(* begins, or nowhere.                                                     *)
LEMMA GroupsAreSkipped ==
  ASSUME NEW s \in Seq(Byte), NEW start \in Nat, NEW startTag \in Nat
  PROVE  SkipGroupInline(s, start, startTag) \in Nat
<1>1. PICK f \in Calls :
        \A p \in Nat, tag \in Nat : SkipGroupInline(s, p, tag) = f[p][Number(tag)]
  BY InlineWalks
<1>2. Number(startTag) \in Nat
  BY DEF Number
<1>3. SkipGroupInline(s, start, startTag) = f[start][Number(startTag)]
  BY <1>1
<1>4. f[start][Number(startTag)] \in Nat
  BY <1>2 DEF Calls
<1> QED
  BY <1>3, <1>4

(* Skipping any unknown field returns a pointer.                           *)
LEMMA FieldsAreSkipped ==
  ASSUME NEW s \in Seq(Byte), NEW p \in Nat \ {0}, NEW tag \in Nat
  PROVE  SkipFieldInline(s, p, tag) \in Nat
BY GroupsAreSkipped, ScalarsAreSkipped DEF SkipFieldInline

(***************************************************************************)
(* The two versions agree.                                                 *)
(***************************************************************************)

(* Does some place from p on, and before q, read as more than a short word *)
(* has room for?                                                           *)
Wide(s, p, q) == \E i \in p .. q - 1 : ReadVarint(s, i).value >= Word32

(* What the pointer version finds inside the buffer the stream version     *)
(* does; and the other way around, unless it refuses a number that is too  *)
(* large, between p and where the stream version ends.                     *)
Same(s, p, inline, stream) ==
  /\ Inside(s, inline) => stream = inline
  /\ stream # Null => \/ inline = stream
                      \/ inline = Null /\ Wide(s, p, stream)

LEMMA WideGrows ==
  ASSUME NEW s, NEW p \in Nat, NEW q \in Nat, Wide(s, p, q),
         NEW from \in Nat, from <= p, NEW to \in Nat, q <= to
  PROVE  Wide(s, from, to)
<1>1. PICK i \in p .. q - 1 : ReadVarint(s, i).value >= Word32
  BY DEF Wide
<1>2. i \in from .. to - 1
  OBVIOUS
<1> QED
  BY <1>1, <1>2 DEF Wide

(* The width of the word makes no difference to where a number ends.       *)
LEMMA WidthsAgree ==
  ASSUME NEW s \in Seq(Byte), NEW p \in Nat \ {0}
  PROVE  LET long  == ReadLoop(s, p, Groups, Word)
             short == ReadLoop(s, p, Groups, Word32)
         IN  /\ short.ptr = long.ptr /\ short.value = long.value % Word32
             /\ long.ptr \in Nat /\ Leads(s, p, long.ptr)
             /\ long.value \in Nat /\ long = [ptr |-> long.ptr, value |-> long.value]
<1> DEFINE long  == ReadLoop(s, p, Groups, Word)
           short == ReadLoop(s, p, Groups, Word32)
<1>1. Groups \in Nat /\ Word \in Nat \ {0} /\ Word32 \in Nat \ {0} /\ 0 \in 0 .. Word32 - 1
  BY SizesFit, WordAssumption
<1>2. long \in Readings(Word) /\ Leads(s, p, long.ptr)
  BY <1>1, ReadingIsTyped
<1>3. /\ long.ptr \in Nat /\ long.value \in Nat
      /\ long = [ptr |-> long.ptr, value |-> long.value]
  <2> HIDE DEF long
  <2> QED
    BY <1>1, <1>2 DEF Readings
<1>4. short.ptr = long.ptr /\ short.value = long.value % Word32
  <2>1. CASE \E last \in p .. Len(s) : EndsAt(s, p, last) /\ last <= p + Groups - 1
    <3>1. PICK last \in p .. Len(s) : EndsAt(s, p, last) /\ last <= p + Groups - 1
      BY <2>1
    <3>2. /\ long = [ptr |-> last + 1, value |-> Digits(s, p, last) % Word]
          /\ short = [ptr |-> last + 1, value |-> Digits(s, p, last) % Word32]
      <4>1. long = [ptr |-> last + 1, value |-> Digits(s, p, last) % Word]
        BY <1>1, <3>1, ReadingFindsEnd
      <4>2. short = [ptr |-> last + 1, value |-> Digits(s, p, last) % Word32]
        BY <1>1, <3>1, ReadingFindsEnd
      <4> QED
        BY <4>1, <4>2
    <3>3. Digits(s, p, last) \in Nat
      <4>1. last \in 0 .. Len(s) /\ p \in 1 .. last + 1
        OBVIOUS
      <4> QED
        BY <4>1, DigitsFrom
    <3>4. (Digits(s, p, last) % Word) % Word32 = Digits(s, p, last) % Word32
      BY <3>3, LowOfLow
    <3> HIDE DEF long, short
    <3> QED
      BY <3>2, <3>4
  <2>2. CASE ~ \E last \in p .. Len(s) : EndsAt(s, p, last) /\ last <= p + Groups - 1
    <3>1. \A last : EndsAt(s, p, last) => last > p + Groups - 1
      <4>1. \A last : EndsAt(s, p, last) => last \in p .. Len(s)
        BY DEF EndsAt
      <4> QED
        BY <1>1, <2>2, <4>1
    <3>2. long = short /\ long.value = 0
      BY <1>1, <3>1, ReadingFindsNone
    <3>3. 0 % Word32 = 0
      BY <1>1, LittleRemains
    <3> HIDE DEF long, short
    <3> QED
      BY <3>2, <3>3
  <2> QED
    BY <2>1, <2>2
<1> QED
  BY <1>2, <1>3, <1>4

(* They agree on what they read:                                            *)
LEMMA NumbersAgree ==
  ASSUME NEW s \in Seq(Byte), NEW p \in Nat \ {0}
  PROVE  LET inline == ReadVarint32Inline(s, p)
             stream == StreamVarint(s, p, Word32)
         IN  /\ inline.ptr \in Nat /\ inline.value \in Nat /\ Leads(s, p, inline.ptr)
             /\ Inside(s, inline.ptr) => inline.value < Word32 /\ stream = inline
             /\ stream.ptr # Null => Inside(s, stream.ptr) /\ stream.value \in Nat
             /\ stream.ptr # Null =>
                  inline = stream \/ (inline.ptr = Null /\ ReadVarint(s, p).value >= Word32)
<1> DEFINE long   == ReadLoop(s, p, Groups, Word)
           short  == ReadLoop(s, p, Groups, Word32)
           inline == ReadVarint32Inline(s, p)
           stream == StreamVarint(s, p, Word32)
<1>1. Word32 \in Nat \ {0} /\ Word \in Nat
  BY WordAssumption
<1>2. /\ short.ptr = long.ptr /\ short.value = long.value % Word32
      /\ long.ptr \in Nat /\ Leads(s, p, long.ptr)
      /\ long.value \in Nat /\ long = [ptr |-> long.ptr, value |-> long.value]
  BY WidthsAgree
<1>3. inline = IF long.value >= Word32 THEN [ptr |-> Null, value |-> 0] ELSE long
  BY DEF ReadVarint32Inline, ReadVarint64Inline
<1>4. /\ stream.ptr = StreamAt(s, short.ptr) /\ stream.value = short.value
      /\ stream = [ptr |-> stream.ptr, value |-> stream.value]
  <2>1. short \in Readings(Word32)
    BY <1>1, StreamVarintIsTyped
  <2>2. stream = [short EXCEPT !.ptr = StreamAt(s, short.ptr)]
    BY DEF StreamVarint
  <2> HIDE DEF short, stream
  <2> QED
    BY <2>1, <2>2 DEF Readings
<1>5. ReadVarint(s, p) = long
  BY DEF ReadVarint
<1> HIDE DEF long, short, inline, stream
<1>6. long.value < Word32 => short.value = long.value
  BY <1>1, <1>2, LittleRemains
<1>7. ~Inside(s, Null)
  BY DEF Inside, Null
<1>8. inline.ptr \in Nat /\ inline.value \in Nat /\ Leads(s, p, inline.ptr)
  BY <1>2, <1>3 DEF Null, Leads
<1>9. ASSUME Inside(s, inline.ptr)
      PROVE  inline.value < Word32 /\ stream = inline
  <2>1. ~ (long.value >= Word32) /\ inline = long
    BY <1>3, <1>7, <1>9
  <2>2. long.value < Word32
    BY <1>1, <1>2, <2>1
  <2>3. stream.ptr = long.ptr /\ stream.value = long.value
    BY <1>2, <1>4, <1>6, <1>9, <2>1, <2>2, StreamIsInside
  <2> QED
    BY <1>2, <1>4, <2>1, <2>2, <2>3
<1>10. ASSUME stream.ptr # Null
       PROVE  /\ Inside(s, stream.ptr) /\ stream.ptr = long.ptr /\ p \in DOMAIN s
              /\ stream.value \in Nat
  <2>1. Inside(s, stream.ptr) /\ stream.ptr = long.ptr
    BY <1>2, <1>4, <1>10, StreamIsInside
  <2>2. long.ptr > p /\ long.ptr <= Len(s) + 1
    BY <1>2, <2>1 DEF Inside, Leads, Null, Beyond
  <2>3. p \in 1 .. Len(s)
    BY <1>2, <2>2
  <2>4. stream.value \in Nat
    <3>1. long.value % Word32 \in Nat
      BY <1>1, <1>2, Divides
    <3> QED
      BY <1>2, <1>4, <3>1
  <2> QED
    BY <2>1, <2>3, <2>4
<1>11. ASSUME stream.ptr # Null
       PROVE  inline = stream \/ (inline.ptr = Null /\ ReadVarint(s, p).value >= Word32)
  <2>1. CASE long.value >= Word32
    BY <1>3, <1>5, <2>1
  <2>2. CASE ~ (long.value >= Word32)
    <3>1. long.value < Word32
      BY <1>1, <1>2, <2>2
    <3> QED
      BY <1>2, <1>3, <1>4, <1>6, <1>10, <1>11, <2>2, <3>1
  <2> QED
    BY <2>1, <2>2
<1> QED
  BY <1>8, <1>9, <1>10, <1>11 DEF inline, stream

(* of the fields that are no groups,                                       *)
LEMMA ScalarsAgree ==
  ASSUME NEW s \in Seq(Byte), Len(s) < Word32 \div 2, NEW p \in Nat \ {0}, NEW type
  PROVE  Same(s, p, SkipScalarInline(s, p, type), SkipScalar(s, p, type))
<1>1. ~Inside(s, Null) /\ ~Inside(s, Beyond(s))
  BY DEF Inside, Null, Beyond
<1>2. ASSUME NEW q \in Nat
      PROVE  Same(s, p, q, StreamAt(s, q))
  BY <1>2, StreamIsInside DEF Same
<1>3. Same(s, p, SkipVarintInline(s, p), SkipVarint(s, p))
  <2> DEFINE r == ReadLoop(s, p, Groups, Word)
  <2>1. Word \in Nat \ {0}
    BY WordAssumption
  <2>2. r.ptr \in Nat /\ StreamVarint(s, p, Word).ptr = StreamAt(s, r.ptr)
    BY <2>1, StreamVarintIsTyped
  <2>3. SkipVarintInline(s, p) = r.ptr /\ SkipVarint(s, p) = StreamAt(s, r.ptr)
    BY <2>2 DEF SkipVarintInline, SkipVarint
  <2> QED
    BY <1>2, <2>2, <2>3
<1>4. /\ Same(s, p, SkipFixed64Inline(s, p), SkipFixed64(s, p))
      /\ Same(s, p, SkipFixed32Inline(s, p), SkipFixed32(s, p))
  <2>1. p + Fixed64Size \in Nat /\ p + Fixed32Size \in Nat
    BY FixedAssumption
  <2> QED
    BY <1>2, <2>1 DEF SkipFixed64Inline, SkipFixed64, SkipFixed32Inline, SkipFixed32
<1>5. Same(s, p, SkipLengthDelimitedInline(s, p), SkipLengthDelimited(s, p))
  <2> DEFINE inline == ReadVarint32Inline(s, p)
             stream == StreamVarint(s, p, Word32)
             half   == Word32 \div 2
  <2>1. /\ inline.ptr \in Nat /\ inline.value \in Nat /\ Leads(s, p, inline.ptr)
        /\ Inside(s, inline.ptr) => inline.value < Word32 /\ stream = inline
        /\ stream.ptr # Null => Inside(s, stream.ptr) /\ stream.value \in Nat
        /\ stream.ptr # Null =>
             inline = stream \/ (inline.ptr = Null /\ ReadVarint(s, p).value >= Word32)
    BY NumbersAgree
  <2>2. SkipLengthDelimitedInline(s, p) = IF inline.ptr = Null THEN Null ELSE inline.ptr + inline.value
    BY DEF SkipLengthDelimitedInline
  <2>3. SkipLengthDelimited(s, p) = IF stream.ptr = Null \/ stream.value >= half THEN Null
                                    ELSE StreamAt(s, stream.ptr + stream.value)
    BY DEF SkipLengthDelimited, StreamSkip
  <2>4. half \in Nat /\ Len(s) \in Nat /\ Len(s) < half
    <3>1. Word32 \in Nat
      BY WordAssumption
    <3> QED
      BY <3>1
  <2> HIDE DEF inline, stream, half
  <2>5. ASSUME Inside(s, SkipLengthDelimitedInline(s, p))
        PROVE  SkipLengthDelimited(s, p) = SkipLengthDelimitedInline(s, p)
    <3>1. inline.ptr # Null /\ Inside(s, inline.ptr + inline.value)
      BY <1>1, <2>2, <2>5
    <3>2. Inside(s, inline.ptr) /\ inline.value <= Len(s)
      <4>1. inline.ptr \in Nat /\ inline.value \in Nat /\ inline.ptr # 0
        BY <2>1, <3>1 DEF Null
      <4>2. inline.ptr + inline.value <= Len(s) + 1
        BY <3>1 DEF Inside
      <4> HIDE <2>1
      <4> QED
        BY <2>4, <4>1, <4>2 DEF Inside
    <3>3. stream = inline /\ ~ (inline.value >= half)
      BY <2>1, <2>4, <3>2
    <3>4. StreamAt(s, inline.ptr + inline.value) = inline.ptr + inline.value
      <4>1. inline.ptr + inline.value \in Nat
        BY <2>1
      <4> QED
        BY <3>1, <4>1, StreamIsInside
    <3> QED
      BY <2>2, <2>3, <3>1, <3>3, <3>4
  <2>6. ASSUME SkipLengthDelimited(s, p) # Null
        PROVE  \/ SkipLengthDelimitedInline(s, p) = SkipLengthDelimited(s, p)
               \/ /\ SkipLengthDelimitedInline(s, p) = Null
                  /\ Wide(s, p, SkipLengthDelimited(s, p))
    <3>1. stream.ptr # Null /\ SkipLengthDelimited(s, p) = StreamAt(s, stream.ptr + stream.value)
      BY <2>3, <2>6
    <3>2. CASE inline = stream
      <4>1. StreamAt(s, inline.ptr + inline.value) = inline.ptr + inline.value
        <5>1. inline.ptr + inline.value \in Nat
          BY <2>1
        <5>2. StreamAt(s, inline.ptr + inline.value) # Null
          BY <2>6, <3>1, <3>2
        <5> QED
          BY <5>1, <5>2, StreamIsInside
      <4> QED
        BY <2>2, <3>1, <3>2, <4>1
    <3>3. CASE inline.ptr = Null /\ ReadVarint(s, p).value >= Word32
      <4>1. SkipLengthDelimited(s, p) \in Nat /\ SkipLengthDelimited(s, p) > p
        <5>1. SkipScalar(s, p, LENGTH_DELIMITED) = SkipLengthDelimited(s, p)
          BY DEF SkipScalar, VARINT, FIXED64, LENGTH_DELIMITED, FIXED32
        <5> QED
          BY <2>6, <5>1, StreamScalarsAreSkipped
      <4>2. p \in p .. SkipLengthDelimited(s, p) - 1
        BY <4>1
      <4> QED
        BY <2>2, <3>3, <4>2 DEF Wide
    <3> QED
      BY <2>1, <3>1, <3>2, <3>3
  <2> QED
    BY <2>5, <2>6 DEF Same
<1>6. Same(s, p, Null, Null)
  BY DEF Same
<1> QED
  BY <1>3, <1>4, <1>5, <1>6 DEF SkipScalarInline, SkipScalar

(* and of groups: from the end of the buffer backwards.                    *)
LEMMA WalksAgree ==
  ASSUME NEW s \in Seq(Byte), Len(s) < Word32 \div 2,
         NEW f \in Calls, Known(s, InlineTags(s), InlineScalars(s), f, 0),
         NEW g \in Calls, Known(s, StreamTags(s), StreamScalars(s), g, 0)
  PROVE  \A p \in Nat, n \in Nat : Same(s, p, f[p][n], g[p][n])
<1> DEFINE T  == InlineTags(s)
           S  == InlineScalars(s)
           L  == Len(s)
           U  == {k \in Nat : \A p \in Nat : p > L - k => \A n \in Nat : Same(s, p, f[p][n], g[p][n])}
<1>0. \A p \in Nat, n \in Nat : /\ f[p][n] = InlineStep(s, f, p, n)
                                /\ g[p][n] = StreamStep(s, g, p, n)
  <2>1. \A p \in Nat, n \in Nat : /\ f[p][n] = GroupStep(s, T, S, f, p, n)
                                  /\ g[p][n] = GroupStep(s, StreamTags(s), StreamScalars(s), g, p, n)
    BY DEF Known, Skips, Null
  <2> QED
    BY <2>1, InlineSteps, StreamSteps
<1>1. L \in Nat /\ ~Inside(s, Null) /\ ~Inside(s, Beyond(s)) /\ Null \in Nat
  BY DEF Inside, Null, Beyond
<1>2. \A n \in Nat : f[Null][n] = Null /\ g[Null][n] = Null
  BY <1>0, <1>1 DEF InlineStep, StreamStep
<1>3. ASSUME NEW p \in Nat, p > L, NEW n \in Nat
      PROVE  f[p][n] = Beyond(s) /\ g[p][n] = Null
  <2>1. p \in Nat \ {0} /\ p # Null
    BY <1>1, <1>3 DEF Null
  <2>2. ReadVarint32Inline(s, p).ptr = Beyond(s)
    BY <1>3, <2>1, ReadersAreTyped
  <2>3. StreamVarint(s, p, Word32).ptr = Null
    BY <1>3, <2>1, WordAssumption, StreamVarintIsTyped
  <2>4. StreamReadTag(s, p).value = 0
    BY <2>3 DEF StreamReadTag
  <2> QED
    BY <1>0, <2>1, <2>2, <2>4 DEF InlineStep, StreamStep
<1>4. ASSUME NEW q \in Nat, \A p \in Nat : p > q => \A n \in Nat : Same(s, p, f[p][n], g[p][n]),
             NEW n \in Nat
      PROVE  Same(s, q, f[q][n], g[q][n])
  <2> DEFINE i  == ReadVarint32Inline(s, q)
             v  == StreamVarint(s, q, Word32)
             r  == StreamReadTag(s, q)
  <2>1. CASE q = Null
    BY <1>1, <1>2, <2>1 DEF Same
  <2>2. CASE q # Null
    <3>1. q \in Nat \ {0}
      BY <2>2 DEF Null
    <3>2. /\ i.ptr \in Nat /\ i.value \in Nat /\ Leads(s, q, i.ptr)
          /\ Inside(s, i.ptr) => i.value < Word32 /\ v = i
          /\ v.ptr # Null => Inside(s, v.ptr) /\ v.value \in Nat
          /\ v.ptr # Null => i = v \/ (i.ptr = Null /\ ReadVarint(s, q).value >= Word32)
      BY <3>1, NumbersAgree
    <3>3. /\ v.ptr = Null => r.value = 0
          /\ v.ptr # Null => r = v
      BY DEF StreamReadTag
    <3> DEFINE type == WireType(i.value)
               num  == Number(i.value)
               a    == IF type = START_GROUP THEN f[i.ptr][num] ELSE SkipScalarInline(s, i.ptr, type)
               b    == IF type = START_GROUP THEN g[i.ptr][num] ELSE SkipScalar(s, i.ptr, type)
    <3> HIDE DEF i, v, r
    <3>4. ASSUME i = r, Inside(s, i.ptr), i.value # 0
          PROVE  Same(s, q, f[q][n], g[q][n])
      <4>1. i.ptr \in Nat \ {0} /\ i.ptr > q /\ i.ptr # Null /\ i.ptr # Beyond(s)
        BY <1>1, <3>1, <3>2, <3>4 DEF Leads, Null
      <4>2. type \in Nat /\ num \in Nat
        BY <3>2 DEF WireType, Number
      <4> HIDE DEF type, num
      <4>3. /\ f[q][n] = IF type = END_GROUP THEN IF num = n THEN i.ptr ELSE Null ELSE f[a][n]
            /\ g[q][n] = IF type = END_GROUP THEN IF num = n THEN i.ptr ELSE Null ELSE g[b][n]
        BY <1>0, <2>2, <3>4, <4>1 DEF InlineStep, StreamStep, i, r, type, num
      <4>4. Same(s, q, i.ptr, i.ptr) /\ Same(s, q, Null, Null)
        BY DEF Same
      <4>5. Same(s, i.ptr, a, b)
        BY <1>4, <4>1, <4>2, ScalarsAgree
      <4>6. /\ a \in Nat /\ (a = Null \/ a > q)
            /\ b \in Nat /\ (b = Null \/ b > q)
        <5>1. ASSUME type = START_GROUP
              PROVE  /\ a \in Nat /\ Leads(s, i.ptr, a)
                     /\ b \in Nat /\ Leads(s, i.ptr, b)
          <6>1. /\ Skips(s, InlineTags(s), InlineScalars(s), f, i.ptr)
                /\ Skips(s, StreamTags(s), StreamScalars(s), g, i.ptr)
            BY <4>1 DEF Known
          <6> QED
            BY <4>1, <4>2, <5>1, <6>1 DEF Skips, Calls
        <5>2. ASSUME type # START_GROUP
              PROVE  /\ a \in Nat /\ Leads(s, i.ptr, a)
                     /\ b \in Nat /\ Leads(s, i.ptr, b)
          BY <4>1, <5>2, ScalarsAreSkipped, StreamScalarsAreSkipped DEF Leads
        <5>3. a \in Nat /\ Leads(s, i.ptr, a) /\ b \in Nat /\ Leads(s, i.ptr, b)
          BY <5>1, <5>2
        <5>4. Beyond(s) > i.ptr
          BY <3>4, <4>1 DEF Inside, Beyond
        <5> HIDE DEF a, b
        <5> QED
          BY <1>1, <4>1, <5>3, <5>4 DEF Leads, Beyond
      <4> HIDE DEF a, b
      <4>7. ASSUME Inside(s, f[a][n])
            PROVE  g[b][n] = f[a][n]
        <5>1. a # Null /\ a > q
          BY <1>1, <1>2, <4>6, <4>7
        <5>2. ~ (a > L)
          BY <1>1, <1>3, <4>6, <4>7
        <5>3. Inside(s, a)
          BY <1>1, <4>6, <5>1, <5>2 DEF Inside, Null
        <5>4. b = a
          BY <4>5, <5>3 DEF Same
        <5>5. Same(s, a, f[a][n], g[a][n])
          BY <1>4, <4>6, <5>1
        <5> QED
          BY <4>7, <5>4, <5>5 DEF Same
      <4>8. ASSUME g[b][n] # Null
            PROVE  f[a][n] = g[b][n] \/ (f[a][n] = Null /\ Wide(s, q, g[b][n]))
        <5>1. b # Null /\ b > q
          BY <1>2, <4>6, <4>8
        <5>2. Same(s, b, f[b][n], g[b][n])
          BY <1>4, <4>6, <5>1
        <5>3. g[b][n] \in Nat /\ g[b][n] > b
          <6>1. ~ (b > L)
            BY <1>3, <4>6, <4>8
          <6>2. Skips(s, StreamTags(s), StreamScalars(s), g, b)
            BY <4>6, <5>1 DEF Known
          <6>3. Leads(s, b, g[b][n]) /\ g[b][n] \in Nat
            BY <4>6, <6>2 DEF Skips, Calls
          <6> QED
            BY <1>1, <4>6, <4>8, <6>1, <6>3 DEF Leads, Beyond
        <5>4. CASE a = b
          <6>1. ASSUME Wide(s, b, g[b][n])
                PROVE  Wide(s, q, g[b][n])
            BY <4>6, <5>1, <5>3, <6>1, WideGrows
          <6> QED
            BY <4>8, <5>2, <5>4, <6>1 DEF Same
        <5>5. CASE a = Null /\ Wide(s, i.ptr, b)
          <6>1. Wide(s, q, g[b][n])
            BY <4>1, <4>6, <5>3, <5>5, WideGrows
          <6> QED
            BY <1>2, <5>5, <6>1
        <5> QED
          BY <4>5, <5>1, <5>4, <5>5 DEF Same
      <4>9. Same(s, q, f[a][n], g[b][n])
        BY <4>7, <4>8 DEF Same
      <4> QED
        BY <4>3, <4>4, <4>9
    <3>5. Inside(s, f[q][n]) => i = r /\ Inside(s, i.ptr) /\ i.value # 0
      <4>1. ASSUME Inside(s, f[q][n])
            PROVE  i.ptr # Beyond(s) /\ i.ptr # Null /\ i.value # 0
        BY <1>0, <1>1, <2>2, <4>1 DEF InlineStep, i
      <4>2. ASSUME i.ptr # Beyond(s), i.ptr # Null
            PROVE  Inside(s, i.ptr)
        <5>1. ReadVarint32Inline(s, q).ptr \in {Null, Beyond(s)}
                \/ Inside(s, ReadVarint32Inline(s, q).ptr)
          <6>1. Groups \in Nat
            BY SizesFit
          <6>2. LET z == ReadLoop(s, q, Groups, Word) IN z.ptr \in {Null, Beyond(s)} \/ Inside(s, z.ptr)
            BY <3>1, <6>1, ReadingIsBounded DEF Inside
          <6> QED
            BY <6>2 DEF ReadVarint32Inline, ReadVarint64Inline
        <5> QED
          BY <4>2, <5>1 DEF i
      <4> QED
        BY <1>1, <3>2, <3>3, <4>1, <4>2
    <3>6. ASSUME g[q][n] # Null
          PROVE  \/ i = r /\ Inside(s, i.ptr) /\ i.value # 0
                 \/ f[q][n] = Null /\ Wide(s, q, g[q][n])
      <4>1. r.value # 0
        BY <1>0, <3>6 DEF StreamStep, r
      <4>2. v.ptr # Null /\ r = v /\ Inside(s, v.ptr)
        BY <3>2, <3>3, <4>1
      <4>3. CASE i = v
        BY <4>1, <4>2, <4>3
      <4>4. CASE i.ptr = Null /\ ReadVarint(s, q).value >= Word32
        <5>1. f[q][n] = Null
          <6>1. Null # Beyond(s)
            BY <1>1 DEF Null, Beyond
          <6> QED
            BY <1>0, <2>2, <4>4, <6>1 DEF InlineStep, i
        <5>2. g[q][n] \in Nat /\ g[q][n] > q
          <6>1. ~ (q > L)
            BY <1>3, <3>6
          <6>2. Skips(s, StreamTags(s), StreamScalars(s), g, q)
            BY <3>1 DEF Known
          <6>3. Leads(s, q, g[q][n]) /\ g[q][n] \in Nat
            BY <6>2 DEF Skips, Calls
          <6> QED
            BY <1>1, <3>6, <6>1, <6>3 DEF Leads, Beyond
        <5>3. q \in q .. g[q][n] - 1
          BY <5>2
        <5> QED
          BY <4>4, <5>1, <5>3 DEF Wide
      <4> QED
        BY <3>2, <4>2, <4>3, <4>4
    <3> QED
      BY <3>4, <3>5, <3>6 DEF Same
  <2> QED
    BY <2>1, <2>2
<1> HIDE DEF L
<1>5. U = Nat
  <2>1. ASSUME NEW k \in Nat, \A m \in 0 .. k - 1 : m \in U
        PROVE  k \in U
    <3>1. CASE k = 0
      <4>1. ASSUME NEW p \in Nat, p > L, NEW n \in Nat
            PROVE  Same(s, p, f[p][n], g[p][n])
        BY <1>1, <1>3, <4>1 DEF Same
      <4> QED
        BY <1>1, <3>1, <4>1
    <3>2. CASE k # 0
      <4> SUFFICES ASSUME NEW p \in Nat, p > L - k, NEW n \in Nat
                   PROVE  Same(s, p, f[p][n], g[p][n])
        OBVIOUS
      <4>1. k - 1 \in U
        BY <2>1, <3>2
      <4>2. \A i \in Nat : i > p => i > L - (k - 1)
        BY <1>1, <3>2
      <4>3. \A i \in Nat : i > p => \A m \in Nat : Same(s, i, f[i][m], g[i][m])
        BY <4>1, <4>2
      <4> QED
        BY <1>4, <4>3
    <3> QED
      BY <3>1, <3>2
  <2>2. U \in SUBSET Nat
    OBVIOUS
  <2> HIDE DEF U
  <2> QED
    BY <2>1, <2>2, SetsAreAll
<1>6. ASSUME NEW p \in Nat, NEW n \in Nat
      PROVE  Same(s, p, f[p][n], g[p][n])
  <2>1. L + 1 \in U
    <3> HIDE DEF U
    <3> QED
      BY <1>1, <1>5
  <2>2. p > L - (L + 1)
    BY <1>1
  <2> QED
    BY <2>1, <2>2
<1> QED
  BY <1>6

(* The two versions of the skipper agree on every field and every buffer   *)
(* that a stream can have.                                                 *)
LEMMA SkippersAgree ==
  ASSUME NEW s \in Seq(Byte), Len(s) < Word32 \div 2, NEW p \in Nat \ {0}, NEW tag \in Nat
  PROVE  Same(s, p, SkipFieldInline(s, p, tag), SkipField(s, p, tag))
<1>1. CASE WireType(tag) = START_GROUP
  <2>1. PICK f \in Calls :
          /\ Known(s, InlineTags(s), InlineScalars(s), f, 0)
          /\ \A start \in Nat, t \in Nat : SkipGroupInline(s, start, t) = f[start][Number(t)]
    BY InlineWalks
  <2>2. PICK g \in Calls :
          /\ Known(s, StreamTags(s), StreamScalars(s), g, 0)
          /\ \A start \in Nat, t \in Nat : SkipGroup(s, start, t) = g[start][Number(t)]
    BY StreamWalks
  <2>3. Number(tag) \in Nat
    BY DEF Number
  <2>4. Same(s, p, f[p][Number(tag)], g[p][Number(tag)])
    BY <2>1, <2>2, <2>3, WalksAgree
  <2> QED
    BY <1>1, <2>1, <2>2, <2>4 DEF SkipFieldInline, SkipField
<1>2. CASE WireType(tag) # START_GROUP
  BY <1>2, ScalarsAgree DEF SkipFieldInline, SkipField
<1> QED
  BY <1>1, <1>2

(***************************************************************************)
(* Concatenations.                                                         *)
(***************************************************************************)

(* The parts of a concatenation, one after the other.                      *)
Grows(part, w, n) ==
  /\ part \in [0 .. n -> Seq(Byte)]
  /\ part[0] = <<>>
  /\ \A i \in 1 .. n : part[i] = part[i - 1] \o w[i]

(* They exist,                                                             *)
LEMMA PartsExist ==
  ASSUME NEW n \in Nat, NEW w, \A i \in 1 .. n : w[i] \in Seq(Byte)
  PROVE  \E part : Grows(part, w, n)
<1> DEFINE D == 0 .. n
           V == Seq(Byte)
           B == {0}
           base == [k \in B |-> <<>>]
           pred == [k \in D |-> IF k = 0 THEN 0 ELSE k - 1]
           rec == [k \in D |-> [x \in V |-> IF k = 0 THEN <<>> ELSE x \o w[k]]]
<1>1. <<>> \in V
  OBVIOUS
<1>2. \A k \in D \ {0}, x \in V : x \o w[k] \in V
  OBVIOUS
<1>3. 0 \in D /\ D \in SUBSET Nat /\ \A k \in D \ {0} : k - 1 \in D /\ k - 1 < k
  OBVIOUS
<1> HIDE DEF D, V
<1>4. /\ B \in SUBSET D /\ D \in SUBSET Nat /\ pred \in [D -> Nat]
      /\ base \in [B -> V] /\ rec \in [D -> [V -> V]] /\ V # {}
  BY <1>1, <1>2, <1>3
<1>5. Descends(D, B, pred)
  BY <1>3 DEF Descends
<1>6. \E f \in [D -> V] : Recurs(f, D, B, base, pred, rec)
  <2> HIDE DEF B, base, pred, rec
  <2> QED
    BY <1>4, <1>5, RecursionExists, Zenon
<1>7. PICK f \in [D -> V] : Recurs(f, D, B, base, pred, rec)
  BY <1>6
<1>8. f[0] = <<>>
  BY <1>3, <1>7 DEF Recurs
<1>9. \A i \in D \ {0} : f[i] = f[i - 1] \o w[i]
  <2> SUFFICES ASSUME NEW i \in D \ {0}
               PROVE  f[i] = f[i - 1] \o w[i]
    OBVIOUS
  <2>1. f[i] = rec[i][f[pred[i]]] /\ pred[i] = i - 1 /\ i - 1 \in D
    BY <1>3, <1>7 DEF Recurs
  <2>2. f[i - 1] \in V
    BY <1>7, <2>1
  <2> QED
    BY <2>1, <2>2
<1>10. \A i \in 1 .. n : i \in D \ {0}
  BY DEF D
<1> QED
  BY <1>7, <1>8, <1>9, <1>10 DEF Grows, D, V

(* and the last of them is what FlattenSeq() puts together.                *)
LEMMA FlattenedIsPart ==
  ASSUME NEW n \in Nat, NEW w, Len(w) = n, n = 0 => w = <<>>,
         NEW part, Grows(part, w, n), \A i \in 1 .. n : w[i] \in Seq(Byte)
  PROVE  FlattenSeq(w) = part[n] /\ part[n] \in Seq(Byte)
<1>1. part[n] \in Seq(Byte)
  BY DEF Grows
<1>2. CASE n = 0
  BY <1>1, <1>2 DEF FlattenSeq, Grows
<1>3. CASE n # 0
  <2> DEFINE flatten[i \in 1 .. n] == IF i = 1 THEN w[i] ELSE flatten[i - 1] \o w[i]
             f == [i \in 1 .. n |-> part[i]]
  <2>1. part[1] = w[1]
    <3>1. 1 \in 1 .. n /\ 1 - 1 = 0
      BY <1>3
    <3>2. part[1] = part[1 - 1] \o w[1] /\ part[0] = <<>> /\ w[1] \in Seq(Byte)
      BY <3>1 DEF Grows
    <3> QED
      BY <3>1, <3>2
  <2>2. f = [i \in 1 .. n |-> IF i = 1 THEN w[i] ELSE f[i - 1] \o w[i]]
    <3>1. ASSUME NEW i \in 1 .. n
          PROVE  f[i] = IF i = 1 THEN w[i] ELSE f[i - 1] \o w[i]
      <4>1. CASE i # 1
        <5>1. i - 1 \in 1 .. n
          BY <4>1
        <5>2. f[i] = part[i] /\ f[i - 1] = part[i - 1]
          BY <5>1
        <5>3. part[i] = part[i - 1] \o w[i]
          BY DEF Grows
        <5> HIDE DEF f
        <5> QED
          BY <4>1, <5>2, <5>3
      <4>2. CASE i = 1
        BY <2>1, <4>2
      <4> QED
        BY <4>1, <4>2
    <3> QED
      BY <3>1
  <2>3. flatten = [i \in 1 .. n |-> IF i = 1 THEN w[i] ELSE flatten[i - 1] \o w[i]]
    <3> HIDE DEF f
    <3> QED
      BY <2>2
  <2>4. FlattenSeq(w) = flatten[n]
    BY <1>3 DEF FlattenSeq
  <2> HIDE DEF flatten, f
  <2> DEFINE T == {k \in Nat : k \in 1 .. n => flatten[k] = part[k]}
  <2>5. ASSUME NEW k \in Nat, k < n, k \in T
        PROVE  k + 1 \in T
    <3>1. k + 1 \in 1 .. n /\ (k + 1) - 1 = k
      BY <2>5
    <3>2. flatten[k + 1] = IF k + 1 = 1 THEN w[k + 1] ELSE flatten[k] \o w[k + 1]
      BY <2>3, <3>1
    <3>3. part[k + 1] = part[k] \o w[k + 1]
      BY <3>1 DEF Grows
    <3>4. CASE k = 0
      BY <2>1, <3>2, <3>4
    <3>5. CASE k # 0
      <4>1. k \in 1 .. n /\ k + 1 # 1
        BY <2>5, <3>5
      <4>2. flatten[k] = part[k]
        BY <2>5, <4>1
      <4>3. flatten[k + 1] = part[k + 1]
        BY <3>2, <3>3, <4>1, <4>2
      <4> QED
        BY <3>1, <4>3
    <3> QED
      BY <3>4, <3>5
  <2>6. T \in SUBSET Nat /\ 0 \in T
    OBVIOUS
  <2>7. n \in T
    <3> HIDE DEF T
    <3> QED
      BY <2>5, <2>6, SetsClimb
  <2> QED
    BY <1>1, <1>3, <2>4, <2>7
<1> QED
  BY <1>2, <1>3

(***************************************************************************)
(* What stands in a buffer.                                                *)
(***************************************************************************)

(* The bytes s stand at p in buf.                                          *)
Holds(buf, p, s) ==
  /\ p + Len(s) - 1 <= Len(buf)
  /\ \A i \in 1 .. Len(s) : buf[p + i - 1] = s[i]

(* Two byte strings, one after the other.                                  *)
LEMMA BothStand ==
  ASSUME NEW buf \in Seq(Byte), NEW p \in Nat \ {0}, NEW a \in Seq(Byte), NEW b \in Seq(Byte),
         Holds(buf, p, a \o b)
  PROVE  Holds(buf, p, a) /\ Holds(buf, p + Len(a), b)
<1>1. Len(a) \in Nat /\ Len(b) \in Nat /\ Len(a \o b) = Len(a) + Len(b) /\ Len(buf) \in Nat
  OBVIOUS
<1>2. p + (Len(a) + Len(b)) - 1 <= Len(buf)
  BY <1>1 DEF Holds
<1>3. \A i \in 1 .. Len(a) : buf[p + i - 1] = a[i]
  <2> SUFFICES ASSUME NEW i \in 1 .. Len(a)
               PROVE  buf[p + i - 1] = a[i]
    OBVIOUS
  <2>1. i \in 1 .. Len(a \o b)
    BY <1>1
  <2>2. buf[p + i - 1] = (a \o b)[i]
    BY <2>1 DEF Holds
  <2>3. (a \o b)[i] = a[i]
    OBVIOUS
  <2> QED
    BY <2>2, <2>3
<1>4. \A i \in 1 .. Len(b) : buf[(p + Len(a)) + i - 1] = b[i]
  <2> SUFFICES ASSUME NEW i \in 1 .. Len(b)
               PROVE  buf[(p + Len(a)) + i - 1] = b[i]
    OBVIOUS
  <2>1. Len(a) + i \in 1 .. Len(a \o b)
    BY <1>1
  <2>2. buf[p + (Len(a) + i) - 1] = (a \o b)[Len(a) + i]
    BY <2>1 DEF Holds
  <2>3. (a \o b)[Len(a) + i] = b[i]
    OBVIOUS
  <2>4. p + (Len(a) + i) - 1 = (p + Len(a)) + i - 1
    BY <1>1
  <2> QED
    BY <2>2, <2>3, <2>4
<1>5. p + Len(a) - 1 <= Len(buf) /\ (p + Len(a)) + Len(b) - 1 <= Len(buf)
  BY <1>1, <1>2
<1> QED
  BY <1>3, <1>4, <1>5 DEF Holds

(* What stands in a buffer stands in a longer one, and what is appended    *)
(* stands behind.                                                          *)
LEMMA Appended ==
  ASSUME NEW a \in Seq(Byte), NEW b \in Seq(Byte)
  PROVE  /\ Holds(a \o b, Len(a) + 1, b)
         /\ \A p \in Nat \ {0} : \A s \in Seq(Byte) : Holds(a, p, s) => Holds(a \o b, p, s)
<1>1. Len(a) \in Nat /\ Len(b) \in Nat /\ Len(a \o b) = Len(a) + Len(b)
  OBVIOUS
<1>2. Holds(a \o b, Len(a) + 1, b)
  <2>1. ASSUME NEW i \in 1 .. Len(b)
        PROVE  (a \o b)[(Len(a) + 1) + i - 1] = b[i]
    <3>1. (Len(a) + 1) + i - 1 = Len(a) + i
      BY <1>1
    <3>2. (a \o b)[Len(a) + i] = b[i]
      OBVIOUS
    <3> QED
      BY <3>1, <3>2
  <2> QED
    BY <1>1, <2>1 DEF Holds
<1>3. ASSUME NEW p \in Nat \ {0}, NEW s \in Seq(Byte), Holds(a, p, s)
      PROVE  Holds(a \o b, p, s)
  <2>1. p + Len(s) - 1 <= Len(a) /\ Len(s) \in Nat
    BY <1>3 DEF Holds
  <2>2. ASSUME NEW i \in 1 .. Len(s)
        PROVE  (a \o b)[p + i - 1] = s[i]
    <3>1. p + i - 1 \in 1 .. Len(a)
      BY <1>1, <2>1
    <3>2. (a \o b)[p + i - 1] = a[p + i - 1]
      BY <3>1
    <3>3. a[p + i - 1] = s[i]
      BY <1>3 DEF Holds
    <3> QED
      BY <3>2, <3>3
  <2> QED
    BY <1>1, <2>1, <2>2 DEF Holds
<1> QED
  BY <1>2, <1>3

(* Each part stands behind those before it in the last concatenation.      *)
LEMMA PartsStand ==
  ASSUME NEW n \in Nat, NEW w, \A i \in 1 .. n : w[i] \in Seq(Byte),
         NEW part, Grows(part, w, n)
  PROVE  \A k \in 0 .. n - 1 : Holds(part[n], Len(part[k]) + 1, w[k + 1])
<1> DEFINE T == {m \in Nat : m <= n =>
                   \A k \in 0 .. m - 1 : Holds(part[m], Len(part[k]) + 1, w[k + 1])}
<1>1. \A k \in 0 .. n : part[k] \in Seq(Byte) /\ Len(part[k]) + 1 \in Nat \ {0}
  <2>1. \A k \in 0 .. n : part[k] \in Seq(Byte)
    BY DEF Grows
  <2> QED
    BY <2>1
<1>2. 0 \in T /\ T \in SUBSET Nat
  OBVIOUS
<1>3. ASSUME NEW m \in Nat, m < n, m \in T
      PROVE  m + 1 \in T
  <2>1. m + 1 \in 1 .. n /\ (m + 1) - 1 = m /\ m \in 0 .. n
    BY <1>3
  <2>2. part[m + 1] = part[m] \o w[m + 1] /\ part[m] \in Seq(Byte) /\ w[m + 1] \in Seq(Byte)
    BY <1>1, <2>1 DEF Grows
  <2>3. ASSUME NEW k \in 0 .. m
        PROVE  Holds(part[m + 1], Len(part[k]) + 1, w[k + 1])
    <3>1. CASE k = m
      <4>1. Holds(part[m] \o w[m + 1], Len(part[m]) + 1, w[m + 1])
        BY <2>2, Appended
      <4> QED
        BY <2>2, <3>1, <4>1
    <3>2. CASE k # m
      <4>1. k \in 0 .. m - 1 /\ k \in 0 .. n /\ k + 1 \in 1 .. n
        BY <1>3, <3>2
      <4>2. Holds(part[m], Len(part[k]) + 1, w[k + 1])
        BY <1>3, <4>1
      <4>3. Len(part[k]) + 1 \in Nat \ {0} /\ w[k + 1] \in Seq(Byte)
        BY <1>1, <4>1
      <4>4. Holds(part[m] \o w[m + 1], Len(part[k]) + 1, w[k + 1])
        BY <2>2, <4>2, <4>3, Appended
      <4> QED
        BY <2>2, <4>4
    <3> QED
      BY <3>1, <3>2
  <2>4. (m + 1) - 1 = m
    OBVIOUS
  <2> QED
    BY <2>3, <2>4
<1>4. n \in T
  <2> HIDE DEF T
  <2> QED
    BY <1>2, <1>3, SetsClimb
<1> QED
  BY <1>4

(***************************************************************************)
(* Scalars.                                                                *)
(***************************************************************************)

(* What the member of a scalar field can hold.                             *)
ScalarStates(type) ==
  IF type \in FixedTypes THEN [1 .. WidthOf(type) -> Byte] ELSE NumbersOf(cpp_scalar_type[type])

(* Memory has bytes, in the buffer and behind it.                          *)
LEMMA MemoryIsBytes ==
  ASSUME NEW buf \in Seq(Byte), NEW p \in Nat, NEW n \in Nat
  PROVE  /\ Memory(buf, p, n) \in [1 .. n -> Byte]
         /\ Memory(buf, p, n) \in Seq(Byte) /\ Len(Memory(buf, p, n)) = n
<1>1. \A i \in DOMAIN buf : buf[i] \in Byte
  OBVIOUS
<1>2. Memory(buf, p, n) \in [1 .. n -> Byte]
  BY <1>1, BehindAssumption DEF Memory
<1> QED
  BY <1>2

(* A cast to a type makes a number of the type,                            *)
LEMMA CastsFit ==
  ASSUME NEW cpp, NEW n \in 0 .. Word - 1
  PROVE  Cast(cpp, n) \in NumbersOf(cpp)
<1>1. /\ Word32 \in Nat \ {0} /\ n \in Nat
  BY WordAssumption
<1>2. n % Word32 \in 0 .. Word32 - 1
  BY <1>1, Divides
<1>3. (IF n # 0 THEN 1 ELSE 0) \in 0 .. 1
  OBVIOUS
<1>4. CASE cpp = "bool"
  BY <1>3, <1>4 DEF Cast, NumbersOf
<1>5. CASE cpp \in {"int32_t", "uint32_t"}
  BY <1>2, <1>5 DEF Cast, NumbersOf
<1>6. CASE cpp # "bool" /\ cpp \notin {"int32_t", "uint32_t"}
  BY <1>6 DEF Cast, NumbersOf
<1> QED
  BY <1>4, <1>5, <1>6

(* which are numbers of 64 bits.                                           *)
LEMMA NumbersFit ==
  ASSUME NEW cpp
  PROVE  /\ 0 \in NumbersOf(cpp)
         /\ \A n \in NumbersOf(cpp) : n \in Nat /\ n < Word
         /\ cpp \in {"int32_t", "uint32_t"} => \A n \in NumbersOf(cpp) : n < Word32
<1>1. Word \in Nat /\ Word32 \in Nat /\ Word32 < Word /\ 2 < Word /\ 0 < Word32
  BY WordAssumption
<1> QED
  BY <1>1 DEF NumbersOf

(* Fixed types have a width.                                               *)
LEMMA WidthType == \A type : WidthOf(type) \in Nat
BY FixedAssumption DEF WidthOf

(* What is read into a scalar member is a value it can have.               *)
LEMMA ReadIsScalar ==
  ASSUME NEW type, NEW buf \in Seq(Byte), NEW p \in Nat \ {0}
  PROVE  /\ ReadScalar(type, buf, p).ptr \in Nat
         /\ ReadScalar(type, buf, p).value \in ScalarStates(type)
<1> USE DEF ScalarStates
<1>2. CASE type \in FixedTypes
  <2>1. WidthOf(type) \in Nat
    BY WidthType
  <2>2. Memory(buf, p, WidthOf(type)) \in [1 .. WidthOf(type) -> Byte]
    BY <2>1, MemoryIsBytes
  <2> QED
    BY <1>2, <2>1, <2>2 DEF ReadScalar, CopyBytes
<1>3. CASE type \notin FixedTypes
  <2> DEFINE r == ReadVarint(buf, p)
  <2>1. r \in Readings(Word)
    BY ReadersAreTyped
  <2> HIDE DEF r
  <2>2. r.ptr \in Nat /\ r.value \in 0 .. Word - 1
    BY <2>1 DEF Readings
  <2>3. ReadScalar(type, buf, p) = [r EXCEPT !.value = Cast(cpp_scalar_type[type], @)]
    BY <1>3 DEF ReadScalar, r
  <2>4. /\ ReadScalar(type, buf, p).ptr = r.ptr
        /\ ReadScalar(type, buf, p).value = Cast(cpp_scalar_type[type], r.value)
    BY <2>1, <2>3 DEF Readings
  <2>5. Cast(cpp_scalar_type[type], r.value) \in NumbersOf(cpp_scalar_type[type])
    BY <2>2, CastsFit
  <2> QED
    BY <1>3, <2>2, <2>4, <2>5
<1> QED
  BY <1>2, <1>3

(* A number has as many bytes as VarintSize() says.                        *)
LEMMA NumbersAreMeasured ==
  \A n \in Nat : /\ WriteVarint(n) \in Seq(Byte) /\ Len(WriteVarint(n)) = VarintSize(n)
                 /\ VarintSize(n) \in Nat \ {0}
BY BytesOfNumber, DigitsOfNumber, SizeOfNumber

(* Two sequences of bytes, one after the other.                            *)
LEMMA LengthsAdd ==
  ASSUME NEW a \in Seq(Byte), NEW b \in Seq(Byte)
  PROVE  a \o b \in Seq(Byte) /\ Len(a \o b) = Len(a) + Len(b)
OBVIOUS

(* Numbers of up to 64 bits are extended to numbers.                       *)
LEMMA ScalarIsMeasured ==
  ASSUME NEW type, NEW v \in ScalarStates(type)
  PROVE  /\ ScalarBytes(type, v) \in Seq(Byte)
         /\ Len(ScalarBytes(type, v)) = ScalarSize(type, v)
         /\ ScalarSize(type, v) \in Nat
<1> USE DEF ScalarStates
<1>2. CASE type \in FixedTypes
  <2>1. WidthOf(type) \in Nat /\ v \in [1 .. WidthOf(type) -> Byte]
    BY <1>2, WidthType
  <2>2. v \in Seq(Byte) /\ Len(v) = WidthOf(type)
    BY <2>1
  <2> QED
    BY <1>2, <2>1, <2>2 DEF ScalarBytes, ScalarSize
<1>3. CASE type \notin FixedTypes
  <2>1. Widened(type, v) \in Nat
    <3>1. Word \in Nat /\ Word32 \in Nat /\ Word32 < Word /\ v \in Nat
      BY <1>3, NumbersFit, WordAssumption
    <3> QED
      BY <3>1 DEF Widened
  <2> QED
    BY <1>3, <2>1, NumbersAreMeasured DEF ScalarBytes, ScalarSize
<1> QED
  BY <1>2, <1>3

(* Memory finds the bytes that stand there.                                *)
LEMMA MemoryFinds ==
  ASSUME NEW buf \in Seq(Byte), NEW p \in Nat \ {0}, NEW s \in Seq(Byte), Holds(buf, p, s)
  PROVE  Memory(buf, p, Len(s)) = s
<1>1. Len(s) \in Nat /\ Len(buf) \in Nat /\ DOMAIN buf = 1 .. Len(buf)
  OBVIOUS
<1>2. Memory(buf, p, Len(s)) \in Seq(Byte) /\ Len(Memory(buf, p, Len(s))) = Len(s)
  BY <1>1, MemoryIsBytes
<1>3. ASSUME NEW i \in 1 .. Len(s)
      PROVE  Memory(buf, p, Len(s))[i] = s[i]
  <2>1. p + i - 1 \in DOMAIN buf
    BY <1>1 DEF Holds
  <2>2. Memory(buf, p, Len(s))[i] = buf[p + i - 1]
    BY <2>1 DEF Memory
  <2> QED
    BY <2>2 DEF Holds
<1> QED
  BY <1>2, <1>3

(* A number that was written is read.                                      *)
LEMMA NumbersAreFound ==
  ASSUME NEW buf \in Seq(Byte), NEW p \in Nat \ {0}, NEW n \in Nat,
         Holds(buf, p, WriteVarint(n))
  PROVE  /\ n < Word => ReadVarint(buf, p) = [ptr |-> p + Len(WriteVarint(n)), value |-> n]
         /\ n < Word32 => ReadVarint32(buf, p) = [ptr |-> p + Len(WriteVarint(n)), value |-> n]
<1>1. Word \in Nat /\ Word32 \in Nat /\ Groups \in Nat /\ Groups32 \in Nat
  BY WordAssumption
<1>2. Len(WriteVarint(n)) = VarintSize(n)
  BY NumbersAreMeasured
<1>3. StandsAt(buf, p, n)
  BY <1>2 DEF Holds, StandsAt
<1>4. ASSUME n < Word
      PROVE  ReadVarint(buf, p) = [ptr |-> p + VarintSize(n), value |-> n]
  <2>1. n \in 0 .. Word - 1
    BY <1>1, <1>4
  <2>2. VarintSize(n) <= Groups
    BY <2>1, SizesFit
  <2> QED
    BY <1>1, <1>3, <2>1, <2>2, NumberIsRead DEF ReadVarint
<1>5. ASSUME n < Word32
      PROVE  ReadVarint32(buf, p) = [ptr |-> p + VarintSize(n), value |-> n]
  <2>1. n \in 0 .. Word32 - 1
    BY <1>1, <1>5
  <2>2. VarintSize(n) <= Groups32
    BY <2>1, SizesFit
  <2> QED
    BY <1>1, <1>3, <2>1, <2>2, NumberIsRead DEF ReadVarint32
<1> QED
  BY <1>2, <1>4, <1>5

(* A long word has the room of at least two short ones.                    *)
LEMMA WordsAreFar ==
  /\ \E c \in Nat : Word - Word32 = Word32 * c
  /\ Word32 <= Word - Word32
<1>1. Word \in Nat /\ Word32 \in Nat \ {0} /\ Word32 < Word /\ Word % Word32 = 0
  BY WordAssumption
<1> DEFINE q == Word \div Word32
<1>2. q \in Nat /\ Word = (Word32 * q) + (Word % Word32)
  BY <1>1, Divides
<1> HIDE DEF q
<1>3. Word = Word32 * q /\ q # 0 /\ q # 1
  <2>1. Word32 * q \in Nat
    BY <1>1, <1>2
  <2>2. Word = Word32 * q
    BY <1>1, <1>2, <2>1
  <2>3. Word32 * 0 = 0 /\ Word32 * 1 = Word32
    BY <1>1
  <2> QED
    BY <1>1, <2>2, <2>3
<1> DEFINE c == q - 2
<1>4. c \in Nat /\ q = c + 2 /\ c + 1 \in Nat
  BY <1>2, <1>3
<1> HIDE DEF c
<1>5. Word32 * (c + 1) = Word32 * c + Word32 /\ Word32 * c \in Nat
  BY <1>1, <1>4
<1>6. Word32 * ((c + 1) + 1) = Word32 * (c + 1) + Word32 /\ (c + 1) + 1 = c + 2
  BY <1>1, <1>4
<1>7. Word = Word32 * (c + 1) + Word32
  BY <1>3, <1>4, <1>6
<1>8. Word - Word32 = Word32 * (c + 1) /\ Word32 <= Word - Word32
  BY <1>1, <1>5, <1>7
<1> QED
  BY <1>4, <1>8

(* Extended to 64 bits, a number of a varint type is one, and the cast to  *)
(* its type gives it back.                                                 *)
LEMMA CastsRestore ==
  ASSUME NEW type \in VarintTypes, NEW v \in NumbersOf(cpp_scalar_type[type])
  PROVE  /\ Widened(type, v) \in Nat /\ Widened(type, v) < Word
         /\ Cast(cpp_scalar_type[type], Widened(type, v)) = v
<1> DEFINE cpp == cpp_scalar_type[type]
<1>1. v \in Nat /\ v < Word /\ (cpp \in {"int32_t", "uint32_t"} => v < Word32)
  BY NumbersFit
<1>2. Word \in Nat /\ Word32 \in Nat \ {0} /\ Word32 < Word /\ Word % Word32 = 0
  BY WordAssumption
<1> HIDE DEF cpp
<1>3. CASE cpp = "int32_t" /\ v >= Word32 \div 2
  <2>3. PICK c \in Nat : Word - Word32 = Word32 * c
    BY WordsAreFar
  <2>4. Widened(type, v) = v + (Word - Word32)
    BY <1>3 DEF Widened, cpp
  <2>5. v \in 0 .. Word32 - 1
    BY <1>1, <1>2, <1>3
  <2>6. Word - Word32 \in Nat
    BY <1>2
  <2>7. Widened(type, v) = (Word32 * c) + v
    BY <1>1, <2>3, <2>4, <2>6
  <2>8. Widened(type, v) % Word32 = v
      <3>1. ((Word32 * c) + v) % Word32 = v
      BY <1>2, <2>5, DivisionIsUnique
    <3> QED
      BY <2>7, <3>1
  <2>9. Widened(type, v) \in Nat /\ Widened(type, v) < Word
    BY <1>2, <2>4, <2>5
  <2> QED
    BY <1>3, <2>8, <2>9 DEF Cast, cpp
<1>4. CASE ~ (cpp = "int32_t" /\ v >= Word32 \div 2)
  <2>1. Widened(type, v) = v
    BY <1>4 DEF Widened, cpp
  <2>2. Cast(cpp, v) = v
    <3>1. CASE cpp = "bool"
      <4>1. v \in 0 .. 1
        BY <3>1 DEF NumbersOf, cpp
      <4>2. v = 0 \/ v = 1
        BY <4>1
      <4> QED
        BY <3>1, <4>2 DEF Cast
    <3>2. CASE cpp \in {"int32_t", "uint32_t"}
      <4>1. v \in 0 .. Word32 - 1
        BY <1>1, <1>2, <3>2
      <4>2. v % Word32 = v
        BY <1>2, <4>1, LittleRemains
      <4> QED
        BY <3>2, <4>2 DEF Cast
    <3>3. CASE cpp # "bool" /\ cpp \notin {"int32_t", "uint32_t"}
      BY <3>3 DEF Cast
    <3> QED
      BY <3>1, <3>2, <3>3
  <2> QED
    BY <1>1, <2>1, <2>2 DEF cpp
<1> QED
  BY <1>3, <1>4

(* A number is its own zigzag form only if it is zero, if a word has an    *)
(* even number of bits,                                                    *)
LEMMA ZigZagMoves ==
  ASSUME NEW word \in Nat, word > 2, word % 3 # 2, NEW v \in 0 .. word - 1
  PROVE  ZigZag(v, word) \in Nat /\ (ZigZag(v, word) = v <=> v = 0)
<1>1. 3 \in Nat \ {0}
  OBVIOUS
<1>2. CASE v >= word \div 2
  <2>1. v # 0 /\ 2 * (word - v) - 1 \in Nat
    BY <1>1, <1>2
  <2>2. 2 * (word - v) - 1 # v
    <3> SUFFICES ASSUME 2 * (word - v) - 1 = v
                 PROVE  FALSE
      OBVIOUS
    <3>1. 2 * word = 3 * v + 1
      BY <1>1
    <3>2. \E k \in Nat : word = (3 * k) + 2
      <4> DEFINE k == word - v - 1
      <4>1. k \in Nat /\ v = 2 * k + 1
        BY <1>1
      <4> HIDE DEF k
      <4> QED
        BY <1>1, <3>1, <4>1
    <3>3. PICK k \in Nat : word = (3 * k) + 2
      BY <3>2
    <3>4. 2 \in 0 .. 3 - 1
      OBVIOUS
    <3>5. ((3 * k) + 2) % 3 = 2
      BY <1>1, <3>4, DivisionIsUnique
    <3> QED
      BY <3>3, <3>5
  <2> QED
    BY <1>2, <2>1, <2>2 DEF ZigZag
<1>3. CASE ~ (v >= word \div 2)
  BY <1>1, <1>3 DEF ZigZag
<1> QED
  BY <1>2, <1>3

(* and with 32 it is the extended number only if that is zero.             *)
LEMMA ZigZagExtends ==
  ASSUME NEW v \in 0 .. Word32 - 1
  PROVE  /\ ZigZag(v, Word32) \in Nat
         /\ ZigZag(v, Word32) = (IF v >= Word32 \div 2 THEN v + (Word - Word32) ELSE v) <=> v = 0
<1>1. Word \in Nat /\ Word32 \in Nat /\ Word32 > 2 /\ Word32 <= Word - Word32
  BY WordAssumption, WordsAreFar
<1>2. CASE v >= Word32 \div 2
  <2>1. v # 0 /\ 2 * (Word32 - v) - 1 \in Nat /\ 2 * (Word32 - v) - 1 # v + (Word - Word32)
    BY <1>1, <1>2
  <2> QED
    BY <1>2, <2>1 DEF ZigZag
<1>3. CASE ~ (v >= Word32 \div 2)
  BY <1>1, <1>3 DEF ZigZag
<1> QED
  BY <1>2, <1>3

(* A type that is not a sint has the protobuf encoding.                    *)
LEMMA PlainIsProtobuf ==
  ASSUME NEW type \in ScalarTypes, type \notin {"sint32", "sint64"}, NEW v \in ScalarStates(type)
  PROVE  ProtobufBytes(type, v) = ScalarBytes(type, v)
<1>1. CASE type \in FixedTypes
  BY <1>1 DEF ScalarBytes, ProtobufBytes, FixedTypes, Fixed64Types, Fixed32Types
<1>2. CASE type \notin FixedTypes
  <2>1. v \in NumbersOf(cpp_scalar_type[type]) /\ ScalarBytes(type, v) = WriteVarint(Widened(type, v))
    BY <1>2 DEF ScalarStates, ScalarBytes
  <2>2. v \in Nat
    BY <2>1, NumbersFit
  <2>3. Widened(type, v) = IF type \in {"int32", "enum"} /\ ~ (v < Word32 \div 2)
                           THEN v + Word - Word32 ELSE v
    <3>1. Word \in Nat /\ Word32 \in Nat
      BY WordAssumption
    <3>2. cpp_scalar_type[type] = "int32_t" <=> type \in {"int32", "enum"}
      BY <1>2 DEF cpp_scalar_type, ScalarTypes, FixedTypes, Fixed64Types, Fixed32Types
    <3> QED
      BY <2>2, <3>1, <3>2 DEF Widened
  <2>4. ProtobufBytes(type, v) = WriteVarint(Widened(type, v))
    BY <1>2, <2>3 DEF ProtobufBytes
  <2> QED
    BY <2>1, <2>4
<1> QED
  BY <1>1, <1>2

(* A scalar that was written is read.                                      *)
LEMMA ScalarIsFound ==
  ASSUME NEW type \in ScalarTypes, NEW v \in ScalarStates(type),
         NEW buf \in Seq(Byte), NEW p \in Nat \ {0}, Holds(buf, p, ScalarBytes(type, v))
  PROVE  ReadScalar(type, buf, p) = [ptr |-> p + Len(ScalarBytes(type, v)), value |-> v]
<1> USE DEF ScalarStates
<1>3. CASE type \in FixedTypes
  <2>1. WidthOf(type) \in Nat /\ v \in [1 .. WidthOf(type) -> Byte]
    BY <1>3, WidthType
  <2>2. v \in Seq(Byte) /\ Len(v) = WidthOf(type)
    BY <2>1
  <2>3. ScalarBytes(type, v) = v
    BY <1>3 DEF ScalarBytes
  <2>4. Memory(buf, p, WidthOf(type)) = v
    BY <2>2, <2>3, MemoryFinds
  <2> QED
    BY <1>3, <2>2, <2>3, <2>4 DEF ReadScalar, CopyBytes
<1>4. CASE type \notin FixedTypes
  <2> DEFINE x == Widened(type, v)
             cpp == cpp_scalar_type[type]
             r == ReadVarint(buf, p)
             q == p + Len(WriteVarint(x))
  <2>1. x \in Nat /\ x < Word /\ Cast(cpp, x) = v
    BY <1>4, CastsRestore DEF VarintTypes
  <2>2. ScalarBytes(type, v) = WriteVarint(x)
    BY <1>4 DEF ScalarBytes
  <2>3. r = [ptr |-> q, value |-> x]
    <3> HIDE DEF x
    <3> QED
      BY <2>1, <2>2, NumbersAreFound
  <2>4. ReadScalar(type, buf, p) = [r EXCEPT !.value = Cast(cpp, @)]
    BY <1>4 DEF ReadScalar
  <2> HIDE DEF r, q, cpp, x
  <2>5. ReadScalar(type, buf, p) = [ptr |-> q, value |-> Cast(cpp, x)]
    BY <2>3, <2>4
  <2> QED
    BY <2>1, <2>2, <2>5 DEF q
<1> QED
  BY <1>3, <1>4

(* A sint is not written in the protobuf encoding, but for zero.           *)
LEMMA SintsDiffer ==
  ASSUME NEW type \in {"sint32", "sint64"}, NEW v \in ScalarStates(type), Word % 3 # 2
  PROVE  /\ ScalarBytes(type, v) = ProtobufBytes(type, v) <=> v = 0
         /\ v \in IF type = "sint32" THEN 0 .. Word32 - 1 ELSE 0 .. Word - 1
<1>1. type \in VarintTypes /\ type \notin FixedTypes
  BY DEF VarintTypes, FixedTypes, Fixed64Types, Fixed32Types, ScalarTypes, cpp_scalar_type
<1>2. v \in NumbersOf(cpp_scalar_type[type]) /\ ScalarBytes(type, v) = WriteVarint(Widened(type, v))
  BY <1>1 DEF ScalarStates, ScalarBytes
<1>3. v \in Nat /\ Widened(type, v) \in Nat
  BY <1>1, <1>2, CastsRestore, NumbersFit
<1>4. CASE type = "sint32"
  <2>1. v \in 0 .. Word32 - 1
    BY <1>2, <1>4 DEF NumbersOf, cpp_scalar_type
  <2>2. Widened(type, v) = IF v >= Word32 \div 2 THEN v + (Word - Word32) ELSE v
    BY <1>4 DEF Widened, cpp_scalar_type
  <2>3. ZigZag(v, Word32) \in Nat /\ (ZigZag(v, Word32) = Widened(type, v) <=> v = 0)
    BY <2>1, <2>2, ZigZagExtends
  <2>4. ProtobufBytes(type, v) = WriteVarint(ZigZag(v, Word32))
    BY <1>1, <1>4 DEF ProtobufBytes
  <2> QED
    BY <1>2, <1>3, <1>4, <2>1, <2>3, <2>4, NumbersDiffer
<1>5. CASE type = "sint64"
  <2>1. v \in 0 .. Word - 1
    BY <1>2, <1>5 DEF NumbersOf, cpp_scalar_type
  <2>2. Widened(type, v) = v
    BY <1>5 DEF Widened, cpp_scalar_type
  <2>3. ZigZag(v, Word) \in Nat /\ (ZigZag(v, Word) = Widened(type, v) <=> v = 0)
    BY <2>1, <2>2, ZigZagMoves, WordAssumption
  <2>4. ProtobufBytes(type, v) = WriteVarint(ZigZag(v, Word))
    BY <1>1, <1>5 DEF ProtobufBytes
  <2> QED
    BY <1>2, <1>3, <1>5, <2>1, <2>3, <2>4, NumbersDiffer
<1> QED
  BY <1>4, <1>5

(***************************************************************************)
(* Well-formed fields.                                                     *)
(***************************************************************************)

(* Wherever these bytes stand they are read as n.                          *)
Says(bytes, n) ==
  /\ bytes \in Seq(Byte)
  /\ \A s \in Seq(Byte), p \in Nat \ {0} : Holds(s, p, bytes) =>
       ReadLoop(s, p, Groups, Word) = [ptr |-> p + Len(bytes), value |-> n]

(* Wherever this body stands behind its tag, both versions of the skipper  *)
(* get to its end.                                                         *)
Passes(tag, body) ==
  /\ body \in Seq(Byte)
  /\ \A s \in Seq(Byte), p \in Nat \ {0} : Holds(s, p, body) =>
       /\ SkipFieldInline(s, p, tag) = p + Len(body)
       /\ SkipField(s, p, tag) = p + Len(body)

(* What stands in a buffer ends inside it.                                 *)
LEMMA EndsInside ==
  ASSUME NEW s \in Seq(Byte), NEW p \in Nat \ {0}, NEW b \in Seq(Byte), Holds(s, p, b)
  PROVE  /\ p + Len(b) \in Nat \ {0} /\ Inside(s, p + Len(b))
         /\ StreamAt(s, p + Len(b)) = p + Len(b)
<1>1. Len(b) \in Nat /\ Len(s) \in Nat /\ p + Len(b) - 1 <= Len(s)
  BY DEF Holds
<1>2. p + Len(b) \in Nat \ {0} /\ Inside(s, p + Len(b))
  BY <1>1 DEF Inside
<1> QED
  BY <1>2, StreamIsInside

(* What is written says so.                                                *)
LEMMA WritingSays ==
  ASSUME NEW n \in 0 .. Word - 1
  PROVE  Says(WriteVarint(n), n)
<1>1. Word \in Nat /\ n \in Nat /\ n < Word
  BY WordAssumption
<1>2. WriteVarint(n) \in Seq(Byte)
  BY <1>1, NumbersAreMeasured
<1> QED
  BY <1>1, <1>2, NumbersAreFound DEF Says, ReadVarint

(* Both versions read it.                                                  *)
LEMMA SaidIsRead ==
  ASSUME NEW bytes, NEW n \in 0 .. Word32 - 1, Says(bytes, n),
         NEW s \in Seq(Byte), NEW p \in Nat \ {0}, Holds(s, p, bytes)
  PROVE  /\ ReadVarint32Inline(s, p) = [ptr |-> p + Len(bytes), value |-> n]
         /\ StreamVarint(s, p, Word32) = [ptr |-> p + Len(bytes), value |-> n]
         /\ n # 0 => StreamReadTag(s, p) = [ptr |-> p + Len(bytes), value |-> n]
<1> DEFINE r == [ptr |-> p + Len(bytes), value |-> n]
<1>1. ReadLoop(s, p, Groups, Word) = r /\ bytes \in Seq(Byte)
  BY DEF Says
<1>2. Inside(s, p + Len(bytes)) /\ p + Len(bytes) \in Nat \ {0}
  BY <1>1, EndsInside
<1>3. ReadVarint32Inline(s, p) = r
  <2>1. ~ (r.value >= Word32)
    BY WordAssumption
  <2> QED
    BY <1>1, <2>1 DEF ReadVarint32Inline, ReadVarint64Inline
<1>4. StreamVarint(s, p, Word32) = r
  <2>1. Inside(s, ReadVarint32Inline(s, p).ptr)
    BY <1>2, <1>3
  <2> QED
    BY <1>3, <2>1, NumbersAgree
<1>5. StreamReadTag(s, p) = r
  BY <1>2, <1>4 DEF StreamReadTag, Null
<1> QED
  BY <1>3, <1>4, <1>5

(* Numbers are skipped,                                                    *)
LEMMA VarintsPass ==
  ASSUME NEW tag, WireType(tag) = VARINT, NEW bytes, NEW n, Says(bytes, n)
  PROVE  Passes(tag, bytes)
<1>1. ASSUME NEW s \in Seq(Byte), NEW p \in Nat \ {0}, Holds(s, p, bytes)
      PROVE  /\ SkipFieldInline(s, p, tag) = p + Len(bytes)
             /\ SkipField(s, p, tag) = p + Len(bytes)
  <2>1. ReadLoop(s, p, Groups, Word).ptr = p + Len(bytes) /\ bytes \in Seq(Byte)
    BY <1>1 DEF Says
  <2>2. Word \in Nat \ {0}
    BY WordAssumption
  <2>3. StreamVarint(s, p, Word).ptr = StreamAt(s, p + Len(bytes))
    BY <2>1, <2>2, StreamVarintIsTyped
  <2>4. SkipVarintInline(s, p) = p + Len(bytes) /\ SkipVarint(s, p) = p + Len(bytes)
    BY <1>1, <2>1, <2>3, EndsInside DEF SkipVarintInline, SkipVarint
  <2> QED
    BY <2>4 DEF SkipFieldInline, SkipField, SkipScalarInline, SkipScalar,
         VARINT, FIXED64, LENGTH_DELIMITED, FIXED32, START_GROUP
<1> QED
  BY <1>1 DEF Passes, Says

(* bytes of a fixed number,                                                *)
LEMMA FixedPass ==
  ASSUME NEW tag, NEW body \in Seq(Byte),
         \/ WireType(tag) = FIXED64 /\ Len(body) = Fixed64Size
         \/ WireType(tag) = FIXED32 /\ Len(body) = Fixed32Size
  PROVE  Passes(tag, body)
<1>1. ASSUME NEW s \in Seq(Byte), NEW p \in Nat \ {0}, Holds(s, p, body)
      PROVE  /\ SkipFieldInline(s, p, tag) = p + Len(body)
             /\ SkipField(s, p, tag) = p + Len(body)
  <2>1. StreamAt(s, p + Len(body)) = p + Len(body)
    BY <1>1, EndsInside
  <2>2. CASE WireType(tag) = FIXED64 /\ Len(body) = Fixed64Size
    BY <2>1, <2>2 DEF SkipFieldInline, SkipField, SkipScalarInline, SkipScalar, SkipFixed64Inline,
         SkipFixed64, VARINT, FIXED64, LENGTH_DELIMITED, FIXED32, START_GROUP
  <2>3. CASE WireType(tag) = FIXED32 /\ Len(body) = Fixed32Size
    BY <2>1, <2>3 DEF SkipFieldInline, SkipField, SkipScalarInline, SkipScalar, SkipFixed32Inline,
         SkipFixed32, VARINT, FIXED64, LENGTH_DELIMITED, FIXED32, START_GROUP
  <2> QED
    BY <2>2, <2>3
<1> QED
  BY <1>1 DEF Passes

(* bytes behind their number,                                              *)
LEMMA DelimitedPass ==
  ASSUME NEW tag, WireType(tag) = LENGTH_DELIMITED,
         NEW payload \in Seq(Byte), Len(payload) < Word32 \div 2,
         NEW size, Says(size, Len(payload))
  PROVE  Passes(tag, size \o payload)
<1>1. size \in Seq(Byte)
  BY DEF Says
<1> DEFINE body == size \o payload
           n    == Len(payload)
           half == Word32 \div 2
<1>2. n \in Nat /\ half \in Nat /\ n \in 0 .. Word32 - 1 /\ ~ (n >= half)
  <2>1. Word32 \in Nat
    BY WordAssumption
  <2> QED
    BY <2>1
<1>3. body \in Seq(Byte) /\ Len(body) = Len(size) + n /\ Len(size) \in Nat
  BY <1>1
<1>4. ASSUME NEW s \in Seq(Byte), NEW p \in Nat \ {0}, Holds(s, p, body)
      PROVE  /\ SkipFieldInline(s, p, tag) = p + Len(body)
             /\ SkipField(s, p, tag) = p + Len(body)
  <2>1. Holds(s, p, size)
    BY <1>1, <1>4, BothStand
  <2> HIDE DEF body, n, half
  <2>2. /\ ReadVarint32Inline(s, p) = [ptr |-> p + Len(size), value |-> n]
        /\ StreamVarint(s, p, Word32) = [ptr |-> p + Len(size), value |-> n]
    BY <1>2, <2>1, SaidIsRead DEF n
  <2>3. p + Len(size) # Null /\ (p + Len(size)) + n = p + Len(body)
    BY <1>2, <1>3 DEF Null
  <2>4. SkipLengthDelimitedInline(s, p) = p + Len(body)
    BY <2>2, <2>3 DEF SkipLengthDelimitedInline
  <2>5. StreamAt(s, p + Len(body)) = p + Len(body)
    BY <1>3, <1>4, EndsInside
  <2>6. SkipLengthDelimited(s, p) = p + Len(body)
    BY <1>2, <2>2, <2>3, <2>5 DEF SkipLengthDelimited, StreamSkip, half
  <2> QED
    BY <2>4, <2>6 DEF SkipFieldInline, SkipField, SkipScalarInline, SkipScalar,
         VARINT, FIXED64, LENGTH_DELIMITED, FIXED32, START_GROUP
<1> QED
  BY <1>3, <1>4 DEF Passes

(* A field that can be in a group, or be skipped: its tag is not zero and  *)
(* ends no group.                                                          *)
Skippable(tag, head, body) ==
  /\ tag \in 1 .. Word32 - 1 /\ WireType(tag) # END_GROUP
  /\ Says(head, tag) /\ Passes(tag, body)

(* What is in a group: n such fields, of which w is made; and what is      *)
(* around it.                                                              *)
Fills(w, n, tags, heads, bodies) ==
  /\ Len(w) = n /\ (n = 0 => w = <<>>)
  /\ \A i \in 1 .. n : /\ Skippable(tags[i], heads[i], bodies[i])
                       /\ w[i] = heads[i] \o bodies[i]
Surrounds(tag, foot, end) ==
  /\ tag \in Nat /\ WireType(tag) = START_GROUP
  /\ end \in 1 .. Word32 - 1 /\ WireType(end) = END_GROUP
  /\ Number(end) = Number(tag) /\ Says(foot, end)

(* And groups of such fields are skipped: whatever is in a group, and      *)
(* however deep, it is skipped to its end tag.                             *)
LEMMA GroupsPass ==
  ASSUME NEW n \in Nat, NEW w, NEW tags, NEW heads, NEW bodies, Fills(w, n, tags, heads, bodies),
         NEW tag, NEW foot, NEW end, Surrounds(tag, foot, end)
  PROVE  Passes(tag, FlattenSeq(w) \o foot)
<1> USE DEF Fills, Surrounds
<1> DEFINE inner == FlattenSeq(w)
           body  == inner \o foot
           num   == Number(tag)
<1>1. /\ \A i \in 1 .. n : heads[i] \in Seq(Byte) /\ bodies[i] \in Seq(Byte) /\ w[i] \in Seq(Byte)
      /\ foot \in Seq(Byte) /\ num \in Nat
  <2>1. \A i \in 1 .. n : heads[i] \in Seq(Byte) /\ bodies[i] \in Seq(Byte)
    BY DEF Skippable, Says, Passes
  <2>2. ASSUME NEW i \in 1 .. n
        PROVE  w[i] \in Seq(Byte)
    <3>1. heads[i] \o bodies[i] \in Seq(Byte)
      BY <2>1, LengthsAdd
    <3> QED
      BY <3>1
  <2> QED
    BY <2>1, <2>2 DEF Says, Number
<1>2. PICK part : Grows(part, w, n)
  BY <1>1, PartsExist
<1>3. inner = part[n] /\ inner \in Seq(Byte)
  BY <1>1, <1>2, FlattenedIsPart
<1>4. body \in Seq(Byte) /\ Len(body) = Len(inner) + Len(foot)
      /\ Len(inner) \in Nat /\ Len(foot) \in Nat
  BY <1>1, <1>3
<1> HIDE DEF inner, num
<1>5. ASSUME NEW s \in Seq(Byte), NEW p \in Nat \ {0}, Holds(s, p, body)
      PROVE  /\ SkipGroupInline(s, p, tag) = p + Len(body)
             /\ SkipGroup(s, p, tag) = p + Len(body)
  <2>1. PICK f \in Calls :
          /\ Known(s, InlineTags(s), InlineScalars(s), f, 0)
          /\ \A start \in Nat, t \in Nat : SkipGroupInline(s, start, t) = f[start][Number(t)]
    BY InlineWalks
  <2>2. PICK g \in Calls :
          /\ Known(s, StreamTags(s), StreamScalars(s), g, 0)
          /\ \A start \in Nat, t \in Nat : SkipGroup(s, start, t) = g[start][Number(t)]
    BY StreamWalks
  <2>3. ASSUME NEW q \in Nat
        PROVE  /\ f[q][num] = InlineStep(s, f, q, num)
               /\ g[q][num] = StreamStep(s, g, q, num)
    <3>1. /\ Skips(s, InlineTags(s), InlineScalars(s), f, q)
          /\ Skips(s, StreamTags(s), StreamScalars(s), g, q)
      BY <2>1, <2>2 DEF Known, Null
    <3> QED
      BY <1>1, <3>1, InlineSteps, StreamSteps DEF Skips
  <2>4. Holds(s, p, inner) /\ Holds(s, p + Len(inner), foot)
    BY <1>1, <1>3, <1>5, BothStand
  <2> DEFINE at[k \in 0 .. n] == p + Len(part[k])
  <2>5. /\ \A k \in 0 .. n : at[k] = p + Len(part[k]) /\ part[k] \in Seq(Byte)
                             /\ Len(part[k]) \in Nat /\ at[k] \in Nat \ {0}
        /\ at[0] = p /\ at[n] = p + Len(inner)
    <3>1. \A k \in 0 .. n : at[k] = p + Len(part[k])
      OBVIOUS
    <3>2. \A k \in 0 .. n : part[k] \in Seq(Byte)
      BY <1>2 DEF Grows
    <3>3. part[0] = <<>> /\ 0 \in 0 .. n /\ n \in 0 .. n
      BY <1>2 DEF Grows
    <3> HIDE DEF at
    <3>4. \A k \in 0 .. n : Len(part[k]) \in Nat /\ p + Len(part[k]) \in Nat \ {0}
      BY <3>2
    <3>5. Len(part[0]) = 0 /\ p + 0 = p
      BY <3>3
    <3> QED
      BY <1>3, <3>1, <3>2, <3>3, <3>4, <3>5
  <2> HIDE DEF at
  <2>6. ASSUME NEW k \in 0 .. n - 1
        PROVE  f[at[k]][num] = f[at[k + 1]][num] /\ g[at[k]][num] = g[at[k + 1]][num]
    <3> DEFINE q == at[k]
               t == tags[k + 1]
               h == heads[k + 1]
               b == bodies[k + 1]
    <3>1. k \in 0 .. n /\ k + 1 \in 0 .. n /\ k + 1 \in 1 .. n /\ (k + 1) - 1 = k
      OBVIOUS
    <3>2. Skippable(t, h, b) /\ w[k + 1] = h \o b /\ h \in Seq(Byte) /\ b \in Seq(Byte)
      BY <1>1, <3>1
    <3>3. part[k + 1] = part[k] \o w[k + 1]
      BY <1>2, <3>1 DEF Grows
    <3>4. Holds(s, q, h \o b)
      <4>1. Holds(part[n], Len(part[k]) + 1, w[k + 1])
        BY <1>1, <1>2, PartsStand
      <4>2. Holds(s, p, part[n])
        BY <1>3, <2>4
      <4>3. /\ p + Len(part[n]) - 1 <= Len(s)
            /\ \A i \in 1 .. Len(part[n]) : s[p + i - 1] = part[n][i]
        BY <4>2 DEF Holds
      <4> DEFINE c == Len(part[k])
                 m == Len(w[k + 1])
                 M == Len(part[n])
      <4>4. /\ c + 1 + m - 1 <= M
            /\ \A i \in 1 .. m : part[n][c + 1 + i - 1] = w[k + 1][i]
        BY <4>1 DEF Holds
      <4>5. c \in Nat /\ m \in Nat /\ M \in Nat /\ Len(s) \in Nat /\ q = p + c
        BY <1>1, <1>3, <2>5, <3>1
      <4> HIDE DEF c, m, M, q
      <4>6. q + m - 1 <= Len(s)
        BY <4>3, <4>4, <4>5 DEF M
      <4>7. ASSUME NEW i \in 1 .. m
            PROVE  s[q + i - 1] = w[k + 1][i]
        <5>1. c + i \in 1 .. M /\ c + 1 + i - 1 = c + i /\ p + (c + i) - 1 = q + i - 1
          BY <4>4, <4>5
        <5>2. part[n][c + i] = w[k + 1][i]
          BY <4>4, <5>1
        <5>3. s[p + (c + i) - 1] = part[n][c + i]
          BY <4>3, <5>1 DEF M
        <5> QED
          BY <5>1, <5>2, <5>3
      <4> QED
        BY <3>2, <4>6, <4>7 DEF Holds, m
    <3>5. q \in Nat \ {0} /\ at[k + 1] = (q + Len(h)) + Len(b) /\ q + Len(h) \in Nat \ {0}
      <4>1. Len(part[k + 1]) = Len(part[k]) + (Len(h) + Len(b)) /\ Len(h) \in Nat /\ Len(b) \in Nat
        BY <2>5, <3>1, <3>2, <3>3
      <4>2. at[k + 1] = p + Len(part[k + 1]) /\ q = p + Len(part[k]) /\ Len(part[k]) \in Nat
        BY <2>5, <3>1
      <4> DEFINE c == Len(part[k])
                 H == Len(h)
                 B == Len(b)
      <4>3. at[k + 1] = p + (c + (H + B)) /\ q = p + c /\ c \in Nat /\ H \in Nat /\ B \in Nat
        BY <4>1, <4>2
      <4> HIDE DEF q, c, H, B
      <4>4. q \in Nat \ {0} /\ at[k + 1] = (q + H) + B /\ q + H \in Nat \ {0}
        BY <4>3
      <4> QED
        BY <4>4 DEF H, B
    <3> HIDE DEF q, t, h, b
    <3>6. Holds(s, q, h) /\ Holds(s, q + Len(h), b)
      BY <3>2, <3>4, <3>5, BothStand
    <3>7. /\ t \in 1 .. Word32 - 1 /\ t \in Nat /\ t \in 0 .. Word32 - 1 /\ t # 0
          /\ WireType(t) # END_GROUP /\ Number(t) \in Nat
      <4>1. t \in 1 .. Word32 - 1 /\ WireType(t) # END_GROUP
        BY <3>2 DEF Skippable
      <4>2. Word32 \in Nat
        BY WordAssumption
      <4>3. t \in Nat /\ t \in 0 .. Word32 - 1 /\ t # 0
        BY <4>1, <4>2
      <4> QED
        BY <4>1, <4>3 DEF Number
    <3>8. /\ ReadVarint32Inline(s, q) = [ptr |-> q + Len(h), value |-> t]
          /\ StreamReadTag(s, q) = [ptr |-> q + Len(h), value |-> t]
      BY <3>2, <3>5, <3>6, <3>7, SaidIsRead DEF Skippable
    <3>9. /\ SkipFieldInline(s, q + Len(h), t) = at[k + 1]
          /\ SkipField(s, q + Len(h), t) = at[k + 1]
      BY <3>2, <3>5, <3>6 DEF Skippable, Passes
    <3>10. /\ at[k + 1] = IF WireType(t) = START_GROUP THEN f[q + Len(h)][Number(t)]
                          ELSE SkipScalarInline(s, q + Len(h), WireType(t))
           /\ at[k + 1] = IF WireType(t) = START_GROUP THEN g[q + Len(h)][Number(t)]
                          ELSE SkipScalar(s, q + Len(h), WireType(t))
      BY <2>1, <2>2, <3>5, <3>7, <3>9 DEF SkipFieldInline, SkipField
    <3>11. q # Null /\ q + Len(h) # Null /\ q + Len(h) # Beyond(s)
      <4>1. Inside(s, q + Len(h))
        BY <3>2, <3>5, <3>6, EndsInside
      <4> QED
        BY <3>5, <4>1 DEF Inside, Null, Beyond
    <3>12. /\ InlineStep(s, f, q, num) = f[at[k + 1]][num]
           /\ StreamStep(s, g, q, num) = g[at[k + 1]][num]
      BY <3>7, <3>8, <3>10, <3>11 DEF InlineStep, StreamStep
    <3> QED
      BY <2>3, <3>5, <3>12 DEF q
  <2>7. f[p][num] = f[at[n]][num] /\ g[p][num] = g[at[n]][num]
    <3> DEFINE U == {k \in Nat : k <= n => f[p][num] = f[at[k]][num] /\ g[p][num] = g[at[k]][num]}
    <3>1. 0 \in U /\ U \in SUBSET Nat
      BY <2>5
    <3>2. ASSUME NEW k \in Nat, k < n, k \in U
          PROVE  k + 1 \in U
      <4>1. k \in 0 .. n - 1 /\ k <= n
        BY <3>2
      <4> QED
        BY <2>6, <3>2, <4>1
    <3>3. n \in U
      <4> HIDE DEF U
      <4> QED
        BY <3>1, <3>2, SetsClimb
    <3> QED
      BY <3>3
  <2>8. f[at[n]][num] = p + Len(body) /\ g[at[n]][num] = p + Len(body)
    <3> DEFINE q == p + Len(inner)
    <3>1. q \in Nat \ {0} /\ q # Null /\ q + Len(foot) = p + Len(body)
      BY <1>4 DEF Null
    <3> HIDE DEF q
    <3>2. end \in Nat /\ end \in 0 .. Word32 - 1 /\ end # 0
      BY WordAssumption
    <3>3. Holds(s, q, foot)
      BY <2>4 DEF q
    <3>4. /\ ReadVarint32Inline(s, q) = [ptr |-> q + Len(foot), value |-> end]
          /\ StreamReadTag(s, q) = [ptr |-> q + Len(foot), value |-> end]
      BY <3>1, <3>2, <3>3, SaidIsRead
    <3>5. q + Len(foot) # Null /\ q + Len(foot) # Beyond(s)
      <4>1. Inside(s, q + Len(foot)) /\ q + Len(foot) \in Nat \ {0}
        BY <1>1, <3>1, <3>3, EndsInside
      <4> QED
        BY <4>1 DEF Inside, Null, Beyond
    <3>6. /\ InlineStep(s, f, q, num) = q + Len(foot)
          /\ StreamStep(s, g, q, num) = q + Len(foot)
      BY <3>1, <3>2, <3>4, <3>5 DEF InlineStep, StreamStep, num
    <3> QED
      BY <2>3, <2>5, <3>1, <3>6 DEF q
  <2>9. SkipGroupInline(s, p, tag) = f[p][num] /\ SkipGroup(s, p, tag) = g[p][num]
    BY <2>1, <2>2 DEF num
  <2> QED
    BY <2>7, <2>8, <2>9
<1> QED
  BY <1>4, <1>5 DEF Passes, SkipFieldInline, SkipField, inner

(***************************************************************************)
(* SkipMessage().                                                          *)
(***************************************************************************)

(* A stream is not read behind its end.                                    *)
LEMMA NothingBehind ==
  ASSUME NEW s \in Seq(Byte), NEW p \in Nat \ {0}, p > Len(s)
  PROVE  StreamReadTag(s, p) = [ptr |-> p, value |-> 0]
<1>1. StreamVarint(s, p, Word32).ptr = Null
  BY WordAssumption, StreamVarintIsTyped
<1> QED
  BY <1>1 DEF StreamReadTag

(* A tag that is not zero leads on, inside the buffer.                     *)
LEMMA StreamTagLeads ==
  ASSUME NEW s \in Seq(Byte), NEW p \in Nat \ {0}
  PROVE  LET tag == StreamReadTag(s, p)
         IN  /\ tag.ptr \in Nat
             /\ tag.value # 0 => tag.ptr \in p + 1 .. Len(s) + 1 /\ tag.value \in Nat
<1> DEFINE v   == StreamVarint(s, p, Word32)
           tag == StreamReadTag(s, p)
<1>1. Word32 \in Nat \ {0}
  BY WordAssumption
<1>2. v.ptr \in Nat /\ (v.ptr # Null => v.ptr > p)
  BY <1>1, StreamVarintIsTyped
<1>3. v.ptr # Null => Inside(s, v.ptr) /\ v.value \in Nat
  BY NumbersAgree
<1>4. tag = IF v.ptr = Null THEN [ptr |-> p, value |-> 0] ELSE v
  BY DEF StreamReadTag
<1> HIDE DEF v, tag
<1>5. v.ptr = Null => tag.ptr = p /\ tag.value = 0
  BY <1>4
<1>6. ASSUME v.ptr # Null
      PROVE  tag.ptr \in Nat /\ tag.ptr \in p + 1 .. Len(s) + 1 /\ tag.value \in Nat
  <2>1. tag = v /\ Inside(s, v.ptr) /\ v.value \in Nat
    BY <1>3, <1>4, <1>6
  <2>2. v.ptr \in p + 1 .. Len(s) + 1
    BY <1>2, <1>6, <2>1 DEF Inside
  <2> QED
    BY <1>2, <2>1, <2>2
<1> QED
  BY <1>5, <1>6 DEF tag

(* A field of a message is skipped to a place behind its tag, or nowhere.  *)
LEMMA StreamFieldsAreSkipped ==
  ASSUME NEW s \in Seq(Byte), NEW p \in 1 .. Len(s) + 1, NEW tag \in Nat
  PROVE  /\ SkipField(s, p, tag) \in Nat
         /\ SkipField(s, p, tag) = Null \/ SkipField(s, p, tag) > p
<1>1. PICK g \in Calls :
        /\ Known(s, StreamTags(s), StreamScalars(s), g, 0)
        /\ \A start \in Nat, t \in Nat : SkipGroup(s, start, t) = g[start][Number(t)]
  BY StreamWalks
<1>2. p \in Nat \ {0} /\ p # Null /\ Number(tag) \in Nat /\ Beyond(s) > p
  BY DEF Null, Number, Beyond
<1>3. g[p][Number(tag)] \in Nat /\ Leads(s, p, g[p][Number(tag)])
  <2>1. Skips(s, StreamTags(s), StreamScalars(s), g, p)
    BY <1>1, <1>2 DEF Known
  <2> QED
    BY <1>2, <2>1 DEF Skips, Calls
<1>4. SkipGroup(s, p, tag) \in Nat /\ (SkipGroup(s, p, tag) = Null \/ SkipGroup(s, p, tag) > p)
  BY <1>1, <1>2, <1>3 DEF Leads
<1> QED
  BY <1>2, <1>4, StreamScalarsAreSkipped DEF SkipField

(* A step of SkipMessage().                                                *)
MessageStep(s, skip, p) ==
  LET tag == StreamReadTag(s, p)
  IN  IF p = Null THEN Null
      ELSE IF tag.value = 0 \/ WireType(tag.value) = END_GROUP THEN tag.ptr
      ELSE skip[SkipField(s, tag.ptr, tag.value)]

(* From the end of the buffer backwards each of its steps can be made.     *)
LEMMA MessagesWalk ==
  ASSUME NEW s \in Seq(Byte)
  PROVE  \E g : g = [p \in Nat |-> MessageStep(s, g, p)]
<1> DEFINE L       == Len(s)
           tag(p)  == StreamReadTag(s, p)
           Halts(p) == tag(p).value = 0 \/ WireType(tag(p).value) = END_GROUP
           To(p)   == SkipField(s, tag(p).ptr, tag(p).value)
           D       == 0 .. L
           P(k)    == L + 1 - k
           B       == {k \in D : Halts(P(k)) \/ To(P(k)) = Null \/ To(P(k)) > L + 1}
           base    == [k \in B |-> IF Halts(P(k)) THEN tag(P(k)).ptr ELSE To(P(k))]
           pred    == [k \in D |-> IF k \in B THEN 0 ELSE L + 1 - To(P(k))]
           rec     == [k \in D |-> [x \in Nat |-> x]]
<1>1. L \in Nat
  OBVIOUS
<1>2. ASSUME NEW p \in 1 .. L + 1
      PROVE  /\ tag(p).ptr \in Nat
             /\ ~Halts(p) => To(p) \in Nat /\ (To(p) = Null \/ To(p) > p)
  <2>1. p \in Nat \ {0}
    BY <1>1
  <2>2. /\ tag(p).ptr \in Nat
        /\ tag(p).value # 0 => tag(p).ptr \in p + 1 .. L + 1 /\ tag(p).value \in Nat
    BY <2>1, StreamTagLeads
  <2>3. ASSUME ~Halts(p)
        PROVE  To(p) \in Nat /\ (To(p) = Null \/ To(p) > p)
    <3> DEFINE t == tag(p).ptr
               v == tag(p).value
    <3>1. t \in p + 1 .. L + 1 /\ v \in Nat
      BY <2>2, <2>3
    <3> HIDE DEF t, v
    <3>2. t \in 1 .. Len(s) + 1 /\ t > p
      BY <1>1, <2>1, <3>1
    <3>3. SkipField(s, t, v) \in Nat /\ (SkipField(s, t, v) = Null \/ SkipField(s, t, v) > t)
      BY <3>1, <3>2, StreamFieldsAreSkipped
    <3>4. To(p) = SkipField(s, t, v)
      BY DEF t, v
    <3> HIDE DEF To
    <3> QED
      BY <2>1, <3>1, <3>2, <3>3, <3>4
  <2> QED
    BY <2>2, <2>3
<1>3. \A k \in D : P(k) \in 1 .. L + 1
  BY <1>1
<1> HIDE DEF L, tag, Halts, To, P
<1>4. B \in SUBSET D /\ D \in SUBSET Nat
  BY <1>1
<1>5. base \in [B -> Nat]
  BY <1>2, <1>3
<1>6. \A k \in D \ B : pred[k] = L + 1 - To(P(k)) /\ To(P(k)) \in P(k) + 1 .. L + 1
  BY <1>1, <1>2, <1>3
<1>7. \A k \in D \ B : pred[k] \in D /\ pred[k] < k
  BY <1>1, <1>3, <1>6 DEF P
<1>8. pred \in [D -> Nat] /\ rec \in [D -> [Nat -> Nat]]
  <2>1. \A k \in D : (IF k \in B THEN 0 ELSE L + 1 - To(P(k))) \in Nat
    <3>1. \A k \in D \ B : L + 1 - To(P(k)) \in Nat
      BY <1>1, <1>3, <1>6
    <3> QED
      BY <3>1
  <2> QED
    BY <2>1
<1>9. Descends(D, B, pred)
  BY <1>7 DEF Descends
<1> HIDE DEF B, base, pred, rec, D
<1>10. PICK f \in [D -> Nat] : Recurs(f, D, B, base, pred, rec)
  BY <1>4, <1>5, <1>8, <1>9, RecursionExists
<1> DEFINE g == [p \in Nat |-> IF p \in 1 .. L + 1 THEN f[L + 1 - p] ELSE p]
<1>11. ASSUME NEW p \in Nat
       PROVE  g[p] = MessageStep(s, g, p)
  <2>1. CASE p = 0
    BY <2>1 DEF MessageStep, Null
  <2>2. CASE p > L + 1
    <3>1. p \in Nat \ {0} /\ p > Len(s) /\ p # Null /\ p \notin 1 .. L + 1
      BY <1>1, <2>2 DEF L, Null
    <3>2. StreamReadTag(s, p) = [ptr |-> p, value |-> 0]
      BY <3>1, NothingBehind
    <3>3. g[p] = p
      BY <3>1
    <3> HIDE DEF g
    <3> QED
      BY <3>1, <3>2, <3>3 DEF MessageStep
  <2>3. CASE p \in 1 .. L + 1
    <3> DEFINE k == L + 1 - p
    <3>1. k \in D /\ P(k) = p /\ g[p] = f[k]
      BY <1>1, <2>3 DEF D, P
    <3> HIDE DEF k
    <3>2. f[k] = IF k \in B THEN base[k] ELSE rec[k][f[pred[k]]]
      BY <1>10, <3>1 DEF Recurs
    <3>3. MessageStep(s, g, p) = IF Halts(p) THEN tag(p).ptr ELSE g[To(p)]
      BY <2>3 DEF MessageStep, Null, Halts, tag, To
    <3>4. \A q \in Nat : q \notin 1 .. L + 1 => g[q] = q
      OBVIOUS
    <3>5. \A q \in 1 .. L + 1 : g[q] = f[L + 1 - q]
      BY <1>1
    <3> HIDE DEF g
    <3>6. CASE k \in B
      <4>1. f[k] = IF Halts(p) THEN tag(p).ptr ELSE To(p)
        BY <3>1, <3>2, <3>6 DEF base
      <4>2. ~Halts(p) => To(p) = Null \/ To(p) > L + 1
        BY <3>1, <3>6 DEF B
      <4>3. ~Halts(p) => g[To(p)] = To(p)
        <5>1. ~Halts(p) => To(p) \in Nat
          BY <1>2, <2>3
        <5> QED
          BY <1>1, <3>4, <4>2, <5>1 DEF Null
      <4> QED
        BY <3>1, <3>3, <4>1, <4>3
    <3>7. CASE k \notin B
      <4>1. ~Halts(p)
        BY <3>1, <3>7 DEF B
      <4>2. pred[k] = L + 1 - To(p) /\ To(p) \in p + 1 .. L + 1
        BY <1>6, <3>1, <3>7
      <4>3. To(p) \in 1 .. L + 1
        BY <1>1, <2>3, <4>2
      <4>4. pred[k] \in D
        BY <1>7, <3>1, <3>7
      <4>5. f[k] = f[pred[k]]
        <5>1. f[pred[k]] \in Nat
          BY <4>4
        <5> QED
          BY <3>1, <3>2, <3>7, <5>1 DEF rec
      <4> QED
        BY <3>1, <3>3, <3>5, <4>1, <4>2, <4>3, <4>5
    <3> QED
      BY <3>6, <3>7
  <2> QED
    BY <1>1, <2>1, <2>2, <2>3
<1>12. g = [p \in Nat |-> MessageStep(s, g, p)]
  <2>1. g = [p \in Nat |-> g[p]]
    OBVIOUS
  <2> HIDE DEF g
  <2> QED
    BY <1>11, <2>1
<1> QED
  BY <1>12

(* A message that has one field only is skipped to its end.                *)
LEMMA FieldIsMessage ==
  ASSUME NEW tag, NEW head, NEW body, Skippable(tag, head, body)
  PROVE  SkipMessage(head \o body, 1) = Len(head \o body) + 1
<1> DEFINE s       == head \o body
           Made(h) == [p \in Nat |-> MessageStep(s, h, p)]
           skip[p \in Nat] == MessageStep(s, skip, p)
<1>1. head \in Seq(Byte) /\ body \in Seq(Byte)
  BY DEF Skippable, Says, Passes
<1>2. s \in Seq(Byte) /\ Len(s) = Len(head) + Len(body) /\ Len(head) \in Nat /\ Len(body) \in Nat
  BY <1>1
<1>3. PICK g : g = Made(g)
  <2> HIDE DEF s
  <2> QED
    BY <1>2, MessagesWalk
<1>4. skip = Made(skip)
  BY <1>3
<1>5. SkipMessage(s, 1) = skip[1]
  BY DEF SkipMessage, MessageStep
<1>6. Holds(s, 1, head) /\ Holds(s, 1 + Len(head), body)
  <2>1. Holds(s, 1, s) /\ 1 \in Nat \ {0}
    BY <1>2 DEF Holds
  <2> QED
    BY <1>1, <1>2, <2>1, BothStand
<1> HIDE DEF skip
<1>7. \A p \in Nat : skip[p] = MessageStep(s, skip, p)
  BY <1>4
<1> HIDE DEF s
<1>8. StreamReadTag(s, 1) = [ptr |-> 1 + Len(head), value |-> tag]
  <2>1. tag \in 0 .. Word32 - 1 /\ tag # 0 /\ 1 \in Nat \ {0} /\ Says(head, tag)
    BY WordAssumption DEF Skippable
  <2> QED
    BY <1>2, <1>6, <2>1, SaidIsRead
<1>9. SkipField(s, 1 + Len(head), tag) = (1 + Len(head)) + Len(body)
  <2>1. 1 + Len(head) \in Nat \ {0} /\ Passes(tag, body)
    BY <1>2 DEF Skippable
  <2> QED
    BY <1>2, <1>6, <2>1 DEF Passes
<1>10. (1 + Len(head)) + Len(body) = Len(s) + 1 /\ Len(s) + 1 \in Nat \ {0} /\ Len(s) + 1 > Len(s)
       /\ Len(s) + 1 # Null
  BY <1>2 DEF Null
<1>11. skip[1] = skip[Len(s) + 1]
  <2>1. tag # 0 /\ WireType(tag) # END_GROUP
    BY WordAssumption DEF Skippable
  <2>2. MessageStep(s, skip, 1) = skip[Len(s) + 1]
    BY <1>8, <1>9, <1>10, <2>1 DEF MessageStep, Null
  <2> QED
    BY <1>7, <2>2
<1>12. skip[Len(s) + 1] = Len(s) + 1
  <2>1. StreamReadTag(s, Len(s) + 1) = [ptr |-> Len(s) + 1, value |-> 0]
    BY <1>2, <1>10, NothingBehind
  <2>2. MessageStep(s, skip, Len(s) + 1) = Len(s) + 1
    BY <1>10, <2>1 DEF MessageStep
  <2> QED
    BY <1>7, <1>10, <2>2
<1> QED
  BY <1>5, <1>11, <1>12 DEF s

(***************************************************************************)
(* What is read or skipped without reaching the end of some bytes depends  *)
(* on nothing behind them: they are read alike inside a longer buffer.     *)
(***************************************************************************)

(* Where a reader gets to in b alone, and in a buffer that holds b at p.   *)
Moved(b, p, alone, there) ==
  /\ alone = Null => there = Null
  /\ Inside(b, alone) => there = p + alone - 1

LEMMA DigitsMove ==
  ASSUME NEW s \in Seq(Byte), NEW p \in Nat \ {0}, NEW b \in Seq(Byte), Holds(s, p, b),
         NEW last \in 0 .. Len(b), NEW q \in 1 .. last + 1
  PROVE  Digits(s, p + q - 1, p + last - 1) = Digits(b, q, last)
<1> DEFINE T == {k \in Nat : \A i \in 1 .. last + 1 :
                   last + 1 - i = k => Digits(s, p + i - 1, p + last - 1) = Digits(b, i, last)}
           end == p + last - 1
<1>1. Len(b) \in Nat /\ Len(s) \in Nat /\ end \in 0 .. Len(s)
  BY DEF Holds
<1>2. 0 \in T
  <2> SUFFICES ASSUME NEW i \in 1 .. last + 1, last + 1 - i = 0
               PROVE  Digits(s, p + i - 1, end) = Digits(b, i, last)
    OBVIOUS
  <2>1. i = last + 1 /\ p + i - 1 = end + 1 /\ p + i - 1 \in 1 .. end + 1
    BY <1>1
  <2> HIDE DEF end
  <2>2. Digits(b, i, last) = 0 /\ Digits(s, p + i - 1, end) = 0
    BY <1>1, <2>1, DigitsFrom
  <2> QED
    BY <2>2
<1>3. ASSUME NEW k \in Nat, k \in T
      PROVE  k + 1 \in T
  <2> SUFFICES ASSUME NEW i \in 1 .. last + 1, last + 1 - i = k + 1
               PROVE  Digits(s, p + i - 1, end) = Digits(b, i, last)
    OBVIOUS
  <2>1. /\ i \in 1 .. last /\ i + 1 \in 1 .. last + 1 /\ last + 1 - (i + 1) = k /\ i # last + 1
        /\ p + i - 1 \in 1 .. end + 1 /\ p + i - 1 # end + 1
        /\ (p + i - 1) + 1 = p + (i + 1) - 1
        /\ i \in 1 .. Len(b)
    BY <1>1
  <2>2. Digits(s, p + (i + 1) - 1, end) = Digits(b, i + 1, last)
    BY <1>3, <2>1
  <2>3. s[p + i - 1] = b[i]
    BY <2>1 DEF Holds
  <2> HIDE DEF end
  <2>4. Digits(b, i, last) = Digit(b[i]) + Shift(Digits(b, i + 1, last))
    BY <2>1, DigitsFrom
  <2>5. Digits(s, p + i - 1, end) = Digit(s[p + i - 1]) + Shift(Digits(s, (p + i - 1) + 1, end))
    BY <1>1, <2>1, DigitsFrom
  <2> QED
    BY <2>1, <2>2, <2>3, <2>4, <2>5
<1>4. last + 1 - q \in Nat /\ T \in SUBSET Nat
  OBVIOUS
<1>5. last + 1 - q \in T
  <2> HIDE DEF T
  <2> QED
    BY <1>2, <1>3, <1>4, SetsClimb
<1> QED
  BY <1>5

(* A number,                                                               *)
LEMMA EndsMove ==
  ASSUME NEW s \in Seq(Byte), NEW p \in Nat \ {0}, NEW b \in Seq(Byte), Holds(s, p, b),
         NEW q \in Nat \ {0}, NEW k \in Nat, k <= Len(b)
  PROVE  EndsAt(s, p + q - 1, p + k - 1) <=> EndsAt(b, q, k)
<1>1. Len(b) \in Nat /\ Len(s) \in Nat /\ p + Len(b) - 1 <= Len(s)
  BY DEF Holds
<1>2. \A i \in q .. k : s[p + i - 1] = b[i]
  BY DEF Holds
<1>3. ASSUME EndsAt(b, q, k)
      PROVE  EndsAt(s, p + q - 1, p + k - 1)
  <2>1. k \in q .. Len(b) /\ ~Continues(b[k]) /\ \A i \in q .. k - 1 : Continues(b[i])
    BY <1>3 DEF EndsAt
  <2>2. p + k - 1 \in p + q - 1 .. Len(s) /\ ~Continues(s[p + k - 1])
    BY <1>1, <1>2, <2>1
  <2>3. ASSUME NEW j \in p + q - 1 .. (p + k - 1) - 1
        PROVE  Continues(s[j])
    <3>1. j - p + 1 \in q .. k - 1 /\ p + (j - p + 1) - 1 = j /\ j - p + 1 \in q .. k
      OBVIOUS
    <3>2. s[j] = b[j - p + 1]
      BY <1>2, <3>1
    <3> QED
      BY <2>1, <3>1, <3>2
  <2> QED
    BY <2>2, <2>3 DEF EndsAt
<1>4. ASSUME EndsAt(s, p + q - 1, p + k - 1)
      PROVE  EndsAt(b, q, k)
  <2>1. /\ p + k - 1 \in p + q - 1 .. Len(s) /\ ~Continues(s[p + k - 1])
        /\ \A j \in p + q - 1 .. (p + k - 1) - 1 : Continues(s[j])
    BY <1>4 DEF EndsAt
  <2>2. k \in q .. Len(b) /\ ~Continues(b[k])
    BY <1>1, <1>2, <2>1
  <2>3. ASSUME NEW i \in q .. k - 1
        PROVE  Continues(b[i])
    <3>1. p + i - 1 \in p + q - 1 .. (p + k - 1) - 1 /\ i \in q .. k
      OBVIOUS
    <3> QED
      BY <1>2, <2>1, <3>1
  <2> QED
    BY <2>2, <2>3 DEF EndsAt
<1> QED
  BY <1>3, <1>4

LEMMA ReadingMoves ==
  ASSUME NEW s \in Seq(Byte), NEW p \in Nat \ {0}, NEW b \in Seq(Byte), Holds(s, p, b),
         NEW q \in Nat \ {0}, NEW groups \in Nat, NEW word
  PROVE  LET alone == ReadLoop(b, q, groups, word)
             there == ReadLoop(s, p + q - 1, groups, word)
         IN  /\ alone.ptr \in {Null, Beyond(b)} \/ Inside(b, alone.ptr)
             /\ alone.ptr = Beyond(b) => alone.value = 0
             /\ alone.ptr # Beyond(b) => /\ Moved(b, p, alone.ptr, there.ptr)
                                         /\ there.value = alone.value
<1> DEFINE alone == ReadLoop(b, q, groups, word)
           there == ReadLoop(s, p + q - 1, groups, word)
<1>1. /\ Len(b) \in Nat /\ Len(s) \in Nat /\ p + Len(b) - 1 <= Len(s)
      /\ p + q - 1 \in Nat \ {0}
      /\ ~Inside(b, Null) /\ ~Inside(b, Beyond(b)) /\ Null # Beyond(b)
  BY DEF Holds, Inside, Null, Beyond
<1>2. ASSUME NEW last \in q .. Len(b), EndsAt(b, q, last), last <= q + groups - 1
      PROVE  /\ alone = [ptr |-> last + 1, value |-> Digits(b, q, last) % word]
             /\ there = [ptr |-> p + last, value |-> Digits(b, q, last) % word]
             /\ Inside(b, last + 1)
  <2>1. ReadLoop(b, q, groups, word) = [ptr |-> last + 1, value |-> Digits(b, q, last) % word]
    <3>1. EndsAt(b, q, last) /\ last <= q + groups - 1
      BY <1>2
    <3> HIDE DEF alone, there
    <3>2. \A w : ReadLoop(b, q, groups, w) = [ptr |-> last + 1, value |-> Digits(b, q, last) % w]
      BY <3>1, ReadingFindsEnd
    <3> QED
      BY <3>2
  <2>2. EndsAt(s, p + q - 1, p + last - 1) /\ p + last - 1 <= (p + q - 1) + groups - 1
    BY <1>2, EndsMove
  <2>3. there = [ptr |-> (p + last - 1) + 1, value |-> Digits(s, p + q - 1, p + last - 1) % word]
    BY <1>1, <2>2, ReadingFindsEnd
  <2>4. Digits(s, p + q - 1, p + last - 1) = Digits(b, q, last)
    <3>1. last \in 0 .. Len(b) /\ q \in 1 .. last + 1
      BY <1>1
    <3> QED
      BY <3>1, DigitsMove
  <2>5. (p + last - 1) + 1 = p + last /\ Inside(b, last + 1)
    BY <1>1 DEF Inside
  <2> QED
    BY <2>1, <2>3, <2>4, <2>5
<1>3. ASSUME \A last : EndsAt(b, q, last) => last > q + groups - 1, q + groups - 1 <= Len(b)
      PROVE  there = [ptr |-> Null, value |-> 0]
  <2>1. ASSUME NEW last, EndsAt(s, p + q - 1, last)
        PROVE  last > (p + q - 1) + groups - 1
    <3>1. last \in p + q - 1 .. Len(s)
      BY <2>1 DEF EndsAt
    <3>2. SUFFICES ASSUME last <= (p + q - 1) + groups - 1
                   PROVE  FALSE
      BY <1>1, <3>1
    <3> DEFINE k == last - p + 1
    <3>3. k \in Nat /\ k <= Len(b) /\ p + k - 1 = last /\ k <= q + groups - 1
      BY <1>1, <1>3, <3>1, <3>2
    <3> HIDE DEF k
    <3>4. EndsAt(b, q, k)
      BY <2>1, <3>3, EndsMove
    <3> QED
      BY <1>3, <3>3, <3>4
  <2>2. (p + q - 1) + groups - 1 <= Len(s)
    BY <1>1, <1>3
  <2> QED
    BY <1>1, <2>1, <2>2, ReadingFindsNone
<1>4. \/ \E last \in q .. Len(b) :
           /\ EndsAt(b, q, last) /\ last <= q + groups - 1
           /\ alone = [ptr |-> last + 1, value |-> Digits(b, q, last) % word]
      \/ /\ \A last : EndsAt(b, q, last) => last > q + groups - 1
         /\ alone = [ptr |-> IF q + groups - 1 <= Len(b) THEN Null ELSE Beyond(b), value |-> 0]
  BY ReadingIsBounded
<1> HIDE DEF alone, there
<1>5. CASE \E last \in q .. Len(b) : EndsAt(b, q, last) /\ last <= q + groups - 1
  <2>1. PICK last \in q .. Len(b) : EndsAt(b, q, last) /\ last <= q + groups - 1
    BY <1>5
  <2>2. /\ alone.ptr = last + 1 /\ there.ptr = p + last /\ alone.value = there.value
        /\ Inside(b, last + 1)
    BY <1>2, <2>1
  <2>3. p + last = p + (last + 1) - 1
    OBVIOUS
  <2>4. Moved(b, p, alone.ptr, there.ptr)
    BY <1>1, <2>2, <2>3 DEF Moved
  <2>5. alone.ptr # Beyond(b) /\ Inside(b, alone.ptr)
    BY <1>1, <2>2
  <2> QED
    BY <2>2, <2>4, <2>5 DEF alone, there
<1>6. CASE ~ \E last \in q .. Len(b) : EndsAt(b, q, last) /\ last <= q + groups - 1
  <2>1. /\ \A last : EndsAt(b, q, last) => last > q + groups - 1
        /\ alone = [ptr |-> IF q + groups - 1 <= Len(b) THEN Null ELSE Beyond(b), value |-> 0]
    BY <1>4, <1>6
  <2>2. CASE q + groups - 1 <= Len(b)
    <3>1. alone = [ptr |-> Null, value |-> 0] /\ there = [ptr |-> Null, value |-> 0]
      BY <1>3, <2>1, <2>2
    <3>2. Moved(b, p, alone.ptr, there.ptr) /\ alone.value = there.value
      BY <1>1, <3>1 DEF Moved
    <3> QED
      BY <3>1, <3>2 DEF alone, there
  <2>3. CASE ~ (q + groups - 1 <= Len(b))
    BY <2>1, <2>3 DEF alone, there
  <2> QED
    BY <2>2, <2>3
<1> QED
  BY <1>5, <1>6

(* a number of 32 bits,                                                    *)
LEMMA ShortReadingMoves ==
  ASSUME NEW s \in Seq(Byte), NEW p \in Nat \ {0}, NEW b \in Seq(Byte), Holds(s, p, b),
         NEW q \in Nat \ {0}
  PROVE  LET alone == ReadVarint32Inline(b, q)
             there == ReadVarint32Inline(s, p + q - 1)
         IN  /\ alone.ptr \in {Null, Beyond(b)} \/ Inside(b, alone.ptr)
             /\ alone.ptr # Beyond(b) => /\ Moved(b, p, alone.ptr, there.ptr)
                                         /\ there.value = alone.value
<1> DEFINE r == ReadLoop(b, q, Groups, Word)
           t == ReadLoop(s, p + q - 1, Groups, Word)
           none == [ptr |-> Null, value |-> 0]
<1>1. /\ r.ptr \in {Null, Beyond(b)} \/ Inside(b, r.ptr)
      /\ r.ptr = Beyond(b) => r.value = 0
      /\ r.ptr # Beyond(b) => Moved(b, p, r.ptr, t.ptr) /\ t.value = r.value
  BY SizesFit, ReadingMoves
<1>2. /\ ReadVarint32Inline(b, q) = IF r.value >= Word32 THEN none ELSE r
      /\ ReadVarint32Inline(s, p + q - 1) = IF t.value >= Word32 THEN none ELSE t
  BY DEF ReadVarint32Inline, ReadVarint64Inline
<1>3. Word32 \in Nat \ {0} /\ Moved(b, p, Null, Null)
  BY WordAssumption DEF Moved, Inside, Null
<1> HIDE DEF r, t
<1>4. CASE r.ptr = Beyond(b)
  BY <1>1, <1>2, <1>3, <1>4
<1>5. CASE r.ptr # Beyond(b)
  <2>1. CASE r.value >= Word32
    BY <1>1, <1>2, <1>3, <1>5, <2>1
  <2>2. CASE ~ (r.value >= Word32)
    BY <1>1, <1>2, <1>5, <2>2
  <2> QED
    BY <2>1, <2>2
<1> QED
  BY <1>4, <1>5

(* a field that is no group,                                               *)
LEMMA ScalarMoves ==
  ASSUME NEW s \in Seq(Byte), NEW p \in Nat \ {0}, NEW b \in Seq(Byte), Holds(s, p, b),
         NEW q \in Nat \ {0}, NEW type
  PROVE  Moved(b, p, SkipScalarInline(b, q, type), SkipScalarInline(s, p + q - 1, type))
<1>1. /\ ~Inside(b, Null) /\ ~Inside(b, Beyond(b)) /\ Null # Beyond(b)
      /\ Len(b) \in Nat /\ p + q - 1 \in Nat \ {0}
  BY DEF Inside, Null, Beyond
<1>2. Moved(b, p, SkipVarintInline(b, q), SkipVarintInline(s, p + q - 1))
  <2> DEFINE r == ReadLoop(b, q, Groups, Word)
             t == ReadLoop(s, p + q - 1, Groups, Word)
  <2>1. r.ptr # Beyond(b) => Moved(b, p, r.ptr, t.ptr)
    BY SizesFit, ReadingMoves
  <2>2. SkipVarintInline(b, q) = r.ptr /\ SkipVarintInline(s, p + q - 1) = t.ptr
    BY DEF SkipVarintInline
  <2> HIDE DEF r, t
  <2> QED
    BY <1>1, <2>1, <2>2 DEF Moved
<1>3. /\ Moved(b, p, SkipFixed64Inline(b, q), SkipFixed64Inline(s, p + q - 1))
      /\ Moved(b, p, SkipFixed32Inline(b, q), SkipFixed32Inline(s, p + q - 1))
  BY FixedAssumption DEF SkipFixed64Inline, SkipFixed32Inline, Moved, Null
<1>4. Moved(b, p, SkipLengthDelimitedInline(b, q), SkipLengthDelimitedInline(s, p + q - 1))
  <2> DEFINE r == ReadVarint32Inline(b, q)
             t == ReadVarint32Inline(s, p + q - 1)
  <2>1. /\ r.ptr \in {Null, Beyond(b)} \/ Inside(b, r.ptr)
        /\ r.ptr # Beyond(b) => Moved(b, p, r.ptr, t.ptr) /\ t.value = r.value
    BY ShortReadingMoves
  <2>2. r.value \in Nat
    <3>1. r \in Readings(Word) /\ Word \in Nat
      BY ReadersAreTyped, WordAssumption
    <3> HIDE DEF r
    <3> QED
      BY <3>1 DEF Readings
  <2>3. /\ SkipLengthDelimitedInline(b, q) = IF r.ptr = Null THEN Null ELSE r.ptr + r.value
        /\ SkipLengthDelimitedInline(s, p + q - 1)
             = IF t.ptr = Null THEN Null ELSE t.ptr + t.value
    BY DEF SkipLengthDelimitedInline
  <2> HIDE DEF r, t
  <2>4. CASE r.ptr = Null
    <3>1. t.ptr = Null
      BY <1>1, <2>1, <2>4 DEF Moved
    <3> QED
      BY <1>1, <2>3, <2>4, <3>1 DEF Moved
  <2>5. CASE r.ptr = Beyond(b)
    <3>1. SkipLengthDelimitedInline(b, q) = Len(b) + 2 + r.value
      BY <1>1, <2>3, <2>5 DEF Beyond
    <3> QED
      BY <1>1, <2>2, <3>1 DEF Moved, Inside, Null
  <2>6. CASE Inside(b, r.ptr)
    <3>1. r.ptr \in Nat \ {0} /\ r.ptr # Null /\ r.ptr # Beyond(b)
      BY <1>1, <2>6 DEF Inside
    <3>2. t.ptr = p + r.ptr - 1 /\ t.value = r.value
      BY <2>1, <2>6, <3>1 DEF Moved
    <3>3. t.ptr # Null /\ t.ptr + t.value = p + (r.ptr + r.value) - 1
      BY <2>2, <3>1, <3>2 DEF Null
    <3>4. r.ptr + r.value # Null
      BY <2>2, <3>1 DEF Null
    <3> QED
      BY <2>3, <3>1, <3>3, <3>4 DEF Moved
  <2> QED
    BY <2>1, <2>4, <2>5, <2>6
<1>5. Moved(b, p, Null, Null)
  BY <1>1 DEF Moved
<1> QED
  BY <1>2, <1>3, <1>4, <1>5 DEF SkipScalarInline

(* and a group.                                                            *)
LEMMA WalkMoves ==
  ASSUME NEW s \in Seq(Byte), NEW p \in Nat \ {0}, NEW b \in Seq(Byte), Holds(s, p, b),
         NEW f \in Calls, Known(b, InlineTags(b), InlineScalars(b), f, 0),
         NEW g \in Calls, Known(s, InlineTags(s), InlineScalars(s), g, 0)
  PROVE  \A q \in Nat \ {0}, n \in Nat : Moved(b, p, f[q][n], g[p + q - 1][n])
<1> DEFINE L == Len(b)
           U == {k \in Nat : \A q \in Nat \ {0} : q > L - k =>
                   \A n \in Nat : Moved(b, p, f[q][n], g[p + q - 1][n])}
<1>0. /\ \A q \in Nat, n \in Nat : f[q][n] = InlineStep(b, f, q, n)
      /\ \A q \in Nat, n \in Nat : g[q][n] = InlineStep(s, g, q, n)
  <2>1. /\ \A q \in Nat, n \in Nat :
             f[q][n] = GroupStep(b, InlineTags(b), InlineScalars(b), f, q, n)
        /\ \A q \in Nat, n \in Nat :
             g[q][n] = GroupStep(s, InlineTags(s), InlineScalars(s), g, q, n)
    BY DEF Known, Skips, Null
  <2> QED
    BY <2>1, InlineSteps
<1>1. /\ L \in Nat /\ ~Inside(b, Null) /\ ~Inside(b, Beyond(b)) /\ Null \in Nat
      /\ Null # Beyond(b) /\ Moved(b, p, Null, Null)
      /\ \A y : Moved(b, p, Beyond(b), y)
  BY DEF Inside, Null, Beyond, Moved
<1>2. \A n \in Nat : f[Null][n] = Null /\ g[Null][n] = Null
  BY <1>0, <1>1 DEF InlineStep
<1>3. ASSUME NEW q \in Nat, q > L, NEW n \in Nat
      PROVE  f[q][n] = Beyond(b)
  <2>1. q \in Nat \ {0} /\ q # Null
    BY <1>1, <1>3 DEF Null
  <2>2. ReadVarint32Inline(b, q).ptr = Beyond(b)
    BY <1>3, <2>1, ReadersAreTyped
  <2> QED
    BY <1>0, <2>1, <2>2 DEF InlineStep
<1>4. ASSUME NEW q \in Nat \ {0},
             \A i \in Nat \ {0} : i > q => \A n \in Nat : Moved(b, p, f[i][n], g[p + i - 1][n]),
             NEW n \in Nat
      PROVE  Moved(b, p, f[q][n], g[p + q - 1][n])
  <2> DEFINE i == ReadVarint32Inline(b, q)
             j == ReadVarint32Inline(s, p + q - 1)
  <2>1. q # Null /\ p + q - 1 \in Nat \ {0} /\ p + q - 1 # Null
    BY DEF Null
  <2>2. /\ i.ptr \in {Null, Beyond(b)} \/ Inside(b, i.ptr)
        /\ i.ptr # Beyond(b) => Moved(b, p, i.ptr, j.ptr) /\ j.value = i.value
    BY ShortReadingMoves
  <2>3. i.value \in Nat /\ Leads(b, q, i.ptr)
    <3>1. i \in Readings(Word) /\ Word \in Nat /\ Leads(b, q, i.ptr)
      BY ReadersAreTyped, WordAssumption
    <3> HIDE DEF i
    <3> QED
      BY <3>1 DEF Readings
  <2> DEFINE type == WireType(i.value)
             num  == Number(i.value)
             a    == IF type = START_GROUP THEN f[i.ptr][num] ELSE SkipScalarInline(b, i.ptr, type)
             c    == IF type = START_GROUP THEN g[j.ptr][num] ELSE SkipScalarInline(s, j.ptr, type)
  <2> HIDE DEF i, j
  <2>4. CASE i.ptr = Beyond(b)
    <3>1. f[q][n] = Beyond(b)
      BY <1>0, <2>1, <2>4 DEF InlineStep, i
    <3> QED
      BY <1>1, <3>1
  <2>5. CASE i.ptr = Null
    <3>1. j.ptr = Null
      BY <1>1, <2>2, <2>5 DEF Moved
    <3>2. Null # Beyond(s)
      BY DEF Null, Beyond
    <3>3. f[q][n] = Null
      BY <1>0, <1>1, <2>1, <2>5 DEF InlineStep, i
    <3>4. g[p + q - 1][n] = Null
      BY <1>0, <2>1, <3>1, <3>2 DEF InlineStep, j
    <3> QED
      BY <1>1, <3>3, <3>4
  <2>6. CASE Inside(b, i.ptr)
    <3>1. i.ptr \in Nat \ {0} /\ i.ptr # Null /\ i.ptr # Beyond(b)
      BY <1>1, <2>6 DEF Inside
    <3>2. j.ptr = p + i.ptr - 1 /\ j.value = i.value
      BY <2>2, <2>6, <3>1 DEF Moved
    <3>3. j.ptr \in Nat \ {0} /\ j.ptr # Null /\ j.ptr # Beyond(s) /\ i.ptr > q
      <4>1. p + Len(b) - 1 <= Len(s) /\ Len(s) \in Nat
        BY DEF Holds
      <4>2. i.ptr <= Len(b) + 1
        BY <2>6 DEF Inside
      <4>3. j.ptr \in Nat \ {0} /\ j.ptr <= Len(s) + 1
        BY <1>1, <3>1, <3>2, <4>1, <4>2
      <4> QED
        BY <2>3, <3>1, <4>1, <4>3 DEF Leads, Null, Beyond
    <3>4. type \in Nat /\ num \in Nat
      BY <2>3 DEF WireType, Number
    <3>5. /\ f[q][n] = IF i.value = 0 THEN Null
                       ELSE IF type = END_GROUP THEN IF num = n THEN i.ptr ELSE Null
                       ELSE f[a][n]
          /\ g[p + q - 1][n] = IF i.value = 0 THEN Null
                               ELSE IF type = END_GROUP THEN IF num = n THEN j.ptr ELSE Null
                               ELSE g[c][n]
      <4>1. f[q][n] = InlineStep(b, f, q, n) /\ g[p + q - 1][n] = InlineStep(s, g, p + q - 1, n)
        BY <1>0, <2>1
      <4> QED
        BY <2>1, <3>1, <3>2, <3>3, <4>1 DEF InlineStep, i, j
    <3>6. Moved(b, p, a, c)
      <4>1. Moved(b, p, f[i.ptr][num], g[j.ptr][num])
        BY <1>4, <3>1, <3>2, <3>3, <3>4
      <4>2. Moved(b, p, SkipScalarInline(b, i.ptr, type), SkipScalarInline(s, j.ptr, type))
        BY <3>1, <3>2, ScalarMoves
      <4> QED
        BY <4>1, <4>2
    <3>7. a \in Nat /\ Leads(b, i.ptr, a)
      <4>1. f[i.ptr][num] \in Nat /\ Leads(b, i.ptr, f[i.ptr][num])
        <5>1. Skips(b, InlineTags(b), InlineScalars(b), f, i.ptr)
          BY <3>1 DEF Known
        <5> QED
          BY <3>1, <3>4, <5>1 DEF Skips, Calls
      <4>2. /\ SkipScalarInline(b, i.ptr, type) \in Nat
            /\ Leads(b, i.ptr, SkipScalarInline(b, i.ptr, type))
        BY <3>1, ScalarsAreSkipped
      <4> QED
        BY <4>1, <4>2
    <3>8. Moved(b, p, i.ptr, j.ptr)
      BY <2>2, <3>1
    <3> HIDE DEF a, c, type, num
    <3>9. Moved(b, p, f[a][n], g[c][n])
      <4>1. CASE a = Null
        BY <1>1, <1>2, <3>6, <4>1 DEF Moved
      <4>2. CASE a # Null /\ a > L
        BY <1>1, <1>3, <3>7, <4>2
      <4>3. CASE a # Null /\ ~ (a > L)
        <5>1. a \in Nat \ {0} /\ Inside(b, a)
          BY <1>1, <3>7, <4>3 DEF Inside, Null
        <5>2. c = p + a - 1
          BY <3>6, <5>1 DEF Moved
        <5>3. a > q
          BY <1>1, <3>1, <3>3, <3>7, <4>3, <5>1 DEF Leads
        <5> QED
          BY <1>4, <5>1, <5>2, <5>3
      <4> QED
        BY <4>1, <4>2, <4>3
    <3> QED
      BY <1>1, <3>5, <3>8, <3>9
  <2> QED
    BY <2>2, <2>4, <2>5, <2>6
<1> HIDE DEF L
<1>5. ASSUME NEW k \in Nat, k \in U
      PROVE  k + 1 \in U
  <2> SUFFICES ASSUME NEW q \in Nat \ {0}, q > L - (k + 1), NEW n \in Nat
               PROVE  Moved(b, p, f[q][n], g[p + q - 1][n])
    OBVIOUS
  <2>1. \A i \in Nat \ {0} : i > q => i > L - k
    BY <1>1
  <2>2. \A i \in Nat \ {0} : i > q => \A m \in Nat : Moved(b, p, f[i][m], g[p + i - 1][m])
    BY <1>5, <2>1
  <2> QED
    BY <1>4, <2>2
<1>6. 0 \in U /\ U \in SUBSET Nat
  <2>1. ASSUME NEW q \in Nat \ {0}, q > L, NEW n \in Nat
        PROVE  Moved(b, p, f[q][n], g[p + q - 1][n])
    BY <1>1, <1>3, <2>1
  <2> QED
    BY <1>1, <2>1
<1>7. L \in U
  <2> HIDE DEF U
  <2> QED
    BY <1>1, <1>5, <1>6, SetsClimb
<1> QED
  BY <1>1, <1>7

(* So is any field that is skipped.                                        *)
LEMMA SkippingMoves ==
  ASSUME NEW s \in Seq(Byte), NEW p \in Nat \ {0}, NEW b \in Seq(Byte), Holds(s, p, b),
         NEW q \in Nat \ {0}, NEW tag \in Nat
  PROVE  Moved(b, p, SkipFieldInline(b, q, tag), SkipFieldInline(s, p + q - 1, tag))
<1>1. CASE WireType(tag) = START_GROUP
  <2>1. PICK f \in Calls :
          /\ Known(b, InlineTags(b), InlineScalars(b), f, 0)
          /\ \A start \in Nat, t \in Nat : SkipGroupInline(b, start, t) = f[start][Number(t)]
    BY InlineWalks
  <2>2. PICK g \in Calls :
          /\ Known(s, InlineTags(s), InlineScalars(s), g, 0)
          /\ \A start \in Nat, t \in Nat : SkipGroupInline(s, start, t) = g[start][Number(t)]
    BY InlineWalks
  <2>3. Number(tag) \in Nat /\ p + q - 1 \in Nat
    BY DEF Number
  <2>4. Moved(b, p, f[q][Number(tag)], g[p + q - 1][Number(tag)])
    BY <2>1, <2>2, <2>3, WalkMoves
  <2> QED
    BY <1>1, <2>1, <2>2, <2>3, <2>4 DEF SkipFieldInline
<1>2. CASE WireType(tag) # START_GROUP
  BY <1>2, ScalarMoves DEF SkipFieldInline
<1> QED
  BY <1>1, <1>2

=============================================================================
