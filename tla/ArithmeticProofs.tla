--------------------------- MODULE ArithmeticProofs ---------------------------
(***************************************************************************)
(* Theorems about the two components that are arithmetic, VolumeStats and  *)
(* Bleu.  VolumeStats for every full scale, every width of the integers    *)
(* that leaves room for a square of full scale and more, and as many       *)
(* samples as the counters hold; Bleu for words of every width, n-grams of *)
(* up to four words, and every list of sentences.                          *)
(***************************************************************************)
EXTENDS VolumeStats, Bleu, FiniteSetTheorems, SequenceTheorems, TLAPS

-------------------------------------------------------------------------------
(* Induction over the natural numbers, for a set instead of an operator: the *)
(* strict subset order on finite sets is well-founded.                       *)

\* A nonempty set of natural numbers has a least element.
LEMMA LeastNat ==
  ASSUME NEW T \in SUBSET Nat, T # {}
  PROVE  \E num \in T : \A m \in T : num <= m
<1> DEFINE U == { 1 .. num : num \in T }
<1>1. U \subseteq FiniteSubsetsOf(Nat)
  <2>1. \A num \in T : IsFiniteSet(1 .. num) /\ 1 .. num \subseteq Nat
    BY FS_Interval
  <2>2. QED
    BY <2>1 DEF FiniteSubsetsOf
<1>2. U # {}
  OBVIOUS
<1>3. IsWellFoundedOn(StrictSubsetOrdering(Nat), FiniteSubsetsOf(Nat))
  BY FS_StrictSubsetOrderingWellFounded
<1>4. \E x \in U : \A y \in U : ~ (<< y, x >> \in StrictSubsetOrdering(Nat))
  <2> HIDE DEF U
  <2>1. QED
    BY <1>1, <1>2, <1>3, WFMin
<1>5. PICK num \in T : \A m \in T : ~ (<< 1 .. m, 1 .. num >> \in StrictSubsetOrdering(Nat))
  BY <1>4
<1>6. ASSUME NEW m \in T, m < num PROVE FALSE
  <2>1. 1 .. m \in SUBSET Nat /\ 1 .. num \in SUBSET Nat
    OBVIOUS
  <2>2. 1 .. m \subseteq 1 .. num /\ num \in 1 .. num /\ num \notin 1 .. m
    BY <1>6
  <2>3. << 1 .. m, 1 .. num >> \in StrictSubsetOrdering(Nat)
    BY <2>1, <2>2 DEF StrictSubsetOrdering
  <2>4. QED
    BY <1>5, <2>3
<1>7. QED
  BY <1>6

\* A set of natural numbers that holds 0 and with every number the next one is
\* the set of all.
LEMMA AllNat ==
  ASSUME NEW S \in SUBSET Nat, 0 \in S, \A num \in S : num + 1 \in S
  PROVE  S = Nat
<1>1. SUFFICES ASSUME Nat \ S # {} PROVE FALSE
  OBVIOUS
<1>2. PICK num \in Nat \ S : \A m \in Nat \ S : num <= m
  BY <1>1, LeastNat
<1>3. num - 1 \in Nat /\ num - 1 \in S
  BY <1>2
<1>4. QED
  BY <1>2, <1>3

-------------------------------------------------------------------------------
(* Powers of two: 2 ^ num counts the sets of num numbers.                    *)

\* A power of two is a positive number.
LEMMA PowNat ==
  ASSUME NEW num \in Nat
  PROVE  /\ 2 ^ num \in Nat \ {0}
         /\ IsFiniteSet(SUBSET (1 .. num))
         /\ Cardinality(SUBSET (1 .. num)) = 2 ^ num
<1>1. IsFiniteSet(1 .. num) /\ Cardinality(1 .. num) = num
  BY FS_Interval
<1>2. IsFiniteSet(SUBSET (1 .. num)) /\ Cardinality(SUBSET (1 .. num)) = 2 ^ num
  <2>1. Cardinality(SUBSET (1 .. num)) = 2 ^ Cardinality(1 .. num)
    BY <1>1, FS_SUBSET
  <2>2. QED
    BY <1>1, <2>1, FS_SUBSET, Zenon
<1>3. Cardinality(SUBSET (1 .. num)) \in Nat
  BY <1>2, FS_CardinalityType
<1>4. Cardinality(SUBSET (1 .. num)) # 0
  <2>1. {} \in SUBSET (1 .. num)
    OBVIOUS
  <2>2. QED
    BY <1>2, <2>1, FS_EmptySet
<1>5. 2 ^ num \in Nat /\ 2 ^ num # 0
  BY <1>2, <1>3, <1>4, Zenon
<1>6. QED
  BY <1>2, <1>5

\* The power of nothing.
LEMMA PowZero == 2 ^ 0 = 1
<1>1. Cardinality(SUBSET (1 .. 0)) = 2 ^ 0
  BY PowNat, Zenon
<1>2. SUBSET (1 .. 0) = {{}}
  OBVIOUS
<1>3. Cardinality({{}}) = 1
  BY FS_Singleton
<1>4. QED
  BY <1>1, <1>2, <1>3, Zenon

\* One more number makes twice as many sets.
LEMMA PowDouble ==
  ASSUME NEW num \in Nat
  PROVE  2 ^ (num + 1) = 2 * 2 ^ num
<1> DEFINE S == SUBSET (1 .. num)
           U == (SUBSET (1 .. num + 1)) \ S
           f == [x \in S |-> x \cup {num + 1}]
<1>1. IsFiniteSet(S) /\ Cardinality(S) = 2 ^ num
  BY PowNat
<1>2. IsFiniteSet(SUBSET (1 .. num + 1)) /\ Cardinality(SUBSET (1 .. num + 1)) = 2 ^ (num + 1)
  <2>1. num + 1 \in Nat
    OBVIOUS
  <2>2. QED
    BY <2>1, PowNat, Zenon
<1>3. f \in Bijection(S, U)
  <2>1. f \in [S -> U]
    <3>1. ASSUME NEW x \in S PROVE x \cup {num + 1} \in U
      <4>1. num + 1 \notin 1 .. num /\ 1 .. num \subseteq 1 .. num + 1 /\ num + 1 \in 1 .. num + 1
        OBVIOUS
      <4>2. x \cup {num + 1} \in SUBSET (1 .. num + 1)
        BY <4>1
      <4>3. num + 1 \in x \cup {num + 1}
        OBVIOUS
      <4>4. x \cup {num + 1} \notin S
        BY <4>1, <4>3
      <4>5. QED
        BY <4>2, <4>4
    <3>2. QED
      BY <3>1
  <2>2. ASSUME NEW x \in S, NEW y \in S, f[x] = f[y] PROVE x = y
    <3>1. num + 1 \notin x /\ num + 1 \notin y
      <4>1. num + 1 \notin 1 .. num
        OBVIOUS
      <4>2. x \subseteq 1 .. num /\ y \subseteq 1 .. num
        OBVIOUS
      <4>3. QED
        BY <4>1, <4>2
    <3>2. x \cup {num + 1} = y \cup {num + 1}
      BY <2>2
    <3>3. \A z : z \in x <=> z \in y
      BY <3>1, <3>2
    <3>4. QED
      BY <3>3
  <2>3. ASSUME NEW y \in U PROVE \E x \in S : f[x] = y
    <3>1. y \in SUBSET (1 .. num + 1) /\ y \notin S
      OBVIOUS
    <3>2. \A i \in 1 .. num + 1 : i \in 1 .. num \/ i = num + 1
      OBVIOUS
    <3>3. num + 1 \in y
      BY <3>1, <3>2
    <3>4. y \ {num + 1} \in S
      BY <3>1, <3>2
    <3>5. (y \ {num + 1}) \cup {num + 1} = y
      BY <3>3
    <3>6. f[y \ {num + 1}] = (y \ {num + 1}) \cup {num + 1}
      BY <3>4
    <3>7. QED
      BY <3>4, <3>5, <3>6
  <2>4. QED
    <3> HIDE DEF S, U, f
    <3>1. QED
      BY <2>1, <2>2, <2>3 DEF Bijection, Injection, Surjection, IsInjective
<1>4. IsFiniteSet(U) /\ Cardinality(U) = 2 ^ num
  <2> HIDE DEF S, U, f
  <2>1. QED
    BY <1>1, <1>3, FS_Bijection DEF ExistsBijection
<1>5. S \cup U = SUBSET (1 .. num + 1) /\ S \cap U = {}
  <2>1. 1 .. num \subseteq 1 .. num + 1
    OBVIOUS
  <2>2. SUBSET (1 .. num) \subseteq SUBSET (1 .. num + 1)
    BY <2>1
  <2> DEFINE W == SUBSET (1 .. num + 1)
  <2>3. S \subseteq W /\ U = W \ S
    BY <2>2
  <2> HIDE DEF S, U, W
  <2>4. S \cup U = W /\ S \cap U = {}
    BY <2>3
  <2>5. QED
    BY <2>4, Zenon DEF W
<1>6. Cardinality(S \cup U) = Cardinality(S) + Cardinality(U) - Cardinality(S \cap U)
  <2> HIDE DEF S, U
  <2>1. QED
    BY <1>1, <1>4, FS_Union
<1>7. Cardinality(SUBSET (1 .. num + 1)) = 2 ^ num + 2 ^ num - 0
  <2> HIDE DEF S, U
  <2>1. QED
    BY <1>1, <1>4, <1>5, <1>6, FS_EmptySet, Zenon
<1> HIDE DEF S, U, f
<1>8. 2 ^ num \in Nat
  BY PowNat, Zenon
<1>9. 2 ^ (num + 1) = 2 ^ num + 2 ^ num - 0
  BY <1>2, <1>7, Zenon
<1>10. QED
  <2> DEFINE p == 2 ^ num
             q == 2 ^ (num + 1)
  <2>1. p \in Nat /\ q = p + p - 0
    BY <1>8, <1>9, Zenon
  <2> HIDE DEF p, q
  <2>2. q = 2 * p
    BY <2>1
  <2>3. QED
    BY <2>2, Zenon DEF p, q

\* A power with a greater exponent is no smaller.
LEMMA PowMonotone ==
  ASSUME NEW a \in Nat, NEW b \in Nat, a <= b
  PROVE  2 ^ a <= 2 ^ b
<1> DEFINE T == {i \in Nat : 2 ^ a <= 2 ^ (a + i)}
<1>1. 0 \in T
  <2>1. a + 0 = a
    OBVIOUS
  <2>2. 2 ^ a \in Nat
    BY PowNat, Zenon
  <2> DEFINE p == 2 ^ a
  <2>3. p <= p
    <3> HIDE DEF p
    <3>1. p \in Nat
      BY <2>2 DEF p
    <3>2. QED
      BY <3>1
  <2>4. QED
    BY <2>1, <2>3
<1>2. ASSUME NEW i \in T PROVE i + 1 \in T
  <2>1. a + i \in Nat /\ a + (i + 1) = (a + i) + 1
    OBVIOUS
  <2>2. 2 ^ a \in Nat /\ 2 ^ (a + i) \in Nat
    BY <2>1, PowNat, Zenon
  <2>3. 2 ^ (a + (i + 1)) = 2 * 2 ^ (a + i)
    <3>1. 2 ^ ((a + i) + 1) = 2 * 2 ^ (a + i)
      BY <2>1, PowDouble, Zenon
    <3>2. QED
      BY <2>1, <3>1, Zenon
  <2>4. 2 ^ a <= 2 ^ (a + i)
    OBVIOUS
  <2> DEFINE p == 2 ^ a
             q == 2 ^ (a + i)
             r == 2 ^ (a + (i + 1))
  <2>5. p \in Nat /\ q \in Nat /\ r = 2 * q /\ p <= q
    BY <2>2, <2>3, <2>4, Zenon
  <2>6. p <= r
    <3> HIDE DEF p, q, r
    <3>1. QED
      BY <2>5
  <2>7. i + 1 \in Nat
    OBVIOUS
  <2>8. QED
    BY <2>6, <2>7
<1>3. T = Nat
  <2> HIDE DEF T
  <2>1. T \in SUBSET Nat
    BY DEF T
  <2>2. QED
    BY <1>1, <1>2, <2>1, AllNat
<1>4. b - a \in T /\ a + (b - a) = b
  <2> HIDE DEF T
  <2>1. QED
    BY <1>3
<1>5. 2 ^ a <= 2 ^ (a + (b - a))
  BY <1>4
<1>6. QED
  BY <1>4, <1>5, Zenon

\* A sum of exponents makes a product of powers.
LEMMA PowAdd ==
  ASSUME NEW a \in Nat, NEW b \in Nat
  PROVE  2 ^ (a + b) = 2 ^ a * 2 ^ b
<1> DEFINE T == {i \in Nat : 2 ^ (a + i) = 2 ^ a * 2 ^ i}
<1>1. 0 \in T
  <2>1. a + 0 = a
    OBVIOUS
  <2> DEFINE p == 2 ^ a
             o == 2 ^ 0
  <2>2. p \in Nat /\ o = 1
    BY PowNat, PowZero, Zenon
  <2>3. p = p * o
    <3> HIDE DEF p, o
    <3>1. QED
      BY <2>2
  <2>4. 2 ^ (a + 0) = 2 ^ a * 2 ^ 0
    BY <2>1, <2>3, Zenon
  <2>5. QED
    BY <2>4
<1>2. ASSUME NEW i \in T PROVE i + 1 \in T
  <2>1. a + i \in Nat /\ a + (i + 1) = (a + i) + 1 /\ i \in Nat
    OBVIOUS
  <2> DEFINE p == 2 ^ a
             q == 2 ^ i
             s == 2 ^ (a + i)
             q2 == 2 ^ (i + 1)
             s2 == 2 ^ (a + (i + 1))
  <2>2. p \in Nat /\ q \in Nat /\ s \in Nat
    BY <2>1, PowNat, Zenon
  <2>3. q2 = 2 * q
    BY <2>1, PowDouble, Zenon
  <2>4. s2 = 2 * s
    <3>1. 2 ^ ((a + i) + 1) = 2 * 2 ^ (a + i)
      BY <2>1, PowDouble, Zenon
    <3>2. QED
      BY <2>1, <3>1, Zenon
  <2>5. s = p * q
    OBVIOUS
  <2>6. s2 = p * q2
    <3> HIDE DEF p, q, s, q2, s2
    <3>1. 2 * (p * q) = p * (2 * q)
      BY <2>2
    <3>2. QED
      BY <2>3, <2>4, <2>5, <3>1, Zenon
  <2>7. i + 1 \in Nat
    OBVIOUS
  <2>8. QED
    BY <2>6, <2>7
<1>3. T = Nat
  <2> HIDE DEF T
  <2>1. T \in SUBSET Nat
    BY DEF T
  <2>2. QED
    BY <1>1, <1>2, <2>1, AllNat
<1>4. b \in T
  <2> HIDE DEF T
  <2>1. QED
    BY <1>3
<1>5. QED
  BY <1>4
-------------------------------------------------------------------------------
(* The loops of print_stats.                                                 *)

\* Full scale is a positive number.
LEMMA FullType == Full \in Nat \ {0} /\ Full = 2 ^ Bits /\ 2 * Full \in Nat \ {0}
<1>1. Full \in Nat \ {0}
  <2>1. Bits \in Nat
    BY BitsAssumption
  <2>2. QED
    BY <2>1, PowNat, Zenon DEF Full
<1>2. QED
  BY <1>1 DEF Full

\* f has a number for each of the levels summed.
Counts(f) == \A i \in Summed : f[i] \in Nat

\* s holds the sums of the first values of f.
Sums(f, s, num) ==
  /\ s \in [0 .. num -> Nat]
  /\ s[0] = 0
  /\ \A i \in 0 .. num - 1 : s[i + 1] = s[i] + f[i]

\* There are such sums.
LEMMA SumsExist ==
  ASSUME NEW f, Counts(f), NEW num \in 0 .. 2 * Full
  PROVE  \E s : Sums(f, s, num)
<1> DEFINE T == {i \in Nat : i <= 2 * Full => \E s : Sums(f, s, i)}
<1>1. 0 \in T
  <2>1. Sums(f, [i \in 0 .. 0 |-> 0], 0)
    BY DEF Sums
  <2>2. QED
    BY <2>1
<1>2. ASSUME NEW i \in T PROVE i + 1 \in T
  <2>1. SUFFICES ASSUME i + 1 <= 2 * Full PROVE \E s : Sums(f, s, i + 1)
    OBVIOUS
  <2>2. i \in Nat /\ i <= 2 * Full /\ f[i] \in Nat
    BY <2>1, FullType DEF Counts, Summed
  <2>3. PICK s : Sums(f, s, i)
    BY <2>2
  <2> DEFINE last == s[i] + f[i]
             t == [k \in 0 .. i + 1 |-> IF k = i + 1 THEN last ELSE s[k]]
  <2>4. s \in [0 .. i -> Nat] /\ last \in Nat
    BY <2>2, <2>3 DEF Sums
  <2>5. t \in [0 .. i + 1 -> Nat] /\ t[i + 1] = last /\ \A k \in 0 .. i : t[k] = s[k]
    <3> HIDE DEF last
    <3>1. QED
      BY <2>2, <2>4
  <2>6. t[0] = 0
    <3> HIDE DEF t
    <3>1. QED
      BY <2>2, <2>3, <2>5 DEF Sums
  <2>7. ASSUME NEW k \in 0 .. i + 1 - 1 PROVE t[k + 1] = t[k] + f[k]
    <3> HIDE DEF t
    <3>1. CASE k = i
      BY <2>2, <2>5, <3>1
    <3>2. CASE k # i
      <4>1. k \in 0 .. i - 1 /\ k \in 0 .. i /\ k + 1 \in 0 .. i
        BY <2>2, <3>2
      <4>2. QED
        BY <2>3, <2>5, <4>1 DEF Sums
    <3>3. QED
      BY <3>1, <3>2
  <2>8. Sums(f, t, i + 1)
    <3> HIDE DEF t
    <3>1. QED
      BY <2>5, <2>6, <2>7 DEF Sums
  <2>9. QED
    BY <2>8
<1>3. T = Nat
  <2> HIDE DEF T
  <2>1. T \in SUBSET Nat
    BY DEF T
  <2>2. QED
    BY <1>1, <1>2, <2>1, AllNat
<1>4. num \in T
  <2> HIDE DEF T
  <2>1. QED
    BY <1>3
<1>5. QED
  BY <1>4

\* The total is the last of these sums.
LEMMA TotalDefined ==
  ASSUME NEW f, Counts(f)
  PROVE  \E s : Sums(f, s, 2 * Full) /\ Total(f) = s[2 * Full]
<1> DEFINE body(g) == [i \in 0 .. 2 * Full |-> IF i = 0 THEN 0 ELSE g[i - 1] + f[i - 1]]
           h == CHOOSE g : g = body(g)
<1>1. PICK s : Sums(f, s, 2 * Full)
  <2>1. 2 * Full \in 0 .. 2 * Full
    BY FullType
  <2>2. QED
    BY <2>1, SumsExist
<1>2. s = body(s)
  <2>1. s \in [0 .. 2 * Full -> Nat]
    BY <1>1 DEF Sums
  <2>2. ASSUME NEW i \in 0 .. 2 * Full PROVE s[i] = IF i = 0 THEN 0 ELSE s[i - 1] + f[i - 1]
    <3>1. CASE i = 0
      BY <1>1, <3>1 DEF Sums
    <3>2. CASE i # 0
      <4>1. i - 1 \in 0 .. 2 * Full - 1 /\ i - 1 + 1 = i
        BY <3>2, FullType
      <4>2. s[i - 1 + 1] = s[i - 1] + f[i - 1]
        BY <1>1, <4>1 DEF Sums
      <4>3. QED
        BY <3>2, <4>1, <4>2
    <3>3. QED
      BY <3>1, <3>2
  <2>3. QED
    BY <2>1, <2>2
<1>3. h = body(h)
  BY <1>2
<1>4. Total(f) = h[2 * Full]
  BY DEF Total
<1>5. h[0] = 0 /\ \A i \in 0 .. 2 * Full - 1 : h[i + 1] = h[i] + f[i]
  <2>1. \A i \in 0 .. 2 * Full : h[i] = IF i = 0 THEN 0 ELSE h[i - 1] + f[i - 1]
    <3> HIDE DEF h
    <3>1. QED
      BY <1>3
  <2>2. 0 \in 0 .. 2 * Full /\ \A i \in 0 .. 2 * Full - 1 : i + 1 \in 0 .. 2 * Full /\ i + 1 # 0 /\ i + 1 - 1 = i
    BY FullType
  <2> HIDE DEF h
  <2>3. QED
    BY <2>1, <2>2
<1>6. DOMAIN h = 0 .. 2 * Full /\ h = [i \in 0 .. 2 * Full |-> h[i]]
  <2> HIDE DEF h
  <2>1. QED
    BY <1>3
<1> HIDE DEF h
<1> DEFINE T == {i \in Nat : i <= 2 * Full => h[i] \in Nat}
<1>7. 0 \in T
  BY <1>5
<1>8. ASSUME NEW i \in T PROVE i + 1 \in T
  <2>1. SUFFICES ASSUME i + 1 <= 2 * Full PROVE h[i + 1] \in Nat
    OBVIOUS
  <2>2. i \in 0 .. 2 * Full - 1 /\ h[i] \in Nat /\ i \in Summed
    BY <2>1, FullType DEF Summed
  <2>3. f[i] \in Nat /\ h[i + 1] = h[i] + f[i]
    BY <1>5, <2>2 DEF Counts
  <2>4. QED
    BY <2>2, <2>3
<1>9. T = Nat
  <2> HIDE DEF T
  <2>1. T \in SUBSET Nat
    BY DEF T
  <2>2. QED
    BY <1>7, <1>8, <2>1, AllNat
<1>10. \A i \in 0 .. 2 * Full : h[i] \in Nat
  <2>1. \A i \in 0 .. 2 * Full : i \in Nat /\ i <= 2 * Full
    BY FullType
  <2>2. QED
    BY <1>9, <2>1
<1>11. h \in [0 .. 2 * Full -> Nat]
  BY <1>6, <1>10
<1>12. QED
  BY <1>4, <1>5, <1>11 DEF Sums

\* What is so of the values of four functions is so of their totals.
LEMMA TotalsCompare ==
  ASSUME NEW f1, NEW f2, NEW g1, NEW g2, Counts(f1), Counts(f2), Counts(g1), Counts(g2),
         NEW a1 \in Nat, NEW a2 \in Nat, NEW b1 \in Nat, NEW b2 \in Nat, NEW c \in Nat,
         \A i \in Summed : a1 * f1[i] + a2 * f2[i] <= b1 * g1[i] + b2 * g2[i] + c
  PROVE  /\ Total(f1) \in Nat /\ Total(f2) \in Nat /\ Total(g1) \in Nat /\ Total(g2) \in Nat
         /\ a1 * Total(f1) + a2 * Total(f2) <= b1 * Total(g1) + b2 * Total(g2) + 2 * Full * c
<1>1. PICK s1 : Sums(f1, s1, 2 * Full) /\ Total(f1) = s1[2 * Full]
  BY TotalDefined
<1>2. PICK s2 : Sums(f2, s2, 2 * Full) /\ Total(f2) = s2[2 * Full]
  BY TotalDefined
<1>3. PICK t1 : Sums(g1, t1, 2 * Full) /\ Total(g1) = t1[2 * Full]
  BY TotalDefined
<1>4. PICK t2 : Sums(g2, t2, 2 * Full) /\ Total(g2) = t2[2 * Full]
  BY TotalDefined
<1> DEFINE T == {i \in Nat : i <= 2 * Full =>
                   a1 * s1[i] + a2 * s2[i] <= b1 * t1[i] + b2 * t2[i] + i * c}
<1>5. 0 \in T
  <2>1. s1[0] = 0 /\ s2[0] = 0 /\ t1[0] = 0 /\ t2[0] = 0
    BY <1>1, <1>2, <1>3, <1>4 DEF Sums
  <2>2. a1 * 0 + a2 * 0 <= b1 * 0 + b2 * 0 + 0 * c
    OBVIOUS
  <2>3. QED
    BY <2>1, <2>2
<1>6. ASSUME NEW i \in T PROVE i + 1 \in T
  <2>1. SUFFICES ASSUME i + 1 <= 2 * Full
                 PROVE  a1 * s1[i + 1] + a2 * s2[i + 1] <= b1 * t1[i + 1] + b2 * t2[i + 1] + (i + 1) * c
    OBVIOUS
  <2>2. i \in 0 .. 2 * Full - 1 /\ i \in Summed /\ i \in 0 .. 2 * Full
    BY <2>1, FullType DEF Summed
  <2>3. a1 * s1[i] + a2 * s2[i] <= b1 * t1[i] + b2 * t2[i] + i * c
    <3>1. i <= 2 * Full
      BY <2>2, FullType
    <3>2. i \in T
      OBVIOUS
    <3>3. QED
      BY <3>1, <3>2, Zenon
  <2>4. PICK x1 \in Nat, y1 \in Nat : s1[i] = x1 /\ f1[i] = y1 /\ s1[i + 1] = x1 + y1
    BY <1>1, <2>2 DEF Sums, Counts
  <2>5. PICK x2 \in Nat, y2 \in Nat : s2[i] = x2 /\ f2[i] = y2 /\ s2[i + 1] = x2 + y2
    BY <1>2, <2>2 DEF Sums, Counts
  <2>6. PICK u1 \in Nat, v1 \in Nat : t1[i] = u1 /\ g1[i] = v1 /\ t1[i + 1] = u1 + v1
    BY <1>3, <2>2 DEF Sums, Counts
  <2>7. PICK u2 \in Nat, v2 \in Nat : t2[i] = u2 /\ g2[i] = v2 /\ t2[i + 1] = u2 + v2
    BY <1>4, <2>2 DEF Sums, Counts
  <2>8. a1 * x1 + a2 * x2 <= b1 * u1 + b2 * u2 + i * c
    BY <2>3, <2>4, <2>5, <2>6, <2>7
  <2>9. a1 * y1 + a2 * y2 <= b1 * v1 + b2 * v2 + c
    BY <2>2, <2>4, <2>5, <2>6, <2>7
  <2>10. /\ a1 * (x1 + y1) = a1 * x1 + a1 * y1
         /\ a2 * (x2 + y2) = a2 * x2 + a2 * y2
         /\ b1 * (u1 + v1) = b1 * u1 + b1 * v1
         /\ b2 * (u2 + v2) = b2 * u2 + b2 * v2
         /\ (i + 1) * c = i * c + c
    OBVIOUS
  <2>11. /\ a1 * x1 \in Int /\ a1 * y1 \in Int /\ a2 * x2 \in Int /\ a2 * y2 \in Int
         /\ b1 * u1 \in Int /\ b1 * v1 \in Int /\ b2 * u2 \in Int /\ b2 * v2 \in Int
         /\ i * c \in Int
    OBVIOUS
  <2>12. a1 * (x1 + y1) + a2 * (x2 + y2) <= b1 * (u1 + v1) + b2 * (u2 + v2) + (i + 1) * c
    BY <2>8, <2>9, <2>10, <2>11
  <2>13. QED
    BY <2>4, <2>5, <2>6, <2>7, <2>12
<1>7. T = Nat
  <2> HIDE DEF T
  <2>1. T \in SUBSET Nat
    BY DEF T
  <2>2. QED
    BY <1>5, <1>6, <2>1, AllNat
<1>8. 2 * Full \in T /\ 2 * Full \in 0 .. 2 * Full
  <2> HIDE DEF T
  <2>1. QED
    BY <1>7, FullType
<1>9. Total(f1) \in Nat /\ Total(f2) \in Nat /\ Total(g1) \in Nat /\ Total(g2) \in Nat
  BY <1>1, <1>2, <1>3, <1>4, <1>8 DEF Sums
<1>10. a1 * Total(f1) + a2 * Total(f2) <= b1 * Total(g1) + b2 * Total(g2) + 2 * Full * c
  <2>1. 2 * Full <= 2 * Full
    BY FullType
  <2>2. a1 * s1[2 * Full] + a2 * s2[2 * Full] <= b1 * t1[2 * Full] + b2 * t2[2 * Full] + (2 * Full) * c
    BY <1>8, <2>1
  <2>3. QED
    BY <1>1, <1>2, <1>3, <1>4, <2>2
<1>11. QED
  BY <1>9, <1>10

\* Totals of the same values are the same.
LEMMA TotalSame ==
  ASSUME NEW f, NEW g, Counts(f), \A i \in Summed : f[i] = g[i]
  PROVE  Counts(g) /\ Total(f) \in Nat /\ Total(f) = Total(g)
<1>1. Counts(g)
  BY DEF Counts
<1>2. \A i \in Summed : 1 * f[i] + 0 * f[i] <= 1 * g[i] + 0 * g[i] + 0
  BY DEF Counts
<1>3. \A i \in Summed : 1 * g[i] + 0 * g[i] <= 1 * f[i] + 0 * f[i] + 0
  BY DEF Counts
<1> DEFINE F == Total(f)
           G == Total(g)
<1>4. /\ F \in Nat /\ F \in Nat /\ G \in Nat /\ G \in Nat
      /\ 1 * F + 0 * F <= 1 * G + 0 * G + 2 * Full * 0
  <2>1. 0 \in Nat /\ 1 \in Nat
    OBVIOUS
  <2>2. QED
    BY <1>1, <1>2, <2>1, TotalsCompare, Zenon
<1>5. 1 * G + 0 * G <= 1 * F + 0 * F + 2 * Full * 0
  <2>1. 0 \in Nat /\ 1 \in Nat
    OBVIOUS
  <2>2. QED
    BY <1>1, <1>3, <2>1, TotalsCompare, Zenon
<1>6. QED
  <2> HIDE DEF F, G
  <2>1. F = G
    BY <1>4, <1>5, FullType
  <2>2. QED
    BY <1>1, <1>4, <2>1 DEF F, G

\* A value that grows makes the total grow as much.
LEMMA TotalAdd ==
  ASSUME NEW f, NEW g, Counts(f), NEW j \in Summed, NEW num \in Nat,
         g[j] = f[j] + num, \A i \in Summed \ {j} : g[i] = f[i]
  PROVE  Counts(g) /\ Total(f) \in Nat /\ Total(g) = Total(f) + num
<1>1. Counts(g)
  <2>1. \A i \in Summed : g[i] \in Nat
    <3>1. f[j] + num \in Nat
      BY DEF Counts
    <3>2. QED
      BY <3>1 DEF Counts
  <2>2. QED
    BY <2>1 DEF Counts
<1>2. PICK s : Sums(f, s, 2 * Full) /\ Total(f) = s[2 * Full]
  BY TotalDefined
<1>3. PICK t : Sums(g, t, 2 * Full) /\ Total(g) = t[2 * Full]
  BY <1>1, TotalDefined
<1> DEFINE T == {i \in Nat : i <= 2 * Full => t[i] = IF j < i THEN s[i] + num ELSE s[i]}
<1>4. j \in Nat /\ j < 2 * Full
  BY FullType DEF Summed
<1>5. 0 \in T
  BY <1>2, <1>3, <1>4 DEF Sums
<1>6. ASSUME NEW i \in T PROVE i + 1 \in T
  <2>1. SUFFICES ASSUME i + 1 <= 2 * Full
                 PROVE  t[i + 1] = IF j < i + 1 THEN s[i + 1] + num ELSE s[i + 1]
    OBVIOUS
  <2>2. i \in 0 .. 2 * Full - 1 /\ i \in Summed /\ i \in 0 .. 2 * Full /\ i \in Nat /\ i <= 2 * Full
    BY <2>1, FullType DEF Summed
  <2>3. t[i] = IF j < i THEN s[i] + num ELSE s[i]
    BY <2>2
  <2>4. PICK x \in Nat, y \in Nat : s[i] = x /\ f[i] = y /\ s[i + 1] = x + y
    BY <1>2, <2>2 DEF Sums, Counts
  <2>5. t[i + 1] = t[i] + g[i]
    BY <1>3, <2>2 DEF Sums
  <2>6. CASE i = j
    <3>1. t[i] = x /\ g[i] = y + num
      BY <1>4, <2>3, <2>4, <2>6
    <3>2. QED
      BY <1>4, <2>4, <2>5, <2>6, <3>1
  <2>7. CASE i # j
    <3>1. g[i] = y
      BY <2>2, <2>4, <2>7
    <3>2. QED
      BY <1>4, <2>2, <2>3, <2>4, <2>5, <2>7, <3>1
  <2>8. QED
    BY <2>6, <2>7
<1>7. T = Nat
  <2> HIDE DEF T
  <2>1. T \in SUBSET Nat
    BY DEF T
  <2>2. QED
    BY <1>5, <1>6, <2>1, AllNat
<1>8. 2 * Full \in Nat /\ 2 * Full <= 2 * Full /\ 2 * Full \in 0 .. 2 * Full
  BY FullType
<1>9. t[2 * Full] = s[2 * Full] + num
  <2>1. 2 * Full \in T
    <3> HIDE DEF T
    <3>1. QED
      BY <1>7, <1>8
  <2>2. QED
    BY <1>4, <1>8, <2>1
<1>10. Total(f) \in Nat
  BY <1>2, <1>8 DEF Sums
<1>11. QED
  BY <1>1, <1>2, <1>3, <1>9, <1>10

-------------------------------------------------------------------------------
(* The shift and what it keeps.                                              *)

\* The constants of the arithmetic.
LEMMA ScaleType ==
  /\ Bits \in Nat /\ Word \in Nat /\ Threshold \in Nat /\ Threshold < Word
  /\ 1 <= Word /\ 2 ^ Word \in Nat \ {0} /\ 2 ^ Threshold \in Nat \ {0}
  /\ Full * Full * (2 * 2 ^ Threshold) = 2 ^ Word
<1>1. /\ Bits \in Nat /\ Word \in Nat /\ Threshold \in Nat /\ Threshold < Word /\ 1 <= Word
      /\ Bits + Bits \in Nat /\ Threshold + 1 \in Nat /\ (Bits + Bits) + (Threshold + 1) = Word
  BY BitsAssumption DEF Threshold
<1>2. 2 ^ Word \in Nat \ {0} /\ 2 ^ Threshold \in Nat \ {0}
  BY <1>1, PowNat, Zenon
<1>3. 2 ^ Word = 2 ^ (Bits + Bits) * 2 ^ (Threshold + 1)
  <2>1. 2 ^ ((Bits + Bits) + (Threshold + 1)) = 2 ^ (Bits + Bits) * 2 ^ (Threshold + 1)
    BY <1>1, PowAdd, Zenon
  <2>2. QED
    BY <1>1, <2>1, Zenon
<1>4. 2 ^ (Bits + Bits) = 2 ^ Bits * 2 ^ Bits
  BY <1>1, PowAdd, Zenon
<1>5. 2 ^ (Threshold + 1) = 2 * 2 ^ Threshold
  BY <1>1, PowDouble, Zenon
<1>6. Full * Full * (2 * 2 ^ Threshold) = 2 ^ Word
  BY <1>3, <1>4, <1>5, Zenon DEF Full
<1>7. QED
  BY <1>1, <1>2, <1>6, Zenon

\* A number divided is at least so often the divisor, and less than once more.
LEMMA Division ==
  ASSUME NEW a \in Nat, NEW b \in Nat \ {0}
  PROVE  /\ a \div b \in Nat
         /\ b * (a \div b) <= a
         /\ a < b * ((a \div b) + 1)
<1>1. a = b * (a \div b) + (a % b) /\ a % b \in 0 .. b - 1 /\ a \div b \in Int
  OBVIOUS
<1>2. a \div b \in Nat
  OBVIOUS
<1> DEFINE q == a \div b
<1>3. b * (q + 1) = b * q + b
  <2> HIDE DEF q
  <2>1. q \in Int
    BY <1>1 DEF q
  <2>2. QED
    BY <2>1
<1>4. b * q \in Int
  <2> HIDE DEF q
  <2>1. q \in Int
    BY <1>1 DEF q
  <2>2. QED
    BY <2>1
<1>5. QED
  <2> DEFINE r == a % b
             u == b * q
  <2>1. a = u + r /\ r \in 0 .. b - 1 /\ u \in Int
    BY <1>1, <1>4
  <2>2. u <= a /\ a < u + b
    <3> HIDE DEF r, u, q
    <3>1. QED
      BY <2>1
  <2>3. QED
    BY <1>2, <1>3, <2>2

\* The shift brings the number of samples below twice 2 ^ Threshold.
LEMMA ShiftBrings ==
  ASSUME nb_samples \in 0 .. 2 ^ Word - 1
  PROVE  /\ shift \in 0 .. Word /\ 2 ^ shift \in Nat \ {0}
         /\ nb_samples < 2 ^ shift * (2 * 2 ^ Threshold)
<1> DEFINE high == nb_samples \div 2 ^ Threshold
           S == {0} \cup {s \in 1 .. Word : 2 ^ s <= high}
<1>1. nb_samples \in Nat /\ 2 ^ Threshold \in Nat \ {0} /\ nb_samples < 2 ^ Word
  BY ScaleType
<1>2. /\ high \in Nat /\ 2 ^ Threshold * high <= nb_samples
      /\ nb_samples < 2 ^ Threshold * (high + 1)
  BY <1>1, Division, Zenon
<1>3. shift = Max(S)
  BY DEF shift
<1> HIDE DEF high
<1>4. S \subseteq 0 .. Word /\ 0 \in S
  BY ScaleType
<1>5. PICK m \in S : \A s \in S : m >= s
  <2> DEFINE U == {Word - s : s \in S}
  <2>1. U \subseteq Nat /\ U # {}
    <3> HIDE DEF S
    <3>1. \A s \in S : Word - s \in Nat
      BY <1>4, ScaleType
    <3>2. QED
      BY <1>4, <3>1
  <2>2. PICK u \in U : \A v \in U : u <= v
    <3> HIDE DEF U
    <3>1. QED
      BY <2>1, LeastNat
  <2>3. PICK m \in S : u = Word - m
    BY <2>2
  <2>4. ASSUME NEW s \in S PROVE m >= s
    <3> HIDE DEF S
    <3>1. Word - s \in U
      OBVIOUS
    <3>2. Word - m <= Word - s
      BY <2>2, <2>3, <3>1
    <3>3. m \in 0 .. Word /\ s \in 0 .. Word
      BY <1>4
    <3>4. QED
      BY <3>2, <3>3, ScaleType
  <2>5. QED
    BY <2>4
<1>6. shift \in S /\ \A s \in S : shift >= s
  <2> HIDE DEF S
  <2>1. Max(S) = CHOOSE x \in S : \A y \in S : x >= y
    BY DEF Max
  <2>2. QED
    BY <1>3, <1>5, <2>1
<1>7. PICK k \in 0 .. Word : k = shift
  BY <1>4, <1>6
<1>8. k \in Nat /\ k <= Word
  BY ScaleType
<1>9. 2 ^ k \in Nat \ {0} /\ 2 ^ (k + 1) = 2 * 2 ^ k
  BY <1>8, PowNat, PowDouble, Zenon
<1>10. k < Word
  <2>1. SUFFICES ASSUME k = Word PROVE FALSE
    BY <1>8, ScaleType
  <2>2. 2 ^ k <= high
    <3>1. k # 0
      BY <2>1, ScaleType
    <3>2. QED
      BY <1>6, <1>7, <3>1
  <2> DEFINE w == 2 ^ Word
             t == 2 ^ Threshold
  <2>3. w \in Nat \ {0} /\ t \in Nat \ {0} /\ w <= high /\ t * high <= nb_samples /\ nb_samples < w
    BY <1>1, <1>2, <2>1, <2>2, ScaleType
  <2> HIDE DEF w, t
  <2>4. high <= t * high
    BY <1>2, <2>3
  <2>5. QED
    <3>1. t * high \in Int
      BY <1>2, <2>3
    <3>2. QED
      BY <1>1, <1>2, <2>3, <2>4, <3>1
<1>11. high + 1 <= 2 * 2 ^ k
  <2>1. k + 1 \in 1 .. Word /\ ~ (k >= k + 1)
    BY <1>8, <1>10, ScaleType
  <2>2. k + 1 \notin S
    BY <1>6, <1>7, <2>1
  <2>3. ~ (2 ^ (k + 1) <= high)
    BY <2>1, <2>2
  <2> DEFINE p == 2 ^ k
             q == 2 ^ (k + 1)
  <2>4. p \in Nat \ {0} /\ q = 2 * p /\ ~ (q <= high)
    BY <1>9, <2>3
  <2>5. high + 1 <= 2 * p
    <3> HIDE DEF p, q
    <3>1. QED
      BY <1>2, <2>4
  <2>6. QED
    BY <2>5
<1>12. nb_samples < 2 ^ k * (2 * 2 ^ Threshold)
  <2> DEFINE p == 2 ^ k
             t == 2 ^ Threshold
  <2>1. /\ p \in Nat \ {0} /\ t \in Nat \ {0} /\ high + 1 <= 2 * p
        /\ nb_samples < t * (high + 1)
    BY <1>1, <1>2, <1>9, <1>11
  <2> HIDE DEF p, t
  <2>2. t * (high + 1) <= t * (2 * p)
    BY <1>2, <2>1
  <2>3. t * (2 * p) = p * (2 * t)
    BY <2>1
  <2>4. t * (high + 1) \in Int /\ p * (2 * t) \in Int
    BY <1>2, <2>1
  <2>5. nb_samples < p * (2 * t)
    BY <1>1, <2>1, <2>2, <2>3, <2>4
  <2>6. QED
    BY <2>5 DEF p, t
<1>13. QED
  BY <1>7, <1>9, <1>12

\* A square is no more than that of full scale.
LEMMA SquareType ==
  ASSUME NEW i \in Summed
  PROVE  Square(i) \in 0 .. Full * Full
<1>1. Full \in Nat \ {0} /\ i \in 0 .. 2 * Full - 1
  BY FullType DEF Summed
<1>2. ASSUME NEW d \in Nat, NEW e \in Nat, d <= e PROVE d * d \in 0 .. e * e
  <2>1. d * d <= d * e /\ d * e <= e * e
    BY <1>2
  <2>2. d * d \in Nat /\ d * e \in Nat /\ e * e \in Nat
    OBVIOUS
  <2>3. QED
    BY <2>1, <2>2
<1>3. CASE i >= Full
  <2>1. i - Full \in Nat /\ i - Full <= Full
    BY <1>1, <1>3
  <2>2. QED
    BY <1>1, <1>2, <2>1 DEF Square
<1>4. CASE i < Full
  <2>1. Full - i \in Nat /\ Full - i <= Full
    BY <1>1, <1>4
  <2>2. (Full - i) * (Full - i) = (i - Full) * (i - Full)
    BY <1>1
  <2>3. QED
    BY <1>1, <1>2, <2>1, <2>2 DEF Square
<1>5. QED
  BY <1>1, <1>3, <1>4

\* What one level keeps of its samples and of their squares.
LEMMA LevelKept ==
  ASSUME NEW a \in Nat, NEW s \in Nat \ {0}, NEW f \in Nat, NEW q \in 0 .. f
  PROVE  /\ a \div s \in Nat
         /\ s * (a \div s) <= a
         /\ a <= s * (a \div s) + (s - 1)
         /\ q * (a \div s) \in Nat /\ q * a \in Nat
         /\ q * (a \div s) <= f * (a \div s)
         /\ s * (q * (a \div s)) <= q * a
         /\ q * a + (f * s) * (a \div s) <= f * a + s * (q * (a \div s))
<1>1. /\ a \div s \in Nat
      /\ s * (a \div s) <= a
      /\ a < s * ((a \div s) + 1)
  BY Division, Zenon
<1>2. PICK b \in Nat : b = a \div s
  BY <1>1
<1>3. s * b <= a /\ a < s * (b + 1)
  BY <1>1, <1>2
<1>4. s * (b + 1) = s * b + s /\ s * b \in Nat
  OBVIOUS
<1>5. a <= s * b + (s - 1)
  BY <1>3, <1>4
<1>6. PICK r \in Nat : a = s * b + r
  <2>1. a - s * b \in Nat /\ a = s * b + (a - s * b)
    BY <1>3, <1>4
  <2>2. QED
    BY <2>1
<1>7. PICK d \in Nat : f = q + d
  <2>1. f - q \in Nat /\ f = q + (f - q)
    OBVIOUS
  <2>2. QED
    BY <2>1
<1>8. q \in Nat
  OBVIOUS
<1>9. q * b \in Nat /\ q * a \in Nat /\ q * r \in Nat /\ d * b \in Nat /\ d * r \in Nat
  BY <1>8
<1>10. q * b <= f * b
  <2>1. f * b = q * b + d * b
    BY <1>7, <1>8
  <2>2. QED
    BY <1>9, <2>1
<1>11. s * (q * b) <= q * a
  <2>1. q * a = s * (q * b) + q * r
    BY <1>6, <1>8
  <2>2. s * (q * b) \in Nat
    BY <1>9
  <2>3. QED
    BY <1>9, <2>1, <2>2
<1>12. q * a + (f * s) * b <= f * a + s * (q * b)
  <2>1. f * a + s * (q * b) = q * a + (f * s) * b + d * r
    <3>1. (q + d) * (s * b + r) + s * (q * b) = q * (s * b + r) + ((q + d) * s) * b + d * r
      BY <1>8
    <3>2. QED
      BY <1>6, <1>7, <3>1
  <2>2. q * a + (f * s) * b \in Nat
    BY <1>9
  <2>3. QED
    BY <1>9, <2>1, <2>2
<1>13. QED
  BY <1>1, <1>2, <1>3, <1>5, <1>9, <1>10, <1>11, <1>12

\* What all levels keep.
LEMMA AllKept ==
  ASSUME histogram \in [Buckets -> Nat], nb_samples \in 0 .. 2 ^ Word - 1
  PROVE  /\ nb_samples \in Nat /\ nb_samples_shift \in Nat /\ Power \in Nat /\ Exact \in Nat
         /\ 2 ^ shift * nb_samples_shift <= nb_samples
         /\ nb_samples <= 2 ^ shift * nb_samples_shift + 2 * Full * (2 ^ shift - 1)
         /\ Power <= (Full * Full) * nb_samples_shift
         /\ 2 ^ shift * Power <= Exact
         /\ Exact + ((Full * Full) * 2 ^ shift) * nb_samples_shift
              <= (Full * Full) * nb_samples + 2 ^ shift * Power
<1> DEFINE b == [i \in Summed |-> Shifted(i)]
           p == [i \in Summed |-> Square(i) * Shifted(i)]
           e == [i \in Summed |-> Square(i) * histogram[i]]
<1>1. PICK s \in Nat \ {0} : s = 2 ^ shift
  BY ShiftBrings, Zenon
<1>2. PICK f \in Nat : f = Full * Full
  BY FullType
<1>3. ASSUME NEW i \in Summed
      PROVE  /\ histogram[i] \in Nat /\ b[i] \in Nat /\ p[i] \in Nat /\ e[i] \in Nat
             /\ s * b[i] <= histogram[i]
             /\ histogram[i] <= s * b[i] + (s - 1)
             /\ p[i] <= f * b[i]
             /\ s * p[i] <= e[i]
             /\ e[i] + (f * s) * b[i] <= f * histogram[i] + s * p[i]
  <2>1. PICK a \in Nat : a = histogram[i]
    BY FullType DEF Summed, Buckets
  <2>2. PICK q \in 0 .. f : q = Square(i)
    BY <1>2, SquareType
  <2>3. b[i] = a \div s /\ p[i] = q * (a \div s) /\ e[i] = q * a
    BY <1>1, <2>1, <2>2 DEF Shifted
  <2>4. /\ a \div s \in Nat
        /\ s * (a \div s) <= a
        /\ a <= s * (a \div s) + (s - 1)
        /\ q * (a \div s) \in Nat /\ q * a \in Nat
        /\ q * (a \div s) <= f * (a \div s)
        /\ s * (q * (a \div s)) <= q * a
        /\ q * a + (f * s) * (a \div s) <= f * a + s * (q * (a \div s))
    BY LevelKept
  <2> HIDE DEF b, p, e
  <2>5. QED
    BY <2>1, <2>3, <2>4, Zenon
<1>4. nb_samples = Total(histogram) /\ nb_samples_shift = Total(b) /\ Power = Total(p) /\ Exact = Total(e)
  BY DEF nb_samples, nb_samples_shift, Power, Exact
<1> HIDE DEF b, p, e
<1>5. Counts(histogram) /\ Counts(b) /\ Counts(p) /\ Counts(e)
  BY <1>3 DEF Counts
<1>6. 0 \in Nat /\ 1 \in Nat /\ s \in Nat /\ s - 1 \in Nat /\ f * s \in Nat
  OBVIOUS
<1>7. /\ Total(b) \in Nat /\ Total(b) \in Nat /\ Total(histogram) \in Nat /\ Total(histogram) \in Nat
      /\ s * Total(b) + 0 * Total(b) <= 1 * Total(histogram) + 0 * Total(histogram) + 2 * Full * 0
  <2>1. \A i \in Summed : s * b[i] + 0 * b[i] <= 1 * histogram[i] + 0 * histogram[i] + 0
    BY <1>3
  <2>2. QED
    BY <1>5, <1>6, <2>1, TotalsCompare, Zenon
<1>8. 1 * Total(histogram) + 0 * Total(histogram) <= s * Total(b) + 0 * Total(b) + 2 * Full * (s - 1)
  <2>1. \A i \in Summed : 1 * histogram[i] + 0 * histogram[i] <= s * b[i] + 0 * b[i] + (s - 1)
    BY <1>3
  <2>2. QED
    BY <1>5, <1>6, <2>1, TotalsCompare, Zenon
<1>9. /\ Total(p) \in Nat /\ Total(p) \in Nat /\ Total(b) \in Nat /\ Total(b) \in Nat
      /\ 1 * Total(p) + 0 * Total(p) <= f * Total(b) + 0 * Total(b) + 2 * Full * 0
  <2>1. \A i \in Summed : 1 * p[i] + 0 * p[i] <= f * b[i] + 0 * b[i] + 0
    BY <1>3
  <2>2. QED
    BY <1>5, <1>6, <2>1, TotalsCompare, Zenon
<1>10. /\ Total(p) \in Nat /\ Total(p) \in Nat /\ Total(e) \in Nat /\ Total(e) \in Nat
       /\ s * Total(p) + 0 * Total(p) <= 1 * Total(e) + 0 * Total(e) + 2 * Full * 0
  <2>1. \A i \in Summed : s * p[i] + 0 * p[i] <= 1 * e[i] + 0 * e[i] + 0
    BY <1>3
  <2>2. QED
    BY <1>5, <1>6, <2>1, TotalsCompare, Zenon
<1>11. 1 * Total(e) + (f * s) * Total(b) <= f * Total(histogram) + s * Total(p) + 2 * Full * 0
  <2>1. \A i \in Summed : 1 * e[i] + (f * s) * b[i] <= f * histogram[i] + s * p[i] + 0
    BY <1>3
  <2>2. QED
    BY <1>5, <1>6, <2>1, TotalsCompare, Zenon
<1>12. PICK N \in Nat, B \in Nat, P \in Nat, E \in Nat :
         N = Total(histogram) /\ B = Total(b) /\ P = Total(p) /\ E = Total(e)
  BY <1>7, <1>9, <1>10
<1>13. s * B \in Nat /\ f * B \in Nat /\ s * P \in Nat /\ 2 * Full \in Nat /\ (f * s) * B \in Nat /\ f * N \in Nat
  BY FullType
<1>14. s * B <= N
  BY <1>7, <1>12, <1>13
<1>15. N <= s * B + 2 * Full * (s - 1)
  <2>1. 2 * Full * (s - 1) \in Nat
    BY FullType
  <2>2. 1 * N + 0 * N <= s * B + 0 * B + 2 * Full * (s - 1)
    BY <1>8, <1>12
  <2>3. QED
    BY <1>13, <2>1, <2>2
<1>16. P <= f * B
  BY <1>9, <1>12, <1>13
<1>17. s * P <= E
  BY <1>10, <1>12, <1>13
<1>18. E + (f * s) * B <= f * N + s * P
  BY <1>11, <1>12, <1>13
<1>19. QED
  BY <1>1, <1>2, <1>4, <1>12, <1>14, <1>15, <1>16, <1>17, <1>18

\* The sum of the squares keeps within the unsigned integer: the shifted
\* samples are fewer than 2 ^ (Threshold + 1), and no square is above Full ^ 2.
LEMMA Fits ==
  ASSUME histogram \in [Buckets -> Nat], nb_samples \in 0 .. 2 ^ Word - 1
  PROVE  SumFits
<1>1. PICK s \in Nat \ {0} : s = 2 ^ shift
  BY ShiftBrings, Zenon
<1>2. PICK t \in Nat \ {0} : t = 2 ^ Threshold
  BY ScaleType
<1>3. PICK f \in Nat \ {0} : f = Full * Full
  BY FullType
<1>4. PICK N \in Nat, T \in Nat, P \in Nat :
        N = nb_samples /\ T = nb_samples_shift /\ P = Power
  BY AllKept
<1>5. s * T <= N /\ P <= f * T
  BY <1>1, <1>3, <1>4, AllKept
<1>6. N < s * (2 * t)
  BY <1>1, <1>2, <1>4, ShiftBrings
<1>7. T < 2 * t
  <2>1. SUFFICES ASSUME 2 * t <= T PROVE FALSE
    OBVIOUS
  <2>2. s * (2 * t) <= s * T
    BY <2>1
  <2>3. s * (2 * t) \in Nat /\ s * T \in Nat
    OBVIOUS
  <2>4. QED
    BY <1>5, <1>6, <2>2, <2>3
<1>8. P < f * (2 * t)
  <2>1. T + 1 <= 2 * t
    BY <1>7
  <2>2. f * (T + 1) <= f * (2 * t)
    BY <2>1
  <2>3. f * (T + 1) = f * T + f
    OBVIOUS
  <2>4. f * T \in Nat /\ f * (2 * t) \in Nat
    OBVIOUS
  <2>5. QED
    BY <1>5, <2>2, <2>3, <2>4
<1>9. f * (2 * t) = 2 ^ Word
  BY <1>2, <1>3, ScaleType, Zenon
<1>10. QED
  BY <1>4, <1>8, <1>9 DEF SumFits

\* The arithmetic of the mean: N samples, of which T times s are kept, with the
\* squares P of those and E of all; p is P over T, to the nearest integer.
LEMMA MeanOfKept ==
  ASSUME NEW N \in Nat, NEW T \in Nat \ {0}, NEW P \in Nat, NEW E \in Nat,
         NEW s \in Nat \ {0}, NEW f \in Nat, NEW l \in Nat, NEW p \in 0 .. f,
         p = (P + T \div 2) \div T,
         s * T <= N, N <= s * T + l, s * P <= E,
         E + (f * s) * T <= f * N + s * P
  PROVE  2 * Magnitude(p * N - E) <= N + 2 * (f * l)
<1>1. PICK h \in Nat : h = T \div 2 /\ 2 * h <= T /\ T <= 2 * h + 1
  BY Division
<1>2. T * p <= P + h /\ P + h < T * (p + 1)
  BY <1>1, Division
<1>3. PICK g \in Nat : g = T * p
  OBVIOUS
<1>4. T * (p + 1) = g + T
  <2>1. p \in Nat
    OBVIOUS
  <2>2. T * (p + 1) = T * p + T
    BY <2>1
  <2>3. QED
    BY <1>3, <2>2
<1>5. 2 * g - 2 * P <= T /\ 2 * P - 2 * g <= T
  BY <1>1, <1>2, <1>3, <1>4
<1>6. PICK r \in Nat : N = s * T + r
  <2>1. s * T \in Nat
    OBVIOUS
  <2>2. N - s * T \in Nat /\ N = s * T + (N - s * T)
    BY <2>1
  <2>3. QED
    BY <2>2
<1>7. PICK e \in Nat : E = s * P + e
  <2>1. s * P \in Nat
    OBVIOUS
  <2>2. E - s * P \in Nat /\ E = s * P + (E - s * P)
    BY <2>1
  <2>3. QED
    BY <2>2
<1>8. r <= l
  <2>1. s * T \in Nat
    OBVIOUS
  <2>2. QED
    BY <1>6, <2>1
<1>9. e <= f * r
  <2>1. f * (s * T + r) = (f * s) * T + f * r
    OBVIOUS
  <2>2. f * N = (f * s) * T + f * r
    BY <1>6, <2>1
  <2>3. (f * s) * T \in Nat /\ f * r \in Nat /\ s * P \in Nat
    OBVIOUS
  <2>4. QED
    BY <1>7, <2>2, <2>3
<1>10. p * r <= f * r /\ f * r <= f * l
  BY <1>8
<1>11. PICK x \in Int : x = g - P
  <2>1. g - P \in Int
    OBVIOUS
  <2>2. QED
    BY <2>1
<1>12. p * N - E = s * x + p * r - e
  <2>1. p * (s * T + r) = s * (T * p) + p * r
    OBVIOUS
  <2>2. p * N = s * g + p * r
    BY <1>3, <1>6, <2>1
  <2>3. s * (g - P) = s * g - s * P
    OBVIOUS
  <2>4. s * g \in Int /\ p * r \in Int /\ s * P \in Int
    OBVIOUS
  <2>5. QED
    BY <1>7, <1>11, <2>2, <2>3, <2>4
<1>13. 2 * (s * x) <= s * T /\ -(2 * (s * x)) <= s * T
  <2>1. 2 * x <= T /\ -(2 * x) <= T
    BY <1>5, <1>11
  <2>2. s * (2 * x) <= s * T /\ s * (-(2 * x)) <= s * T
    BY <2>1
  <2>3. s * (2 * x) = 2 * (s * x) /\ s * (-(2 * x)) = -(2 * (s * x))
    OBVIOUS
  <2>4. QED
    BY <2>2, <2>3
<1>14. PICK y \in Int, u \in Nat, v \in Nat, w \in Nat, z \in Nat :
         y = s * x /\ u = p * r /\ v = f * l /\ w = s * T /\ z = f * r
  <2>1. p \in Nat
    OBVIOUS
  <2>2. s * x \in Int /\ p * r \in Nat /\ f * l \in Nat /\ s * T \in Nat /\ f * r \in Nat
    BY <2>1
  <2>3. QED
    BY <2>2
<1>15. /\ 2 * y <= w /\ -(2 * y) <= w /\ e <= z /\ u <= z /\ z <= v
       /\ N = w + r /\ p * N - E = y + u - e
  BY <1>6, <1>9, <1>10, <1>12, <1>13, <1>14
<1>16. PICK m \in Int : m = p * N - E
  <2>1. y + u - e \in Int
    OBVIOUS
  <2>2. QED
    BY <1>15, <2>1
<1>17. 2 * m <= N + 2 * v /\ -(2 * m) <= N + 2 * v
  BY <1>15, <1>16
<1>18. 2 * Magnitude(m) <= N + 2 * v
  BY <1>17 DEF Magnitude
<1>19. QED
  BY <1>14, <1>16, <1>18

\* The power returned is the quotient print_stats computes, within full scale.
PowerOfCounts ==
  ret = "power" =>
    /\ nb_samples_shift # 0
    /\ power = (((Power % 2 ^ Word) + nb_samples_shift \div 2) % 2 ^ Word) \div nb_samples_shift
    /\ power <= Full * Full

StatsInv ==
  /\ StatsTypeOK
  /\ PowerOfCounts

\* No more samples are summed than were counted.
LEMMA SamplesBounded ==
  ASSUME StatsTypeOK
  PROVE  /\ histogram \in [Buckets -> Nat]
         /\ nb_samples \in 0 .. 2 ^ Word - 1
<1>1. Counts(histogram) /\ histogram \in [Buckets -> Nat] /\ histogram[2 * Full] \in Nat
  BY FullType DEF StatsTypeOK, Counts, Buckets, Summed
<1>2. Total(histogram) \in Nat
  BY <1>1, TotalSame
<1>3. MaxSamples \in 0 .. 2 ^ Word - 1 /\ 2 ^ Word \in Nat
  BY MaxSamplesAssumption, ScaleType
<1>4. counted = Total(histogram) + histogram[2 * Full] /\ counted \in 0 .. MaxSamples
  BY DEF StatsTypeOK
<1>5. Total(histogram) \in 0 .. 2 ^ Word - 1
  <2> DEFINE w == 2 ^ Word
             T == Total(histogram)
             x == histogram[2 * Full]
  <2>1. x \in Nat /\ T \in Nat /\ w \in Nat /\ MaxSamples \in 0 .. w - 1
        /\ counted = T + x /\ counted \in 0 .. MaxSamples
    BY <1>1, <1>2, <1>3, <1>4
  <2> HIDE DEF w, T, x
  <2>2. T \in 0 .. w - 1
    BY <2>1
  <2>3. QED
    BY <2>2 DEF w, T
<1>6. QED
  BY <1>1, <1>5 DEF nb_samples

\* The mean is close in every state of the invariant.
LEMMA InvClose ==
  ASSUME StatsInv
  PROVE  SumFits /\ MeanClose
<1>1. histogram \in [Buckets -> Nat] /\ nb_samples \in 0 .. 2 ^ Word - 1
  BY SamplesBounded DEF StatsInv
<1>2. SumFits
  BY <1>1, Fits
<1>3. SUFFICES ASSUME ret = "power", RoundingFits
               PROVE  2 * Magnitude(power * nb_samples - Exact) <= nb_samples + 2 * Full * Full * Lost
  BY <1>2 DEF MeanClose
<1>4. PICK s \in Nat \ {0} : s = 2 ^ shift
  BY <1>1, ShiftBrings
<1>5. PICK f \in Nat : f = Full * Full
  BY FullType
<1>6. PICK N \in Nat, T \in Nat, P \in Nat, E \in Nat :
        N = nb_samples /\ T = nb_samples_shift /\ P = Power /\ E = Exact
  BY <1>1, AllKept
<1>7. PICK w \in Nat \ {0} : w = 2 ^ Word
  BY ScaleType
<1>8. PICK l \in Nat : l = Lost
  <2>1. 2 * Full * (s - 1) \in Nat
    BY FullType
  <2>2. QED
    BY <1>4, <2>1 DEF Lost
<1>9. /\ s * T <= N /\ N <= s * T + l /\ s * P <= E
      /\ E + (f * s) * T <= f * N + s * P
  BY <1>1, <1>4, <1>5, <1>6, <1>8, AllKept DEF Lost
<1>10. P < w /\ P + T \div 2 < w
  BY <1>2, <1>3, <1>6, <1>7 DEF SumFits, RoundingFits
<1>11. T # 0 /\ power = (((P % w) + T \div 2) % w) \div T /\ power <= f
  BY <1>3, <1>5, <1>6, <1>7 DEF StatsInv, PowerOfCounts
<1>12. P % w = P /\ (P + T \div 2) % w = P + T \div 2
  <2>1. T \div 2 \in Nat
    BY Division
  <2>2. \A x \in Nat : x < w => x % w = x
    OBVIOUS
  <2>3. P + T \div 2 \in Nat
    BY <2>1
  <2>4. QED
    BY <1>10, <2>2, <2>3
<1>13. PICK p \in Nat : p = power
  <2>1. (P + T \div 2) \div T \in Nat
    <3>1. T \div 2 \in Nat
      BY Division
    <3>2. P + T \div 2 \in Nat /\ T \in Nat \ {0}
      BY <1>11, <3>1
    <3>3. QED
      BY <3>2, Division
  <2>2. QED
    BY <1>11, <1>12, <2>1
<1>14. T \in Nat \ {0} /\ p \in 0 .. f /\ p = (P + T \div 2) \div T
  BY <1>11, <1>12, <1>13
<1>15. 2 * Magnitude(p * N - E) <= N + 2 * (f * l)
  BY <1>9, <1>14, MeanOfKept
<1>16. 2 * Full * Full * l = 2 * (f * l)
  <2>1. \A x \in Nat : 2 * x * x * l = 2 * ((x * x) * l)
    OBVIOUS
  <2>2. QED
    BY <1>5, <2>1, FullType
<1>17. QED
  BY <1>6, <1>8, <1>13, <1>15, <1>16

-------------------------------------------------------------------------------
(* The steps of audio_volume.                                                *)

\* Counting one level's samples: the level counted is in the histogram.
LEMMA HisType ==
  ASSUME NEW x \in Int, NEW his \in His(x)
  PROVE  his + Full \in Buckets
<1>1. Full \in Nat \ {0}
  BY FullType
<1>2. CASE Magnitude(x) > IntRange
  BY <1>1, <1>2 DEF His, Buckets
<1>3. CASE ~ (Magnitude(x) > IntRange)
  <2> DEFINE y == IF x >= 0 THEN x \div 2 ELSE -((-x) \div 2)
             lo == Min({y, Full})
             top == Max({lo, -Full})
  <2>1. his = top
    BY <1>3 DEF His
  <2>2. y \in Int
    <3>1. \A z \in Nat : z \div 2 \in Nat
      BY Division
    <3>2. CASE x >= 0
      BY <3>1, <3>2
    <3>3. CASE x < 0
      <4>1. -x \in Nat
        BY <3>3
      <4>2. (-x) \div 2 \in Nat
        BY <3>1, <4>1
      <4>3. y = -((-x) \div 2)
        BY <3>3
      <4>4. QED
        BY <4>2, <4>3
    <3>4. QED
      BY <3>2, <3>3
  <2> HIDE DEF y
  <2>3. lo \in Int /\ lo <= Full
    <3>1. CASE y <= Full
      <4>1. \E z \in {y, Full} : \A v \in {y, Full} : z <= v
        BY <1>1, <2>2, <3>1
      <4>2. lo \in {y, Full} /\ \A v \in {y, Full} : lo <= v
        BY <4>1 DEF Min
      <4> HIDE DEF lo
      <4>3. QED
        BY <1>1, <2>2, <4>2
    <3>2. CASE Full <= y
      <4>1. \E z \in {y, Full} : \A v \in {y, Full} : z <= v
        BY <1>1, <2>2, <3>2
      <4>2. lo \in {y, Full} /\ \A v \in {y, Full} : lo <= v
        BY <4>1 DEF Min
      <4> HIDE DEF lo
      <4>3. QED
        BY <1>1, <2>2, <4>2
    <3>3. QED
      BY <1>1, <2>2, <3>1, <3>2
  <2> HIDE DEF lo
  <2>4. -Full \in Int /\ -Full <= Full
    BY <1>1
  <2>5. \E z \in {lo, -Full} : \A v \in {lo, -Full} : z >= v
    <3>1. lo <= -Full \/ -Full <= lo
      BY <2>3, <2>4
    <3>2. QED
      BY <2>3, <2>4, <3>1
  <2>6. top \in {lo, -Full} /\ \A v \in {lo, -Full} : top >= v
    BY <2>5 DEF Max
  <2> HIDE DEF top
  <2>7. top \in Int /\ top <= Full /\ top >= -Full
    BY <2>3, <2>4, <2>6
  <2>8. QED
    BY <1>1, <2>1, <2>7 DEF Buckets
<1>4. QED
  BY <1>2, <1>3

\* Every step keeps the types and the count.
LEMMA StatsTypeStep == StatsTypeOK /\ [StatsNext]_stats => StatsTypeOK'
<1> SUFFICES ASSUME StatsTypeOK, [StatsNext]_stats PROVE StatsTypeOK'
  OBVIOUS
<1>1. ASSUME filter_frame_f PROVE StatsTypeOK'
  <2>1. PICK x \in Levels, num \in FrameLengths :
          \E his \in His(x) :
            /\ counted + num <= MaxSamples
            /\ counted' = counted + num
            /\ histogram' = [histogram EXCEPT ![his + Full] = @ + num]
    BY <1>1 DEF filter_frame_f
  <2>2. PICK his \in His(x) :
            /\ counted + num <= MaxSamples
            /\ counted' = counted + num
            /\ histogram' = [histogram EXCEPT ![his + Full] = @ + num]
    BY <2>1
  <2>3. x \in Int /\ num \in Nat
    BY LevelsAssumption
  <2>4. PICK j \in Buckets : j = his + Full
    BY <2>3, HisType
  <2>5. histogram' = [histogram EXCEPT ![j] = @ + num] /\ histogram \in [Buckets -> Nat]
    BY <2>2, <2>4 DEF StatsTypeOK
  <2>6. histogram' \in [Buckets -> Nat]
    <3>1. histogram[j] + num \in Nat
      BY <2>3, <2>5
    <3>2. QED
      BY <2>5, <3>1
  <2>7. counted' \in 0 .. MaxSamples
    <3>1. MaxSamples \in Int /\ counted \in Nat /\ counted + num <= MaxSamples
      <4>1. MaxSamples \in Int
        BY MaxSamplesAssumption, ScaleType
      <4>2. QED
        BY <2>2, <4>1 DEF StatsTypeOK
    <3>2. QED
      BY <2>2, <2>3, <3>1
  <2>8. UNCHANGED << power, ret >>
    BY <1>1 DEF filter_frame_f
  <2>9. PICK h : h = histogram'
    OBVIOUS
  <2>10. Counts(histogram) /\ 2 * Full \in Buckets /\ histogram[2 * Full] \in Nat
         /\ Buckets = Summed \cup {2 * Full} /\ 2 * Full \notin Summed
    BY <2>5, FullType DEF Counts, Buckets, Summed
  <2>11. counted = Total(histogram) + histogram[2 * Full] /\ counted \in Nat
    <3>1. MaxSamples \in Int
      BY MaxSamplesAssumption, ScaleType
    <3>2. QED
      BY <3>1 DEF StatsTypeOK
  <2>12. counted' = Total(h) + h[2 * Full]
    <3>1. CASE j = 2 * Full
      <4>1. h[2 * Full] = histogram[2 * Full] + num /\ \A i \in Summed : histogram[i] = h[i]
        BY <2>5, <2>9, <2>10, <3>1
      <4>2. Total(histogram) \in Nat /\ Total(histogram) = Total(h)
        BY <2>10, <4>1, TotalSame
      <4>3. QED
        BY <2>2, <2>3, <2>10, <2>11, <4>1, <4>2
    <3>2. CASE j # 2 * Full
      <4>1. j \in Summed
        BY <2>10, <3>2
      <4>2. /\ h[2 * Full] = histogram[2 * Full] /\ h[j] = histogram[j] + num
            /\ \A i \in Summed \ {j} : h[i] = histogram[i]
        BY <2>5, <2>9, <2>10, <3>2, <4>1
      <4>3. Total(histogram) \in Nat /\ Total(h) = Total(histogram) + num
        BY <2>3, <2>10, <4>1, <4>2, TotalAdd
      <4>4. QED
        BY <2>2, <2>3, <2>10, <2>11, <4>2, <4>3
    <3>3. QED
      BY <3>1, <3>2
  <2>13. Total(h) = Total(histogram)'
    BY <2>9
  <2>14. counted' = (Total(histogram) + histogram[2 * Full])'
    BY <2>9, <2>12, <2>13
  <2>15. QED
    BY <2>6, <2>7, <2>8, <2>14 DEF StatsTypeOK
<1>2. ASSUME print_stats PROVE StatsTypeOK'
  <2>1. UNCHANGED << counted, histogram >> /\ ret' \in {"none", "zero", "power"}
    BY <1>2 DEF print_stats
  <2>2. power' \in 0 .. 2 ^ Word - 1
    <3>1. CASE nb_samples = 0 \/ nb_samples_shift = 0
      BY <1>2, <3>1 DEF print_stats, StatsTypeOK
    <3>2. CASE ~ (nb_samples = 0 \/ nb_samples_shift = 0)
      <4>1. PICK T \in Nat, P \in Nat : T = nb_samples_shift /\ P = Power
        BY SamplesBounded, AllKept
      <4>2. PICK w \in Nat \ {0} : w = 2 ^ Word
        BY ScaleType
      <4>3. T \in Nat \ {0} /\ power' = (((P % w) + T \div 2) % w) \div T
        BY <1>2, <3>2, <4>1, <4>2 DEF print_stats
      <4>4. P % w \in Nat /\ T \div 2 \in Nat
        BY Division
      <4>5. (P % w) + T \div 2 \in Nat
        BY <4>4
      <4>6. ((P % w) + T \div 2) % w \in 0 .. w - 1
        BY <4>5
      <4>7. PICK z \in 0 .. w - 1 : z = ((P % w) + T \div 2) % w
        BY <4>6
      <4>8. z \div T \in Nat /\ T * (z \div T) <= z
        BY <4>3, Division
      <4>9. PICK q \in Nat : q = z \div T /\ T * q <= z
        BY <4>8
      <4>10. q <= T * q
        BY <4>3
      <4>11. q <= z
        <5>1. T * q \in Int
          BY <4>3
        <5>2. QED
          BY <4>9, <4>10, <5>1
      <4>12. QED
        BY <4>2, <4>3, <4>7, <4>9, <4>11
    <3>3. QED
      BY <3>1, <3>2
  <2>3. QED
    BY <2>1, <2>2 DEF StatsTypeOK
<1>3. CASE UNCHANGED stats
  BY <1>3 DEF stats, StatsTypeOK
<1>4. QED
  BY <1>1, <1>2, <1>3 DEF StatsNext

\* Every step keeps the power what the counts make it: none is counted after it.
LEMMA StatsInvStep == StatsInv /\ [StatsNext]_stats => StatsInv'
<1> SUFFICES ASSUME StatsInv, [StatsNext]_stats PROVE StatsInv'
  OBVIOUS
<1>1. StatsTypeOK'
  BY StatsTypeStep DEF StatsInv
<1>2. ASSUME filter_frame_f PROVE PowerOfCounts'
  BY <1>2 DEF filter_frame_f, PowerOfCounts
<1>3. ASSUME print_stats PROVE PowerOfCounts'
  <2>1. UNCHANGED histogram
    BY <1>3 DEF print_stats
  <2>2. SUFFICES ASSUME ret' = "power"
                 PROVE  /\ nb_samples_shift # 0
                        /\ power' = (((Power % 2 ^ Word) + nb_samples_shift \div 2) % 2 ^ Word)
                                      \div nb_samples_shift
                        /\ power' <= Full * Full
    <3>1. /\ nb_samples_shift' = nb_samples_shift
          /\ Power' = Power
      BY <2>1 DEF nb_samples_shift, Power, Shifted, shift, nb_samples, Total
    <3>2. QED
      BY <3>1 DEF PowerOfCounts
  <2>3. ~ (nb_samples = 0 \/ nb_samples_shift = 0)
    BY <1>3, <2>2 DEF print_stats
  <2>4. /\ power' = (((Power % 2 ^ Word) + nb_samples_shift \div 2) % 2 ^ Word) \div nb_samples_shift
        /\ ret' = IF power' > Full * Full THEN "zero" ELSE "power"
    BY <1>3, <2>3 DEF print_stats
  <2>5. ~ (power' > Full * Full)
    BY <2>2, <2>4
  <2>6. power' <= Full * Full
    <3>1. power' \in Int /\ Full * Full \in Int
      BY <1>1, ScaleType, FullType DEF StatsTypeOK
    <3>2. QED
      BY <2>5, <3>1
  <2>7. QED
    BY <2>3, <2>4, <2>6
<1>4. CASE UNCHANGED stats
  <2>1. UNCHANGED << histogram, power, ret >>
    BY <1>4 DEF stats
  <2>2. nb_samples_shift' = nb_samples_shift /\ Power' = Power
    BY <2>1 DEF nb_samples_shift, Power, Shifted, shift, nb_samples, Total
  <2>3. QED
    BY <1>1, <2>1, <2>2 DEF StatsInv, PowerOfCounts
<1>5. QED
  BY <1>1, <1>2, <1>3, <1>4 DEF StatsNext, StatsInv

\* No samples are counted at first.
LEMMA StatsInvInit == StatsInit => StatsInv
<1> SUFFICES ASSUME StatsInit PROVE StatsInv
  OBVIOUS
<1>1. histogram = [i \in Buckets |-> 0] /\ counted = 0 /\ power = 0 /\ ret = "none"
  BY DEF StatsInit
<1>2. Counts(histogram) /\ histogram \in [Buckets -> Nat] /\ histogram[2 * Full] = 0
      /\ \A i \in Summed : histogram[i] = 0
  BY <1>1, FullType DEF Counts, Buckets, Summed
<1>3. Total(histogram) = 0
  <2>1. PICK s : Sums(histogram, s, 2 * Full) /\ Total(histogram) = s[2 * Full]
    BY <1>2, TotalDefined
  <2> DEFINE T == {i \in Nat : i <= 2 * Full => s[i] = 0}
  <2>2. 0 \in T
    BY <2>1 DEF Sums
  <2>3. ASSUME NEW i \in T PROVE i + 1 \in T
    <3>1. SUFFICES ASSUME i + 1 <= 2 * Full PROVE s[i + 1] = 0
      OBVIOUS
    <3>2. i \in 0 .. 2 * Full - 1 /\ i \in Summed /\ i \in Nat /\ i <= 2 * Full
      BY <3>1, FullType DEF Summed
    <3>3. s[i] = 0 /\ s[i + 1] = s[i] + histogram[i]
      BY <2>1, <3>2 DEF Sums
    <3>4. QED
      BY <1>2, <3>2, <3>3
  <2>4. T = Nat
    <3> HIDE DEF T
    <3>1. T \in SUBSET Nat
      BY DEF T
    <3>2. QED
      BY <2>2, <2>3, <3>1, AllNat
  <2>5. 2 * Full \in T /\ 2 * Full <= 2 * Full
    <3> HIDE DEF T
    <3>1. QED
      BY <2>4, FullType
  <2>6. QED
    BY <2>1, <2>5
<1>4. 0 \in 0 .. MaxSamples /\ 0 \in 0 .. 2 ^ Word - 1
  <2>1. MaxSamples \in Nat /\ 2 ^ Word \in Nat \ {0}
    BY MaxSamplesAssumption, ScaleType
  <2>2. QED
    BY <2>1
<1>5. QED
  BY <1>1, <1>2, <1>3, <1>4 DEF StatsInv, StatsTypeOK, PowerOfCounts

\* The invariant holds of every behaviour.
THEOREM StatsInvariant == StatsSpec => []StatsInv
<1>1. QED
  BY StatsInvInit, StatsInvStep, PTL DEF StatsSpec

\* Every variable has its type, and no sample is counted outside the histogram.
THEOREM StatsTypeCorrect == StatsSpec => []StatsTypeOK
<1>1. StatsInv => StatsTypeOK
  BY DEF StatsInv
<1>2. QED
  BY <1>1, StatsInvariant, PTL

\* Whatever full scale and whatever the width of the integers, the shift keeps
\* the sum of the squares within them (SumFits of the run algorithms).
THEOREM SumFitsAlways == StatsSpec => []SumFits
<1>1. StatsInv => SumFits
  BY InvClose
<1>2. QED
  BY <1>1, StatsInvariant, PTL

\* The power is the mean of the squares but for rounding and the samples the
\* shift lost, for every histogram whose sum does not overflow when the rounding
\* term is added; the run rounding shows that it does for some.
THEOREM MeanCloseAlways == StatsSpec => []MeanClose
<1>1. StatsInv => MeanClose
  BY InvClose
<1>2. QED
  BY <1>1, StatsInvariant, PTL

-------------------------------------------------------------------------------
(* Greatest elements.                                                        *)

\* A finite set of integers has a greatest element.
LEMMA GreatestOf ==
  ASSUME NEW S \in SUBSET Int, IsFiniteSet(S), S # {}
  PROVE  \E x \in S : \A y \in S : y <= x
<1> DEFINE Above(x) == { y \in S : y > x }
           U == { Above(x) : x \in S }
<1>1. U \subseteq FiniteSubsetsOf(S) /\ U # {}
  <2>1. \A x \in S : Above(x) \subseteq S
    OBVIOUS
  <2>2. \A x \in S : Above(x) \in FiniteSubsetsOf(S)
    <3> HIDE DEF Above
    <3>1. QED
      BY <2>1, FS_Subset DEF FiniteSubsetsOf
  <2>3. QED
    BY <2>2
<1>2. \E u \in U : \A v \in U : ~ (<< v, u >> \in StrictSubsetOrdering(S))
  <2>1. IsWellFoundedOn(StrictSubsetOrdering(S), FiniteSubsetsOf(S))
    BY FS_StrictSubsetOrderingWellFounded
  <2> HIDE DEF U
  <2>2. QED
    BY <1>1, <2>1, WFMin
<1>3. PICK x \in S : \A y \in S : ~ (<< Above(y), Above(x) >> \in StrictSubsetOrdering(S))
  BY <1>2
<1>4. ASSUME NEW y \in S, y > x PROVE FALSE
  <2>1. Above(y) \subseteq Above(x)
    <3>1. \A z \in S : z > y => z > x
      BY <1>4
    <3>2. QED
      BY <3>1
  <2>a. y \in Above(x) /\ y \notin Above(y) /\ Above(x) \subseteq S
    BY <1>4
  <2>2. << Above(y), Above(x) >> \in StrictSubsetOrdering(S)
    <3> HIDE DEF Above
    <3>1. QED
      BY <2>1, <2>a DEF StrictSubsetOrdering
  <2>3. QED
    BY <1>3, <2>2
<1>5. QED
  BY <1>4

-------------------------------------------------------------------------------
(* The integers of n-grams.                                                  *)

\* Quotient and remainder are the only ones.
LEMMA RemainderUnique ==
  ASSUME NEW x \in Int, NEW p \in Nat \ {0}, NEW e \in Int, NEW f \in 0 .. p - 1, x = p * e + f
  PROVE  x % p = f
<1>1. PICK d \in Int, g \in 0 .. p - 1 : d = x \div p /\ g = x % p /\ x = p * d + g
  <2>1. x = p * (x \div p) + (x % p) /\ x \div p \in Int /\ x % p \in 0 .. p - 1
    OBVIOUS
  <2>2. QED
    BY <2>1
<1>2. PICK u \in Int : u = e - d
  OBVIOUS
<1>3. p * u = g - f
  <2>1. p * (e - d) = p * e - p * d
    OBVIOUS
  <2>2. p * e \in Int /\ p * d \in Int
    OBVIOUS
  <2>3. QED
    BY <1>1, <1>2, <2>1, <2>2
<1>4. ~ (u >= 1)
  <2>1. SUFFICES ASSUME u >= 1 PROVE FALSE
    OBVIOUS
  <2>2. p * u >= p
    BY <2>1
  <2>3. QED
    BY <1>3, <2>2
<1>5. ~ (u <= -1)
  <2>1. SUFFICES ASSUME u <= -1 PROVE FALSE
    OBVIOUS
  <2>2. p * u <= -p
    BY <2>1
  <2>3. QED
    BY <1>3, <2>2
<1>6. u = 0
  BY <1>4, <1>5
<1>7. p * u = 0
  BY <1>6
<1>8. QED
  BY <1>1, <1>3, <1>7

\* A multiple of the modulus may be left out.
LEMMA ModShift ==
  ASSUME NEW x \in Int, NEW m \in Int, NEW p \in Nat \ {0}
  PROVE  (x + p * m) % p = x % p
<1>1. PICK d \in Int, g \in 0 .. p - 1 : g = x % p /\ x = p * d + g
  <2>1. x = p * (x \div p) + (x % p) /\ x \div p \in Int /\ x % p \in 0 .. p - 1
    OBVIOUS
  <2>2. QED
    BY <2>1
<1>2. x + p * m = p * (d + m) + g
  <2>1. p * (d + m) = p * d + p * m
    OBVIOUS
  <2>2. p * d \in Int /\ p * m \in Int
    OBVIOUS
  <2>3. QED
    BY <1>1, <2>1, <2>2
<1>3. x + p * m \in Int /\ d + m \in Int
  <2>1. p * m \in Int
    OBVIOUS
  <2>2. QED
    BY <2>1
<1>4. (x + p * m) % p = g
  BY <1>2, <1>3, RemainderUnique
<1>5. QED
  BY <1>1, <1>4

\* A mask of more words keeps the integer of fewer.
LEMMA ModMask ==
  ASSUME NEW x \in Int, NEW p \in Nat \ {0}, NEW q \in Nat \ {0}
  PROVE  (x % (p * q)) % p = x % p
<1>1. PICK z \in Nat \ {0} : z = p * q
  <2>1. p * q \in Nat /\ p * q # 0
    OBVIOUS
  <2>2. QED
    BY <2>1
<1>2. PICK d \in Int, g \in 0 .. z - 1 : g = x % z /\ x = z * d + g
  <2>1. x = z * (x \div z) + (x % z) /\ x \div z \in Int /\ x % z \in 0 .. z - 1
    OBVIOUS
  <2>2. QED
    BY <2>1
<1>3. z * d = p * (q * d) /\ q * d \in Int
  BY <1>1
<1>4. x = g + p * (q * d)
  BY <1>2, <1>3
<1>5. (g + p * (q * d)) % p = g % p
  <2>1. g \in Int
    OBVIOUS
  <2>2. QED
    BY <1>3, <2>1, ModShift
<1>6. QED
  BY <1>1, <1>2, <1>4, <1>5

\* Adding the words c and d to the integers x and y.
AddsWord(x, y, h, p, c, d) ==
  (x * (2 * h) + c) % (p * (2 * h)) = (y * (2 * h) + d) % (p * (2 * h))
    <=> c = d /\ x % p = y % p

\* Two integers of one more word are the same under a mask only if the last
\* words are, which are at least -h and less than h, and the integers before
\* them, under a mask of one word less.
LEMMA LastWord ==
  ASSUME NEW x \in Int, NEW y \in Int, NEW h \in Nat \ {0}, NEW p \in Nat \ {0},
         NEW c \in -h .. h - 1, NEW d \in -h .. h - 1
  PROVE  AddsWord(x, y, h, p, c, d)
<1> DEFINE b == 2 * h
           X == x * b + c
           Y == y * b + d
           z == p * b
<1>1. b \in Nat \ {0} /\ z \in Nat \ {0} /\ X \in Int /\ Y \in Int
  <2>1. b \in Nat \ {0}
    OBVIOUS
  <2> HIDE DEF b
  <2>2. p * b \in Nat /\ p * b # 0 /\ x * b \in Int /\ y * b \in Int
    BY <2>1
  <2>3. QED
    BY <2>1, <2>2
<1>2. ASSUME c = d, x % p = y % p PROVE X % z = Y % z
  <2>1. PICK e \in Int, f \in Int, g \in 0 .. p - 1 : x = p * e + g /\ y = p * f + g
    <3>1. x = p * (x \div p) + (x % p) /\ x \div p \in Int /\ x % p \in 0 .. p - 1
      OBVIOUS
    <3>2. y = p * (y \div p) + (y % p) /\ y \div p \in Int
      OBVIOUS
    <3>3. QED
      BY <1>2, <3>1, <3>2
  <2> HIDE DEF b
  <2>2. X = (g * b + c) + z * e /\ Y = (g * b + c) + z * f
    <3>1. (p * e + g) * b = g * b + (p * b) * e /\ (p * f + g) * b = g * b + (p * b) * f
      BY <1>1
    <3>2. g * b \in Int /\ (p * b) * e \in Int /\ (p * b) * f \in Int
      BY <1>1
    <3>3. QED
      BY <1>2, <2>1, <3>1, <3>2
  <2> HIDE DEF z, X, Y
  <2>3. g * b + c \in Int
    BY <1>1
  <2>4. ((g * b + c) + z * e) % z = (g * b + c) % z /\ ((g * b + c) + z * f) % z = (g * b + c) % z
    BY <1>1, <2>3, ModShift
  <2>5. QED
    BY <2>2, <2>4
<1>3. ASSUME X % z = Y % z PROVE c = d /\ x % p = y % p
  <2>1. PICK e \in Int, f \in Int, g \in 0 .. z - 1 : X = z * e + g /\ Y = z * f + g
    <3> HIDE DEF X, Y, z
    <3>1. X = z * (X \div z) + (X % z) /\ X \div z \in Int /\ X % z \in 0 .. z - 1
      BY <1>1
    <3>2. Y = z * (Y \div z) + (Y % z) /\ Y \div z \in Int
      BY <1>1
    <3>3. QED
      BY <1>3, <3>1, <3>2
  <2>2. PICK m \in Int : m = e - f
    OBVIOUS
  <2>3. PICK u \in Int : u = p * m - x + y
    <3>1. p * m \in Int
      OBVIOUS
    <3>2. p * m - x + y \in Int
      BY <3>1
    <3>3. QED
      BY <3>2
  <2> HIDE DEF b
  <2>4. c - d = b * u
    <3>1. X - Y = z * m
      <4>1. z * (e - f) = z * e - z * f /\ z * e \in Int /\ z * f \in Int
        BY <1>1
      <4> HIDE DEF X, Y, z
      <4>2. QED
        BY <1>1, <2>1, <2>2, <4>1
    <3>2. (x * b + c) - (y * b + d) = (p * b) * m
      BY <3>1, Zenon
    <3>3. b * (p * m - x + y) = (p * b) * m - x * b + y * b
      BY <1>1
    <3>4. x * b \in Int /\ y * b \in Int /\ (p * b) * m \in Int
      BY <1>1
    <3>5. c \in Int /\ d \in Int
      OBVIOUS
    <3>6. QED
      BY <2>3, <3>2, <3>3, <3>4, <3>5
  <2>5. c - d < b /\ c - d > -b
    BY DEF b
  <2>6. u = 0
    <3>1. ~ (u >= 1)
      <4>1. SUFFICES ASSUME u >= 1 PROVE FALSE
        OBVIOUS
      <4>2. b * u >= b
        BY <1>1, <4>1
      <4>3. QED
        BY <1>1, <2>4, <2>5, <4>2
    <3>2. ~ (u <= -1)
      <4>1. SUFFICES ASSUME u <= -1 PROVE FALSE
        OBVIOUS
      <4>2. b * u <= -b
        BY <1>1, <4>1
      <4>3. QED
        BY <1>1, <2>4, <2>5, <4>2
    <3>3. QED
      BY <3>1, <3>2
  <2>7. c = d
    <3>1. b * u = 0
      BY <1>1, <2>6
    <3>2. QED
      BY <2>4, <3>1
  <2>8. x = y + p * m
    <3>1. p * m \in Int
      OBVIOUS
    <3>2. QED
      BY <2>3, <2>6, <3>1
  <2>9. x % p = y % p
    BY <2>8, ModShift
  <2>10. QED
    BY <2>7, <2>9
<1>4. QED
  BY <1>2, <1>3 DEF AddsWord

\* The integers below the mask of num words.
Mask(num) == 2 ^ (Width * num)

\* Masks are powers of the one of one word, which is the number of words.
LEMMA MaskFacts ==
  /\ \A j \in 0 .. 4 : Mask(j) \in Nat \ {0}
  /\ Mask(0) = 1
  /\ \A j \in 0 .. 3 : Mask(j + 1) = Mask(j) * 2 ^ Width
  /\ \A j \in 0 .. 4, k \in 0 .. 4 : j <= k => Mask(k) = Mask(j) * Mask(k - j)
<1>1. Width \in Nat /\ \A j \in 0 .. 4 : Width * j \in Nat
  BY WidthAssumption
<1>2. \A j \in 0 .. 4 : Mask(j) \in Nat \ {0}
  BY <1>1, PowNat, Zenon DEF Mask
<1>3. Mask(0) = 1
  <2>1. Width * 0 = 0
    BY <1>1
  <2>2. QED
    BY <2>1, PowZero, Zenon DEF Mask
<1>4. ASSUME NEW j \in 0 .. 3 PROVE Mask(j + 1) = Mask(j) * 2 ^ Width
  <2>1. Width * (j + 1) = Width * j + Width /\ Width * j \in Nat
    BY <1>1
  <2>2. 2 ^ (Width * j + Width) = 2 ^ (Width * j) * 2 ^ Width
    BY <1>1, <2>1, PowAdd, Zenon
  <2>3. QED
    BY <2>1, <2>2, Zenon DEF Mask
<1>5. ASSUME NEW j \in 0 .. 4, NEW k \in 0 .. 4, j <= k
      PROVE  Mask(k) = Mask(j) * Mask(k - j)
  <2>1. /\ Width * k = Width * j + Width * (k - j)
        /\ Width * j \in Nat /\ Width * (k - j) \in Nat
    <3>1. k - j \in Nat
      BY <1>5
    <3>2. QED
      BY <1>1, <3>1
  <2>2. 2 ^ (Width * j + Width * (k - j)) = 2 ^ (Width * j) * 2 ^ (Width * (k - j))
    BY <2>1, PowAdd, Zenon
  <2>3. QED
    BY <2>1, <2>2, Zenon DEF Mask
<1>6. QED
  BY <1>2, <1>3, <1>4, <1>5

\* Words are as far below zero as above.
LEMMA WordRange ==
  \E h \in Nat \ {0} : WordValue = -h .. h - 1 /\ 2 ^ Width = 2 * h
<1>1. Width - 1 \in Nat /\ Width - 1 + 1 = Width
  BY WidthAssumption
<1>2. 2 ^ (Width - 1) \in Nat \ {0}
  BY <1>1, PowNat, Zenon
<1>3. 2 ^ Width = 2 * 2 ^ (Width - 1)
  <2>1. 2 ^ (Width - 1 + 1) = 2 * 2 ^ (Width - 1)
    BY <1>1, PowDouble, Zenon
  <2>2. QED
    BY <1>1, <2>1, Zenon
<1>4. QED
  BY <1>2, <1>3 DEF WordValue

\* v holds the integers that ngrams packs the words of s into.
Packs(v, s, k) ==
  /\ v \in [0 .. Len(s) -> Nat]
  /\ v[0] = 0
  /\ \A i \in 1 .. Len(s) :
       v[i] = (v[i - 1] * 2 ^ Width + s[i]) % (IF i < k THEN Mask(4) ELSE Mask(k))

\* One packing step gives a natural number.
LEMMA PackType ==
  ASSUME NEW x \in Nat, NEW c \in WordValue, NEW k \in 1 .. 4, NEW i \in Nat
  PROVE  /\ (x * 2 ^ Width + c) \in Int
         /\ (x * 2 ^ Width + c) % (IF i < k THEN Mask(4) ELSE Mask(k)) \in Nat
<1>1. PICK h \in Nat \ {0} : WordValue = -h .. h - 1 /\ 2 ^ Width = 2 * h
  BY WordRange
<1>2. c \in Int
  BY <1>1
<1>3. x * (2 * h) + c \in Int
  BY <1>2
<1>4. x * 2 ^ Width + c \in Int
  BY <1>1, <1>3
<1>5. Mask(4) \in Nat \ {0} /\ Mask(k) \in Nat \ {0}
  <2>1. k \in 0 .. 4 /\ 4 \in 0 .. 4
    OBVIOUS
  <2>2. \A j \in 0 .. 4 : Mask(j) \in Nat \ {0}
    BY MaskFacts, Zenon
  <2>3. QED
    BY <2>1, <2>2
<1>6. \A y \in Int, p \in Nat \ {0} : y % p \in Nat
  OBVIOUS
<1>7. (IF i < k THEN Mask(4) ELSE Mask(k)) \in Nat \ {0}
  BY <1>5
<1>8. QED
  BY <1>4, <1>6, <1>7

\* ngrams returns those of these integers that stand for k words.
LEMMA NgramsPacked ==
  ASSUME NEW s \in Sentence, NEW k \in 1 .. 4
  PROVE  \E v : /\ Packs(v, s, k)
                /\ ngrams(s, k) = IF Len(s) < k THEN << >>
                                  ELSE [i \in 1 .. Len(s) - k + 1 |-> v[i + k - 1]]
<1> DEFINE mask(i) == IF i < k THEN Mask(4) ELSE Mask(k)
           body(g) == [i \in 0 .. Len(s) |->
                        IF i = 0 THEN 0 ELSE (g[i - 1] * 2 ^ Width + s[i]) % mask(i)]
           h == CHOOSE g : g = body(g)
           Upto(g, m) == /\ g \in [0 .. m -> Nat] /\ g[0] = 0
                         /\ \A i \in 1 .. m : g[i] = (g[i - 1] * 2 ^ Width + s[i]) % mask(i)
<1>1. Len(s) \in Nat /\ \A i \in 1 .. Len(s) : s[i] \in WordValue
  BY DEF Sentence
<1>2. \E g : Upto(g, Len(s))
  <2> DEFINE T == {m \in Nat : m <= Len(s) => \E g : Upto(g, m)}
  <2>1. 0 \in T
    <3> DEFINE g == [i \in 0 .. 0 |-> 0]
    <3>0. g \in [0 .. 0 -> Nat] /\ g[0] = 0
      OBVIOUS
    <3>1. Upto(g, 0)
      <4>1. 1 .. 0 = {}
        OBVIOUS
      <4> HIDE DEF g, mask
      <4>2. QED
        BY <3>0, <4>1
    <3> HIDE DEF Upto
    <3>2. QED
      BY <3>1
  <2>2. ASSUME NEW m \in T PROVE m + 1 \in T
    <3>1. SUFFICES ASSUME m + 1 <= Len(s) PROVE \E g : Upto(g, m + 1)
      <4> HIDE DEF Upto
      <4>1. QED
        OBVIOUS
    <3>2. m \in Nat /\ m <= Len(s) /\ m + 1 \in 1 .. Len(s)
      BY <1>1, <3>1
    <3>3. PICK g : Upto(g, m)
      <4> HIDE DEF Upto
      <4>1. QED
        BY <3>2
    <3>4. g \in [0 .. m -> Nat] /\ g[0] = 0
          /\ \A i \in 1 .. m : g[i] = (g[i - 1] * 2 ^ Width + s[i]) % mask(i)
      BY <3>3
    <3> DEFINE last == (g[m] * 2 ^ Width + s[m + 1]) % mask(m + 1)
               t == [i \in 0 .. m + 1 |-> IF i = m + 1 THEN last ELSE g[i]]
    <3>5. last \in Nat
      <4>1. g[m] \in Nat /\ s[m + 1] \in WordValue /\ m + 1 \in Nat
        BY <1>1, <3>2, <3>4
      <4>2. QED
        BY <4>1, PackType
    <3>6. t \in [0 .. m + 1 -> Nat] /\ t[m + 1] = last /\ \A i \in 0 .. m : t[i] = g[i]
      <4> HIDE DEF last
      <4>1. QED
        BY <3>2, <3>4, <3>5
    <3>7. ASSUME NEW i \in 1 .. m + 1 PROVE t[i] = (t[i - 1] * 2 ^ Width + s[i]) % mask(i)
      <4> HIDE DEF t, mask
      <4>1. CASE i = m + 1
        <5>1. i - 1 = m /\ m \in 0 .. m
          BY <3>2, <4>1
        <5>2. t[i - 1] = g[m]
          BY <3>6, <5>1
        <5>3. QED
          BY <3>6, <4>1, <5>2
      <4>2. CASE i # m + 1
        <5>1. i \in 1 .. m /\ i \in 0 .. m /\ i - 1 \in 0 .. m
          BY <3>2, <4>2
        <5>2. t[i] = g[i] /\ t[i - 1] = g[i - 1]
          BY <3>6, <5>1
        <5>3. g[i] = (g[i - 1] * 2 ^ Width + s[i]) % mask(i)
          BY <3>4, <5>1
        <5>4. QED
          BY <5>2, <5>3
      <4>3. QED
        BY <4>1, <4>2
    <3>8. t[0] = 0
      <4> HIDE DEF t
      <4>1. QED
        BY <3>2, <3>4, <3>6
    <3>9. Upto(t, m + 1)
      <4> HIDE DEF t, mask
      <4>1. QED
        BY <3>6, <3>7, <3>8
    <3>10. QED
      <4> HIDE DEF Upto
      <4>1. QED
        BY <3>9
  <2>3. T = Nat
    <3> HIDE DEF T
    <3>1. T \in SUBSET Nat
      BY DEF T
    <3>2. QED
      BY <2>1, <2>2, <3>1, AllNat
  <2>4. Len(s) \in T /\ Len(s) <= Len(s)
    <3> HIDE DEF T
    <3>1. QED
      BY <1>1, <2>3
  <2>5. QED
    BY <2>4
<1>3. PICK f : Upto(f, Len(s))
  BY <1>2
<1>4. f = body(f)
  <2>1. f \in [0 .. Len(s) -> Nat] /\ f[0] = 0
        /\ \A i \in 1 .. Len(s) : f[i] = (f[i - 1] * 2 ^ Width + s[i]) % mask(i)
    BY <1>3
  <2> HIDE DEF mask
  <2>2. ASSUME NEW i \in 0 .. Len(s)
        PROVE  f[i] = IF i = 0 THEN 0 ELSE (f[i - 1] * 2 ^ Width + s[i]) % mask(i)
    BY <1>1, <2>1
  <2>3. QED
    BY <2>1, <2>2
<1>5. h = body(h)
  BY <1>4
<1>6. ngrams(s, k) = IF Len(s) < k THEN << >> ELSE [i \in 1 .. Len(s) - k + 1 |-> h[i + k - 1]]
  BY DEF ngrams, Mask
<1>7. /\ DOMAIN h = 0 .. Len(s)
      /\ h = [i \in 0 .. Len(s) |-> h[i]]
      /\ \A i \in 0 .. Len(s) :
           h[i] = IF i = 0 THEN 0 ELSE (h[i - 1] * 2 ^ Width + s[i]) % mask(i)
  <2> HIDE DEF h, mask
  <2>1. QED
    BY <1>5
<1> HIDE DEF h
<1>8. h[0] = 0
  BY <1>1, <1>7
<1>9. \A i \in 1 .. Len(s) : h[i] = (h[i - 1] * 2 ^ Width + s[i]) % mask(i)
  <2> HIDE DEF mask
  <2>1. \A i \in 1 .. Len(s) : i \in 0 .. Len(s) /\ i # 0
    BY <1>1
  <2>2. QED
    BY <1>7, <2>1
<1>10. \A i \in 0 .. Len(s) : h[i] \in Nat
  <2> DEFINE T == {m \in Nat : m <= Len(s) => h[m] \in Nat}
  <2>1. 0 \in T
    BY <1>8
  <2>2. ASSUME NEW m \in T PROVE m + 1 \in T
    <3>1. SUFFICES ASSUME m + 1 <= Len(s) PROVE h[m + 1] \in Nat
      OBVIOUS
    <3>2. m \in Nat /\ m + 1 \in 1 .. Len(s) /\ h[m] \in Nat /\ m + 1 - 1 = m /\ m + 1 \in Nat
      BY <1>1, <3>1
    <3>3. h[m + 1] = (h[m] * 2 ^ Width + s[m + 1]) % mask(m + 1)
      <4> HIDE DEF mask
      <4>1. QED
        BY <1>9, <3>2
    <3>4. s[m + 1] \in WordValue
      BY <1>1, <3>2
    <3>5. QED
      BY <3>2, <3>3, <3>4, PackType
  <2>3. T = Nat
    <3> HIDE DEF T
    <3>1. T \in SUBSET Nat
      BY DEF T
    <3>2. QED
      BY <2>1, <2>2, <3>1, AllNat
  <2>4. QED
    <3>1. \A i \in 0 .. Len(s) : i \in T /\ i <= Len(s)
      <4> HIDE DEF T
      <4>1. QED
        BY <1>1, <2>3
    <3>2. QED
      BY <3>1
<1>11. h \in [0 .. Len(s) -> Nat]
  BY <1>7, <1>10
<1>12. Packs(h, s, k)
  BY <1>8, <1>9, <1>11 DEF Packs
<1>13. QED
  BY <1>6, <1>12

\* Under the mask of j words, v and w compare the last j words.
MasksCompare(v, w, s, t, j) ==
  \A a \in 0 .. Len(s), b \in 0 .. Len(t) :
    j <= a /\ j <= b =>
      (v[a] % Mask(j) = w[b] % Mask(j) <=> \A m \in 0 .. j - 1 : s[a - m] = t[b - m])

\* Under the mask of j words, the integers of two places are the same exactly
\* if the j words that end there are.
LEMMA SameWords ==
  ASSUME NEW s \in Sentence, NEW t \in Sentence, NEW k \in 1 .. 4,
         NEW v, NEW w, Packs(v, s, k), Packs(w, t, k), NEW j \in 0 .. k
  PROVE  MasksCompare(v, w, s, t, j)
<1> DEFINE Same(i) == MasksCompare(v, w, s, t, i)
           T == {i \in Nat : i <= k => Same(i)}
<1>1. /\ Len(s) \in Nat /\ \A i \in 1 .. Len(s) : s[i] \in WordValue
      /\ Len(t) \in Nat /\ \A i \in 1 .. Len(t) : t[i] \in WordValue
  BY DEF Sentence
<1>2. v \in [0 .. Len(s) -> Nat] /\ w \in [0 .. Len(t) -> Nat]
  BY DEF Packs
<1>3. 0 \in T
  <2>1. Mask(0) = 1
    BY MaskFacts
  <2>2. \A x \in Nat : x % 1 = 0
    OBVIOUS
  <2>3. Same(0)
    BY <1>2, <2>1, <2>2 DEF MasksCompare
  <2> HIDE DEF Same
  <2>4. QED
    BY <2>3
<1>4. ASSUME NEW i \in T PROVE i + 1 \in T
  <2>1. SUFFICES ASSUME i + 1 <= k PROVE Same(i + 1)
    <3> HIDE DEF Same
    <3>1. QED
      OBVIOUS
  <2>2. i \in 0 .. 3 /\ i <= k /\ i + 1 \in 0 .. 4 /\ k \in 0 .. 4 /\ 4 \in 0 .. 4 /\ i + 1 <= 4
    BY <2>1
  <2>3. Same(i)
    <3> HIDE DEF Same
    <3>1. QED
      BY <2>2
  <2>4. PICK h \in Nat \ {0} : WordValue = -h .. h - 1 /\ 2 ^ Width = 2 * h
    BY WordRange
  <2>5. PICK p \in Nat \ {0} : p = Mask(i) /\ Mask(i + 1) = p * (2 * h)
    <3>1. Mask(i) \in Nat \ {0}
      <4>1. i \in 0 .. 4
        BY <2>2
      <4>2. QED
        BY <4>1, MaskFacts
    <3>2. Mask(i + 1) = Mask(i) * 2 ^ Width
      BY <2>2, MaskFacts
    <3>3. QED
      BY <2>4, <3>1, <3>2
  <2>6. PICK z \in Nat \ {0} : z = Mask(i + 1)
    BY <2>2, MaskFacts
  <2>7. ASSUME NEW q \in {4, k}, NEW x \in Int PROVE (x % Mask(q)) % z = x % z
    <3>1. q \in 0 .. 4 /\ i + 1 <= q /\ q - (i + 1) \in 0 .. 4
      BY <2>1, <2>2
    <3>2. Mask(q) = Mask(i + 1) * Mask(q - (i + 1))
      BY <2>2, <3>1, MaskFacts, Zenon
    <3>3. Mask(q - (i + 1)) \in Nat \ {0}
      BY <3>1, MaskFacts
    <3>4. (x % (z * Mask(q - (i + 1)))) % z = x % z
      BY <3>3, ModMask
    <3>5. QED
      BY <2>6, <3>2, <3>4, Zenon
  <2>8. ASSUME NEW a \in 1 .. Len(s)
        PROVE  v[a] % z = (v[a - 1] * (2 * h) + s[a]) % z /\ v[a - 1] \in Nat /\ s[a] \in -h .. h - 1
    <3>1. a - 1 \in 0 .. Len(s) /\ a \in Nat
      BY <1>1
    <3>2. v[a - 1] \in Nat /\ s[a] \in WordValue
      BY <1>1, <1>2, <3>1
    <3>3. v[a] = (v[a - 1] * 2 ^ Width + s[a]) % (IF a < k THEN Mask(4) ELSE Mask(k))
      BY DEF Packs
    <3>4. PICK x \in Int : x = v[a - 1] * 2 ^ Width + s[a]
      BY <3>1, <3>2, PackType
    <3>5. PICK q \in {4, k} : v[a] = x % Mask(q)
      BY <3>3, <3>4
    <3>6. v[a] % z = x % z
      BY <2>7, <3>5
    <3>7. QED
      BY <2>4, <3>2, <3>4, <3>6
  <2>9. ASSUME NEW b \in 1 .. Len(t)
        PROVE  w[b] % z = (w[b - 1] * (2 * h) + t[b]) % z /\ w[b - 1] \in Nat /\ t[b] \in -h .. h - 1
    <3>1. b - 1 \in 0 .. Len(t) /\ b \in Nat
      BY <1>1
    <3>2. w[b - 1] \in Nat /\ t[b] \in WordValue
      BY <1>1, <1>2, <3>1
    <3>3. w[b] = (w[b - 1] * 2 ^ Width + t[b]) % (IF b < k THEN Mask(4) ELSE Mask(k))
      BY DEF Packs
    <3>4. PICK x \in Int : x = w[b - 1] * 2 ^ Width + t[b]
      BY <3>1, <3>2, PackType
    <3>5. PICK q \in {4, k} : w[b] = x % Mask(q)
      BY <3>3, <3>4
    <3>6. w[b] % z = x % z
      BY <2>7, <3>5
    <3>7. QED
      BY <2>4, <3>2, <3>4, <3>6
  <2>10. ASSUME NEW a \in 0 .. Len(s), NEW b \in 0 .. Len(t), i + 1 <= a, i + 1 <= b
         PROVE  v[a] % Mask(i + 1) = w[b] % Mask(i + 1)
                  <=> \A m \in 0 .. (i + 1) - 1 : s[a - m] = t[b - m]
    <3>1. /\ a \in 1 .. Len(s) /\ b \in 1 .. Len(t)
          /\ a - 1 \in 0 .. Len(s) /\ b - 1 \in 0 .. Len(t) /\ i <= a - 1 /\ i <= b - 1
      BY <1>1, <2>2, <2>10
    <3>2. /\ v[a - 1] \in Nat /\ s[a] \in -h .. h - 1
          /\ v[a] % z = (v[a - 1] * (2 * h) + s[a]) % z
          /\ w[b - 1] \in Nat /\ t[b] \in -h .. h - 1
          /\ w[b] % z = (w[b - 1] * (2 * h) + t[b]) % z
      BY <2>8, <2>9, <3>1
    <3>3. v[a] % z = w[b] % z <=> s[a] = t[b] /\ v[a - 1] % p = w[b - 1] % p
      <4>1. v[a - 1] \in Int /\ w[b - 1] \in Int
        BY <3>2
      <4>2. AddsWord(v[a - 1], w[b - 1], h, p, s[a], t[b])
        BY <3>2, <4>1, LastWord
      <4>3. z = p * (2 * h)
        BY <2>5, <2>6
      <4>4. QED
        BY <3>2, <4>2, <4>3, Zenon DEF AddsWord
    <3>4. v[a - 1] % p = w[b - 1] % p <=> \A m \in 0 .. i - 1 : s[(a - 1) - m] = t[(b - 1) - m]
      BY <2>3, <2>5, <3>1 DEF MasksCompare
    <3>5. (\A m \in 0 .. (i + 1) - 1 : s[a - m] = t[b - m])
            <=> s[a] = t[b] /\ \A m \in 0 .. i - 1 : s[(a - 1) - m] = t[(b - 1) - m]
      <4>1. ASSUME \A m \in 0 .. (i + 1) - 1 : s[a - m] = t[b - m]
            PROVE  s[a] = t[b] /\ \A m \in 0 .. i - 1 : s[(a - 1) - m] = t[(b - 1) - m]
        <5>1. 0 \in 0 .. (i + 1) - 1 /\ a - 0 = a /\ b - 0 = b
          BY <2>2, <3>1
        <5>2. \A m \in 0 .. i - 1 : m + 1 \in 0 .. (i + 1) - 1 /\ a - (m + 1) = (a - 1) - m /\ b - (m + 1) = (b - 1) - m
          BY <2>2, <3>1
        <5>3. s[a] = t[b]
          BY <4>1, <5>1
        <5>4. \A m \in 0 .. i - 1 : s[a - (m + 1)] = t[b - (m + 1)]
          BY <4>1, <5>2
        <5>5. QED
          BY <5>2, <5>3, <5>4
      <4>2. ASSUME s[a] = t[b], \A m \in 0 .. i - 1 : s[(a - 1) - m] = t[(b - 1) - m],
                   NEW m \in 0 .. (i + 1) - 1
            PROVE  s[a - m] = t[b - m]
        <5>1. CASE m = 0
          <6>1. a - m = a /\ b - m = b
            BY <3>1, <5>1
          <6>2. QED
            BY <4>2, <6>1
        <5>2. CASE m # 0
          <6>1. m - 1 \in 0 .. i - 1 /\ a - m = (a - 1) - (m - 1) /\ b - m = (b - 1) - (m - 1)
            BY <2>2, <3>1, <5>2
          <6>2. s[(a - 1) - (m - 1)] = t[(b - 1) - (m - 1)]
            BY <4>2, <6>1
          <6>3. QED
            BY <6>1, <6>2
        <5>3. QED
          BY <5>1, <5>2
      <4>3. QED
        BY <4>1, <4>2
    <3>6. QED
      BY <2>6, <3>3, <3>4, <3>5, Zenon
  <2>11. MasksCompare(v, w, s, t, i + 1)
    <3> HIDE DEF T
    <3>1. SUFFICES ASSUME NEW a \in 0 .. Len(s), NEW b \in 0 .. Len(t), i + 1 <= a, i + 1 <= b
                   PROVE  v[a] % Mask(i + 1) = w[b] % Mask(i + 1)
                            <=> \A m \in 0 .. (i + 1) - 1 : s[a - m] = t[b - m]
      BY DEF MasksCompare
    <3>2. QED
      BY <2>10, <3>1, Zenon
  <2>12. QED
    BY <2>11
<1>5. T = Nat
  <2> HIDE DEF T
  <2>1. T \in SUBSET Nat
    BY DEF T
  <2>2. QED
    BY <1>3, <1>4, <2>1, AllNat
<1>6. j \in T /\ j <= k
  <2> HIDE DEF T
  <2>1. QED
    BY <1>5
<1>7. Same(j)
  <2> HIDE DEF Same
  <2>1. QED
    BY <1>6
<1>8. QED
  BY <1>7

\* Where there are windows of k words.
LEMMA WindowsType ==
  ASSUME NEW s \in Sentence, NEW k \in 1 .. 4
  PROVE  /\ DOMAIN Windows(s, k) = 1 .. Len(s) - k + 1
         /\ DOMAIN ngrams(s, k) = 1 .. Len(s) - k + 1
         /\ Len(ngrams(s, k)) = Len(Windows(s, k))
         /\ Len(ngrams(s, k)) = IF Len(s) < k THEN 0 ELSE Len(s) - k + 1
<1>1. Len(s) \in Nat
  BY DEF Sentence
<1>2. PICK v : ngrams(s, k) = IF Len(s) < k THEN << >>
                              ELSE [i \in 1 .. Len(s) - k + 1 |-> v[i + k - 1]]
  BY NgramsPacked
<1>3. DOMAIN Windows(s, k) = 1 .. Len(s) - k + 1
  BY DEF Windows
<1>4. DOMAIN ngrams(s, k) = 1 .. Len(s) - k + 1
  <2>1. CASE Len(s) < k
    <3>1. 1 .. Len(s) - k + 1 = {} /\ ngrams(s, k) = << >>
      BY <1>1, <1>2, <2>1
    <3>2. QED
      BY <3>1
  <2>2. CASE ~ (Len(s) < k)
    BY <1>2, <2>2
  <2>3. QED
    BY <2>1, <2>2
<1>5. \A l \in Nat : \A f : DOMAIN f = 1 .. l => Len(f) = l
  OBVIOUS
<1>6. PICK l \in Nat : l = (IF Len(s) < k THEN 0 ELSE Len(s) - k + 1) /\ 1 .. Len(s) - k + 1 = 1 .. l
  <2>1. CASE Len(s) < k
    <3>1. 1 .. Len(s) - k + 1 = {} /\ 1 .. 0 = {}
      BY <1>1, <2>1
    <3>2. QED
      BY <2>1, <3>1
  <2>2. CASE ~ (Len(s) < k)
    <3>1. Len(s) - k + 1 \in Nat
      BY <1>1, <2>2
    <3>2. QED
      BY <2>2, <3>1
  <2>3. QED
    BY <2>1, <2>2
<1>7. QED
  BY <1>3, <1>4, <1>5, <1>6

\* The integers of two n-grams are the same exactly if their words are.
LEMMA NgramsAreWindows ==
  ASSUME NEW s \in Sentence, NEW t \in Sentence, NEW k \in 1 .. 4,
         NEW a \in DOMAIN Windows(s, k), NEW b \in DOMAIN Windows(t, k)
  PROVE  (ngrams(s, k)[a] = ngrams(t, k)[b]) <=> (Windows(s, k)[a] = Windows(t, k)[b])
<1>1. /\ Len(s) \in Nat /\ Len(t) \in Nat
      /\ \A i \in 1 .. Len(s) : s[i] \in WordValue
      /\ \A i \in 1 .. Len(t) : t[i] \in WordValue
  BY DEF Sentence
<1>2. a \in 1 .. Len(s) - k + 1 /\ b \in 1 .. Len(t) - k + 1
  BY WindowsType
<1>3. /\ a + k - 1 \in 1 .. Len(s) /\ a + k - 1 >= k /\ ~ (Len(s) < k)
      /\ b + k - 1 \in 1 .. Len(t) /\ b + k - 1 >= k /\ ~ (Len(t) < k)
  BY <1>1, <1>2
<1>4. PICK v : /\ Packs(v, s, k)
               /\ ngrams(s, k) = IF Len(s) < k THEN << >>
                                 ELSE [i \in 1 .. Len(s) - k + 1 |-> v[i + k - 1]]
  BY NgramsPacked
<1>5. PICK w : /\ Packs(w, t, k)
               /\ ngrams(t, k) = IF Len(t) < k THEN << >>
                                 ELSE [i \in 1 .. Len(t) - k + 1 |-> w[i + k - 1]]
  BY NgramsPacked
<1>6. PICK c \in 1 .. Len(s) : c = a + k - 1
  BY <1>3
<1>7. PICK d \in 1 .. Len(t) : d = b + k - 1
  BY <1>3
<1>8. ngrams(s, k)[a] = v[c] /\ ngrams(t, k)[b] = w[d]
  BY <1>2, <1>3, <1>4, <1>5, <1>6, <1>7
<1>9. PICK p \in Nat \ {0} : p = Mask(k)
  <2>1. k \in 0 .. 4
    OBVIOUS
  <2>2. QED
    BY <2>1, MaskFacts
<1>10. \A x \in Int : (x % p) % p = x % p
  OBVIOUS
<1>11. v[c] % p = v[c]
  <2>1. c - 1 \in 0 .. Len(s) /\ c \in Nat /\ ~ (c < k)
    BY <1>1, <1>3, <1>6
  <2>2. v[c - 1] \in Nat
    BY <1>4, <2>1 DEF Packs
  <2>3. v[c - 1] * 2 ^ Width + s[c] \in Int
    BY <1>1, <2>1, <2>2, PackType
  <2>4. v[c] = (v[c - 1] * 2 ^ Width + s[c]) % p
    BY <1>4, <1>9, <2>1 DEF Packs
  <2>5. QED
    BY <1>10, <2>3, <2>4
<1>12. w[d] % p = w[d]
  <2>1. d - 1 \in 0 .. Len(t) /\ d \in Nat /\ ~ (d < k)
    BY <1>1, <1>3, <1>7
  <2>2. w[d - 1] \in Nat
    BY <1>5, <2>1 DEF Packs
  <2>3. w[d - 1] * 2 ^ Width + t[d] \in Int
    BY <1>1, <2>1, <2>2, PackType
  <2>4. w[d] = (w[d - 1] * 2 ^ Width + t[d]) % p
    BY <1>5, <1>9, <2>1 DEF Packs
  <2>5. QED
    BY <1>10, <2>3, <2>4
<1>13. v[c] % p = w[d] % p <=> \A m \in 0 .. k - 1 : s[c - m] = t[d - m]
  <2>1. k \in 0 .. k /\ c \in 0 .. Len(s) /\ d \in 0 .. Len(t) /\ k <= c /\ k <= d
    BY <1>3, <1>6, <1>7
  <2>2. QED
    <3>1. MasksCompare(v, w, s, t, k)
      BY <1>4, <1>5, <2>1, SameWords
    <3>2. QED
      BY <1>9, <2>1, <3>1 DEF MasksCompare
<1>14. /\ Windows(s, k)[a] \in Seq(WordValue) /\ Len(Windows(s, k)[a]) = k
       /\ \A i \in 1 .. k : Windows(s, k)[a][i] = s[a + i - 1]
  <2>1. Windows(s, k)[a] = SubSeq(s, a, a + k - 1)
    BY <1>2 DEF Windows
  <2>2. a \in Int /\ a + k - 1 \in Int /\ a <= a + k - 1 /\ (a + k - 1) - a + 1 = k
    BY <1>2
  <2>3. \A i \in a .. a + k - 1 : s[i] \in WordValue
    BY <1>1, <1>2
  <2>4. /\ SubSeq(s, a, a + k - 1) \in Seq(WordValue)
        /\ Len(SubSeq(s, a, a + k - 1)) = (IF a <= a + k - 1 THEN (a + k - 1) - a + 1 ELSE 0)
        /\ \A i \in 1 .. (a + k - 1) - a + 1 : SubSeq(s, a, a + k - 1)[i] = s[a + i - 1]
    BY <2>2, <2>3, SubSeqProperties
  <2>5. QED
    BY <2>1, <2>2, <2>4
<1>15. /\ Windows(t, k)[b] \in Seq(WordValue) /\ Len(Windows(t, k)[b]) = k
       /\ \A i \in 1 .. k : Windows(t, k)[b][i] = t[b + i - 1]
  <2>1. Windows(t, k)[b] = SubSeq(t, b, b + k - 1)
    BY <1>2 DEF Windows
  <2>2. b \in Int /\ b + k - 1 \in Int /\ b <= b + k - 1 /\ (b + k - 1) - b + 1 = k
    BY <1>2
  <2>3. \A i \in b .. b + k - 1 : t[i] \in WordValue
    BY <1>1, <1>2
  <2>4. /\ SubSeq(t, b, b + k - 1) \in Seq(WordValue)
        /\ Len(SubSeq(t, b, b + k - 1)) = (IF b <= b + k - 1 THEN (b + k - 1) - b + 1 ELSE 0)
        /\ \A i \in 1 .. (b + k - 1) - b + 1 : SubSeq(t, b, b + k - 1)[i] = t[b + i - 1]
    BY <2>2, <2>3, SubSeqProperties
  <2>5. QED
    BY <2>1, <2>2, <2>4
<1>16. Windows(s, k)[a] = Windows(t, k)[b] <=> \A i \in 1 .. k : s[a + i - 1] = t[b + i - 1]
  <2>1. PICK x \in Seq(WordValue), y \in Seq(WordValue) :
          x = Windows(s, k)[a] /\ y = Windows(t, k)[b]
    BY <1>14, <1>15
  <2>2. /\ Len(x) = k /\ \A i \in 1 .. k : x[i] = s[a + i - 1]
        /\ Len(y) = k /\ \A i \in 1 .. k : y[i] = t[b + i - 1]
    BY <1>14, <1>15, <2>1
  <2>3. x = y <=> \A i \in 1 .. k : x[i] = y[i]
    BY <2>2, SeqEqual
  <2>4. (\A i \in 1 .. k : x[i] = y[i]) <=> \A i \in 1 .. k : s[a + i - 1] = t[b + i - 1]
    BY <2>2
  <2>5. QED
    BY <2>1, <2>3, <2>4, Zenon
<1>17. (\A m \in 0 .. k - 1 : s[c - m] = t[d - m]) <=> \A i \in 1 .. k : s[a + i - 1] = t[b + i - 1]
  <2>0. k \in Int /\ a \in Int /\ b \in Int /\ c = a + k - 1 /\ d = b + k - 1
    BY <1>2, <1>6, <1>7
  <2>1. ASSUME \A m \in 0 .. k - 1 : s[c - m] = t[d - m], NEW i \in 1 .. k
        PROVE  s[a + i - 1] = t[b + i - 1]
    <3>1. k - i \in 0 .. k - 1 /\ c - (k - i) = a + i - 1 /\ d - (k - i) = b + i - 1
      BY <2>0
    <3>2. s[c - (k - i)] = t[d - (k - i)]
      BY <2>1, <3>1
    <3>3. QED
      BY <3>1, <3>2
  <2>2. ASSUME \A i \in 1 .. k : s[a + i - 1] = t[b + i - 1], NEW m \in 0 .. k - 1
        PROVE  s[c - m] = t[d - m]
    <3>1. k - m \in 1 .. k /\ a + (k - m) - 1 = c - m /\ b + (k - m) - 1 = d - m
      BY <2>0
    <3>2. s[a + (k - m) - 1] = t[b + (k - m) - 1]
      BY <2>2, <3>1
    <3>3. QED
      BY <3>1, <3>2
  <2>3. QED
    BY <2>1, <2>2
<1>18. QED
  BY <1>8, <1>11, <1>12, <1>13, <1>16, <1>17

-------------------------------------------------------------------------------
(* Sums as sets of pairs.                                                    *)

\* The pairs SumOf counts.
Pairs(f) == UNION { {x} \X (1 .. f[x]) : x \in DOMAIN f }

\* A function with finitely many values, all of them counts.
Summable(f) == IsFiniteSet(DOMAIN f) /\ \A x \in DOMAIN f : f[x] \in Nat

\* A pair of f is an argument with one of the numbers up to its value.
LEMMA PairOf ==
  ASSUME NEW f, NEW x, NEW i
  PROVE  << x, i >> \in Pairs(f) <=> x \in DOMAIN f /\ i \in 1 .. f[x]
  BY DEF Pairs

\* There are finitely many of them.
LEMMA PairsFinite ==
  ASSUME NEW f, Summable(f)
  PROVE  IsFiniteSet(Pairs(f)) /\ SumOf(f) \in Nat /\ SumOf(f) = Cardinality(Pairs(f))
<1> DEFINE S == { {x} \X (1 .. f[x]) : x \in DOMAIN f }
           g == [x \in DOMAIN f |-> {x} \X (1 .. f[x])]
<1>1. g \in Surjection(DOMAIN f, S)
  BY DEF Surjection
<1>2. IsFiniteSet(S)
  <2> HIDE DEF S, g
  <2>1. QED
    BY <1>1, FS_Surjection DEF Summable
<1>3. ASSUME NEW T \in S PROVE IsFiniteSet(T)
  <2>1. PICK x \in DOMAIN f : T = {x} \X (1 .. f[x])
    OBVIOUS
  <2>2. IsFiniteSet({x}) /\ IsFiniteSet(1 .. f[x])
    <3>1. f[x] \in Int /\ 1 \in Int
      BY DEF Summable
    <3>2. QED
      BY <3>1, FS_Singleton, FS_Interval
  <2>3. QED
    BY <2>1, <2>2, FS_Product
<1>4. IsFiniteSet(UNION S)
  <2> HIDE DEF S
  <2>1. QED
    BY <1>2, <1>3, FS_UNION
<1>5. IsFiniteSet(Pairs(f))
  BY <1>4 DEF Pairs
<1>6. SumOf(f) = Cardinality(Pairs(f))
  BY DEF SumOf, Pairs
<1>7. QED
  BY <1>5, <1>6, FS_CardinalityType

\* Pairs are pairs.
LEMMA PairsArePairs ==
  ASSUME NEW f, NEW z \in Pairs(f)
  PROVE  \E x \in DOMAIN f : \E i \in 1 .. f[x] : z = << x, i >>
  BY DEF Pairs

\* One more argument adds its value.
LEMMA SumOfAdd ==
  ASSUME NEW f, NEW g, Summable(f), NEW x, x \notin DOMAIN f, g[x] \in Nat,
         DOMAIN g = DOMAIN f \cup {x}, \A y \in DOMAIN f : g[y] = f[y]
  PROVE  Summable(g) /\ SumOf(g) = SumOf(f) + g[x]
<1>1. Summable(g)
  BY FS_AddElement DEF Summable
<1> DEFINE new == {x} \X (1 .. g[x])
<1>2. Pairs(g) = Pairs(f) \cup new
  <2>1. ASSUME NEW z \in Pairs(g) PROVE z \in Pairs(f) \cup new
    <3>1. PICK y, i : y \in DOMAIN g /\ z = << y, i >> /\ i \in 1 .. g[y]
      BY PairsArePairs
    <3>2. CASE y = x
      BY <3>1, <3>2
    <3>3. CASE y # x
      <4>1. y \in DOMAIN f /\ i \in 1 .. f[y]
        BY <3>1, <3>3
      <4>2. QED
        BY <3>1, <4>1, PairOf
    <3>4. QED
      BY <3>2, <3>3
  <2>2. ASSUME NEW z \in Pairs(f) PROVE z \in Pairs(g)
    <3>1. PICK y, i : y \in DOMAIN f /\ z = << y, i >> /\ i \in 1 .. f[y]
      BY PairsArePairs
    <3>2. y \in DOMAIN g /\ i \in 1 .. g[y]
      BY <3>1
    <3>3. QED
      BY <3>1, <3>2, PairOf
  <2>3. ASSUME NEW z \in new PROVE z \in Pairs(g)
    <3>1. PICK i \in 1 .. g[x] : z = << x, i >>
      OBVIOUS
    <3>2. x \in DOMAIN g
      OBVIOUS
    <3>3. QED
      BY <3>1, <3>2, PairOf
  <2>4. QED
    BY <2>1, <2>2, <2>3
<1>3. Pairs(f) \cap new = {}
  <2>1. SUFFICES ASSUME NEW z \in Pairs(f), z \in new PROVE FALSE
    OBVIOUS
  <2>2. PICK i \in 1 .. g[x] : z = << x, i >>
    BY <2>1
  <2>3. x \in DOMAIN f
    BY <2>2, PairOf
  <2>4. QED
    BY <2>2, <2>3
<1>4. IsFiniteSet(new) /\ Cardinality(new) = g[x]
  <2>1. IsFiniteSet({x}) /\ Cardinality({x}) = 1
    BY FS_Singleton
  <2>2. IsFiniteSet(1 .. g[x]) /\ Cardinality(1 .. g[x]) = g[x]
    <3>1. g[x] \in Int /\ 1 \in Int
      OBVIOUS
    <3>2. Cardinality(1 .. g[x]) = IF 1 > g[x] THEN 0 ELSE g[x] - 1 + 1
      BY <3>1, FS_Interval
    <3>3. QED
      BY <3>1, <3>2, FS_Interval
  <2>3. Cardinality(new) = 1 * g[x]
    BY <2>1, <2>2, FS_Product
  <2>4. QED
    BY <2>1, <2>2, <2>3, FS_Product
<1> HIDE DEF new
<1>5. IsFiniteSet(Pairs(f)) /\ SumOf(f) \in Nat /\ SumOf(f) = Cardinality(Pairs(f))
      /\ SumOf(g) = Cardinality(Pairs(g))
  BY <1>1, PairsFinite
<1>6. Cardinality(Pairs(f) \cup new) = Cardinality(Pairs(f)) + Cardinality(new) - Cardinality(Pairs(f) \cap new)
  BY <1>4, <1>5, FS_Union
<1>7. Cardinality(Pairs(f) \cap new) = 0
  BY <1>3, FS_EmptySet
<1>8. QED
  BY <1>1, <1>2, <1>4, <1>5, <1>6, <1>7

\* Greater values have a greater sum.
LEMMA SumOfLeq ==
  ASSUME NEW f, NEW g, Summable(f), Summable(g), DOMAIN f = DOMAIN g,
         \A x \in DOMAIN f : f[x] <= g[x]
  PROVE  SumOf(f) <= SumOf(g)
<1>1. Pairs(f) \subseteq Pairs(g)
  <2>1. ASSUME NEW z \in Pairs(f) PROVE z \in Pairs(g)
    <3>1. PICK x, i : x \in DOMAIN f /\ z = << x, i >> /\ i \in 1 .. f[x]
      BY PairsArePairs
    <3>2. x \in DOMAIN g /\ i \in 1 .. g[x]
      BY <3>1 DEF Summable
    <3>3. QED
      BY <3>1, <3>2, PairOf
  <2>2. QED
    BY <2>1
<1>2. QED
  BY <1>1, PairsFinite, FS_Subset

\* Every value is at most the sum, and a sum that is not zero has a value that
\* is not.
LEMMA SumOfValue ==
  ASSUME NEW f, Summable(f)
  PROVE  /\ \A x \in DOMAIN f : f[x] > 0 => SumOf(f) > 0
         /\ SumOf(f) # 0 => \E x \in DOMAIN f : f[x] > 0
<1>1. IsFiniteSet(Pairs(f)) /\ SumOf(f) = Cardinality(Pairs(f)) /\ SumOf(f) \in Nat
  BY PairsFinite
<1>2. SumOf(f) = 0 <=> Pairs(f) = {}
  BY <1>1, FS_EmptySet
<1>3. ASSUME NEW x \in DOMAIN f, f[x] > 0 PROVE SumOf(f) > 0
  <2>1. 1 \in 1 .. f[x]
    BY <1>3 DEF Summable
  <2>2. << x, 1 >> \in Pairs(f)
    BY <2>1, PairOf
  <2>3. QED
    BY <1>1, <1>2, <2>2
<1>4. ASSUME SumOf(f) # 0 PROVE \E x \in DOMAIN f : f[x] > 0
  <2>1. PICK z : z \in Pairs(f)
    BY <1>2, <1>4
  <2>2. PICK x, i : x \in DOMAIN f /\ z = << x, i >> /\ i \in 1 .. f[x]
    BY <2>1, PairsArePairs
  <2>3. f[x] > 0
    BY <2>2 DEF Summable
  <2>4. QED
    BY <2>2, <2>3
<1>5. QED
  BY <1>3, <1>4

-------------------------------------------------------------------------------
(* Counting by rank.                                                         *)

\* How many of the first j values of e are the one at j.
Rank(e, j) == Cardinality({m \in 1 .. j : e[m] = e[j]})

\* The places of a value of e among the first num.
Places(e, num, x) == {j \in 1 .. num : e[j] = x}

\* The ranks of the places of a value are the numbers up to how many there are.
LEMMA RanksOfPlaces ==
  ASSUME NEW e, NEW num \in Nat, NEW x
  PROVE  /\ IsFiniteSet(Places(e, num, x)) /\ Cardinality(Places(e, num, x)) \in Nat
         /\ \A j \in Places(e, num, x) : Rank(e, j) \in 1 .. Cardinality(Places(e, num, x))
         /\ \A i, j \in Places(e, num, x) : Rank(e, i) = Rank(e, j) => i = j
         /\ \A r \in 1 .. Cardinality(Places(e, num, x)) :
              \E j \in Places(e, num, x) : Rank(e, j) = r
<1> DEFINE S == Places(e, num, x)
           Upto(j) == {m \in 1 .. j : e[m] = e[j]}
<1>1. S \subseteq 1 .. num /\ IsFiniteSet(1 .. num)
  BY FS_Interval DEF Places
<1>2. IsFiniteSet(S) /\ Cardinality(S) \in Nat
  <2>1. IsFiniteSet(S)
    BY <1>1, FS_Subset
  <2>2. QED
    BY <2>1, FS_CardinalityType
<1>3. ASSUME NEW j \in S
      PROVE  /\ Upto(j) = {m \in S : m <= j} /\ Upto(j) \subseteq S /\ j \in Upto(j) /\ j \in Nat
             /\ IsFiniteSet(Upto(j))
             /\ Cardinality(Upto(j)) \in 1 .. Cardinality(S)
             /\ Rank(e, j) = Cardinality(Upto(j))
  <2>1. j \in 1 .. num /\ e[j] = x
    BY DEF Places
  <2>2. Upto(j) = {m \in S : m <= j} /\ Upto(j) \subseteq S /\ j \in Upto(j) /\ j \in Nat
    BY <2>1 DEF Places
  <2>3. Rank(e, j) = Cardinality(Upto(j))
    BY DEF Rank
  <2> HIDE DEF Upto, S
  <2>4. IsFiniteSet(Upto(j)) /\ Cardinality(Upto(j)) <= Cardinality(S)
    BY <1>2, <2>2, FS_Subset
  <2>5. Cardinality(Upto(j)) \in Nat /\ Cardinality(Upto(j)) # 0
    BY <2>2, <2>4, FS_CardinalityType, FS_EmptySet
  <2>6. QED
    BY <1>2, <2>2, <2>3, <2>4, <2>5
<1> HIDE DEF S, Upto
<1>4. ASSUME NEW i \in S, NEW j \in S, i < j PROVE Rank(e, i) # Rank(e, j)
  <2>1. i \in Nat /\ j \in Nat
    BY <1>3
  <2>2. Upto(i) \subseteq Upto(j) /\ j \notin Upto(i) /\ j \in Upto(j)
    <3>1. Upto(i) = {m \in S : m <= i} /\ Upto(j) = {m \in S : m <= j}
      BY <1>3
    <3>2. \A m \in S : m \in Nat
      BY <1>3
    <3>3. \A m \in S : m <= i => m <= j
      BY <1>4, <2>1, <3>2
    <3>4. ~ (j <= i) /\ j <= j
      BY <1>4, <2>1
    <3>5. QED
      BY <3>1, <3>3, <3>4
  <2>3. IsFiniteSet(Upto(j)) /\ Upto(i) \in SUBSET Upto(j) /\ Upto(i) # Upto(j)
    BY <1>3, <2>2
  <2>4. Cardinality(Upto(i)) # Cardinality(Upto(j))
    BY <2>3, FS_Subset
  <2>5. QED
    BY <1>3, <2>4
<1>5. ASSUME NEW i \in S, NEW j \in S, Rank(e, i) = Rank(e, j) PROVE i = j
  <2>1. i \in Nat /\ j \in Nat
    BY <1>3
  <2>2. ~ (i < j) /\ ~ (j < i)
    BY <1>4, <1>5
  <2>3. QED
    BY <2>1, <2>2
<1> DEFINE C == 1 .. Cardinality(S)
           r == [j \in S |-> Rank(e, j)]
<1>6. r \in Injection(S, C)
  <2>1. r \in [S -> C]
    BY <1>3
  <2>2. QED
    BY <1>5, <2>1 DEF Injection, IsInjective
<1>7. IsFiniteSet(C) /\ Cardinality(C) = Cardinality(S)
  <2>1. PICK c \in Nat : c = Cardinality(S)
    BY <1>2
  <2>2. 1 \in Int /\ c \in Int
    OBVIOUS
  <2>3. IsFiniteSet(1 .. c) /\ Cardinality(1 .. c) = IF 1 > c THEN 0 ELSE c - 1 + 1
    BY <2>2, FS_Interval
  <2>4. QED
    BY <2>1, <2>3
<1>8. r \in Surjection(S, C)
  <2> HIDE DEF r, C
  <2>1. QED
    BY <1>2, <1>6, <1>7, FS_Injection
<1>9. \A q \in C : \E j \in S : Rank(e, j) = q
  BY <1>8 DEF Surjection
<1>10. QED
  BY <1>2, <1>3, <1>5, <1>9 DEF S

\* As many numbers as the values of f, none above how often its argument is
\* among the values of e, are as many places whose rank is not above f.
LEMMA SumOfRanks ==
  ASSUME NEW e, NEW num \in Nat, NEW f,
         DOMAIN f = {e[j] : j \in 1 .. num},
         \A x \in DOMAIN f : f[x] \in Nat /\ f[x] <= Cardinality(Places(e, num, x))
  PROVE  /\ Summable(f)
         /\ SumOf(f) = Cardinality({j \in 1 .. num : Rank(e, j) <= f[e[j]]})
<1> DEFINE A == {j \in 1 .. num : Rank(e, j) <= f[e[j]]}
           g == [j \in A |-> << e[j], Rank(e, j) >>]
           h == [j \in 1 .. num |-> e[j]]
<1>1. IsFiniteSet(1 .. num)
  BY FS_Interval
<1>2. Summable(f)
  <2>1. h \in Surjection(1 .. num, DOMAIN f)
    BY DEF Surjection
  <2> HIDE DEF h
  <2>2. IsFiniteSet(DOMAIN f)
    BY <1>1, <2>1, FS_Surjection
  <2>3. QED
    BY <2>2 DEF Summable
<1>3. ASSUME NEW j \in 1 .. num
      PROVE  /\ j \in Places(e, num, e[j]) /\ e[j] \in DOMAIN f
             /\ Rank(e, j) \in Nat /\ Rank(e, j) >= 1
  <2>1. j \in Places(e, num, e[j]) /\ e[j] \in DOMAIN f
    BY DEF Places
  <2>2. Rank(e, j) \in 1 .. Cardinality(Places(e, num, e[j])) /\ Cardinality(Places(e, num, e[j])) \in Nat
    BY <2>1, RanksOfPlaces
  <2>3. QED
    BY <2>1, <2>2
<1>4. g \in [A -> Pairs(f)]
  <2>1. ASSUME NEW j \in A PROVE << e[j], Rank(e, j) >> \in Pairs(f)
    <3>1. e[j] \in DOMAIN f /\ Rank(e, j) \in 1 .. f[e[j]]
      BY <1>2, <1>3 DEF Summable
    <3>2. QED
      BY <3>1, PairOf
  <2>2. QED
    BY <2>1
<1>5. ASSUME NEW i \in A, NEW j \in A, g[i] = g[j] PROVE i = j
  <2>1. e[i] = e[j] /\ Rank(e, i) = Rank(e, j)
    BY <1>5
  <2>2. i \in Places(e, num, e[j]) /\ j \in Places(e, num, e[j])
    BY <1>3, <2>1
  <2>3. QED
    BY <2>1, <2>2, RanksOfPlaces
<1>6. ASSUME NEW z \in Pairs(f) PROVE \E j \in A : g[j] = z
  <2>1. PICK x, r : x \in DOMAIN f /\ z = << x, r >> /\ r \in 1 .. f[x]
    BY PairsArePairs
  <2>2. r \in 1 .. Cardinality(Places(e, num, x))
    <3>1. Cardinality(Places(e, num, x)) \in Nat
      BY RanksOfPlaces
    <3>2. f[x] \in Nat /\ f[x] <= Cardinality(Places(e, num, x))
      BY <2>1
    <3>3. QED
      BY <2>1, <3>1, <3>2
  <2>3. PICK j \in Places(e, num, x) : Rank(e, j) = r
    BY <2>2, RanksOfPlaces
  <2>4. j \in 1 .. num /\ e[j] = x
    BY DEF Places
  <2>5. Rank(e, j) <= f[e[j]]
    BY <1>2, <2>1, <2>3, <2>4 DEF Summable
  <2>6. j \in A
    BY <2>4, <2>5
  <2>7. g[j] = z
    BY <2>1, <2>3, <2>4, <2>6
  <2>8. QED
    BY <2>6, <2>7
<1>7. IsFiniteSet(A)
  <2>1. A \subseteq 1 .. num
    OBVIOUS
  <2> HIDE DEF A
  <2>2. QED
    BY <1>1, <2>1, FS_Subset
<1>8. Cardinality(Pairs(f)) = Cardinality(A)
  <2> HIDE DEF A, g
  <2>1. g \in Bijection(A, Pairs(f))
    BY <1>4, <1>5, <1>6 DEF Bijection, Injection, Surjection, IsInjective
  <2>2. QED
    BY <1>7, <2>1, FS_Bijection DEF ExistsBijection
<1>9. QED
  BY <1>2, <1>8, PairsFinite

-------------------------------------------------------------------------------
(* The precision of one hypothesis.                                          *)

\* A value of S that none is above is its maximum; one that none is below its
\* minimum.
LEMMA MaxMin ==
  ASSUME NEW S \in SUBSET Int, NEW x \in S
  PROVE  /\ (\A y \in S : y <= x) => Max(S) = x
         /\ (\A y \in S : x <= y) => Min(S) = x
<1>1. ASSUME \A y \in S : y <= x PROVE Max(S) = x
  <2>1. x \in S /\ \A y \in S : x >= y
    BY <1>1
  <2>2. Max(S) \in S /\ \A y \in S : Max(S) >= y
    BY <2>1, Zenon DEF Max
  <2>3. x \in Int /\ Max(S) \in Int /\ x >= Max(S) /\ Max(S) >= x
    BY <2>1, <2>2
  <2>4. QED
    BY <2>3
<1>2. ASSUME \A y \in S : x <= y PROVE Min(S) = x
  <2>1. x \in S /\ \A y \in S : x <= y
    BY <1>2
  <2>2. Min(S) \in S /\ \A y \in S : Min(S) <= y
    BY <2>1, Zenon DEF Min
  <2>3. x \in Int /\ Min(S) \in Int /\ x <= Min(S) /\ Min(S) <= x
    BY <2>1, <2>2
  <2>4. QED
    BY <2>3
<1>3. QED
  BY <1>1, <1>2

\* The lesser and the greater of two integers.
LEMMA OfTwo ==
  ASSUME NEW x \in Int, NEW y \in Int
  PROVE  /\ Min({x, y}) = IF x <= y THEN x ELSE y
         /\ Max({x, y}) = IF x <= y THEN y ELSE x
<1>1. CASE x <= y
  <2>1. {x, y} \in SUBSET Int /\ x \in {x, y} /\ y \in {x, y}
        /\ (\A z \in {x, y} : x <= z) /\ (\A z \in {x, y} : z <= y)
    BY <1>1
  <2>2. Min({x, y}) = x
    BY <2>1, MaxMin
  <2>3. Max({x, y}) = y
    BY <2>1, MaxMin
  <2>4. QED
    BY <1>1, <2>2, <2>3
<1>2. CASE ~ (x <= y)
  <2>1. {x, y} \in SUBSET Int /\ x \in {x, y} /\ y \in {x, y}
        /\ (\A z \in {x, y} : y <= z) /\ (\A z \in {x, y} : z <= x)
    BY <1>2
  <2>2. Min({x, y}) = y
    BY <2>1, MaxMin
  <2>3. Max({x, y}) = x
    BY <2>1, MaxMin
  <2>4. QED
    BY <1>2, <2>2, <2>3
<1>3. QED
  BY <1>1, <1>2

\* counter counts the places of a value, get also that there is none.
LEMMA CountedPlaces ==
  ASSUME NEW h, NEW g
  PROVE  /\ get(counter(h), g) = Cardinality({i \in DOMAIN h : h[i] = g})
         /\ DOMAIN counter(h) = Items(h)
         /\ g \in Items(h) => counter(h)[g] = Cardinality({i \in DOMAIN h : h[i] = g})
<1>1. DOMAIN counter(h) = Items(h)
      /\ (g \in Items(h) => counter(h)[g] = Cardinality({i \in DOMAIN h : h[i] = g}))
  BY DEF counter
<1>2. CASE g \in Items(h)
  BY <1>1, <1>2 DEF get
<1>3. CASE g \notin Items(h)
  <2>1. {i \in DOMAIN h : h[i] = g} = {}
    BY <1>3 DEF Items
  <2>2. QED
    BY <1>1, <1>3, <2>1, FS_EmptySet DEF get
<1>4. QED
  BY <1>1, <1>2, <1>3

\* An n-gram of t is counted in s as often as its words stand there.
LEMMA CountedTimes ==
  ASSUME NEW s \in Sentence, NEW t \in Sentence, NEW k \in 1 .. 4,
         NEW a \in DOMAIN Windows(t, k)
  PROVE  /\ get(counter(ngrams(s, k)), ngrams(t, k)[a]) = Times(s, k, Windows(t, k)[a])
         /\ Times(s, k, Windows(t, k)[a]) \in Nat
<1> DEFINE g == ngrams(t, k)[a]
           w == Windows(t, k)[a]
           S == {j \in DOMAIN Windows(s, k) : Windows(s, k)[j] = w}
<1>1. DOMAIN ngrams(s, k) = DOMAIN Windows(s, k) /\ DOMAIN Windows(s, k) = 1 .. Len(s) - k + 1
  BY WindowsType
<1>2. \A j \in DOMAIN Windows(s, k) : ngrams(s, k)[j] = g <=> Windows(s, k)[j] = w
  BY NgramsAreWindows
<1>3. {j \in DOMAIN ngrams(s, k) : ngrams(s, k)[j] = g} = S
  BY <1>1, <1>2
<1>4. IsFiniteSet(S)
  <2>1. Len(s) - k + 1 \in Int /\ 1 \in Int
    BY DEF Sentence
  <2>2. IsFiniteSet(1 .. Len(s) - k + 1)
    BY <2>1, FS_Interval
  <2>3. S \subseteq 1 .. Len(s) - k + 1
    BY <1>1
  <2> HIDE DEF S
  <2>4. QED
    BY <2>2, <2>3, FS_Subset
<1>5. Cardinality(S) \in Nat
  BY <1>4, FS_CardinalityType
<1>6. Times(s, k, w) = Cardinality(S)
  BY DEF Times
<1>7. QED
  BY <1>3, <1>5, <1>6, CountedPlaces

\* How often the reference that has the window most often has it.
BestIn(references, k, w) ==
  Max({0} \cup {Times(references[r], k, w) : r \in DOMAIN references})

\* The maximum over the references is the one of the words themselves.
LEMMA CountedBest ==
  ASSUME NEW references \in Seq(Sentence), NEW t \in Sentence, NEW k \in 1 .. 4,
         NEW a \in DOMAIN Windows(t, k)
  PROVE  /\ max_counts(references, k, ngrams(t, k)[a]) = BestIn(references, k, Windows(t, k)[a])
         /\ BestIn(references, k, Windows(t, k)[a]) \in Nat
<1> DEFINE w == Windows(t, k)[a]
           f == [r \in DOMAIN references |-> Times(references[r], k, w)]
           S == {Times(references[r], k, w) : r \in DOMAIN references}
<1>1. ASSUME NEW r \in DOMAIN references
      PROVE  /\ get(counter(ngrams(references[r], k)), ngrams(t, k)[a]) = Times(references[r], k, w)
             /\ Times(references[r], k, w) \in Nat
  <2>1. references[r] \in Sentence
    OBVIOUS
  <2>2. QED
    BY <2>1, CountedTimes
<1>2. {get(counter(ngrams(references[r], k)), ngrams(t, k)[a]) : r \in DOMAIN references} = S
  BY <1>1
<1>3. max_counts(references, k, ngrams(t, k)[a]) = BestIn(references, k, w)
  BY <1>2 DEF max_counts, BestIn
<1>4. IsFiniteSet(DOMAIN references)
  <2>1. DOMAIN references = 1 .. Len(references) /\ Len(references) \in Int /\ 1 \in Int
    OBVIOUS
  <2>2. QED
    BY <2>1, FS_Interval
<1>5. f \in Surjection(DOMAIN references, S)
  BY DEF Surjection
<1>6. S \subseteq Nat
  BY <1>1
<1>7. Max({0} \cup S) \in Nat
  <2> HIDE DEF S, f
  <2>1. IsFiniteSet(S)
    BY <1>4, <1>5, FS_Surjection
  <2>2. IsFiniteSet(S \cup {0})
    BY <2>1, FS_AddElement
  <2>3. S \cup {0} = {0} \cup S /\ {0} \cup S \in SUBSET Int /\ {0} \cup S # {} /\ {0} \cup S \subseteq Nat
    BY <1>6
  <2>4. PICK x \in {0} \cup S : \A y \in {0} \cup S : y <= x
    BY <2>2, <2>3, GreatestOf
  <2>5. Max({0} \cup S) = x
    BY <2>3, <2>4, MaxMin
  <2>6. QED
    BY <2>3, <2>5
<1>8. BestIn(references, k, w) \in Nat
  BY <1>7 DEF BestIn
<1>9. QED
  BY <1>3, <1>8

\* The places of h whose window stands there for at most the Best time.
MatchedIn(references, h, k) ==
  {j \in DOMAIN Windows(h, k) :
     Cardinality({m \in 1 .. j : Windows(h, k)[m] = Windows(h, k)[j]})
       <= BestIn(references, k, Windows(h, k)[j])}

\* modified_precision counts the matched windows, no word more often than one
\* reference has it, and all windows, one where there are none.
LEMMA PrecisionCounts ==
  ASSUME NEW references \in Seq(Sentence), NEW h \in Sentence, NEW k \in 1 .. 4
  PROVE  /\ modified_precision(references, h, k).numerator
              = Cardinality(MatchedIn(references, h, k))
         /\ modified_precision(references, h, k).denominator = Max({1, Len(h) - k + 1})
         /\ Cardinality(MatchedIn(references, h, k)) \in Nat
         /\ Max({1, Len(h) - k + 1}) \in Nat \ {0}
         /\ Cardinality(MatchedIn(references, h, k)) <= Max({1, Len(h) - k + 1})
<1> DEFINE e == ngrams(h, k)
           W == Windows(h, k)
           num == IF Len(h) < k THEN 0 ELSE Len(h) - k + 1
           counts == counter(e)
           best(g) == max_counts(references, k, g)
           f == [g \in DOMAIN counts |-> Min({counts[g], best(g)})]
           A == MatchedIn(references, h, k)
<1>1. Len(h) \in Nat
  BY DEF Sentence
<1>2. num \in Nat /\ DOMAIN e = 1 .. num /\ DOMAIN W = 1 .. num
  <2>1. num \in Nat
    BY <1>1
  <2>2. 1 .. Len(h) - k + 1 = 1 .. num
    <3>1. CASE Len(h) < k
      <4>1. 1 .. Len(h) - k + 1 = {} /\ 1 .. 0 = {}
        BY <1>1, <3>1
      <4>2. QED
        BY <3>1, <4>1
    <3>2. CASE ~ (Len(h) < k)
      BY <3>2
    <3>3. QED
      BY <3>1, <3>2
  <2>3. QED
    BY <2>1, <2>2, WindowsType
<1> HIDE DEF num
<1>3. ASSUME NEW j \in 1 .. num
      PROVE  /\ best(e[j]) = BestIn(references, k, W[j]) /\ best(e[j]) \in Nat
             /\ Rank(e, j) = Cardinality({m \in 1 .. j : W[m] = W[j]})
             /\ e[j] \in DOMAIN counts
             /\ counts[e[j]] = Cardinality(Places(e, num, e[j]))
             /\ counts[e[j]] \in Nat
             /\ Rank(e, j) \in 1 .. counts[e[j]]
  <2>1. j \in DOMAIN W
    BY <1>2
  <2>2. best(e[j]) = BestIn(references, k, W[j]) /\ best(e[j]) \in Nat
    BY <2>1, CountedBest
  <2>3. \A m \in 1 .. j : m \in DOMAIN W
    BY <1>2
  <2>4. \A m \in 1 .. j : e[m] = e[j] <=> W[m] = W[j]
    BY <2>1, <2>3, NgramsAreWindows
  <2>5. Rank(e, j) = Cardinality({m \in 1 .. j : W[m] = W[j]})
    <3>1. {m \in 1 .. j : e[m] = e[j]} = {m \in 1 .. j : W[m] = W[j]}
      BY <2>4
    <3>2. QED
      BY <3>1 DEF Rank
  <2>6. e[j] \in Items(e)
    BY <1>2 DEF Items
  <2>7. e[j] \in DOMAIN counts /\ counts[e[j]] = Cardinality({i \in DOMAIN e : e[i] = e[j]})
    BY <2>6, CountedPlaces
  <2>8. counts[e[j]] = Cardinality(Places(e, num, e[j]))
    BY <1>2, <2>7 DEF Places
  <2>9. j \in Places(e, num, e[j])
    BY DEF Places
  <2>10. Cardinality(Places(e, num, e[j])) \in Nat /\ Rank(e, j) \in 1 .. Cardinality(Places(e, num, e[j]))
    BY <1>2, <2>9, RanksOfPlaces
  <2> HIDE DEF e, W, counts, best
  <2>11. QED
    BY <2>2, <2>5, <2>7, <2>8, <2>10
<1>4. DOMAIN counts = {e[j] : j \in 1 .. num}
  BY <1>2, CountedPlaces DEF Items
<1>5. A = {j \in 1 .. num : Rank(e, j) <= best(e[j])}
  <2>1. A = {j \in 1 .. num : Cardinality({m \in 1 .. j : W[m] = W[j]}) <= BestIn(references, k, W[j])}
    BY <1>2 DEF MatchedIn
  <2> HIDE DEF e, W, counts, best, A
  <2>2. \A j \in 1 .. num : /\ Rank(e, j) = Cardinality({m \in 1 .. j : W[m] = W[j]})
                            /\ best(e[j]) = BestIn(references, k, W[j])
    BY <1>3
  <2>3. QED
    BY <2>1, <2>2
<1>6. ASSUME NEW x \in DOMAIN counts
      PROVE  /\ counts[x] \in Nat /\ best(x) \in Nat
             /\ counts[x] = Cardinality(Places(e, num, x))
             /\ f[x] = IF counts[x] <= best(x) THEN counts[x] ELSE best(x)
  <2>1. PICK j \in 1 .. num : x = e[j]
    <3> HIDE DEF counts, e
    <3>1. QED
      BY <1>4
  <2>2. counts[x] \in Nat /\ best(x) \in Nat /\ counts[x] = Cardinality(Places(e, num, x))
    <3> HIDE DEF counts, e, best
    <3>1. QED
      BY <1>3, <2>1
  <2>3. Min({counts[x], best(x)}) = IF counts[x] <= best(x) THEN counts[x] ELSE best(x)
    <3> HIDE DEF counts, e, best
    <3>1. counts[x] \in Int /\ best(x) \in Int
      BY <2>2
    <3>2. QED
      BY <3>1, OfTwo
  <2>4. f[x] = Min({counts[x], best(x)})
    <3> HIDE DEF counts, e, best
    <3>1. QED
      OBVIOUS
  <2>5. QED
    BY <2>2, <2>3, <2>4
<1>7. DOMAIN f = DOMAIN counts
  OBVIOUS
<1>8. /\ modified_precision(references, h, k).numerator = SumOf(f)
      /\ modified_precision(references, h, k).denominator = Max({1, SumOf(counts)})
  BY DEF modified_precision
<1> HIDE DEF e, W, counts, best, f, A
<1>9. SumOf(f) = Cardinality({j \in 1 .. num : Rank(e, j) <= f[e[j]]})
  <2>1. DOMAIN f = {e[j] : j \in 1 .. num}
        /\ \A x \in DOMAIN f : f[x] \in Nat /\ f[x] <= Cardinality(Places(e, num, x))
    BY <1>4, <1>6, <1>7
  <2>2. QED
    BY <1>2, <2>1, SumOfRanks
<1>10. {j \in 1 .. num : Rank(e, j) <= f[e[j]]} = A
  <2>1. ASSUME NEW j \in 1 .. num PROVE Rank(e, j) <= f[e[j]] <=> Rank(e, j) <= best(e[j])
    <3>1. e[j] \in DOMAIN counts /\ best(e[j]) \in Nat /\ Rank(e, j) \in 1 .. counts[e[j]]
          /\ counts[e[j]] \in Nat
      BY <1>3
    <3>2. f[e[j]] = IF counts[e[j]] <= best(e[j]) THEN counts[e[j]] ELSE best(e[j])
      BY <1>6, <3>1
    <3>3. PICK r \in Nat, c \in Nat, x \in Nat :
            r = Rank(e, j) /\ c = counts[e[j]] /\ x = best(e[j]) /\ r <= c
      BY <3>1
    <3>4. r <= (IF c <= x THEN c ELSE x) <=> r <= x
      BY <3>3
    <3>5. QED
      BY <3>2, <3>3, <3>4, Zenon
  <2>2. QED
    BY <1>5, <2>1
<1>11. SumOf(counts) = num
  <2>1. \A x \in DOMAIN counts : counts[x] \in Nat /\ counts[x] <= Cardinality(Places(e, num, x))
    BY <1>6
  <2>2. SumOf(counts) = Cardinality({j \in 1 .. num : Rank(e, j) <= counts[e[j]]})
    BY <1>2, <1>4, <2>1, SumOfRanks
  <2>3. ASSUME NEW j \in 1 .. num PROVE Rank(e, j) <= counts[e[j]]
    <3>1. Rank(e, j) \in 1 .. counts[e[j]] /\ counts[e[j]] \in Nat
      BY <1>3
    <3>2. QED
      BY <3>1
  <2>4. {j \in 1 .. num : Rank(e, j) <= counts[e[j]]} = 1 .. num
    BY <2>3
  <2>5. Cardinality(1 .. num) = num
    <3>1. 1 \in Int /\ num \in Int
      BY <1>2
    <3>2. Cardinality(1 .. num) = IF 1 > num THEN 0 ELSE num - 1 + 1
      BY <3>1, FS_Interval
    <3>3. QED
      BY <1>2, <3>2
  <2>6. QED
    BY <2>2, <2>4, <2>5
<1>12. /\ Max({1, num}) = Max({1, Len(h) - k + 1}) /\ Max({1, num}) \in Nat \ {0}
       /\ num <= Max({1, num})
  <2>1. 1 \in Int /\ num \in Int /\ Len(h) - k + 1 \in Int
    BY <1>1, <1>2
  <2>2. Max({1, num}) = IF 1 <= num THEN num ELSE 1
    BY <2>1, OfTwo
  <2>3. Max({1, Len(h) - k + 1}) = IF 1 <= Len(h) - k + 1 THEN Len(h) - k + 1 ELSE 1
    BY <2>1, OfTwo
  <2>4. QED
    BY <1>1, <2>2, <2>3 DEF num
<1>13. Cardinality(A) \in Nat /\ Cardinality(A) <= num
  <2>1. A \subseteq 1 .. num
    BY <1>5
  <2>2. IsFiniteSet(1 .. num) /\ Cardinality(1 .. num) = num
    <3>1. 1 \in Int /\ num \in Int
      BY <1>2
    <3>2. Cardinality(1 .. num) = IF 1 > num THEN 0 ELSE num - 1 + 1
      BY <3>1, FS_Interval
    <3>3. QED
      BY <1>2, <3>1, <3>2, FS_Interval
  <2>3. IsFiniteSet(A) /\ Cardinality(A) <= Cardinality(1 .. num)
    BY <2>1, <2>2, FS_Subset
  <2>4. QED
    BY <2>2, <2>3, FS_CardinalityType
<1>14. Cardinality(A) <= Max({1, Len(h) - k + 1})
  <2>1. Max({1, num}) \in Nat
    BY <1>12
  <2>2. QED
    BY <1>2, <1>12, <1>13, <2>1
<1>15. QED
  BY <1>8, <1>9, <1>10, <1>11, <1>12, <1>13, <1>14 DEF A

-------------------------------------------------------------------------------
(* bleu: its invariant.                                                      *)

\* The counts of the sentences done.
Numerators(k) == [i \in Done(k) |-> Matched(i, k)]

Denominators(k) == [i \in Done(k) |-> WindowCount(i, k)]

\* A sentence done that has words made the length of the hypotheses positive.
LengthsCounted ==
  \A i \in DOMAIN hypotheses : i < idx /\ Len(hypotheses[i]) > 0 => hyp_lengths > 0

\* The score is computed after the last sentence, if a word is in common.
ScoredAtEnd ==
  result = "score" =>
    /\ Len(list_of_references) = Len(hypotheses)
    /\ idx > Len(hypotheses)
    /\ p_numerators[1] # 0

\* The inductive invariant.
BleuInv == TypeOK /\ PrecisionsClipped /\ LengthsCounted /\ ScoredAtEnd

\* What one sentence adds for windows of k words.
LEMMA SentenceCounts ==
  ASSUME TypeOK, Len(list_of_references) = Len(hypotheses),
         NEW i \in DOMAIN hypotheses, NEW k \in 1 .. MaxN
  PROVE  /\ modified_precision(list_of_references[i], hypotheses[i], k).numerator = Matched(i, k)
         /\ modified_precision(list_of_references[i], hypotheses[i], k).denominator = WindowCount(i, k)
         /\ Matched(i, k) \in Nat
         /\ WindowCount(i, k) \in Nat \ {0}
         /\ Matched(i, k) <= WindowCount(i, k)
<1>1. list_of_references[i] \in Seq(Sentence) /\ hypotheses[i] \in Sentence
  BY DEF TypeOK
<1>2. k \in 1 .. 4
  BY MaxNAssumption
<1>3. Matched(i, k) = Cardinality(MatchedIn(list_of_references[i], hypotheses[i], k))
  BY DEF Matched, MatchedIn, Best, BestIn
<1>4. WindowCount(i, k) = Max({1, Len(hypotheses[i]) - k + 1})
  BY DEF WindowCount
<1>5. PICK references \in Seq(Sentence), h \in Sentence :
        references = list_of_references[i] /\ h = hypotheses[i]
  BY <1>1
<1>6. /\ modified_precision(references, h, k).numerator = Cardinality(MatchedIn(references, h, k))
      /\ modified_precision(references, h, k).denominator = Max({1, Len(h) - k + 1})
      /\ Cardinality(MatchedIn(references, h, k)) \in Nat
      /\ Max({1, Len(h) - k + 1}) \in Nat \ {0}
      /\ Cardinality(MatchedIn(references, h, k)) <= Max({1, Len(h) - k + 1})
  BY <1>2, PrecisionCounts
<1>7. QED
  BY <1>3, <1>4, <1>5, <1>6, Zenon

\* The counts of the sentences done can be added up.
LEMMA CountsSummable ==
  ASSUME TypeOK, Len(list_of_references) = Len(hypotheses), NEW k \in 1 .. MaxN
  PROVE  /\ Summable(Numerators(k)) /\ Summable(Denominators(k))
         /\ DOMAIN Numerators(k) = Done(k) /\ DOMAIN Denominators(k) = Done(k)
         /\ \A i \in Done(k) : /\ i \in DOMAIN hypotheses
                               /\ Numerators(k)[i] = Matched(i, k)
                               /\ Denominators(k)[i] = WindowCount(i, k)
                               /\ Matched(i, k) \in Nat
                               /\ WindowCount(i, k) \in Nat \ {0}
                               /\ Matched(i, k) <= WindowCount(i, k)
<1>1. Done(k) \subseteq DOMAIN hypotheses
  BY DEF Done
<1>2. IsFiniteSet(Done(k))
  <2>1. DOMAIN hypotheses = 1 .. Len(hypotheses) /\ Len(hypotheses) \in Int /\ 1 \in Int
    BY DEF TypeOK
  <2>2. IsFiniteSet(DOMAIN hypotheses)
    BY <2>1, FS_Interval
  <2>3. QED
    BY <1>1, <2>2, FS_Subset
<1>3. \A i \in Done(k) : /\ Matched(i, k) \in Nat
                         /\ WindowCount(i, k) \in Nat \ {0}
                         /\ Matched(i, k) <= WindowCount(i, k)
  BY <1>1, SentenceCounts
<1>4. /\ DOMAIN Numerators(k) = Done(k) /\ DOMAIN Denominators(k) = Done(k)
      /\ \A i \in Done(k) : Numerators(k)[i] = Matched(i, k)
      /\ \A i \in Done(k) : Denominators(k)[i] = WindowCount(i, k)
  BY DEF Numerators, Denominators
<1>5. QED
  BY <1>1, <1>2, <1>3, <1>4 DEF Summable

\* Sums that are the counts of the sentences done are clipped.
LEMMA ClippedSums ==
  ASSUME TypeOK, Len(list_of_references) = Len(hypotheses), NEW k \in 1 .. MaxN
  PROVE  SumOf(Numerators(k)) <= SumOf(Denominators(k))
<1>1. \A i \in DOMAIN Numerators(k) : Numerators(k)[i] <= Denominators(k)[i]
  BY CountsSummable
<1>2. QED
  BY <1>1, CountsSummable, SumOfLeq

\* The length of the nearest reference is a length.
LEMMA ClosestType ==
  ASSUME NEW references \in Seq(Sentence), NEW hyp_len \in Nat
  PROVE  closest_ref_length(references, hyp_len) \in Nat
<1> DEFINE distance(r) == Abs(Len(references[r]) - hyp_len)
           nearest == {r \in DOMAIN references :
                         \A q \in DOMAIN references : distance(r) <= distance(q)}
<1>1. closest_ref_length(references, hyp_len)
        = IF nearest = {} THEN 0 ELSE Len(references[Min(nearest)])
  BY DEF closest_ref_length
<1>2. nearest \subseteq DOMAIN references
  OBVIOUS
<1> HIDE DEF nearest
<1>3. CASE nearest = {}
  BY <1>1, <1>3
<1>4. CASE nearest # {}
  <2>1. nearest \in SUBSET Nat /\ nearest \in SUBSET Int
    BY <1>2
  <2>2. PICK r \in nearest : \A q \in nearest : r <= q
    BY <1>4, <2>1, LeastNat
  <2>3. Min(nearest) = r
    BY <2>1, <2>2, MaxMin
  <2>4. references[r] \in Sentence
    BY <1>2
  <2>5. Len(references[r]) \in Nat
    BY <2>4 DEF Sentence
  <2>6. QED
    BY <1>1, <1>4, <2>3, <2>5
<1>5. QED
  BY <1>3, <1>4

\* What is counted depends on the arguments only.
LEMMA CountsKept ==
  ASSUME UNCHANGED input, NEW k
  PROVE  /\ Numerators(k)' = [i \in Done(k)' |-> Matched(i, k)]
         /\ Denominators(k)' = [i \in Done(k)' |-> WindowCount(i, k)]
<1>1. list_of_references' = list_of_references /\ hypotheses' = hypotheses
  BY DEF input
<1>2. ASSUME NEW i PROVE Matched(i, k)' = Matched(i, k) /\ WindowCount(i, k)' = WindowCount(i, k)
  BY <1>1 DEF Matched, Best, WindowCount
<1>3. QED
  BY <1>2 DEF Numerators, Denominators

\* The properties of the sums, one length of n-grams at a time.
LEMMA SumsClipped ==
  ASSUME TypeOK, Len(list_of_references) = Len(hypotheses),
         \A k \in 1 .. MaxN : /\ p_numerators[k] = SumOf(Numerators(k))
                              /\ p_denominators[k] = SumOf(Denominators(k))
  PROVE  PrecisionsClipped
<1>1. ASSUME NEW k \in 1 .. MaxN PROVE p_numerators[k] <= p_denominators[k]
  BY ClippedSums
<1>2. QED
  BY <1>1 DEF PrecisionsClipped, Numerators, Denominators

\* The sums are the counts of the sentences done.
SumsCounted ==
  /\ Len(list_of_references) = Len(hypotheses)
  /\ \A k \in 1 .. MaxN : /\ p_numerators[k] = SumOf(Numerators(k))
                          /\ p_denominators[k] = SumOf(Denominators(k))

\* The same after a step.
LEMMA SumsClippedNext == TypeOK' /\ SumsCounted' => PrecisionsClipped'
<1>1. TypeOK /\ SumsCounted => PrecisionsClipped
  BY SumsClipped DEF SumsCounted
<1>2. QED
  BY <1>1, PTL

\* The invariant holds at first.
LEMMA BleuInit == Init => BleuInv
<1> SUFFICES ASSUME Init PROVE BleuInv
  OBVIOUS
<1>1. PICK c \in Corpora : list_of_references = c.references /\ hypotheses = c.hypotheses
  BY DEF Init
<1>2. list_of_references \in Seq(Seq(Sentence)) /\ hypotheses \in Seq(Sentence)
  BY <1>1, CorporaAssumption
<1>3. MaxN \in Nat /\ MaxN >= 1 /\ Len(hypotheses) \in Nat
  BY <1>2, MaxNAssumption
<1>4. TypeOK
  BY <1>2, <1>3 DEF Init, TypeOK
<1>5. ASSUME NEW k \in 1 .. MaxN, Len(list_of_references) = Len(hypotheses)
      PROVE  /\ p_numerators[k] = SumOf(Numerators(k))
             /\ p_denominators[k] = SumOf(Denominators(k))
  <2>1. Done(k) = {}
    <3>1. \A i \in DOMAIN hypotheses : ~ (i < idx) /\ ~ (k < n)
      BY <1>2 DEF Init
    <3>2. QED
      BY <3>1 DEF Done
  <2>2. Pairs(Numerators(k)) = {} /\ Pairs(Denominators(k)) = {}
    BY <2>1 DEF Pairs, Numerators, Denominators
  <2>3. SumOf(Numerators(k)) = 0 /\ SumOf(Denominators(k)) = 0
    BY <2>2, FS_EmptySet DEF SumOf, Pairs
  <2>4. p_numerators[k] = 0 /\ p_denominators[k] = 0
    BY DEF Init
  <2>5. QED
    BY <2>3, <2>4
<1>6. PrecisionsClipped
  <2>1. CASE Len(list_of_references) = Len(hypotheses)
    BY <1>4, <1>5, <2>1, SumsClipped
  <2>2. CASE Len(list_of_references) # Len(hypotheses)
    BY <2>2 DEF PrecisionsClipped
  <2>3. QED
    BY <2>1, <2>2
<1>7. LengthsCounted
  BY <1>2 DEF LengthsCounted, Init
<1>8. ScoredAtEnd
  BY DEF ScoredAtEnd, Init
<1>9. QED
  BY <1>4, <1>6, <1>7, <1>8 DEF BleuInv

\* Windows of one more length are counted.
LEMMA PrecisionStep ==
  ASSUME BleuInv, Precision
  PROVE  BleuInv'
<1>1. TypeOK /\ PrecisionsClipped /\ LengthsCounted /\ ScoredAtEnd
  BY DEF BleuInv
<1>2. /\ result = "none" /\ Len(list_of_references) = Len(hypotheses)
      /\ idx <= Len(hypotheses) /\ n <= MaxN
      /\ n' = n + 1 /\ idx' = idx
      /\ list_of_references' = list_of_references /\ hypotheses' = hypotheses
      /\ hyp_lengths' = hyp_lengths /\ ref_lengths' = ref_lengths /\ result' = result
      /\ UNCHANGED input
  BY DEF Precision, Running, input
<1>3. /\ idx \in DOMAIN hypotheses /\ n \in 1 .. MaxN /\ MaxN \in Nat /\ n \in Nat /\ idx \in Nat
      /\ Len(hypotheses) \in Nat
  BY <1>1, <1>2, MaxNAssumption DEF TypeOK
<1>4. /\ p_numerators' = [p_numerators EXCEPT ![n] = @ + Matched(idx, n)]
      /\ p_denominators' = [p_denominators EXCEPT ![n] = @ + WindowCount(idx, n)]
      /\ Matched(idx, n) \in Nat /\ WindowCount(idx, n) \in Nat
  <2>1. /\ modified_precision(list_of_references[idx], hypotheses[idx], n).numerator = Matched(idx, n)
        /\ modified_precision(list_of_references[idx], hypotheses[idx], n).denominator = WindowCount(idx, n)
        /\ Matched(idx, n) \in Nat /\ WindowCount(idx, n) \in Nat
    BY <1>1, <1>2, <1>3, SentenceCounts
  <2>2. QED
    BY <2>1 DEF Precision
<1>5. TypeOK'
  <2>1. p_numerators \in [1 .. MaxN -> Nat] /\ p_denominators \in [1 .. MaxN -> Nat]
    BY <1>1 DEF TypeOK
  <2>2. p_numerators' \in [1 .. MaxN -> Nat] /\ p_denominators' \in [1 .. MaxN -> Nat]
    <3>1. p_numerators[n] + Matched(idx, n) \in Nat /\ p_denominators[n] + WindowCount(idx, n) \in Nat
      BY <1>3, <1>4, <2>1
    <3>2. QED
      BY <1>3, <1>4, <2>1, <3>1
  <2>3. n' \in 1 .. MaxN + 1
    BY <1>2, <1>3
  <2>4. QED
    BY <1>1, <1>2, <2>2, <2>3 DEF TypeOK
<1>6. ASSUME NEW k \in 1 .. MaxN
      PROVE  /\ p_numerators'[k] = SumOf(Numerators(k)')
             /\ p_denominators'[k] = SumOf(Denominators(k)')
  <2>1. /\ p_numerators[k] = SumOf(Numerators(k)) /\ p_denominators[k] = SumOf(Denominators(k))
        /\ p_numerators[k] \in Nat /\ p_denominators[k] \in Nat
    BY <1>1, <1>2 DEF PrecisionsClipped, Numerators, Denominators, TypeOK
  <2>2. /\ Numerators(k)' = [i \in Done(k)' |-> Matched(i, k)]
        /\ Denominators(k)' = [i \in Done(k)' |-> WindowCount(i, k)]
    BY <1>2, CountsKept
  <2>3. CASE k # n
    <3>1. Done(k)' = Done(k)
      <4>1. k < n' <=> k < n
        BY <1>2, <1>3, <2>3
      <4>2. QED
        BY <1>2, <4>1 DEF Done
    <3>2. Numerators(k)' = Numerators(k) /\ Denominators(k)' = Denominators(k)
      BY <2>2, <3>1 DEF Numerators, Denominators
    <3>3. p_numerators'[k] = p_numerators[k] /\ p_denominators'[k] = p_denominators[k]
      BY <1>1, <1>4, <2>3 DEF TypeOK
    <3>4. QED
      BY <2>1, <3>2, <3>3
  <2>4. CASE k = n
    <3>1. Done(k)' = Done(k) \cup {idx} /\ idx \notin Done(k)
      <4>1. k < n' /\ ~ (k < n) /\ ~ (idx < idx)
        BY <1>2, <1>3, <2>4
      <4>2. QED
        BY <1>2, <1>3, <4>1 DEF Done
    <3>2. /\ DOMAIN (Numerators(k)') = DOMAIN Numerators(k) \cup {idx}
          /\ DOMAIN (Denominators(k)') = DOMAIN Denominators(k) \cup {idx}
          /\ idx \notin DOMAIN Numerators(k) /\ idx \notin DOMAIN Denominators(k)
      BY <2>2, <3>1 DEF Numerators, Denominators
    <3>3. /\ \A i \in DOMAIN Numerators(k) : (Numerators(k)')[i] = Numerators(k)[i]
          /\ \A i \in DOMAIN Denominators(k) : (Denominators(k)')[i] = Denominators(k)[i]
      BY <2>2, <3>1 DEF Numerators, Denominators
    <3>4. (Numerators(k)')[idx] = Matched(idx, n) /\ (Denominators(k)')[idx] = WindowCount(idx, n)
      BY <2>2, <2>4, <3>1
    <3>5. Summable(Numerators(k)) /\ Summable(Denominators(k))
      BY <1>1, <1>2, CountsSummable
    <3>6. SumOf(Numerators(k)') = SumOf(Numerators(k)) + Matched(idx, n)
      <4>1. PICK f : f = Numerators(k)'
        OBVIOUS
      <4>2. SumOf(f) = SumOf(Numerators(k)) + f[idx]
        BY <1>4, <3>2, <3>3, <3>4, <3>5, <4>1, SumOfAdd
      <4>3. QED
        BY <3>4, <4>1, <4>2
    <3>7. SumOf(Denominators(k)') = SumOf(Denominators(k)) + WindowCount(idx, n)
      <4>1. PICK f : f = Denominators(k)'
        OBVIOUS
      <4>2. SumOf(f) = SumOf(Denominators(k)) + f[idx]
        BY <1>4, <3>2, <3>3, <3>4, <3>5, <4>1, SumOfAdd
      <4>3. QED
        BY <3>4, <4>1, <4>2
    <3>8. /\ p_numerators'[k] = p_numerators[k] + Matched(idx, n)
          /\ p_denominators'[k] = p_denominators[k] + WindowCount(idx, n)
      BY <1>1, <1>4, <2>4 DEF TypeOK
    <3>9. QED
      BY <2>1, <3>6, <3>7, <3>8
  <2>5. QED
    BY <2>3, <2>4
<1>7. PrecisionsClipped'
  <2>1. SumsCounted'
    BY <1>2, <1>6 DEF SumsCounted
  <2>2. QED
    BY <1>5, <2>1, SumsClippedNext
<1>8. LengthsCounted'
  BY <1>1, <1>2 DEF LengthsCounted
<1>9. ScoredAtEnd'
  BY <1>2 DEF ScoredAtEnd
<1>10. QED
  BY <1>5, <1>7, <1>8, <1>9 DEF BleuInv

\* The lengths of a sentence are added and the next one begins.
LEMMA LengthsStep ==
  ASSUME BleuInv, Lengths
  PROVE  BleuInv'
<1>1. TypeOK /\ PrecisionsClipped /\ LengthsCounted /\ ScoredAtEnd
  BY DEF BleuInv
<1>2. /\ result = "none" /\ Len(list_of_references) = Len(hypotheses)
      /\ idx <= Len(hypotheses) /\ n > MaxN
      /\ n' = 1 /\ idx' = idx + 1
      /\ list_of_references' = list_of_references /\ hypotheses' = hypotheses
      /\ hyp_lengths' = hyp_lengths + Len(hypotheses[idx])
      /\ ref_lengths' = ref_lengths
                          + closest_ref_length(list_of_references[idx], Len(hypotheses[idx]))
      /\ p_numerators' = p_numerators /\ p_denominators' = p_denominators
      /\ result' = result /\ UNCHANGED input
  BY DEF Lengths, Running, input
<1>3. /\ idx \in DOMAIN hypotheses /\ n = MaxN + 1 /\ MaxN \in Nat /\ MaxN >= 1 /\ idx \in Nat
      /\ Len(hypotheses) \in Nat /\ hyp_lengths \in Nat /\ ref_lengths \in Nat
  BY <1>1, <1>2, MaxNAssumption DEF TypeOK
<1>4. \A i \in DOMAIN hypotheses : i \in Nat /\ hypotheses[i] \in Sentence /\ Len(hypotheses[i]) \in Nat
  BY <1>1 DEF TypeOK, Sentence
<1>5. TypeOK'
  <2>1. list_of_references[idx] \in Seq(Sentence) /\ Len(hypotheses[idx]) \in Nat
    BY <1>1, <1>2, <1>3, <1>4 DEF TypeOK
  <2>2. closest_ref_length(list_of_references[idx], Len(hypotheses[idx])) \in Nat
    BY <2>1, ClosestType
  <2>3. hyp_lengths' \in Nat /\ ref_lengths' \in Nat
    BY <1>2, <1>3, <2>1, <2>2
  <2>4. idx' \in 1 .. Len(hypotheses) + 1 /\ n' \in 1 .. MaxN + 1
    BY <1>2, <1>3
  <2>5. QED
    BY <1>1, <1>2, <2>3, <2>4 DEF TypeOK
<1>6. ASSUME NEW k \in 1 .. MaxN
      PROVE  /\ p_numerators'[k] = SumOf(Numerators(k)')
             /\ p_denominators'[k] = SumOf(Denominators(k)')
  <2>1. p_numerators[k] = SumOf(Numerators(k)) /\ p_denominators[k] = SumOf(Denominators(k))
    BY <1>1, <1>2 DEF PrecisionsClipped, Numerators, Denominators
  <2>2. /\ Numerators(k)' = [i \in Done(k)' |-> Matched(i, k)]
        /\ Denominators(k)' = [i \in Done(k)' |-> WindowCount(i, k)]
    BY <1>2, CountsKept
  <2>3. Done(k)' = Done(k)
    <3>1. k < n /\ ~ (k < n')
      BY <1>2, <1>3
    <3>2. \A i \in DOMAIN hypotheses : i < idx + 1 <=> i < idx \/ i = idx
      BY <1>3, <1>4
    <3>3. QED
      BY <1>2, <3>1, <3>2 DEF Done
  <2>4. Numerators(k)' = Numerators(k) /\ Denominators(k)' = Denominators(k)
    BY <2>2, <2>3 DEF Numerators, Denominators
  <2>5. QED
    BY <1>2, <2>1, <2>4
<1>7. PrecisionsClipped'
  <2>1. SumsCounted'
    BY <1>2, <1>6 DEF SumsCounted
  <2>2. QED
    BY <1>5, <2>1, SumsClippedNext
<1>8. LengthsCounted'
  <2>1. ASSUME NEW i \in DOMAIN hypotheses, i < idx + 1, Len(hypotheses[i]) > 0
        PROVE  hyp_lengths + Len(hypotheses[idx]) > 0
    <3>1. CASE i = idx
      BY <1>3, <1>4, <2>1, <3>1
    <3>2. CASE i # idx
      <4>1. i < idx
        BY <1>3, <1>4, <2>1, <3>2
      <4>2. hyp_lengths > 0
        BY <1>1, <2>1, <4>1 DEF LengthsCounted
      <4>3. QED
        BY <1>3, <1>4, <4>2
    <3>3. QED
      BY <3>1, <3>2
  <2>2. QED
    BY <1>2, <2>1 DEF LengthsCounted
<1>9. ScoredAtEnd'
  BY <1>2 DEF ScoredAtEnd
<1>10. QED
  BY <1>5, <1>7, <1>8, <1>9 DEF BleuInv

\* Only the result changes.
LEMMA ResultStep ==
  ASSUME BleuInv, UNCHANGED << input, idx, n, sums >>,
         result' \in {"none", "mismatch", "zero", "score"}, ScoredAtEnd'
  PROVE  BleuInv'
<1>1. /\ list_of_references' = list_of_references /\ hypotheses' = hypotheses
      /\ idx' = idx /\ n' = n /\ hyp_lengths' = hyp_lengths /\ ref_lengths' = ref_lengths
      /\ p_numerators' = p_numerators /\ p_denominators' = p_denominators
      /\ UNCHANGED input
  BY DEF input, sums
<1>2. TypeOK'
  BY <1>1 DEF TypeOK, BleuInv
<1>3. PrecisionsClipped'
  <2>1. CASE Len(list_of_references) = Len(hypotheses)
    <3>1. ASSUME NEW k \in 1 .. MaxN
          PROVE  /\ p_numerators'[k] = SumOf(Numerators(k)')
                 /\ p_denominators'[k] = SumOf(Denominators(k)')
      <4>1. Done(k)' = Done(k)
        BY <1>1 DEF Done
      <4>2. Numerators(k)' = Numerators(k) /\ Denominators(k)' = Denominators(k)
        <5>1. /\ Numerators(k)' = [i \in Done(k)' |-> Matched(i, k)]
              /\ Denominators(k)' = [i \in Done(k)' |-> WindowCount(i, k)]
          BY <1>1, CountsKept
        <5>2. QED
          BY <4>1, <5>1 DEF Numerators, Denominators
      <4>3. p_numerators[k] = SumOf(Numerators(k)) /\ p_denominators[k] = SumOf(Denominators(k))
        BY <2>1 DEF PrecisionsClipped, Numerators, Denominators, BleuInv
      <4>4. QED
        BY <1>1, <4>2, <4>3
    <3>2. SumsCounted'
      BY <1>1, <2>1, <3>1 DEF SumsCounted
    <3>3. QED
      BY <1>2, <3>2, SumsClippedNext
  <2>2. CASE Len(list_of_references) # Len(hypotheses)
    BY <1>1, <2>2 DEF PrecisionsClipped
  <2>3. QED
    BY <2>1, <2>2
<1>4. LengthsCounted'
  BY <1>1 DEF LengthsCounted, BleuInv
<1>5. QED
  BY <1>2, <1>3, <1>4 DEF BleuInv

\* Every step keeps the invariant.
LEMMA BleuStep == BleuInv /\ [Next]_vars => BleuInv'
<1> SUFFICES ASSUME BleuInv, [Next]_vars PROVE BleuInv'
  OBVIOUS
<1>1. CASE Mismatch
  <2>1. result' = "mismatch" /\ UNCHANGED << input, idx, n, sums >>
    BY <1>1 DEF Mismatch
  <2>2. ScoredAtEnd'
    BY <2>1 DEF ScoredAtEnd
  <2>3. QED
    BY <2>1, <2>2, ResultStep
<1>2. CASE Precision
  BY <1>2, PrecisionStep
<1>3. CASE Lengths
  BY <1>3, LengthsStep
<1>4. CASE Score
  <2>1. /\ Len(list_of_references) = Len(hypotheses) /\ idx > Len(hypotheses)
        /\ result' = (IF p_numerators[1] = 0 THEN "zero" ELSE "score")
        /\ UNCHANGED << input, idx, n, sums >>
    BY <1>4 DEF Score, Running
  <2>2. ScoredAtEnd'
    BY <2>1 DEF ScoredAtEnd, input, sums
  <2>3. result' \in {"none", "mismatch", "zero", "score"}
    BY <2>1
  <2>4. QED
    BY <2>1, <2>2, <2>3, ResultStep
<1>5. CASE UNCHANGED vars
  <2>1. UNCHANGED << input, idx, n, sums >> /\ result' = result
    BY <1>5 DEF vars
  <2>2. ScoredAtEnd' /\ result' \in {"none", "mismatch", "zero", "score"}
    BY <2>1 DEF ScoredAtEnd, BleuInv, TypeOK, input, sums
  <2>3. QED
    BY <2>1, <2>2, ResultStep
<1>6. QED
  BY <1>1, <1>2, <1>3, <1>4, <1>5 DEF Next

\* The invariant holds in every state: the sums of bleu are the counts of the
\* sentences done, whatever the sentences, their number and the width of words.
THEOREM BleuInvariant == Spec => []BleuInv
<1>1. QED
  BY BleuInit, BleuStep, PTL DEF Spec

\* The variables of bleu have their types.
THEOREM BleuTypeCorrect == Spec => []TypeOK
<1>1. BleuInv => TypeOK
  BY DEF BleuInv
<1>2. QED
  BY <1>1, BleuInvariant, PTL

\* Two n-grams have the same integer only if they are the same words, for
\* words of every width: shifting, adding and masking loses nothing, also for
\* negative words and wherever in a sentence the words stand.
THEOREM NgramsDistinctAlways == Spec => []NgramsDistinct
<1>1. TypeOK => NgramsDistinct
  <2>1. SUFFICES ASSUME TypeOK, NEW i \in DOMAIN hypotheses \cap DOMAIN list_of_references,
                        NEW r \in DOMAIN list_of_references[i], NEW k \in 1 .. MaxN
                 PROVE  /\ \A t \in {hypotheses[i], list_of_references[i][r]} :
                             Len(ngrams(t, k)) = Len(Windows(t, k))
                        /\ \A a \in DOMAIN Windows(hypotheses[i], k),
                              b \in DOMAIN Windows(list_of_references[i][r], k) :
                             (ngrams(hypotheses[i], k)[a] = ngrams(list_of_references[i][r], k)[b])
                               <=> (Windows(hypotheses[i], k)[a] = Windows(list_of_references[i][r], k)[b])
    BY DEF NgramsDistinct
  <2>2. hypotheses[i] \in Sentence /\ list_of_references[i] \in Seq(Sentence)
    BY <2>1 DEF TypeOK
  <2>3. list_of_references[i][r] \in Sentence
    BY <2>2
  <2>4. k \in 1 .. 4
    BY MaxNAssumption
  <2>5. QED
    BY <2>2, <2>3, <2>4, NgramsAreWindows, WindowsType
<1>2. QED
  BY <1>1, BleuTypeCorrect, PTL

\* The numerators count every matched n-gram once and no more often than a
\* reference has it, the denominators every n-gram; no precision is above one.
THEOREM PrecisionsClippedAlways == Spec => []PrecisionsClipped
<1>1. BleuInv => PrecisionsClipped
  BY DEF BleuInv
<1>2. QED
  BY <1>1, BleuInvariant, PTL

\* Nothing is divided by zero where the score is computed.
THEOREM ScoreDefinedAlways == Spec => []ScoreDefined
<1>1. BleuInv => ScoreDefined
  <2>1. SUFFICES ASSUME BleuInv, result = "score"
                 PROVE  (\A k \in 1 .. MaxN : p_denominators[k] > 0) /\ hyp_lengths > 0
    BY DEF ScoreDefined
  <2>2. /\ TypeOK /\ Len(list_of_references) = Len(hypotheses) /\ idx > Len(hypotheses)
        /\ p_numerators[1] # 0 /\ 1 \in 1 .. MaxN
        /\ \A k \in 1 .. MaxN : /\ p_numerators[k] = SumOf(Numerators(k))
                                /\ p_denominators[k] = SumOf(Denominators(k))
    <3>1. TypeOK /\ Len(list_of_references) = Len(hypotheses) /\ idx > Len(hypotheses)
          /\ p_numerators[1] # 0
      BY <2>1 DEF BleuInv, ScoredAtEnd
    <3>2. 1 \in 1 .. MaxN
      BY MaxNAssumption
    <3>3. QED
      BY <2>1, <3>1, <3>2 DEF BleuInv, PrecisionsClipped, Numerators, Denominators
  <2>3. PICK i \in Done(1) : Matched(i, 1) > 0
    <3>1. SumOf(Numerators(1)) # 0
      BY <2>2
    <3>2. \E i \in DOMAIN Numerators(1) : Numerators(1)[i] > 0
      BY <2>2, <3>1, CountsSummable, SumOfValue
    <3>3. QED
      BY <2>2, <3>2, CountsSummable
  <2>4. i \in DOMAIN hypotheses /\ i < idx
    <3>1. i \in DOMAIN hypotheses /\ i \in 1 .. Len(hypotheses) /\ Len(hypotheses) \in Nat /\ idx \in Nat
      BY <2>2 DEF Done, TypeOK
    <3>2. QED
      BY <2>2, <3>1
  <2>5. Len(hypotheses[i]) > 0
    <3>1. SUFFICES ASSUME ~ (Len(hypotheses[i]) > 0) PROVE FALSE
      OBVIOUS
    <3>2. hypotheses[i] \in Sentence /\ Len(hypotheses[i]) \in Nat /\ 1 \in 1 .. 4
      BY <2>2, <2>4 DEF TypeOK, Sentence
    <3>3. DOMAIN Windows(hypotheses[i], 1) = 1 .. Len(hypotheses[i]) - 1 + 1
      BY <3>2, WindowsType
    <3>4. DOMAIN Windows(hypotheses[i], 1) = {}
      BY <3>1, <3>2, <3>3
    <3>5. Matched(i, 1) = Cardinality({})
      BY <3>4 DEF Matched
    <3>6. QED
      BY <2>3, <3>5, FS_EmptySet
  <2>6. hyp_lengths > 0
    BY <2>1, <2>4, <2>5 DEF BleuInv, LengthsCounted
  <2>7. ASSUME NEW k \in 1 .. MaxN PROVE p_denominators[k] > 0
    <3>1. i \in Done(k)
      BY <2>4 DEF Done
    <3>2. Denominators(k)[i] > 0 /\ i \in DOMAIN Denominators(k) /\ Summable(Denominators(k))
      BY <2>2, <3>1, CountsSummable
    <3>3. QED
      BY <2>2, <3>2, SumOfValue
  <2>8. QED
    BY <2>6, <2>7
<1>2. QED
  BY <1>1, BleuInvariant, PTL
===============================================================================
