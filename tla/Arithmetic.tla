------------------------------ MODULE Arithmetic ------------------------------
(***************************************************************************)
(* Facts about numbers that the proofs share: induction up to a number in  *)
(* the form of a set that is closed, powers of two, division with          *)
(* remainder, and what a loop of n passes goes through.                    *)
(***************************************************************************)
EXTENDS Integers, FiniteSetTheorems, FunctionTheorems, WellFoundedInduction, TLAPS

\* What holds of 0 and of the successor of each number below n it holds of holds
\* of all numbers up to n.
LEMMA Upto ==
  ASSUME NEW n \in Nat, NEW S, 0 \in S,
         \A k \in 0 .. (n - 1) : k \in S => (k + 1) \in S
  PROVE  0 .. n \subseteq S
<1> DEFINE Bad == {k \in 0 .. n : k \notin S}
<1>1. Bad \subseteq Nat
  OBVIOUS
<1>2. SUFFICES ASSUME Bad # {} PROVE FALSE
  OBVIOUS
<1>3. \A k \in Bad : k \in 0 .. n /\ k \notin S
  OBVIOUS
<1>4. \A k \in 0 .. n : k \notin Bad => k \in S
  OBVIOUS
<1> HIDE DEF Bad
<1>5. PICK k \in Bad : \A y \in Bad : ~(<<y, k>> \in OpToRel(<, Nat))
  BY <1>1, <1>2, NatLessThanWellFounded, WFMin
<1>6. k \in 0 .. n /\ k \notin S /\ k # 0
  BY <1>3, <1>5
<1>7. k - 1 \in Nat /\ k - 1 \in 0 .. (n - 1) /\ k - 1 \in 0 .. n /\ k - 1 < k /\ (k - 1) + 1 = k
  BY <1>6
<1>8. <<k - 1, k>> \in OpToRel(<, Nat)
  BY <1>6, <1>7 DEF OpToRel
<1>9. k - 1 \in S
  BY <1>4, <1>5, <1>7, <1>8
<1> QED
  BY <1>6, <1>7, <1>9

\* The powers of two.
LEMMA PowerIs == ASSUME NEW n \in Nat PROVE 2^n = Cardinality(SUBSET (1 .. n))
<1>1. IsFiniteSet(1 .. n) /\ Cardinality(1 .. n) = n
  BY FS_Interval
<1> QED
  BY <1>1, FS_SUBSET

LEMMA Powers ==
  /\ 2^0 = 1
  /\ \A n \in Nat : 2^n \in Nat /\ 2^(n + 1) = 2 * 2^n
<1>1. 2^0 = 1
  <2>1. SUBSET (1 .. 0) = {{}}
    OBVIOUS
  <2> QED
    BY <2>1, PowerIs, FS_Singleton
<1>2. ASSUME NEW n \in Nat PROVE 2^n \in Nat /\ 2^(n + 1) = 2 * 2^n
  <2> DEFINE A == SUBSET (1 .. n)
             f == [s \in A |-> s \cup {n + 1}]
             B == {s \cup {n + 1} : s \in A}
  <2>0. IsFiniteSet(1 .. n)
    BY FS_Interval
  <2>1. IsFiniteSet(A) /\ Cardinality(A) = 2^n /\ 2^n \in Nat
    BY <2>0, PowerIs, FS_SUBSET, FS_CardinalityType
  <2>2. f \in Bijection(A, B)
    <3>1. f \in [A -> B]
      OBVIOUS
    <3>2. ASSUME NEW s \in A, NEW t \in A, f[s] = f[t] PROVE s = t
      <4>1. n + 1 \notin s /\ n + 1 \notin t
        OBVIOUS
      <4>2. s \cup {n + 1} = t \cup {n + 1}
        BY <3>2
      <4> QED
        BY <4>1, <4>2
    <3>3. \A b \in B : \E s \in A : f[s] = b
      OBVIOUS
    <3> QED
      BY <3>1, <3>2, <3>3 DEF Bijection, Injection, Surjection, IsInjective
  <2>3. IsFiniteSet(B) /\ Cardinality(B) = 2^n
    <3> HIDE DEF A, B, f
    <3>1. ExistsBijection(A, B)
      BY <2>2 DEF ExistsBijection
    <3> QED
      BY <2>1, <3>1, FS_Bijection, FS_SameCardinalityBij
  <2>4. A \cap B = {}
    OBVIOUS
  <2>5. SUBSET (1 .. (n + 1)) = A \cup B
    <3>1. ASSUME NEW s \in SUBSET (1 .. (n + 1)) PROVE s \in A \cup B
      <4>1. CASE n + 1 \notin s
        <5>1. s \in A
          BY <4>1
        <5> QED
          BY <5>1
      <4>2. CASE n + 1 \in s
        <5>1. s \ {n + 1} \in A /\ s = (s \ {n + 1}) \cup {n + 1}
          BY <4>2
        <5> QED
          BY <5>1
      <4> QED
        BY <4>1, <4>2
    <3>2. A \subseteq SUBSET (1 .. (n + 1))
      OBVIOUS
    <3>3. ASSUME NEW s \in B PROVE s \in SUBSET (1 .. (n + 1))
      <4>1. PICK t \in A : s = t \cup {n + 1}
        OBVIOUS
      <4>2. t \subseteq 1 .. n /\ n + 1 \in 1 .. (n + 1) /\ 1 .. n \subseteq 1 .. (n + 1)
        OBVIOUS
      <4> HIDE DEF A, B
      <4> QED
        BY <4>1, <4>2
    <3> QED
      BY <3>1, <3>2, <3>3
  <2> HIDE DEF A, B
  <2>6. Cardinality(A \cup B) = 2^n + 2^n
    <3>1. Cardinality(A \cap B) = 0
      BY <2>4, FS_EmptySet
    <3>2. Cardinality(A \cup B) = Cardinality(A) + Cardinality(B) - Cardinality(A \cap B)
      BY <2>1, <2>3, FS_Union
    <3> QED
      BY <2>1, <2>3, <3>1, <3>2
  <2>7. 2^(n + 1) = Cardinality(A \cup B)
    BY <2>5, PowerIs
  <2> QED
    BY <2>1, <2>6, <2>7
<1> QED
  BY <1>1, <1>2

LEMMA PositivePowers == \A n \in Nat : 2^n \in Nat /\ 2^n > 0
<1> SUFFICES ASSUME NEW n \in Nat PROVE 2^n \in Nat /\ 2^n > 0
  OBVIOUS
<1> DEFINE S == {k \in Nat : 2^k > 0}
<1>1. 0 \in S
  BY Powers
<1>2. ASSUME NEW k \in 0 .. (n - 1), k \in S PROVE (k + 1) \in S
  <2>1. 2^k \in Nat /\ 2^(k + 1) = 2 * 2^k /\ 2^k > 0
    BY <1>2, Powers
  <2> QED
    BY <2>1
<1>3. 0 .. n \subseteq S
  <2> HIDE DEF S
  <2> QED
    BY <1>1, <1>2, Upto
<1> QED
  BY <1>3, Powers

LEMMA Products2 ==
  ASSUME NEW n \in Nat, NEW k \in 0 .. n
  PROVE  2^k * 2^(n - k) = 2^n
<1> DEFINE S == {j \in 0 .. n : 2^j * 2^(n - j) = 2^n}
<1>1. 0 \in S
  BY Powers
<1>2. ASSUME NEW j \in 0 .. (n - 1), j \in S PROVE (j + 1) \in S
  <2> DEFINE m == n - (j + 1)
  <2>1. m \in Nat /\ n - j = m + 1
    OBVIOUS
  <2>2. 2^(n - j) = 2 * 2^m /\ 2^(j + 1) = 2 * 2^j /\ 2^m \in Nat /\ 2^j \in Nat
    BY <2>1, Powers
  <2> HIDE DEF m
  <2>3. 2^j * (2 * 2^m) = (2 * 2^j) * 2^m
    BY <2>2
  <2> QED
    BY <1>2, <2>2, <2>3 DEF m
<1>3. 0 .. n \subseteq S
  <2> HIDE DEF S
  <2> QED
    BY <1>1, <1>2, Upto
<1> QED
  BY <1>3

\* Division with remainder.
LEMMA DivMod ==
  ASSUME NEW a \in Int, NEW b \in Nat \ {0}
  PROVE  /\ a \div b \in Int /\ a % b \in 0 .. (b - 1)
         /\ a = b * (a \div b) + (a % b)
OBVIOUS

LEMMA DivModNat ==
  ASSUME NEW a \in Nat, NEW b \in Nat \ {0}
  PROVE  a \div b \in Nat
<1>1. a \div b \in Int /\ a = b * (a \div b) + (a % b) /\ a % b < b
  BY DivMod
<1>2. SUFFICES ASSUME a \div b <= -1 PROVE FALSE
  BY <1>1
<1>3. b * (a \div b) <= -b
  BY <1>1, <1>2
<1> QED
  BY <1>1, <1>3

LEMMA DivModIs ==
  ASSUME NEW b \in Nat \ {0}, NEW q \in Int, NEW r \in 0 .. (b - 1)
  PROVE  (b * q + r) \div b = q /\ (b * q + r) % b = r
OBVIOUS

\* What a loop of n passes goes through.
LEMMA Iterated ==
  ASSUME NEW n \in Nat, NEW S, NEW a \in S, NEW step \in [S -> S]
  PROVE  \E g \in [0 .. n -> S] : g[0] = a /\ \A k \in 1 .. n : g[k] = step[g[k - 1]]
<1> DEFINE Runs(m) == \E g \in [0 .. m -> S] :
             g[0] = a /\ \A k \in 1 .. m : g[k] = step[g[k - 1]]
           T == {m \in 0 .. n : Runs(m)}
<1>1. Runs(0)
  <2> DEFINE g == [k \in 0 .. 0 |-> a]
  <2>1. g \in [0 .. 0 -> S] /\ g[0] = a /\ \A k \in 1 .. 0 : g[k] = step[g[k - 1]]
    OBVIOUS
  <2> QED
    BY <2>1
<1>2. ASSUME NEW m \in 0 .. (n - 1), Runs(m) PROVE Runs(m + 1)
  <2>1. PICK g \in [0 .. m -> S] : g[0] = a /\ \A k \in 1 .. m : g[k] = step[g[k - 1]]
    BY <1>2
  <2> DEFINE h == [k \in 0 .. (m + 1) |-> IF k = m + 1 THEN step[g[m]] ELSE g[k]]
  <2>2. h \in [0 .. (m + 1) -> S]
    OBVIOUS
  <2>3. h[0] = a
    BY <2>1
  <2>4. ASSUME NEW k \in 1 .. (m + 1) PROVE h[k] = step[h[k - 1]]
    <3>1. CASE k = m + 1
      <4>1. h[k] = step[g[m]] /\ h[k - 1] = g[m]
        BY <3>1
      <4> QED
        BY <4>1
    <3>2. CASE k # m + 1
      <4>1. k \in 1 .. m /\ h[k] = g[k] /\ h[k - 1] = g[k - 1]
        BY <3>2
      <4> QED
        BY <2>1, <4>1
    <3> QED
      BY <3>1, <3>2
  <2> HIDE DEF h
  <2> QED
    BY <2>2, <2>3, <2>4
<1>3. 0 \in T /\ \A m \in 0 .. (n - 1) : m \in T => (m + 1) \in T
  <2> HIDE DEF Runs
  <2> QED
    BY <1>1, <1>2
<1>4. n \in T
  <2> HIDE DEF T
  <2> QED
    BY <1>3, Upto
<1> QED
  BY <1>4

\* A set of numbers that is not empty has a least element, and one that is bounded
\* a greatest.
LEMMA Least ==
  ASSUME NEW S \in SUBSET Nat, S # {}
  PROVE  \E k \in S : \A m \in S : k <= m
<1>1. PICK k \in S : \A y \in S : ~(<<y, k>> \in OpToRel(<, Nat))
  BY NatLessThanWellFounded, WFMin
<1>2. ASSUME NEW m \in S PROVE k <= m
  <2>1. m \in Nat /\ k \in Nat
    OBVIOUS
  <2>2. m < k => <<m, k>> \in OpToRel(<, Nat)
    BY <2>1 DEF OpToRel
  <2>3. ~(<<m, k>> \in OpToRel(<, Nat))
    BY <1>1, Zenon
  <2>4. ~(m < k)
    BY <2>2, <2>3, Zenon
  <2> QED
    BY <2>1, <2>4
<1> QED
  BY <1>2

LEMMA Greatest ==
  ASSUME NEW n \in Nat, NEW S \in SUBSET (0 .. n), S # {}
  PROVE  \E k \in S : \A m \in S : m <= k
<1> DEFINE T == {n - m : m \in S}
<1>1. T \in SUBSET Nat /\ T # {}
  <2>1. \A m \in S : n - m \in Nat
    OBVIOUS
  <2>2. PICK m \in S : TRUE
    OBVIOUS
  <2>3. n - m \in T
    OBVIOUS
  <2> QED
    BY <2>1, <2>3
<1>2. \A m \in S : n - m \in T
  OBVIOUS
<1>3. PICK t \in T : \A m \in T : t <= m
  <2> HIDE DEF T
  <2> QED
    BY <1>1, Least
<1>4. PICK k \in S : t = n - k
  OBVIOUS
<1>5. ASSUME NEW m \in S PROVE m <= k
  <2>1. n - k <= n - m /\ m \in Nat /\ k \in Nat
    BY <1>2, <1>3, <1>4
  <2> QED
    BY <2>1
<1> QED
  BY <1>5
=============================================================================
