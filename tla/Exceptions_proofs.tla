-------------------------- MODULE Exceptions_proofs --------------------------
(***************************************************************************)
(* Proofs about Exceptions for every set of interrupts, every word size    *)
(* and every program: ienable, alt_irq_active, alt_priority_mask and the   *)
(* table of handlers agree, so a handler is called only when it is armed;  *)
(* only a higher priority interrupts it; and main() runs as it would on a  *)
(* processor with no exceptions at all, whatever instruction the handler   *)
(* computes, repairs or skips and whatever interrupts it in between.  The  *)
(* first part is the emulation's arithmetic: its loops give the product    *)
(* and the quotient of the integers.                                       *)
(***************************************************************************)
EXTENDS Exceptions, Arithmetic, SequenceTheorems
-----------------------------------------------------------------------------
(* Words *)

LEMMA WordFacts ==
  /\ 2^W \in Nat \ {0} /\ 2^(W - 1) \in Nat \ {0} /\ 2^W = 2 * 2^(W - 1)
  /\ Word \subseteq Nat /\ \A x \in Nat : x \in Word <=> x < 2^W
  /\ \A x \in Int : Wrapped(x) \in Word
  /\ \A x \in Word : Wrapped(x) = x
  /\ \A x \in Word : Msb(x) \in {0, 1} /\ (Msb(x) = 1 <=> x >= 2^(W - 1))
<1>1. W - 1 \in Nat /\ W \in Nat /\ (W - 1) + 1 = W
  BY MulDivAssumption
<1>2. 2^W \in Nat \ {0} /\ 2^(W - 1) \in Nat \ {0} /\ 2^W = 2 * 2^(W - 1)
  <2>1. 2^((W - 1) + 1) = 2 * 2^(W - 1)
    BY <1>1, Powers
  <2> QED
    BY <1>1, <2>1, PositivePowers
<1>3. Word \subseteq Nat /\ \A x \in Nat : x \in Word <=> x < 2^W
  BY <1>2 DEF Word
<1>4. \A x \in Int : Wrapped(x) \in Word
  BY <1>2, DivMod DEF Word, Wrapped
<1>5. \A x \in Word : Wrapped(x) = x
  BY <1>2, <1>3 DEF Wrapped
<1>6. \A x \in Word : Msb(x) \in {0, 1} /\ (Msb(x) = 1 <=> x >= 2^(W - 1))
  BY DEF Msb
<1> QED
  BY <1>2, <1>3, <1>4, <1>5, <1>6

LEMMA MsbIs ==
  ASSUME NEW x \in Word
  PROVE  x \in Nat /\ Msb(x) \in {0, 1} /\ Msb(x) \in Nat
BY WordFacts

\* What wraps is what differs by a number of words.
LEMMA WrappedIs ==
  ASSUME NEW q \in Int, NEW r \in Word
  PROVE  Wrapped(2^W * q + r) = r
  BY WordFacts, DivModIs DEF Word, Wrapped

LEMMA Doubled ==
  ASSUME NEW x \in Word
  PROVE  Wrapped(2 * x) = 2 * x - Msb(x) * 2^W /\ Wrapped(2 * x) + 1 \in Word
<1>1. x \in Nat /\ x < 2^W
  BY WordFacts
<1>2. CASE Msb(x) = 1
  <2>1. x >= 2^(W - 1)
    BY <1>2, WordFacts
  <2>2. 2 * x - 2^W \in Nat /\ 2 * x - 2^W < 2^W
    BY <1>1, <2>1, WordFacts
  <2>3. Wrapped(2^W * 1 + (2 * x - 2^W)) = 2 * x - 2^W
    BY <2>2, WordFacts, WrappedIs
  <2>4. 2^W * 1 + (2 * x - 2^W) = 2 * x
    BY <1>1, WordFacts
  <2>5. 2 * x - 2^W + 1 < 2^W
    BY <1>1, WordFacts
  <2> QED
    BY <1>1, <1>2, <2>2, <2>3, <2>4, <2>5, WordFacts
<1>3. CASE Msb(x) = 0
  <2>1. x < 2^(W - 1)
    BY <1>1, <1>3, WordFacts
  <2>2. 2 * x \in Nat /\ 2 * x < 2^W /\ 2 * x + 1 < 2^W
    BY <1>1, <2>1, WordFacts
  <2> QED
    BY <1>1, <1>3, <2>2, WordFacts
<1> QED
  BY <1>2, <1>3, WordFacts
-----------------------------------------------------------------------------
(* Division *)

States == [rem : Word, quo : Word]

LEMMA DivisionPassTyped ==
  ASSUME NEW s \in States, NEW d \in Word
  PROVE  DivisionPass(s, d) \in States
<1> DEFINE rem == Wrapped(2 * s.rem + Msb(s.quo))
           quo == Wrapped(2 * s.quo)
<1>1. /\ s.rem \in Nat /\ s.quo \in Nat /\ s.quo \in Word
      /\ Msb(s.quo) \in Nat /\ d \in Nat
  <2>1. s.rem \in Word /\ s.quo \in Word
    BY DEF States
  <2> QED
    BY <2>1, MsbIs
<1>2. rem \in Word /\ quo \in Word /\ quo + 1 \in Word
  <2>1. 2 * s.rem + Msb(s.quo) \in Int /\ 2 * s.quo \in Int
    BY <1>1, MsbIs
  <2> QED
    BY <1>1, <2>1, WordFacts, Doubled
<1>3. DivisionPass(s, d) = IF rem < d THEN [rem |-> rem, quo |-> quo]
                                      ELSE [rem |-> rem - d, quo |-> quo + 1]
  BY DEF DivisionPass
<1> HIDE DEF rem, quo
<1>4. ~(rem < d) => rem - d \in Word
  BY <1>1, <1>2, WordFacts
<1> QED
  BY <1>2, <1>3, <1>4 DEF States

LEMMA QuotientIs ==
  ASSUME NEW x \in Word, NEW d \in Word
  PROVE  \E g \in [0 .. W -> States] :
           /\ g[0] = [rem |-> 0, quo |-> x]
           /\ \A k \in 1 .. W : g[k] = DivisionPass(g[k - 1], d)
           /\ Quotient(x, d) = g[W].quo
<1> DEFINE start == [rem |-> 0, quo |-> x]
           F(g) == [k \in 0 .. W |-> IF k = 0 THEN [rem |-> 0, quo |-> x]
                                              ELSE DivisionPass(g[k - 1], d)]
           step == [s \in States |-> DivisionPass(s, d)]
<1>0. W \in Nat
  BY MulDivAssumption
<1>1. start \in States
  BY WordFacts DEF States
<1>2. step \in [States -> States]
  BY DivisionPassTyped
<1>3. PICK h \in [0 .. W -> States] :
        h[0] = start /\ \A k \in 1 .. W : h[k] = step[h[k - 1]]
  <2> HIDE DEF start, step
  <2> QED
    BY <1>0, <1>1, <1>2, Iterated
<1>4. \A k \in 1 .. W : h[k - 1] \in States
  BY <1>0, <1>3
<1>5. h = F(h)
  <2>1. ASSUME NEW k \in 0 .. W PROVE h[k] = F(h)[k]
    <3>1. CASE k = 0
      BY <1>3, <3>1
    <3>2. CASE k # 0
      <4>1. k \in 1 .. W
        BY <1>0, <3>2
      <4>2. h[k] = step[h[k - 1]] /\ h[k - 1] \in States
        BY <1>3, <1>4, <4>1
      <4> QED
        BY <3>2, <4>2
    <3> QED
      BY <3>1, <3>2
  <2> HIDE DEF States
  <2> QED
    BY <1>3, <2>1
<1> DEFINE g == CHOOSE f : f = F(f)
<1>6. g = F(g)
  <2> HIDE DEF F
  <2> QED
    BY <1>5
<1>7. Quotient(x, d) = g[W].quo
  BY DEF Quotient
<1>8. g = h
  <2> HIDE DEF g
  <2> DEFINE T == {k \in 0 .. W : g[k] = h[k]}
  <2>1. 0 \in T
    BY <1>0, <1>3, <1>6
  <2>2. ASSUME NEW k \in 0 .. (W - 1), k \in T PROVE (k + 1) \in T
    <3>1. k + 1 \in 1 .. W /\ k + 1 \in 0 .. W /\ k + 1 # 0 /\ (k + 1) - 1 = k
      BY <1>0
    <3>2. g[k + 1] = DivisionPass(g[k], d)
      BY <1>6, <3>1
    <3>3. h[k + 1] = DivisionPass(h[k], d)
      BY <1>5, <3>1
    <3> QED
      BY <2>2, <3>1, <3>2, <3>3
  <2>3. 0 .. W \subseteq T
    <3> HIDE DEF T
    <3> QED
      BY <1>0, <2>1, <2>2, Upto
  <2>4. \A k \in 0 .. W : g[k] = h[k]
    BY <2>3
  <2>5. g = [k \in 0 .. W |-> g[k]] /\ h = [k \in 0 .. W |-> h[k]]
    <3>1. g = [k \in DOMAIN F(g) |-> F(g)[k]]
      BY <1>6
    <3> QED
      BY <1>3, <1>6, <3>1
  <2> QED
    BY <2>4, <2>5
<1>9. \A k \in 1 .. W : h[k] = DivisionPass(h[k - 1], d)
  BY <1>3, <1>4
<1> HIDE DEF g
<1> QED
  BY <1>3, <1>7, <1>8, <1>9

\* The bit that a pass moves from the dividend to the remainder.
LEMMA NextBit ==
  ASSUME NEW P \in Nat \ {0}, NEW Q \in Nat \ {0}, NEW lo \in Nat, NEW q \in Nat,
         NEW b \in {0, 1}, lo < 2 * Q, q < P, b = 1 <=> lo * P + q >= P * Q
  PROVE  /\ lo - b * Q \in Nat /\ lo - b * Q < Q
         /\ 2 * (lo * P + q) - b * (2 * (P * Q)) = (lo - b * Q) * (2 * P) + 2 * q
<1>1. lo * P \in Nat /\ P * Q \in Nat
  OBVIOUS
<1>2. CASE lo >= Q
  <2>1. lo * P >= P * Q
    <3>1. PICK j \in Nat : lo = Q + j
      BY <1>2
    <3>2. lo * P = P * Q + j * P /\ j * P \in Nat
      BY <3>1
    <3> QED
      BY <1>1, <3>2
  <2>2. b = 1
    BY <1>1, <2>1
  <2>3. (lo - Q) * (2 * P) = 2 * (lo * P) - 2 * (P * Q)
    OBVIOUS
  <2> QED
    BY <1>1, <1>2, <2>2, <2>3
<1>3. CASE lo < Q
  <2>1. lo * P + q < P * Q
    <3>1. PICK j \in Nat : Q = lo + 1 + j
      BY <1>3
    <3>2. P * Q = lo * P + P + j * P /\ j * P \in Nat
      BY <3>1
    <3> QED
      BY <1>1, <3>2
  <2>2. b = 0
    BY <1>1, <2>1
  <2>3. lo * (2 * P) = 2 * (lo * P)
    OBVIOUS
  <2> QED
    BY <1>1, <1>3, <2>2, <2>3
<1> QED
  BY <1>2, <1>3

\* One pass, on numbers: x is divided down to its lowest digit below Q.
LEMMA DivisionNumbers ==
  ASSUME NEW P \in Nat \ {0}, NEW Q \in Nat \ {0}, NEW x \in Nat, NEW d \in Nat,
         NEW hi \in Nat, NEW lo \in Nat, NEW q \in Nat, NEW rem \in Nat, NEW b \in {0, 1},
         x = hi * (2 * Q) + lo, hi < P, hi = d * q + rem, rem < d, q < P, b * Q <= lo
  PROVE  /\ x = (2 * hi + b) * Q + (lo - b * Q) /\ 2 * hi + b < 2 * P
         /\ 2 * hi + b = d * (2 * q) + (2 * rem + b) /\ 2 * rem + b < 2 * P
         /\ 2 * q + 1 < 2 * P /\ 2 * rem + b - d < d
         /\ 2 * hi + b = d * (2 * q + 1) + (2 * rem + b - d)
<1>1. hi * (2 * Q) = 2 * (hi * Q) /\ (2 * hi + b) * Q = 2 * (hi * Q) + b * Q
  OBVIOUS
<1>2. hi * Q \in Nat /\ b * Q \in Nat /\ d * q \in Nat
  OBVIOUS
<1>3. d * (2 * q) = 2 * (d * q) /\ d * (2 * q + 1) = 2 * (d * q) + d
  OBVIOUS
<1>4. rem <= hi
  BY <1>2
<1> QED
  BY <1>1, <1>2, <1>3, <1>4

\* After k passes the quotient register holds what is left of the dividend above
\* the quotient of what has left it.
Divided(x, d, k, s) ==
  \E hi, lo, q \in Nat :
    /\ x = hi * 2^(W - k) + lo /\ lo < 2^(W - k) /\ hi < 2^k
    /\ hi = d * q + s.rem /\ s.rem < d /\ q < 2^k
    /\ s.quo = lo * 2^k + q

\* The widths around pass k + 1.
LEMMA Widths ==
  ASSUME NEW k \in 0 .. (W - 1)
  PROVE  /\ 2^k \in Nat \ {0} /\ 2^(W - (k + 1)) \in Nat \ {0}
         /\ 2^(k + 1) = 2 * 2^k /\ 2^(W - k) = 2 * 2^(W - (k + 1))
         /\ 2^W = 2 * (2^k * 2^(W - (k + 1))) /\ 2^(W - 1) = 2^k * 2^(W - (k + 1))
         /\ 2 * 2^k <= 2^W
<1>1. W \in Nat /\ k \in Nat /\ W - (k + 1) \in Nat /\ W - k = (W - (k + 1)) + 1
  BY MulDivAssumption
<1>2. 2^k \in Nat \ {0} /\ 2^(W - (k + 1)) \in Nat \ {0}
  BY <1>1, PositivePowers
<1>3. 2^(k + 1) = 2 * 2^k /\ 2^(W - k) = 2 * 2^(W - (k + 1))
  BY <1>1, Powers
<1>4. 2^k * 2^(W - k) = 2^W
  BY <1>1, Products2
<1> DEFINE P == 2^k
           Q == 2^(W - (k + 1))
<1>5. P * (2 * Q) = 2^W
  BY <1>3, <1>4
<1>6. P \in Nat \ {0} /\ Q \in Nat \ {0}
  BY <1>2
<1> HIDE DEF P, Q
<1>7. 2^W = 2 * (P * Q) /\ 2 * P <= 2^W
  <2>1. P * (2 * Q) = 2 * (P * Q)
    BY <1>6
  <2>2. P * Q >= P
    BY <1>6
  <2>3. P * Q \in Nat
    BY <1>6
  <2> QED
    BY <1>5, <1>6, <2>1, <2>2, <2>3
<1>8. 2^(W - 1) = P * Q
  <2>1. P * Q \in Nat
    BY <1>6
  <2> QED
    BY <1>7, <2>1, WordFacts
<1> QED
  BY <1>2, <1>3, <1>7, <1>8 DEF P, Q

\* A division's numbers in the form the next pass takes them from.
LEMMA DividedNext ==
  ASSUME NEW x, NEW d, NEW k \in 0 .. (W - 1), NEW t,
         NEW high \in Nat, NEW low \in Nat, NEW p \in Nat,
         x = high * 2^(W - (k + 1)) + low, low < 2^(W - (k + 1)),
         high < 2^(k + 1), high = d * p + t.rem, t.rem < d, p < 2^(k + 1),
         t.quo = low * 2^(k + 1) + p
  PROVE  Divided(x, d, k + 1, t)
BY DEF Divided

LEMMA DivisionStep ==
  ASSUME NEW x \in Word, NEW d \in Word, d # 0, NEW k \in 0 .. (W - 1),
         NEW s \in States, Divided(x, d, k, s)
  PROVE  Divided(x, d, k + 1, DivisionPass(s, d))
<1> DEFINE P == 2^k
           Q == 2^(W - (k + 1))
           b == Msb(s.quo)
<1>1. /\ P \in Nat \ {0} /\ Q \in Nat \ {0} /\ 2^(k + 1) = 2 * P /\ 2^(W - k) = 2 * Q
      /\ 2^W = 2 * (P * Q) /\ 2^(W - 1) = P * Q /\ 2 * P <= 2^W
  BY Widths
<1>2. x \in Nat /\ d \in Nat /\ s.rem \in Word /\ s.rem \in Nat /\ s.quo \in Word
  <2>1. s.rem \in Word /\ s.quo \in Word
    BY DEF States
  <2> QED
    BY <2>1, MsbIs
<1>3. PICK hi \in Nat, lo \in Nat, q \in Nat :
        /\ x = hi * (2 * Q) + lo /\ lo < 2 * Q /\ hi < P
        /\ hi = d * q + s.rem /\ s.rem < d /\ q < P
        /\ s.quo = lo * P + q
  BY <1>1 DEF Divided
<1>4. b \in {0, 1} /\ (b = 1 <=> lo * P + q >= P * Q)
  BY <1>1, <1>2, <1>3, WordFacts
<1>5. Wrapped(2 * s.quo) = 2 * (lo * P + q) - b * (2 * (P * Q))
  BY <1>1, <1>2, <1>3, Doubled
<1> HIDE DEF P, Q, b
<1>6. /\ lo - b * Q \in Nat /\ lo - b * Q < Q
      /\ Wrapped(2 * s.quo) = (lo - b * Q) * (2 * P) + 2 * q
  <2>1. /\ lo - b * Q \in Nat /\ lo - b * Q < Q
        /\ 2 * (lo * P + q) - b * (2 * (P * Q)) = (lo - b * Q) * (2 * P) + 2 * q
    BY <1>1, <1>3, <1>4, NextBit
  <2> QED
    BY <1>5, <2>1
<1> DEFINE low == lo - b * Q
           high == 2 * hi + b
           rem == 2 * s.rem + b
<1>7. b * Q <= lo
  <2>1. b * Q \in Nat
    BY <1>1, <1>4
  <2> QED
    BY <1>3, <1>6, <2>1
<1>8. /\ x = high * Q + low /\ high < 2 * P
      /\ high = d * (2 * q) + rem /\ rem < 2 * P
      /\ 2 * q + 1 < 2 * P /\ rem - d < d
      /\ high = d * (2 * q + 1) + (rem - d)
  BY <1>1, <1>2, <1>3, <1>4, <1>7, DivisionNumbers
<1>9. low \in Nat /\ low < Q /\ high \in Nat /\ rem \in Nat
  BY <1>2, <1>4, <1>6
<1>10. Wrapped(rem) = rem
  <2>1. rem < 2^W
    BY <1>1, <1>8, <1>9
  <2> QED
    BY <1>9, <2>1, WordFacts
<1>11. DivisionPass(s, d) = IF rem < d THEN [rem |-> rem, quo |-> low * (2 * P) + 2 * q]
                            ELSE [rem |-> rem - d, quo |-> low * (2 * P) + 2 * q + 1]
  BY <1>6, <1>10 DEF DivisionPass, b
<1> HIDE DEF low, high, rem
<1>12. CASE rem < d
  <2> DEFINE t == DivisionPass(s, d)
  <2> DEFINE p == 2 * q
  <2>1. t.rem = rem /\ t.quo = low * (2 * P) + p
    BY <1>11, <1>12
  <2>2. p \in Nat /\ p < 2 * P /\ high = d * p + t.rem /\ t.rem < d
    BY <1>1, <1>3, <1>8, <1>12, <2>1
  <2> HIDE DEF t, p
  <2>3. Divided(x, d, k + 1, t)
    BY <1>1, <1>8, <1>9, <2>1, <2>2, DividedNext DEF Q
  <2> QED
    BY <2>3 DEF t
<1>13. CASE ~(rem < d)
  <2> DEFINE t == DivisionPass(s, d)
  <2>1. t.rem = rem - d /\ t.quo = low * (2 * P) + (2 * q + 1)
    <3>1. low * (2 * P) \in Nat
      BY <1>1, <1>9
    <3> QED
      BY <1>3, <1>11, <1>13, <3>1
  <2> DEFINE p == 2 * q + 1
  <2>2. p \in Nat /\ p < 2 * P /\ high = d * p + t.rem /\ t.quo = low * (2 * P) + p
    BY <1>3, <1>8, <2>1
  <2>3. t.rem < d
    BY <1>8, <2>1
  <2> HIDE DEF t, p
  <2>4. Divided(x, d, k + 1, t)
    BY <1>1, <1>8, <1>9, <2>2, <2>3, DividedNext DEF Q
  <2> QED
    BY <2>4 DEF t
<1> QED
  BY <1>12, <1>13

\* divu's loop: the quotient of the integers, for every dividend and divisor but 0.
LEMMA QuotientDivides ==
  ASSUME NEW x \in Word, NEW d \in Word
  PROVE  Quotient(x, d) \in Word /\ (d # 0 => Quotient(x, d) = x \div d)
<1>1. PICK g \in [0 .. W -> States] :
        /\ g[0] = [rem |-> 0, quo |-> x]
        /\ \A k \in 1 .. W : g[k] = DivisionPass(g[k - 1], d)
        /\ Quotient(x, d) = g[W].quo
  BY QuotientIs
<1>2. W \in Nat /\ W \in 0 .. W /\ W - 0 = W /\ W - W = 0
  BY MulDivAssumption
<1>3. Quotient(x, d) \in Word
  BY <1>1, <1>2 DEF States
<1>4. ASSUME d # 0 PROVE Quotient(x, d) = x \div d
  <2> DEFINE T == {k \in 0 .. W : Divided(x, d, k, g[k])}
  <2>0. x \in Nat /\ d \in Nat \ {0} /\ x < 2^W
    BY <1>4, WordFacts
  <2>1. 0 \in T
    <3>1. x = 0 * 2^W + x /\ x < 2^W /\ 0 < 2^0 /\ 0 = d * 0 + 0 /\ 0 < d /\ x = x * 2^0 + 0
      BY <2>0, Powers, WordFacts
    <3>2. g[0].rem = 0 /\ g[0].quo = x
      BY <1>1
    <3>3. Divided(x, d, 0, g[0])
      BY <1>2, <2>0, <3>1, <3>2 DEF Divided
    <3> QED
      BY <1>2, <3>3
  <2>2. ASSUME NEW k \in 0 .. (W - 1), k \in T PROVE (k + 1) \in T
    <3>1. k + 1 \in 1 .. W /\ k + 1 \in 0 .. W /\ k \in 0 .. W /\ (k + 1) - 1 = k
      BY <1>2
    <3>2. g[k + 1] = DivisionPass(g[k], d)
      BY <1>1, <3>1
    <3>3. Divided(x, d, k + 1, g[k + 1])
      BY <1>1, <1>4, <2>2, <3>1, <3>2, DivisionStep
    <3> QED
      BY <3>1, <3>3
  <2>3. 0 .. W \subseteq T
    <3> HIDE DEF T
    <3> QED
      BY <1>2, <2>1, <2>2, Upto
  <2>4. Divided(x, d, W, g[W])
    BY <1>2, <2>3
  <2>5. g[W].rem \in Nat
    BY <1>1, <1>2, WordFacts DEF States
  <2>6. PICK hi \in Nat, lo \in Nat, q \in Nat :
          /\ x = hi * 1 + lo /\ lo < 1
          /\ hi = d * q + g[W].rem /\ g[W].rem < d
          /\ g[W].quo = lo * 2^W + q
    BY <1>2, <2>4, Powers DEF Divided
  <2>7. x = d * q + g[W].rem /\ g[W].quo = q
    BY <2>0, <2>6, WordFacts
  <2>8. g[W].rem \in 0 .. (d - 1)
    BY <2>0, <2>5, <2>6
  <2>9. (d * q + g[W].rem) \div d = q
    <3>1. d \in Nat \ {0} /\ q \in Int
      BY <2>0
    <3>2. PICK r \in 0 .. (d - 1) : r = g[W].rem
      BY <2>8
    <3>3. (d * q + r) \div d = q
      BY <3>1, DivModIs, Zenon
    <3> QED
      BY <3>2, <3>3
  <2> QED
    BY <1>1, <2>7, <2>9
<1> QED
  BY <1>3, <1>4

-----------------------------------------------------------------------------
(* Multiplication *)

Factors == [low : Word, high : Word, left : Word, right : Word]

\* Halving a word, and putting a carry in its top bit.
LEMMA Halved ==
  ASSUME NEW n \in Nat
  PROVE  /\ n \div 2 \in Nat /\ n % 2 \in {0, 1} /\ n = 2 * (n \div 2) + (n % 2)
         /\ n < 2^W => n \div 2 < 2^(W - 1) /\ n \div 2 \in Word
                       /\ n \div 2 + 2^(W - 1) \in Word
<1>1. n \div 2 \in Nat /\ n % 2 \in {0, 1} /\ n = 2 * (n \div 2) + (n % 2)
  OBVIOUS
<1>2. ASSUME n < 2^W PROVE n \div 2 < 2^(W - 1)
  BY <1>1, <1>2, WordFacts
<1>3. ASSUME n < 2^W PROVE n \div 2 \in Word /\ n \div 2 + 2^(W - 1) \in Word
  BY <1>1, <1>2, <1>3, WordFacts
<1> QED
  BY <1>1, <1>2, <1>3

LEMMA ProductPassTyped ==
  ASSUME NEW s \in Factors, NEW x \in Word
  PROVE  ProductPass(s, x) \in Factors
<1> DEFINE high == Wrapped(s.high + (s.right % 2) * x)
           carry == IF s.right % 2 = 1 /\ high < x THEN 2^(W - 1) ELSE 0
           low == Wrapped(2 * s.low + Msb(s.left) * x)
           left == Wrapped(2 * s.left)
           right == s.right \div 2
<1>1. s.low \in Word /\ s.high \in Word /\ s.left \in Word /\ s.right \in Word
  BY DEF Factors
<1>2. /\ s.low \in Nat /\ s.high \in Nat /\ s.left \in Nat /\ s.right \in Nat /\ x \in Nat
      /\ Msb(s.left) \in Nat
  BY <1>1, MsbIs
<1>3. right \in Word /\ s.right % 2 \in {0, 1}
  BY <1>1, <1>2, Halved, WordFacts
<1>4. low \in Word /\ left \in Word /\ high \in Word
  <2>1. (s.right % 2) * x \in Int /\ Msb(s.left) * x \in Int
    BY <1>2, <1>3
  <2>2. s.high + (s.right % 2) * x \in Int /\ 2 * s.low + Msb(s.left) * x \in Int
        /\ 2 * s.left \in Int
    BY <1>2, <2>1
  <2> QED
    BY <2>2, WordFacts
<1>5. ProductPass(s, x) = [low |-> low, high |-> high \div 2 + carry,
                           left |-> left, right |-> right]
  BY DEF ProductPass
<1> HIDE DEF high, low, left, right
<1>6. high \div 2 + carry \in Word
  <2>1. high \in Nat /\ high < 2^W
    BY <1>4, WordFacts
  <2>2. high \div 2 \in Word /\ high \div 2 \in Nat /\ high \div 2 + 2^(W - 1) \in Word
    BY <2>1, Halved
  <2>3. high \div 2 + 0 = high \div 2
    BY <2>2
  <2> QED
    BY <2>2, <2>3
<1> QED
  BY <1>3, <1>4, <1>5, <1>6 DEF Factors

LEMMA ProductsAre ==
  ASSUME NEW x \in Word, NEW y \in Word
  PROVE  \E g \in [0 .. W -> Factors] :
           /\ g[0] = [low |-> 0, high |-> 0, left |-> y, right |-> y]
           /\ \A k \in 1 .. W : g[k] = ProductPass(g[k - 1], x)
           /\ Products(x, y) = g[W]
<1> DEFINE start == [low |-> 0, high |-> 0, left |-> y, right |-> y]
           F(g) == [k \in 0 .. W |->
                      IF k = 0 THEN [low |-> 0, high |-> 0, left |-> y, right |-> y]
                               ELSE ProductPass(g[k - 1], x)]
           step == [s \in Factors |-> ProductPass(s, x)]
<1>0. W \in Nat
  BY MulDivAssumption
<1>1. start \in Factors
  BY WordFacts DEF Factors
<1>2. step \in [Factors -> Factors]
  BY ProductPassTyped
<1>3. PICK h \in [0 .. W -> Factors] :
        h[0] = start /\ \A k \in 1 .. W : h[k] = step[h[k - 1]]
  <2> HIDE DEF start, step
  <2> QED
    BY <1>0, <1>1, <1>2, Iterated
<1>4. \A k \in 1 .. W : h[k - 1] \in Factors
  BY <1>0, <1>3
<1>5. h = F(h)
  <2>1. ASSUME NEW k \in 0 .. W PROVE h[k] = F(h)[k]
    <3>1. CASE k = 0
      BY <1>3, <3>1
    <3>2. CASE k # 0
      <4>1. k \in 1 .. W
        BY <1>0, <3>2
      <4>2. h[k] = step[h[k - 1]] /\ h[k - 1] \in Factors
        BY <1>3, <1>4, <4>1
      <4> QED
        BY <3>2, <4>2
    <3> QED
      BY <3>1, <3>2
  <2> HIDE DEF Factors
  <2> QED
    BY <1>3, <2>1
<1> DEFINE g == CHOOSE f : f = F(f)
<1>6. g = F(g)
  <2> HIDE DEF F
  <2> QED
    BY <1>5
<1>7. Products(x, y) = g[W]
  BY DEF Products
<1>8. g = h
  <2> HIDE DEF g
  <2> DEFINE T == {k \in 0 .. W : g[k] = h[k]}
  <2>1. 0 \in T
    BY <1>0, <1>3, <1>6
  <2>2. ASSUME NEW k \in 0 .. (W - 1), k \in T PROVE (k + 1) \in T
    <3>1. k + 1 \in 1 .. W /\ k + 1 \in 0 .. W /\ k + 1 # 0 /\ (k + 1) - 1 = k
      BY <1>0
    <3>2. g[k + 1] = ProductPass(g[k], x)
      BY <1>6, <3>1
    <3>3. h[k + 1] = ProductPass(h[k], x)
      BY <1>5, <3>1
    <3> QED
      BY <2>2, <3>1, <3>2, <3>3
  <2>3. 0 .. W \subseteq T
    <3> HIDE DEF T
    <3> QED
      BY <1>0, <2>1, <2>2, Upto
  <2>4. \A k \in 0 .. W : g[k] = h[k]
    BY <2>3
  <2>5. g = [k \in 0 .. W |-> g[k]] /\ h = [k \in 0 .. W |-> h[k]]
    <3>1. g = [k \in DOMAIN F(g) |-> F(g)[k]]
      BY <1>6
    <3> QED
      BY <1>3, <1>6, <3>1
  <2> QED
    BY <2>4, <2>5
<1>9. \A k \in 1 .. W : h[k] = ProductPass(h[k - 1], x)
  BY <1>3, <1>4
<1> HIDE DEF g
<1> QED
  BY <1>3, <1>7, <1>8, <1>9

\* After k passes the lower product is that of the multiplier's k highest bits ...
FromLeft(x, y, k, s) ==
  \E hi, lo, m \in Nat :
    /\ y = hi * 2^(W - k) + lo /\ lo < 2^(W - k)
    /\ s.left = lo * 2^k
    /\ x * hi = 2^W * m + s.low

\* ... and the upper product that of its k lowest bits, without its k lowest bits.
FromRight(x, y, k, s) ==
  \E z, e \in Nat :
    /\ y = s.right * 2^k + z /\ z < 2^k
    /\ x * z = 2^k * s.high + e /\ e < 2^k

LEMMA LeftStep ==
  ASSUME NEW x \in Word, NEW y \in Word, NEW k \in 0 .. (W - 1),
         NEW s \in Factors, FromLeft(x, y, k, s)
  PROVE  FromLeft(x, y, k + 1, ProductPass(s, x))
<1> DEFINE P == 2^k
           Q == 2^(W - (k + 1))
           b == Msb(s.left)
           B == 2^W
           t == ProductPass(s, x)
           sum == 2 * s.low + b * x
<1>1. /\ P \in Nat \ {0} /\ Q \in Nat \ {0} /\ 2^(k + 1) = 2 * P /\ 2^(W - k) = 2 * Q
      /\ B = 2 * (P * Q) /\ 2^(W - 1) = P * Q /\ B \in Nat \ {0}
  BY Widths, WordFacts
<1>2. x \in Nat /\ y \in Nat /\ s.low \in Nat /\ s.left \in Word
  <2>1. s.low \in Word /\ s.left \in Word
    BY DEF Factors
  <2> QED
    BY <2>1, MsbIs
<1>3. PICK hi \in Nat, lo \in Nat, m \in Nat :
        /\ y = hi * (2 * Q) + lo /\ lo < 2 * Q
        /\ s.left = lo * P
        /\ x * hi = B * m + s.low
  BY <1>1 DEF FromLeft
<1>4. b \in {0, 1} /\ (b = 1 <=> lo * P >= P * Q)
  BY <1>1, <1>2, <1>3, WordFacts
<1>5. t.left = 2 * (lo * P) - b * (2 * (P * Q))
  BY <1>1, <1>2, <1>3, Doubled DEF ProductPass
<1>6. t.low = sum % B
  BY DEF ProductPass, Wrapped
<1> HIDE DEF P, Q, b, B, t
<1>7. lo - b * Q \in Nat /\ lo - b * Q < Q /\ t.left = (lo - b * Q) * (2 * P)
  <2>1. lo * P \in Nat /\ P * Q \in Nat
    BY <1>1
  <2>2. b = 1 <=> lo * P + 0 >= P * Q
    BY <1>4, <2>1
  <2>3. /\ lo - b * Q \in Nat /\ lo - b * Q < Q
        /\ 2 * (lo * P + 0) - b * (2 * (P * Q)) = (lo - b * Q) * (2 * P) + 2 * 0
    <3>1. 0 < P /\ 0 \in Nat
      BY <1>1
    <3> QED
      BY <1>1, <1>3, <1>4, <2>2, <3>1, NextBit
  <2>4. (lo - b * Q) * (2 * P) \in Nat
    BY <1>1, <2>3
  <2> QED
    BY <1>5, <2>1, <2>3, <2>4
<1>8. y = (2 * hi + b) * Q + (lo - b * Q)
  <2>1. hi * (2 * Q) = 2 * (hi * Q) /\ (2 * hi + b) * Q = 2 * (hi * Q) + b * Q
    BY <1>1, <1>4
  <2>2. hi * Q \in Nat /\ b * Q \in Nat
    BY <1>1, <1>4
  <2> QED
    BY <1>3, <2>1, <2>2
<1>9. PICK c \in Nat : sum = B * c + t.low
  <2>1. sum \in Nat
    BY <1>2, <1>4
  <2> HIDE DEF sum
  <2>2. sum \div B \in Nat /\ sum = B * (sum \div B) + (sum % B)
    <3>1. sum \in Int /\ B \in Nat \ {0}
      BY <1>1, <2>1
    <3>2. sum \div B \in Nat
      BY <2>1, <3>1, DivModNat, Zenon
    <3>3. sum = B * (sum \div B) + (sum % B)
      BY <3>1, DivMod, Zenon
    <3> QED
      BY <3>2, <3>3
  <2> QED
    BY <1>6, <2>2
<1>10. x * (2 * hi + b) = B * (2 * m + c) + t.low
  <2>1. x * (2 * hi + b) = 2 * (x * hi) + b * x
    BY <1>2, <1>4
  <2>2. B * (2 * m + c) = 2 * (B * m) + B * c
    BY <1>1
  <2>3. x * hi \in Nat /\ b * x \in Nat /\ B * m \in Nat /\ B * c \in Nat
    BY <1>1, <1>2, <1>4
  <2>4. t.low = sum - B * c
    <3>1. sum \in Int /\ t.low \in Int
      <4>1. sum \in Int
        BY <1>2, <1>4
      <4>2. sum % B \in Int
        <5> HIDE DEF sum
        <5> QED
          BY <1>1, <4>1, DivMod
      <4> QED
        BY <1>6, <4>1, <4>2
    <3> QED
      BY <1>9, <2>3, <3>1
  <2> QED
    BY <1>2, <1>3, <2>1, <2>2, <2>3, <2>4
<1> DEFINE h2 == 2 * hi + b
           l2 == lo - b * Q
           m2 == 2 * m + c
<1>11. h2 \in Nat /\ l2 \in Nat /\ m2 \in Nat
  BY <1>4, <1>7
<1>12. y = h2 * Q + l2 /\ l2 < Q /\ t.left = l2 * (2 * P) /\ x * h2 = B * m2 + t.low
  BY <1>7, <1>8, <1>10
<1> HIDE DEF h2, l2, m2
<1>13. FromLeft(x, y, k + 1, t)
  BY <1>1, <1>11, <1>12 DEF FromLeft, Q, B
<1> QED
  BY <1>13 DEF t

\* Adding to the upper product never loses its carry.
LEMMA Carries ==
  ASSUME NEW high \in Word, NEW x \in Word, NEW b \in {0, 1}
  PROVE  LET h == Wrapped(high + b * x)
         IN h \div 2 + (IF b = 1 /\ h < x THEN 2^(W - 1) ELSE 0) = (high + b * x) \div 2
<1> DEFINE h == Wrapped(high + b * x)
<1> SUFFICES h \div 2 + (IF b = 1 /\ h < x THEN 2^(W - 1) ELSE 0) = (high + b * x) \div 2
  OBVIOUS
<1>1. high \in Nat /\ x \in Nat /\ high < 2^W /\ x < 2^W
  BY WordFacts
<1>2. CASE b = 0
  <2>1. h = high
    <3>1. high + b * x = high
      BY <1>1, <1>2
    <3> QED
      BY <3>1, WordFacts
  <2>2. high \div 2 \in Nat
    BY <1>1, Halved
  <2> QED
    BY <1>1, <1>2, <2>1, <2>2
<1>3. CASE b = 1 /\ high + x < 2^W
  <2>1. h = high + x
    <3>1. high + b * x = high + x /\ high + x \in Nat
      BY <1>1, <1>3
    <3> QED
      BY <1>3, <3>1, WordFacts
  <2>2. (high + x) \div 2 \in Nat
    BY <1>1, Halved
  <2> QED
    BY <1>1, <1>3, <2>1, <2>2
<1>4. CASE b = 1 /\ high + x >= 2^W
  <2> DEFINE r == high + x - 2^W
             H == 2^(W - 1)
  <2>1. r \in Nat /\ r < 2^W /\ r < x /\ high + x = 2^W * 1 + r /\ high + b * x = 2^W * 1 + r
    BY <1>1, <1>4, WordFacts
  <2>2. h = r
    BY <2>1, WordFacts, WrappedIs
  <2>3. H \in Nat /\ high + x = 2 * H + r
    BY <2>1, WordFacts
  <2> HIDE DEF r, H
  <2>4. (2 * H + r) \div 2 = r \div 2 + H
    BY <2>1, <2>3
  <2> QED
    BY <1>4, <2>1, <2>2, <2>3, <2>4 DEF H
<1>5. high + x \in Int /\ 2^W \in Int
  BY <1>1, WordFacts
<1> QED
  BY <1>2, <1>3, <1>4, <1>5

LEMMA RightStep ==
  ASSUME NEW x \in Word, NEW y \in Word, NEW k \in 0 .. (W - 1),
         NEW s \in Factors, FromRight(x, y, k, s)
  PROVE  FromRight(x, y, k + 1, ProductPass(s, x))
<1> DEFINE P == 2^k
           t == ProductPass(s, x)
           b == s.right % 2
           h == (s.high + b * x) \div 2
           c == (s.high + b * x) % 2
<1>1. P \in Nat \ {0} /\ 2^(k + 1) = 2 * P
  BY Widths
<1>2. x \in Nat /\ y \in Nat /\ s.right \in Nat /\ s.high \in Nat /\ s.high \in Word
  <2>1. s.right \in Word /\ s.high \in Word
    BY DEF Factors
  <2> QED
    BY <2>1, MsbIs
<1>3. PICK z \in Nat, e \in Nat :
        /\ y = s.right * P + z /\ z < P
        /\ x * z = P * s.high + e /\ e < P
  BY DEF FromRight
<1>4. t.right \in Nat /\ b \in {0, 1} /\ s.right = 2 * t.right + b
  <2>1. t.right = s.right \div 2
    BY DEF ProductPass
  <2> QED
    BY <1>2, <2>1, Halved
<1>5. t.high = h
  <2> DEFINE hh == Wrapped(s.high + b * x)
  <2>1. t.high = hh \div 2 + (IF b = 1 /\ hh < x THEN 2^(W - 1) ELSE 0)
    BY DEF ProductPass
  <2> HIDE DEF t, b
  <2> QED
    BY <1>2, <1>4, <2>1, Carries
<1>6. h \in Nat /\ c \in {0, 1} /\ s.high + b * x = 2 * h + c
  <2>1. s.high + b * x \in Nat
    BY <1>2, <1>4
  <2> QED
    BY <2>1, Halved
<1> HIDE DEF P, t, b, h, c
<1> DEFINE z2 == b * P + z
           e2 == c * P + e
<1>7. /\ z2 \in Nat /\ z2 < 2 * P /\ y = t.right * (2 * P) + z2
      /\ e2 \in Nat /\ e2 < 2 * P
      /\ x * z2 = (2 * P) * h + e2
  <2>1. b * P \in {0, P} /\ c * P \in {0, P} /\ b * x \in Nat
    BY <1>1, <1>2, <1>4, <1>6
  <2>2. z2 \in Nat /\ z2 < 2 * P /\ e2 \in Nat /\ e2 < 2 * P
    BY <1>1, <1>3, <2>1
  <2>3. y = t.right * (2 * P) + z2
    <3>1. (2 * t.right + b) * P = t.right * (2 * P) + b * P /\ t.right * (2 * P) \in Nat
      BY <1>1, <1>4
    <3>2. y = (2 * t.right + b) * P + z
      BY <1>3, <1>4
    <3> QED
      BY <1>1, <2>1, <3>1, <3>2
  <2>4. x * z2 = (2 * P) * h + e2
    <3>1. x * z2 = P * (b * x) + x * z
      BY <1>1, <1>2, <1>4
    <3>2. P * (s.high + b * x) = P * s.high + P * (b * x)
      BY <1>1, <1>2, <2>1
    <3>3. P * (2 * h + c) = (2 * P) * h + c * P
      BY <1>1, <1>6
    <3>4. P * s.high + P * (b * x) = (2 * P) * h + c * P
      BY <1>6, <3>2, <3>3
    <3>5. /\ P * s.high \in Nat /\ P * (b * x) \in Nat /\ (2 * P) * h \in Nat
          /\ c * P \in Nat
      BY <1>1, <1>2, <1>6, <2>1
    <3> QED
      BY <1>3, <3>1, <3>4, <3>5
  <2> QED
    BY <2>2, <2>3, <2>4
<1> HIDE DEF z2, e2
<1>8. FromRight(x, y, k + 1, t)
  BY <1>1, <1>5, <1>7 DEF FromRight
<1> QED
  BY <1>8 DEF t

\* The multiplication loop: both words of the product of the integers.
LEMMA ProductsMultiply ==
  ASSUME NEW x \in Word, NEW y \in Word
  PROVE  /\ Products(x, y).low \in Word /\ Products(x, y).low = (x * y) % 2^W
         /\ Products(x, y).high \in Word /\ Products(x, y).high = (x * y) \div 2^W
<1>1. PICK g \in [0 .. W -> Factors] :
        /\ g[0] = [low |-> 0, high |-> 0, left |-> y, right |-> y]
        /\ \A k \in 1 .. W : g[k] = ProductPass(g[k - 1], x)
        /\ Products(x, y) = g[W]
  BY ProductsAre
<1>2. W \in Nat /\ W \in 0 .. W /\ W - 0 = W /\ W - W = 0
  BY MulDivAssumption
<1>3. g[W].low \in Word /\ g[W].high \in Word /\ g[W].right \in Word
  BY <1>1, <1>2 DEF Factors
<1>4. x \in Nat /\ y \in Nat /\ y < 2^W /\ 2^W \in Nat \ {0}
  BY WordFacts
<1> DEFINE Done(k) == FromLeft(x, y, k, g[k]) /\ FromRight(x, y, k, g[k])
           T == {k \in 0 .. W : Done(k)}
<1>5. 0 \in T
  <2>1. g[0].low = 0 /\ g[0].high = 0 /\ g[0].left = y /\ g[0].right = y
    BY <1>1
  <2>2. FromLeft(x, y, 0, g[0])
    <3>1. /\ y = 0 * 2^(W - 0) + y /\ y < 2^(W - 0) /\ g[0].left = y * 2^0
          /\ x * 0 = 2^W * 0 + g[0].low /\ 0 \in Nat
      BY <1>2, <1>4, <2>1, Powers
    <3> HIDE DEF T, Done
    <3> QED
      BY <1>4, <3>1 DEF FromLeft
  <2>3. FromRight(x, y, 0, g[0])
    <3>1. y = y * 2^0 + 0 /\ 0 < 2^0 /\ x * 0 = 2^0 * 0 + 0
      BY <1>4, Powers
    <3> QED
      BY <1>2, <1>4, <2>1, <3>1 DEF FromRight
  <2> QED
    BY <1>2, <2>2, <2>3
<1>6. ASSUME NEW k \in 0 .. (W - 1), k \in T PROVE (k + 1) \in T
  <2>1. k + 1 \in 1 .. W /\ k + 1 \in 0 .. W /\ k \in 0 .. W /\ (k + 1) - 1 = k
    BY <1>2
  <2>2. g[k + 1] = ProductPass(g[k], x) /\ g[k] \in Factors
    BY <1>1, <2>1
  <2>3. FromLeft(x, y, k + 1, g[k + 1]) /\ FromRight(x, y, k + 1, g[k + 1])
    BY <1>6, <2>2, LeftStep, RightStep
  <2> QED
    BY <2>1, <2>3
<1>7. 0 .. W \subseteq T
  <2> HIDE DEF T
  <2> QED
    BY <1>2, <1>5, <1>6, Upto
<1>8. FromLeft(x, y, W, g[W]) /\ FromRight(x, y, W, g[W])
  BY <1>2, <1>7
<1>9. g[W].low = (x * y) % 2^W
  <2>0. 2^(W - W) = 1
    BY <1>2, Powers
  <2>1. PICK hi \in Nat, lo \in Nat, m \in Nat :
          y = hi * 1 + lo /\ lo < 1 /\ x * hi = 2^W * m + g[W].low
    <3> HIDE DEF T, Done
    <3> QED
      BY <1>8, <2>0 DEF FromLeft
  <2>2. hi = y
    BY <1>4, <2>1
  <2>3. x * y = 2^W * m + g[W].low
    BY <2>1, <2>2
  <2>4. Wrapped(2^W * m + g[W].low) = g[W].low
    BY <1>3, WrappedIs
  <2> QED
    BY <2>3, <2>4 DEF Wrapped
<1>10. g[W].high = (x * y) \div 2^W
  <2>1. PICK z \in Nat, e \in Nat :
          /\ y = g[W].right * 2^W + z /\ z < 2^W
          /\ x * z = 2^W * g[W].high + e /\ e < 2^W
    BY <1>8 DEF FromRight
  <2> DEFINE B == 2^W
             r == g[W].right
             h == g[W].high
  <2>2. r \in Nat /\ h \in Nat /\ B \in Nat \ {0}
    BY <1>3, <1>4, WordFacts
  <2>3. y = r * B + z /\ x * z = B * h + e /\ e < B /\ y < B
    BY <1>4, <2>1
  <2> HIDE DEF B, r, h
  <2>4. r = 0
    <3>1. SUFFICES ASSUME r >= 1 PROVE FALSE
      BY <2>2
    <3>2. r * B >= B /\ r * B \in Nat
      BY <2>2, <3>1
    <3> QED
      BY <2>2, <2>3, <3>2
  <2>5. y = z
    BY <2>2, <2>3, <2>4
  <2>6. e \in 0 .. (B - 1)
    BY <2>2, <2>3
  <2>7. (B * h + e) \div B = h
    BY <2>2, <2>6, DivModIs
  <2>8. (x * y) \div B = h
    BY <2>3, <2>5, <2>7
  <2> QED
    BY <2>8 DEF B, h
<1> QED
  BY <1>1, <1>3, <1>9, <1>10

-----------------------------------------------------------------------------
(* The instructions *)

\* The number a word stands for in a signed operation.
Signed(x) == x - Msb(x) * 2^W

LEMMA Shifted ==
  ASSUME NEW n \in Int, NEW c \in Int
  PROVE  Wrapped(2^W * c + n) = Wrapped(n) /\ n = 2^W * (n \div 2^W) + Wrapped(n)
         /\ n \div 2^W \in Int
<1> DEFINE B == 2^W
           q == n \div B
           r == n % B
<1>1. B \in Nat \ {0}
  BY WordFacts
<1>2. q \in Int /\ r \in 0 .. (B - 1) /\ n = B * q + r
  <2> HIDE DEF B
  <2> QED
    BY <1>1, DivMod
<1> HIDE DEF B, q, r
<1>3. B * c + n = B * (c + q) + r
  <2>1. B * (c + q) = B * c + B * q /\ B * c \in Int /\ B * q \in Int /\ r \in Int
    BY <1>1, <1>2
  <2> QED
    BY <1>2, <2>1
<1>4. (B * (c + q) + r) % B = r
  <2>1. c + q \in Int
    BY <1>2
  <2> QED
    BY <1>1, <1>2, <2>1, DivModIs
<1> QED
  BY <1>2, <1>3, <1>4 DEF Wrapped, B, q, r

LEMMA UpperWord ==
  ASSUME NEW n \in Int, NEW low \in Word
  PROVE  (2^W * n + low) \div 2^W = n
BY WordFacts, DivModIs DEF Word

\* For every word width and every pair of operands the multiply loop and the sign
\* corrections after it leave the word the instruction has: mul the low word of
\* the integers' product, mulxuu, mulxsu and mulxss its high word, with no, the
\* first or both operands taken as signed (.Lmultiply of alt_exception_muldiv.S).
THEOREM ProductIs ==
  ASSUME NEW x \in Word, NEW y \in Word
  PROVE  /\ Product("mul", x, y) = Wrapped(x * y)
         /\ Product("mulxuu", x, y) = (x * y) \div 2^W
         /\ Product("mulxsu", x, y) = Wrapped((Signed(x) * y) \div 2^W)
         /\ Product("mulxss", x, y) = Wrapped((Signed(x) * Signed(y)) \div 2^W)
         /\ \A op : Product(op, x, y) \in Word
<1> DEFINE p == Products(x, y)
           B == 2^W
           a == Msb(x)
           b == Msb(y)
<1>1. p.low \in Word /\ p.low = (x * y) % B /\ p.high \in Word /\ p.high = (x * y) \div B
  BY ProductsMultiply
<1>2. B \in Nat \ {0} /\ x \in Nat /\ y \in Nat /\ a \in {0, 1} /\ b \in {0, 1}
  BY MsbIs, WordFacts
<1>3. p.low \in Nat /\ p.high \in Nat
  BY <1>1, WordFacts
<1>4. x * y = B * p.high + p.low
  <2>1. x * y \in Int
    BY <1>2
  <2>2. x * y = B * ((x * y) \div B) + Wrapped(x * y)
    BY <2>1, Shifted
  <2> QED
    BY <1>1, <2>2 DEF Wrapped
<1>5. /\ Product("mul", x, y) = p.low
      /\ Product("mulxuu", x, y) = Wrapped(p.high - 0 - 0)
      /\ Product("mulxsu", x, y) = Wrapped(p.high - a * y - 0)
      /\ Product("mulxss", x, y) = Wrapped(p.high - a * y - b * x)
      /\ \A op : Product(op, x, y) = p.low
           \/ \E sa \in {0, a * y}, sb \in {0, b * x} :
                Product(op, x, y) = Wrapped(p.high - sa - sb)
  BY DEF Product
<1> HIDE DEF p, B, a, b
<1>6. a * y \in Nat /\ b * x \in Nat /\ a * b \in Nat
  BY <1>2
<1>7. Product("mul", x, y) = Wrapped(x * y)
  BY <1>1, <1>5 DEF Wrapped, B
<1>8. Product("mulxuu", x, y) = (x * y) \div B
  <2>1. p.high - 0 - 0 = p.high
    BY <1>3
  <2> QED
    BY <1>1, <1>5, <2>1, WordFacts
<1>9. Product("mulxsu", x, y) = Wrapped((Signed(x) * y) \div B)
  <2>1. (x - a * B) * y = x * y - B * (a * y)
    BY <1>2
  <2>2. B * (p.high - a * y) = B * p.high - B * (a * y)
    BY <1>2, <1>3, <1>6
  <2>3. B * p.high \in Int /\ B * (a * y) \in Int
    BY <1>2, <1>3, <1>6
  <2>4. (x - a * B) * y = B * (p.high - a * y) + p.low
    BY <1>3, <1>4, <2>1, <2>2, <2>3
  <2>5. p.high - a * y \in Int /\ p.high - a * y - 0 = p.high - a * y
    BY <1>3, <1>6
  <2>6. (B * (p.high - a * y) + p.low) \div B = p.high - a * y
    BY <1>1, <2>5, UpperWord DEF B
  <2> QED
    BY <1>5, <2>4, <2>5, <2>6 DEF Signed, B, a
<1>10. Product("mulxss", x, y) = Wrapped((Signed(x) * Signed(y)) \div B)
  <2> DEFINE n == p.high - a * y - b * x
             c == a * b
  <2>1. (x - a * B) * (y - b * B) = x * y - B * (a * y) - B * (b * x) + B * (B * c)
    BY <1>2
  <2>2. B * (B * c + n) = B * (B * c) + B * p.high - B * (a * y) - B * (b * x)
    BY <1>2, <1>3, <1>6
  <2>3. /\ B * p.high \in Int /\ B * (a * y) \in Int /\ B * (b * x) \in Int
        /\ B * (B * c) \in Int
    BY <1>2, <1>3, <1>6
  <2>4. (x - a * B) * (y - b * B) = B * (B * c + n) + p.low
    <3> HIDE DEF n, c
    <3> QED
      BY <1>3, <1>4, <2>1, <2>2, <2>3
  <2>5. n \in Int /\ c \in Int /\ B * c + n \in Int
    BY <1>2, <1>3, <1>6
  <2>6. (B * (B * c + n) + p.low) \div B = B * c + n
    <3> HIDE DEF n, c
    <3> QED
      BY <1>1, <2>5, UpperWord DEF B
  <2>7. Wrapped(B * c + n) = Wrapped(n)
    <3> HIDE DEF n, c
    <3> QED
      BY <2>5, Shifted DEF B
  <2> QED
    BY <1>5, <2>4, <2>6, <2>7 DEF Signed, B, a, b
<1>11. ASSUME NEW op PROVE Product(op, x, y) \in Word
  <2>1. CASE Product(op, x, y) = p.low
    BY <1>1, <2>1
  <2>2. CASE \E sa \in {0, a * y}, sb \in {0, b * x} :
                Product(op, x, y) = Wrapped(p.high - sa - sb)
    <3>1. PICK sa \in {0, a * y}, sb \in {0, b * x} :
            Product(op, x, y) = Wrapped(p.high - sa - sb)
      BY <2>2
    <3>2. p.high - sa - sb \in Int
      BY <1>3, <1>6
    <3> QED
      BY <3>1, <3>2, WordFacts
  <2> QED
    BY <1>5, <2>1, <2>2
<1> QED
  BY <1>7, <1>8, <1>9, <1>10, <1>11 DEF B

\* muli: only the low word of the immediate matters to the low word of the product.
LEMMA ImmediateProduct ==
  ASSUME NEW x \in Word, NEW imm \in Int
  PROVE  Wrapped(imm) \in Word /\ Wrapped(x * Wrapped(imm)) = Wrapped(x * imm)
<1> DEFINE B == 2^W
           r == Wrapped(imm)
           c == imm \div B
<1>1. B \in Nat \ {0} /\ x \in Nat /\ r \in Word /\ r \in Nat
  <2>1. r \in Word
    BY WordFacts
  <2> QED
    BY <2>1, WordFacts
<1>2. imm = B * c + r /\ c \in Int
  BY Shifted
<1> HIDE DEF B, r, c
<1>3. x * imm = B * (x * c) + x * r
  <2>1. x * (B * c + r) = B * (x * c) + x * r
    BY <1>1, <1>2
  <2> QED
    BY <1>2, <2>1
<1>4. x * c \in Int /\ x * r \in Int
  BY <1>1, <1>2
<1>5. Wrapped(B * (x * c) + x * r) = Wrapped(x * r)
  BY <1>4, Shifted DEF B
<1> QED
  BY <1>1, <1>3, <1>5 DEF r

\* A word's magnitude is that of the number it stands for.
LEMMA MagnitudeIs ==
  ASSUME NEW x \in Word
  PROVE  /\ Signed(x) \in Int /\ (Signed(x) < 0 <=> Msb(x) = 1)
         /\ Magnitude(x) \in Word
         /\ Magnitude(x) = IF Signed(x) < 0 THEN -Signed(x) ELSE Signed(x)
         /\ Magnitude(x) = 0 <=> x = 0
<1>1. x \in Nat /\ x < 2^W /\ Msb(x) \in {0, 1} /\ 2^W \in Nat \ {0}
  BY MsbIs, WordFacts
<1>2. CASE Msb(x) = 1
  <2>1. x >= 2^(W - 1) /\ 2^(W - 1) \in Nat \ {0}
    BY <1>2, WordFacts
  <2>2. Signed(x) = x - 2^W
    BY <1>1, <1>2 DEF Signed
  <2>3. 2^W - x \in Word
    BY <1>1, <2>1, WordFacts
  <2>4. Negated(x) = 2^W - x
    <3>1. Wrapped(2^W * (-1) + (2^W - x)) = 2^W - x
      BY <2>3, WrappedIs
    <3>2. 2^W * (-1) + (2^W - x) = -x
      BY <1>1
    <3> QED
      BY <3>1, <3>2 DEF Negated
  <2>5. Magnitude(x) = 2^W - x
    BY <1>2, <2>4 DEF Magnitude
  <2> QED
    BY <1>1, <1>2, <2>1, <2>2, <2>3, <2>5
<1>3. CASE Msb(x) = 0
  <2>1. Signed(x) = x /\ Magnitude(x) = x
    BY <1>1, <1>3 DEF Signed, Magnitude
  <2> QED
    BY <1>1, <1>3, <2>1
<1> QED
  BY <1>1, <1>2, <1>3

Sign(n) == IF n < 0 THEN -1 ELSE 1

\* For every word width, every dividend and every divisor but zero the divide loop
\* leaves the integers' quotient: divu's rounded down, and div's, through the
\* magnitudes and the signs, rounded towards zero, the most negative word over -1
\* wrapping (.Ldivide of alt_exception_muldiv.S).
THEOREM DivisionIs ==
  ASSUME NEW x \in Word, NEW y \in Word
  PROVE  /\ \A op : Division(op, x, y) \in Word
         /\ y # 0 => /\ Division("divu", x, y) = x \div y
                     /\ LET X == Signed(x)
                            Y == Signed(y)
                        IN Division("div", x, y)
                             = Wrapped(Sign(X) * Sign(Y) * ((Sign(X) * X) \div (Sign(Y) * Y)))
<1> DEFINE X == Signed(x)
           Y == Signed(y)
           q == Quotient(Magnitude(x), Magnitude(y))
<1>1. X \in Int /\ Magnitude(x) \in Word /\ (X < 0 <=> Msb(x) = 1)
      /\ Magnitude(x) = IF X < 0 THEN -X ELSE X
  BY MagnitudeIs
<1>2. Y \in Int /\ Magnitude(y) \in Word /\ (Y < 0 <=> Msb(y) = 1)
      /\ Magnitude(y) = (IF Y < 0 THEN -Y ELSE Y) /\ (Magnitude(y) = 0 <=> y = 0)
  BY MagnitudeIs
<1>3. q \in Word /\ (y # 0 => q = Magnitude(x) \div Magnitude(y))
  BY <1>1, <1>2, QuotientDivides
<1>4. /\ Division("div", x, y) = IF Msb(x) # Msb(y) THEN Negated(q) ELSE q
      /\ \A op : op # "div" => Division(op, x, y) = Quotient(x, y)
  BY DEF Division
<1>5. Msb(x) \in {0, 1} /\ Msb(y) \in {0, 1}
  BY MsbIs
<1> HIDE DEF X, Y, q
<1>6. q \in Int /\ Negated(q) \in Word
  <2>1. q \in Int /\ -q \in Int
    BY <1>3, WordFacts
  <2> QED
    BY <2>1, WordFacts DEF Negated
<1>7. \A op : Division(op, x, y) \in Word
  <2>1. Division("div", x, y) \in Word
    BY <1>3, <1>4, <1>6
  <2>2. Quotient(x, y) \in Word
    BY QuotientDivides
  <2> QED
    BY <1>4, <2>1, <2>2
<1>8. ASSUME y # 0 PROVE Division("divu", x, y) = x \div y
  BY <1>4, <1>8, QuotientDivides
<1>9. ASSUME y # 0
      PROVE  Division("div", x, y)
               = Wrapped(Sign(X) * Sign(Y) * ((Sign(X) * X) \div (Sign(Y) * Y)))
  <2>1. Sign(X) * X = Magnitude(x) /\ Sign(Y) * Y = Magnitude(y)
    BY <1>1, <1>2 DEF Sign
  <2>2. (Sign(X) * X) \div (Sign(Y) * Y) = q
    BY <1>3, <1>9, <2>1
  <2>3. CASE Msb(x) # Msb(y)
    <3>1. Sign(X) * Sign(Y) = -1
      BY <1>1, <1>2, <1>5, <2>3 DEF Sign
    <3>2. (-1) * q = -q
      BY <1>6
    <3> QED
      BY <1>4, <2>2, <2>3, <3>1, <3>2 DEF Negated
  <2>4. CASE Msb(x) = Msb(y)
    <3>1. Sign(X) * Sign(Y) = 1
      BY <1>1, <1>2, <1>5, <2>4 DEF Sign
    <3>2. 1 * q = q
      BY <1>6
    <3> QED
      BY <1>3, <1>4, <2>2, <2>4, <3>1, <3>2, WordFacts
  <2> QED
    BY <2>3, <2>4
<1> QED
  BY <1>7, <1>8, <1>9 DEF X, Y
-----------------------------------------------------------------------------
\* A handler runs above the frame of what it interrupted, and with interrupts on
\* only while it is interruptible.
Calm(code, on, depth) ==
  /\ on \in BOOLEAN
  /\ code \in Handlers => depth > 0 /\ (~code.open => on = FALSE)

\* What a frame resumes is main() or a handler.
Resumable(k) == frames[k].pc \in Codes /\ Calm(frames[k].pc, frames[k].pie, k - 1)

\* Where the processor can be.
Shape == /\ setup \in Setups /\ pos \in Nat \ {0} /\ pc \in Places
         /\ active \subseteq Irqs /\ mask \subseteq Irqs
         /\ \E S : frames \in Seq(S)
         /\ \A k \in 1 .. Len(frames) : Resumable(k)

\* Exception code runs above a frame; it and masked calls have interrupts off.
Closed == /\ pc \notin Codes => pie = FALSE
          /\ pc \notin Codes \cup Masked => Len(frames) > 0
          /\ Calm(pc, pie, Len(frames))

\* A masked call knows alt_irq_active from its read to its write.
InCall == pc \in Masked =>
  /\ mask = Irqs /\ ienable = active /\ pc.ins.op \in Calls
  /\ Calm(pc.from, pc.context, Len(frames))
  /\ pc.step = "read" => active \subseteq handler /\ Sensible(pc.ins)
  /\ pc.step = "write" => pc.active = active /\ Chosen(pc.ins, active) \subseteq handler
  /\ pc.step = "end" => active \subseteq handler

\* What the scan looks for is still pending.
Fresh == pc.at = "scan" => pc.active \subseteq Pending

ExcInv == Shape /\ Closed /\ InCall /\ Fresh /\ Agreement

LEMMA PlaceFacts ==
  /\ \A p \in Places : /\ p.at \in {"main", "isr"} <=> p \in Codes
                       /\ p.at = "isr" <=> p \in Handlers
                       /\ p.at = "call" <=> p \in Masked
  /\ Masked \cap Codes = {} /\ Codes \subseteq Places /\ Masked \subseteq Places
BY DEF Places, Codes, Masked, Handlers, At, Main

LEMMA InstructionIn ==
  ASSUME setup \in Setups, pos \in Nat \ {0}, NEW code \in Codes
  PROVE  Instruction(code) \in Instructions
<1>1. CASE code = Main
  <2>1. Nothing \in Instructions
    BY DEF Instructions
  <2>2. ASSUME ~(pos > Len(setup.program)) PROVE setup.program[pos] \in Instructions
    <3>1. pos \in DOMAIN setup.program
      BY <2>2, ExceptionsAssumption
    <3> QED
      BY <3>1 DEF Instructions
  <2> QED
    BY <1>1, <2>1, <2>2 DEF Instruction, Main, At
<1>2. CASE code \in Handlers
  BY <1>2 DEF Instruction, Handlers
<1> QED
  BY <1>1, <1>2 DEF Codes

LEMMA ExcInit == Init => ExcInv
<1> SUFFICES ASSUME Init PROVE ExcInv
  OBVIOUS
<1>1. pc \in Codes /\ pc.at = "main"
  BY DEF Init, Codes, Main, At
<1>2. frames \in Seq({}) /\ Len(frames) = 0
  BY DEF Init
<1>3. active \subseteq Irqs
  BY ExceptionsAssumption DEF Init
<1> QED
  BY <1>1, <1>2, <1>3, PlaceFacts DEF Init, ExcInv, Shape, Closed, Calm, InCall, Fresh, Agreement

LEMMA SeqAppend ==
  ASSUME NEW s, \E S : s \in Seq(S), NEW e
  PROVE  /\ \E S : Append(s, e) \in Seq(S)
         /\ Len(Append(s, e)) = Len(s) + 1 /\ Len(s) \in Nat
         /\ \A k \in 1 .. Len(s) : Append(s, e)[k] = s[k]
         /\ Append(s, e)[Len(s) + 1] = e
<1>1. PICK S : s \in Seq(S)
  OBVIOUS
<1> DEFINE T == S \cup {e}
<1>2. s \in Seq(T) /\ e \in T
  BY <1>1
<1>3. Append(s, e) \in Seq(T)
  BY <1>2
<1> HIDE DEF T
<1> QED
  BY <1>2, <1>3

LEMMA SeqBelow ==
  ASSUME NEW s, \E S : s \in Seq(S), Len(s) > 0
  PROVE  LET b == SubSeq(s, 1, Len(s) - 1)
         IN /\ \E S : b \in Seq(S)
            /\ Len(b) = Len(s) - 1 /\ Len(s) \in Nat
            /\ \A k \in 1 .. (Len(s) - 1) : b[k] = s[k]
<1>1. PICK S : s \in Seq(S)
  OBVIOUS
<1>2. Len(s) \in Nat /\ \A k \in 1 .. (Len(s) - 1) : s[k] \in S
  BY <1>1
<1> DEFINE n == Len(s) - 1
<1>3. n \in Int /\ n >= 0 /\ Len(s) = n + 1 /\ \A k \in 1 .. n : s[k] \in S
  BY <1>2
<1> HIDE DEF n
<1>4. /\ SubSeq(s, 1, n) \in Seq(S)
      /\ Len(SubSeq(s, 1, n)) = IF 1 <= n THEN n - 1 + 1 ELSE 0
      /\ \A k \in 1 .. (n - 1 + 1) : SubSeq(s, 1, n)[k] = s[1 + k - 1]
  BY <1>3, SubSeqProperties
<1>5. Len(SubSeq(s, 1, n)) = n /\ \A k \in 1 .. n : SubSeq(s, 1, n)[k] = s[k]
  BY <1>3, <1>4
<1> QED
  BY <1>2, <1>4, <1>5 DEF n

-----------------------------------------------------------------------------
\* Where a step goes when it leaves the controller alone: the new place is a
\* code that may have interrupts on or exception code above a frame.
LEMMA PlacesAre ==
  /\ At("irqtest") \in Places \ (Codes \cup Masked) /\ At("irqtest").at = "irqtest"
  /\ At("notirq") \in Places \ (Codes \cup Masked) /\ At("notirq").at = "notirq"
  /\ At("exit") \in Places \ (Codes \cup Masked) /\ At("exit").at = "exit"
  /\ \A b \in BOOLEAN :
       LET p == [at |-> "pending", first |-> b]
           q == [at |-> "break", after |-> b]
       IN /\ p \in Places \ (Codes \cup Masked) /\ p.at = "pending"
          /\ q \in Places \ (Codes \cup Masked) /\ q.at = "break"
  /\ \A s \in SUBSET Irqs :
       LET p == [at |-> "scan", active |-> s]
       IN p \in Places \ (Codes \cup Masked) /\ p.at = "scan"
BY DEF Places, Codes, Masked, Handlers, At, Main

\* The exception code: frames, registers and pc change, the controller does not.
LEMMA ExceptionCode ==
  ASSUME ExcInv,
         pc' \in Places \ (Codes \cup Masked), Fresh',
         UNCHANGED <<setup, pos, controller>>, pie' = FALSE,
         (\E S : frames \in Seq(S))', Len(frames') > 0,
         \A k \in 1 .. Len(frames') : Resumable(k)',
         pc.at # "call"
  PROVE  ExcInv'
<1>1. Shape'
  BY DEF ExcInv, Shape, controller
<1>2. Closed' /\ InCall'
  BY DEF Closed, InCall, Calm, Codes
<1>3. Agreement'
  BY DEF ExcInv, Agreement, controller
<1> QED
  BY <1>1, <1>2, <1>3 DEF ExcInv

\* main() and the handlers, when they leave the controller consistent.
LEMMA RunningCode ==
  ASSUME ExcInv,
         pc' \in Codes, Calm(pc, pie, Len(frames))',
         pos' \in Nat \ {0}, UNCHANGED setup,
         (\E S : frames \in Seq(S))',
         \A k \in 1 .. Len(frames') : Resumable(k)',
         active' \subseteq Irqs, mask' \subseteq Irqs,
         ienable' = active' \cap mask', active' \subseteq handler'
  PROVE  ExcInv'
<1>0. pc' \in Places /\ pc' \notin Masked /\ pc'.at \in {"main", "isr"}
  BY PlaceFacts
<1>1. Shape'
  BY <1>0 DEF ExcInv, Shape
<1>2. Closed' /\ InCall' /\ Fresh'
  BY <1>0 DEF Closed, InCall, Fresh
<1>3. Agreement'
  BY DEF Agreement
<1> QED
  BY <1>1, <1>2, <1>3 DEF ExcInv

LEMMA PassedIs ==
  ASSUME pos \in Nat \ {0}, NEW code \in Codes, Passed(code),
         NEW on, NEW depth, Calm(code, on, depth)
  PROVE  pos' \in Nat \ {0} /\ pc' \in Codes /\ Calm(pc', on, depth)
<1>1. CASE code = Main
  <2>1. Main \notin Handlers
    BY DEF Main, At, Handlers
  <2> QED
    BY <1>1, <2>1 DEF Passed, Main, At, Codes, Calm
<1>2. CASE code \in Handlers
  <2>1. Nothing \in Instructions
    BY DEF Instructions
  <2>2. pc' \in Handlers /\ pc'.open = code.open
    BY <1>2, <2>1 DEF Passed, Handlers
  <2> QED
    BY <1>2, <2>2 DEF Passed, Codes, Calm, Handlers
<1> QED
  BY <1>1, <1>2 DEF Codes

\* Code that can be interrupted or trapped is main() or a handler.
LEMMA AtInstruction ==
  ASSUME ExcInv, Instruction(pc).op # "none"
  PROVE  pc \in Codes /\ ienable = active \cap mask /\ active \subseteq handler
<1>1. pc.at \in {"main", "isr"}
  BY DEF Instruction, Nothing
<1> QED
  BY <1>1, PlaceFacts DEF ExcInv, Shape, Agreement

LEMMA EnterStep == ASSUME ExcInv, Enter, pc \in Codes PROVE ExcInv'
<1> DEFINE f == [pc |-> pc, regs |-> regs, pie |-> pie, after |-> FALSE]
<1>1. frames' = Append(frames, f) /\ f.pc \in Codes /\ Calm(f.pc, f.pie, Len(frames))
  BY DEF Enter, ExcInv, Closed
<1> HIDE DEF f
<1>2. \E S : frames \in Seq(S)
  BY DEF ExcInv, Shape
<1>3. /\ \E S : frames' \in Seq(S)
      /\ Len(frames') = Len(frames) + 1 /\ Len(frames) \in Nat
      /\ \A k \in 1 .. Len(frames) : frames'[k] = frames[k]
      /\ frames'[Len(frames) + 1] = f
  <2> DEFINE g == Append(frames, f)
  <2>1. /\ \E S : g \in Seq(S)
        /\ Len(g) = Len(frames) + 1 /\ Len(frames) \in Nat
        /\ \A k \in 1 .. Len(frames) : g[k] = frames[k]
        /\ g[Len(frames) + 1] = f
    BY <1>2, SeqAppend
  <2>2. frames' = g
    BY <1>1
  <2> HIDE DEF g
  <2> QED
    BY <2>1, <2>2
<1>4. Len(frames') > 0
  BY <1>3
<1>5. ASSUME NEW k \in 1 .. Len(frames') PROVE Resumable(k)'
  <2>1. CASE k \in 1 .. Len(frames)
    BY <1>3, <2>1 DEF ExcInv, Shape, Resumable
  <2>2. CASE k = Len(frames) + 1
    <3>1. k - 1 = Len(frames)
      BY <1>3, <2>2
    <3> QED
      BY <1>1, <1>3, <2>2, <3>1 DEF Resumable
  <2> QED
    BY <1>3, <2>1, <2>2
<1>6. pc' = At("irqtest") /\ pie' = FALSE /\ UNCHANGED <<setup, pos, controller>>
  BY DEF Enter
<1>7. pc.at # "call"
  BY PlaceFacts DEF ExcInv, Shape
<1>8. Fresh'
  BY <1>6, PlacesAre DEF Fresh
<1> QED
  BY <1>3, <1>4, <1>5, <1>6, <1>7, <1>8, PlacesAre, ExceptionCode

\* The frames without the newest one.
LEMMA BelowFacts ==
  ASSUME ExcInv, Len(frames) > 0
  PROVE  /\ \E S : Below \in Seq(S)
         /\ Len(Below) = Len(frames) - 1 /\ Len(frames) \in Nat
         /\ \A k \in 1 .. (Len(frames) - 1) : Below[k] = frames[k]
         /\ Frame.pc \in Codes /\ Calm(Frame.pc, Frame.pie, Len(frames) - 1)
<1>1. \E S : frames \in Seq(S)
  BY DEF ExcInv, Shape
<1>2. /\ \E S : Below \in Seq(S)
      /\ Len(Below) = Len(frames) - 1 /\ Len(frames) \in Nat
      /\ \A k \in 1 .. (Len(frames) - 1) : Below[k] = frames[k]
  BY <1>1, SeqBelow DEF Below
<1>3. Resumable(Len(frames))
  BY <1>2 DEF ExcInv, Shape
<1> QED
  BY <1>2, <1>3 DEF Frame, Resumable

\* Software exceptions rewrite the newest frame, never what it resumes.
LEMMA ReframeStep ==
  ASSUME ExcInv, NEW saved, NEW after, Reframe(saved, after), Goes(At("exit")),
         pc \notin Codes \cup Masked
  PROVE  ExcInv'
<1> DEFINE f == [pc |-> Frame.pc, regs |-> saved, pie |-> Frame.pie, after |-> after]
           b == Below
<1>1. Len(frames) > 0 /\ pie = FALSE
  BY DEF ExcInv, Closed
<1>2. /\ \E S : b \in Seq(S)
      /\ Len(b) = Len(frames) - 1 /\ Len(frames) \in Nat
      /\ \A k \in 1 .. Len(b) : b[k] = frames[k]
      /\ f.pc \in Codes /\ Calm(f.pc, f.pie, Len(b))
  BY <1>1, BelowFacts
<1>3. frames' = Append(b, f)
  BY DEF Reframe
<1> HIDE DEF f, b
<1>a. \E S : b \in Seq(S)
  BY <1>2
<1>4. /\ \E S : frames' \in Seq(S)
      /\ Len(frames') = Len(b) + 1 /\ Len(b) \in Nat
      /\ \A k \in 1 .. Len(b) : frames'[k] = b[k]
      /\ frames'[Len(b) + 1] = f
  BY <1>a, <1>3, SeqAppend
<1>5. ASSUME NEW k \in 1 .. Len(frames') PROVE Resumable(k)'
  <2>1. CASE k \in 1 .. Len(b)
    <3>1. k \in 1 .. Len(frames) /\ frames'[k] = frames[k]
      BY <1>2, <1>4, <2>1
    <3> QED
      BY <3>1 DEF ExcInv, Shape, Resumable
  <2>2. CASE k = Len(b) + 1
    <3>1. k - 1 = Len(b)
      BY <1>4, <2>2
    <3> QED
      BY <1>2, <1>4, <2>2, <3>1 DEF Resumable
  <2> QED
    BY <1>4, <2>1, <2>2
<1>6. Len(frames') > 0
  BY <1>4
<1>7. pc' = At("exit") /\ pie' = FALSE /\ UNCHANGED <<setup, pos, controller>>
  BY <1>1 DEF Goes
<1>8. pc.at # "call"
  BY PlaceFacts DEF ExcInv, Shape
<1>9. Fresh'
  BY <1>7, PlacesAre DEF Fresh
<1> QED
  BY <1>4, <1>5, <1>6, <1>7, <1>8, <1>9, PlacesAre, ExceptionCode

\* The interrupt test and the exception code move on, with the frames as they are.
LEMMA GoesStep ==
  ASSUME ExcInv, NEW place \in Places \ (Codes \cup Masked),
         place.at = "scan" => place.active \subseteq Pending,
         Goes(place), UNCHANGED frames,
         Len(frames) > 0, pie = FALSE, pc.at # "call"
  PROVE  ExcInv'
<1>1. \E S : frames \in Seq(S)
  BY DEF ExcInv, Shape
<1>2. pc' = place /\ pie' = FALSE /\ UNCHANGED <<setup, pos, controller>>
  BY DEF Goes
<1>3. \A k \in 1 .. Len(frames') : Resumable(k)'
  BY DEF ExcInv, Shape, Resumable
<1>4. Fresh'
  BY <1>2 DEF Fresh, Pending, controller
<1> QED
  BY <1>1, <1>2, <1>3, <1>4, ExceptionCode
-----------------------------------------------------------------------------
LEMMA SameFrames ==
  ASSUME ExcInv, UNCHANGED frames
  PROVE  (\E S : frames \in Seq(S))' /\ \A k \in 1 .. Len(frames') : Resumable(k)'
BY DEF ExcInv, Shape, Resumable

\* main() and the handlers execute.
LEMMA CodeSteps ==
  ASSUME ExcInv, Execute \/ RegisterApi \/ Interrupt \/ Exception PROVE ExcInv'
<1>1. CASE Execute \/ RegisterApi
  <2>1. pc \in Codes /\ ienable = active \cap mask /\ active \subseteq handler
    BY <1>1, AtInstruction DEF Execute, RegisterApi
  <2>2. Passed(pc) /\ UNCHANGED <<setup, frames, pie, controller>>
    BY <1>1 DEF Execute, RegisterApi
  <2>3. pos' \in Nat \ {0} /\ pc' \in Codes /\ Calm(pc', pie, Len(frames))
    BY <2>1, <2>2, PassedIs DEF ExcInv, Shape, Closed
  <2>4. Calm(pc, pie, Len(frames))'
    BY <2>2, <2>3
  <2>5. active' \subseteq Irqs /\ mask' \subseteq Irqs
    BY <2>2 DEF ExcInv, Shape, controller
  <2> QED
    BY <2>1, <2>2, <2>3, <2>4, <2>5, SameFrames, RunningCode DEF controller
<1>2. CASE Interrupt
  BY <1>2, EnterStep DEF Interrupt, ExcInv, Closed
<1>3. CASE Exception
  <2>1. Instruction(pc).op # "none"
    BY <1>3 DEF Exception, Trapped, Faults, Emulable, Divides, Multiplies
  <2> QED
    BY <1>3, <2>1, AtInstruction, EnterStep DEF Exception
<1> QED
  BY <1>1, <1>2, <1>3

\* The code of the exception entry, test and dispatch is above a frame.
LEMMA InException ==
  ASSUME ExcInv, pc.at \notin {"main", "isr", "call"}
  PROVE  pc \notin Codes \cup Masked /\ Len(frames) > 0 /\ pie = FALSE
BY PlaceFacts DEF ExcInv, Shape, Closed

LEMMA EntrySteps ==
  ASSUME ExcInv,
         IrqTest \/ Emulate \/ Trap \/ BreakSkip \/ BreakReissue \/ AskHandler \/ Continue
           \/ AltIrqPending
  PROVE  ExcInv'
<1>1. CASE IrqTest
  <2>1. pc \notin Codes \cup Masked /\ Len(frames) > 0 /\ pie = FALSE /\ pc.at # "call"
    BY <1>1, PlacesAre, InException DEF IrqTest
  <2>2. PICK place \in Places \ (Codes \cup Masked) : place.at # "scan" /\ Goes(place)
    BY <1>1, PlacesAre DEF IrqTest
  <2> QED
    BY <1>1, <2>1, <2>2, GoesStep DEF IrqTest
<1>2. CASE Emulate \/ AskHandler \/ Continue
  <2>1. pc \notin Codes \cup Masked
    BY <1>2, PlacesAre, InException DEF Emulate, AskHandler, Continue
  <2>2. Goes(At("exit")) /\ \E saved, after : Reframe(saved, after)
    BY <1>2 DEF Emulate, AskHandler, Continue
  <2> QED
    BY <2>1, <2>2, ReframeStep
<1>3. CASE Trap \/ BreakSkip \/ BreakReissue
  <2>1. pc \notin Codes \cup Masked /\ Len(frames) > 0 /\ pie = FALSE /\ pc.at # "call"
    BY <1>3, PlacesAre, InException DEF Trap, BreakSkip, BreakReissue
  <2>2. PICK place \in Places \ (Codes \cup Masked) : place.at # "scan" /\ Goes(place)
    BY <1>3, PlacesAre DEF Trap, BreakSkip, BreakReissue, After
  <2> QED
    BY <1>3, <2>1, <2>2, GoesStep DEF Trap, BreakSkip, BreakReissue
<1>4. CASE AltIrqPending
  <2>1. pc \notin Codes \cup Masked /\ Len(frames) > 0 /\ pie = FALSE /\ pc.at # "call"
    BY <1>4, InException DEF AltIrqPending
  <2>2. Pending \in SUBSET Irqs
    BY <2>1, PlaceFacts DEF ExcInv, Shape, Agreement, Pending
  <2>3. PICK place \in Places \ (Codes \cup Masked) :
           Goes(place) /\ (place.at = "scan" => place.active \subseteq Pending)
    BY <1>4, <2>2, PlacesAre DEF AltIrqPending
  <2> QED
    BY <1>4, <2>1, <2>3, GoesStep DEF AltIrqPending
<1> QED
  BY <1>1, <1>2, <1>3, <1>4

\* eret: the frame's code is in charge again.
LEMMA ExitStep == ASSUME ExcInv, Exit PROVE ExcInv'
<1>1. pc.at = "exit" /\ Len(frames) > 0
  BY PlacesAre, InException DEF Exit
<1>2. ienable = active \cap mask /\ active \subseteq handler
  BY <1>1 DEF ExcInv, Agreement
<1>3. /\ \E S : Below \in Seq(S)
      /\ Len(Below) = Len(frames) - 1 /\ Len(frames) \in Nat
      /\ \A k \in 1 .. (Len(frames) - 1) : Below[k] = frames[k]
      /\ Frame.pc \in Codes /\ Calm(Frame.pc, Frame.pie, Len(frames) - 1)
  BY <1>1, BelowFacts
<1>4. /\ frames' = Below /\ pie' = Frame.pie /\ UNCHANGED <<setup, controller>>
      /\ IF Frame.after THEN Passed(Frame.pc) ELSE pc' = Frame.pc /\ pos' = pos
  BY DEF Exit
<1>5. pos \in Nat \ {0}
  BY DEF ExcInv, Shape
<1>6. pos' \in Nat \ {0} /\ pc' \in Codes /\ Calm(pc', Frame.pie, Len(frames) - 1)
  <2>1. CASE Frame.after
    BY <1>3, <1>4, <1>5, <2>1, PassedIs
  <2>2. CASE ~Frame.after
    BY <1>3, <1>4, <1>5, <2>2
  <2> QED
    BY <2>1, <2>2
<1>7. Calm(pc, pie, Len(frames))'
  BY <1>3, <1>4, <1>6
<1>8. ASSUME NEW k \in 1 .. Len(frames') PROVE Resumable(k)'
  <2>1. k \in 1 .. (Len(frames) - 1) /\ k \in 1 .. Len(frames)
    BY <1>3, <1>4
  <2>2. frames'[k] = frames[k]
    BY <1>3, <1>4, <2>1
  <2> QED
    BY <2>1, <2>2 DEF ExcInv, Shape, Resumable
<1>9. /\ active' \subseteq Irqs /\ mask' \subseteq Irqs
      /\ ienable' = active' \cap mask' /\ active' \subseteq handler'
  BY <1>2, <1>4 DEF ExcInv, Shape, controller
<1>10. (\E S : frames \in Seq(S))'
  BY <1>3, <1>4
<1> QED
  BY <1>4, <1>6, <1>7, <1>8, <1>9, <1>10, RunningCode

\* Everything a handler does leaves one side of the controller to follow the other.
LEMMA HandlerSteps ==
  ASSUME ExcInv, Scan \/ Acknowledge \/ Interruptible \/ NonInterruptible PROVE ExcInv'
<1>1. /\ pos \in Nat \ {0} /\ setup \in Setups /\ active \subseteq Irqs /\ mask \subseteq Irqs
      /\ ienable = active \cap mask /\ active \subseteq handler
  BY DEF ExcInv, Shape, Agreement, Scan, Acknowledge, Interruptible, NonInterruptible
<1>2. CASE Scan
  <2>1. pc \in Places /\ pc.at = "scan" /\ Len(frames) > 0 /\ pie = FALSE
    BY <1>2, InException DEF Scan, ExcInv, Shape
  <2>2. PICK i \in pc.active : \E todo \in setup.work[i] : Goes(Handler(i, todo))
    BY <1>2 DEF Scan
  <2>3. i \in Irqs
    BY <1>1, <2>1, <2>2 DEF ExcInv, Fresh, Pending
  <2>4. PICK todo \in setup.work[i] : Goes(Handler(i, todo))
    BY <2>2
  <2>a. todo \in Instructions
    BY <1>1, <2>3, <2>4 DEF Instructions
  <2>5. pc' \in Handlers /\ pc'.open = FALSE
    BY <2>3, <2>4, <2>a DEF Goes, Handler, Handlers
  <2>6. UNCHANGED <<setup, pos, pie, controller, frames>>
    BY <1>2, <2>2 DEF Scan, Goes
  <2>7. Calm(pc, pie, Len(frames))'
    BY <2>1, <2>6 DEF Calm
  <2> QED
    BY <1>1, <2>5, <2>6, <2>7, SameFrames, RunningCode DEF Codes, controller
<1>3. CASE Acknowledge \/ Interruptible \/ NonInterruptible
  <2>1. pc \in Handlers
    BY <1>3, PlaceFacts DEF Acknowledge, Interruptible, NonInterruptible, ExcInv, Shape
  <2>2. UNCHANGED <<setup, pos, frames, handler, active>>
    BY <1>3 DEF Acknowledge, Interruptible, NonInterruptible
  <2>3. Nothing \in Instructions
    BY DEF Instructions
  <2>4. Len(frames) > 0 /\ (~pc.open => pie = FALSE) /\ pie \in BOOLEAN
    BY <2>1 DEF ExcInv, Closed, Calm
  <2>5. CASE Acknowledge
    <3>1. pc' \in Handlers /\ pc'.open = pc.open /\ UNCHANGED <<pie, ienable, mask>>
      BY <2>1, <2>5 DEF Acknowledge, Handlers
    <3>2. Calm(pc, pie, Len(frames))'
      BY <2>2, <2>4, <3>1 DEF Calm
    <3> QED
      BY <1>1, <2>2, <3>1, <3>2, SameFrames, RunningCode DEF Codes
  <2>6. CASE Interruptible
    <3>1. pc' \in Handlers /\ pc'.open = TRUE /\ pie' = TRUE
      BY <1>1, <2>1, <2>3, <2>6 DEF Interruptible, Handlers
    <3>2. mask' \subseteq Irqs /\ ienable' = active' \cap mask'
      BY <2>2, <2>6 DEF Interruptible
    <3>3. Calm(pc, pie, Len(frames))'
      BY <2>2, <2>4, <3>1 DEF Calm
    <3> QED
      BY <1>1, <2>2, <3>1, <3>2, <3>3, SameFrames, RunningCode DEF Codes
  <2>7. CASE NonInterruptible
    <3>1. pc' \in Handlers /\ pc.old \subseteq Irqs /\ pie' = FALSE
      BY <2>1, <2>7 DEF NonInterruptible, Handlers
    <3>2. mask' \subseteq Irqs /\ ienable' = active' \cap mask'
      BY <2>2, <2>7, <3>1 DEF NonInterruptible
    <3>3. Calm(pc, pie, Len(frames))'
      BY <2>2, <2>4, <3>1 DEF Calm
    <3> QED
      BY <1>1, <2>2, <3>1, <3>2, <3>3, SameFrames, RunningCode DEF Codes
  <2> QED
    BY <1>3, <2>5, <2>6, <2>7
<1> QED
  BY <1>2, <1>3

LEMMA ReturnStep == ASSUME ExcInv, Return PROVE ExcInv'
<1>1. pc \in Handlers /\ pc.at # "call"
  BY PlaceFacts DEF Return, ExcInv, Shape
<1>2. Len(frames) > 0 /\ pie = FALSE
  BY <1>1 DEF Return, ExcInv, Closed, Calm
<1>3. PICK place \in Places \ (Codes \cup Masked) : place.at # "scan" /\ Goes(place)
  BY PlacesAre DEF Return
<1> QED
  BY <1>1, <1>2, <1>3, GoesStep DEF Return

-----------------------------------------------------------------------------
\* The masked calls: nothing else runs between their steps.
LEMMA MaskedCode ==
  ASSUME ExcInv, pc' \in Masked, pie' = FALSE, InCall',
         UNCHANGED <<setup, pos, frames, mask>>, active' \subseteq Irqs
  PROVE  ExcInv'
<1>1. pc' \in Places /\ pc'.at = "call" /\ pc' \notin Handlers
  BY PlaceFacts DEF Codes
<1>2. Shape'
  BY <1>1 DEF ExcInv, Shape, Resumable
<1>3. Closed' /\ Fresh' /\ Agreement'
  BY <1>1 DEF Closed, Fresh, Agreement, Calm
<1> QED
  BY <1>2, <1>3 DEF ExcInv

LEMMA DisableStep == ASSUME ExcInv, DisableAll PROVE ExcInv'
<1>1. Instruction(pc).op # "none"
  BY DEF DisableAll, Calls, Registry
<1>2. pc \in Codes /\ ienable = active \cap mask /\ active \subseteq handler
  BY <1>1, AtInstruction
<1>3. Instruction(pc) \in Instructions
  BY <1>2, InstructionIn DEF ExcInv, Shape
<1>4. pie \in BOOLEAN /\ Calm(pc, pie, Len(frames))
  BY DEF ExcInv, Closed, Calm
<1>5. /\ pc' \in Masked /\ pc'.step = "read" /\ pc'.from = pc /\ pc'.context = pie
      /\ pc'.ins = Instruction(pc)
  BY <1>2, <1>3, <1>4 DEF DisableAll, Masked, Codes
<1>6. /\ UNCHANGED <<setup, pos, frames, ienable, active, handler, mask>> /\ pie' = FALSE
      /\ mask = Irqs /\ Instruction(pc).op \in Calls /\ Sensible(Instruction(pc))
  BY DEF DisableAll, Polite, controller
<1>7. active' \subseteq Irqs /\ ienable' = active'
  BY <1>2, <1>6 DEF ExcInv, Shape
<1>8. InCall'
  BY <1>2, <1>4, <1>5, <1>6, <1>7 DEF InCall, Sensible
<1> QED
  BY <1>5, <1>6, <1>7, <1>8, MaskedCode

LEMMA CallSteps == ASSUME ExcInv, ReadActive \/ WriteActive \/ Quiet PROVE ExcInv'
<1>1. pc \in Masked /\ InCall /\ pie = FALSE /\ active \subseteq Irqs
  BY PlaceFacts DEF ExcInv, Shape, Closed, ReadActive, WriteActive, Quiet
<1>2. pc.ins \in Instructions /\ pc.ins.irq \in Irqs
  BY <1>1, ExceptionsAssumption DEF Masked, InCall
<1>3. CASE ReadActive
  <2>1. /\ pc' \in Masked /\ pc'.step = "write" /\ pc'.active = active
        /\ pc'.ins = pc.ins /\ pc'.from = pc.from /\ pc'.context = pc.context
    BY <1>1, <1>3 DEF ReadActive, Masked
  <2>2. UNCHANGED <<setup, pos, frames, ienable, active, mask, pie>>
    BY <1>3 DEF ReadActive
  <2>3. active \subseteq handler /\ Sensible(pc.ins)
    BY <1>1, <1>3 DEF ReadActive, InCall
  <2>4. Chosen(pc.ins, active) \subseteq handler'
    BY <1>3, <2>3 DEF ReadActive, Chosen, Sensible
  <2>5. InCall'
    BY <1>1, <2>1, <2>2, <2>4 DEF InCall
  <2> QED
    BY <1>1, <2>1, <2>2, <2>5, MaskedCode
<1>4. CASE WriteActive
  <2>1. /\ pc' \in Masked /\ pc'.step = "end" /\ pc'.ins = pc.ins /\ pc'.from = pc.from
        /\ pc'.context = pc.context
    BY <1>1, <1>4 DEF WriteActive, Masked
  <2>2. UNCHANGED <<setup, pos, frames, handler, mask, pie>>
    BY <1>4 DEF WriteActive
  <2>3. active' = Chosen(pc.ins, active) /\ ienable' = active'
    BY <1>1, <1>4 DEF WriteActive, InCall
  <2>4. active' \subseteq Irqs /\ active' \subseteq handler'
    BY <1>1, <1>2, <1>4, <2>2, <2>3 DEF WriteActive, InCall, Chosen
  <2>5. InCall'
    BY <1>1, <2>1, <2>2, <2>3, <2>4 DEF InCall
  <2> QED
    BY <1>1, <2>1, <2>2, <2>4, <2>5, MaskedCode
<1>5. CASE Quiet
  <2>1. /\ pc' \in Masked /\ pc'.step = "end" /\ pc'.ins = pc.ins /\ pc'.from = pc.from
        /\ pc'.context = pc.context
    BY <1>1, <1>5 DEF Quiet, Masked
  <2>2. UNCHANGED <<setup, pos, frames, ienable, handler, active, mask, pie>>
    BY <1>5 DEF Quiet
  <2>3. InCall'
    BY <1>1, <1>5, <2>1, <2>2 DEF InCall, Quiet
  <2> QED
    BY <1>1, <2>1, <2>2, <2>3, MaskedCode
<1> QED
  BY <1>3, <1>4, <1>5

LEMMA EnableStep == ASSUME ExcInv, EnableAll PROVE ExcInv'
<1>1. pc \in Masked /\ InCall
  BY PlaceFacts DEF ExcInv, Shape, EnableAll
<1>2. /\ pc.from \in Codes /\ Calm(pc.from, pc.context, Len(frames))
      /\ mask = Irqs /\ ienable = active /\ active \subseteq handler
      /\ active \subseteq Irqs /\ pos \in Nat \ {0}
  BY <1>1 DEF InCall, EnableAll, Masked, Codes, ExcInv, Shape
<1>3. Passed(pc.from) /\ pie' = pc.context /\ UNCHANGED <<setup, frames, controller>>
  BY DEF EnableAll
<1>4. pos' \in Nat \ {0} /\ pc' \in Codes /\ Calm(pc', pc.context, Len(frames))
  BY <1>2, <1>3, PassedIs
<1>5. Calm(pc, pie, Len(frames))'
  BY <1>3, <1>4
<1>6. ienable' = active' \cap mask'
  BY <1>2, <1>3 DEF controller
<1> QED
  BY <1>2, <1>3, <1>4, <1>5, <1>6, SameFrames, RunningCode DEF controller

\* A request, or nothing at all, disturbs no part of it.
LEMMA OutsideSteps ==
  ASSUME ExcInv, (\E i \in Irqs : Request(i)) \/ UNCHANGED vars PROVE ExcInv'
<1>1. /\ UNCHANGED <<setup, pos, pc, frames, pie, ienable, handler, active, mask>>
      /\ request \subseteq request'
  BY DEF Request, vars, cpu, controller
<1>2. Shape' /\ Closed' /\ InCall' /\ Agreement'
  BY <1>1 DEF ExcInv, Shape, Resumable, Closed, InCall, Sensible, Agreement
<1>3. Fresh'
  BY <1>1 DEF ExcInv, Fresh, Pending
<1> QED
  BY <1>2, <1>3 DEF ExcInv

LEMMA ExcNext == ExcInv /\ [Next]_vars => ExcInv'
<1> SUFFICES ASSUME ExcInv, [Next]_vars PROVE ExcInv'
  OBVIOUS
<1>1. CASE Cpu
  BY <1>1, CodeSteps, EntrySteps, ExitStep, HandlerSteps, ReturnStep, DisableStep, CallSteps,
     EnableStep DEF Cpu
<1>2. CASE Continue
  BY <1>2, EntrySteps
<1> QED
  BY <1>1, <1>2, OutsideSteps DEF Next

\* Outside the masked calls, ienable is alt_irq_active within alt_priority_mask, and
\* every active interrupt has a handler, however handlers that update them nest.
THEOREM IrqAgreement == Spec => []Agreement
<1>1. Init => ExcInv
  BY ExcInit
<1>2. ExcInv /\ [Next]_vars => ExcInv'
  BY ExcNext
<1>3. ExcInv => Agreement
  BY DEF ExcInv
<1> QED
  BY <1>1, <1>2, <1>3, PTL DEF Spec

\* alt_irq_handler() calls only handlers that are registered, enabled and requested.
THEOREM IrqOnlyArmed == Spec => OnlyArmed
<1>1. Init => ExcInv
  BY ExcInit
<1>2. ExcInv /\ [Next]_vars => ExcInv'
  BY ExcNext
<1>3. ASSUME ExcInv, [Next]_vars PROVE [ArmedStep]_vars
  <2>1. SUFFICES ASSUME pc.at = "scan", pc'.at = "isr"
                 PROVE  pc'.irq \in handler \cap Pending
    BY <1>3 DEF ArmedStep
  <2>2. Instruction(pc) = Nothing
    BY <2>1 DEF Instruction
  <2>3. ~Interrupt
    BY <1>3, <2>1, InException DEF Interrupt
  <2>4. ~Execute /\ ~RegisterApi /\ ~Exception /\ ~DisableAll
    BY <2>2 DEF Execute, RegisterApi, Exception, Trapped, Faults, Emulable, Divides,
                Multiplies, Nothing, DisableAll, Calls, Registry
  <2>5. ~IrqTest /\ ~Exit /\ ~Emulate /\ ~Trap /\ ~BreakSkip /\ ~BreakReissue /\ ~AskHandler
    BY <2>1, PlacesAre DEF IrqTest, Exit, Emulate, Trap, BreakSkip, BreakReissue, AskHandler
  <2>6. ~Continue /\ ~AltIrqPending /\ ~Acknowledge /\ ~Interruptible
          /\ ~NonInterruptible /\ ~Return
    BY <2>1 DEF Continue, AltIrqPending, Acknowledge, Interruptible, NonInterruptible, Return
  <2>7. ~ReadActive /\ ~WriteActive /\ ~Quiet /\ ~EnableAll
    BY <2>1 DEF ReadActive, WriteActive, Quiet, EnableAll
  <2>8. pc' # pc
    BY <2>1
  <2>9. Scan
    BY <1>3, <2>3, <2>4, <2>5, <2>6, <2>7, <2>8 DEF Next, Cpu, Request, cpu, vars
  <2>10. PICK i \in pc.active : pc'.irq = i
    BY <2>9 DEF Scan, Goes, Handler
  <2>11. i \in Pending
    BY <1>3, <2>1, <2>10 DEF ExcInv, Fresh
  <2>12. Pending \subseteq handler
    BY <1>3, <2>1 DEF ExcInv, Agreement, Pending
  <2> QED
    BY <2>10, <2>11, <2>12
<1> QED
  BY <1>1, <1>2, <1>3, PTL DEF Spec, OnlyArmed
-----------------------------------------------------------------------------
(* Priorities *)

\* The code of each level: what a frame resumes, and what runs, or called the call
\* that runs, above the last frame.
Level == 1 .. (Len(frames) + 1)
Running(k) == IF k <= Len(frames) THEN frames[k].pc
              ELSE IF pc.at = "call" THEN pc.from ELSE pc

IsOpen(k) == Running(k).at = "isr" /\ Running(k).open

\* What was interrupted had interrupts on, but for the newest frame, which a
\* software exception may have pushed.
Taken == /\ \A k \in 1 .. (Len(frames) - 1) : frames[k].pie
         /\ Len(frames) > 0 /\ pc.at \in {"main", "isr", "call", "pending", "scan"}
              => frames[Len(frames)].pie

\* Neither the mask nor one that a handler above will put back lets in what is not
\* higher than an interruptible handler.
MaskBelow == \A k \in Level : IsOpen(k) => \A i \in mask : i < Running(k).irq
OldBelow == \A k, l \in Level :
  k < l /\ IsOpen(k) /\ IsOpen(l) => \A i \in Running(l).old : i < Running(k).irq
Ascending == \A k, l \in Level :
  k < l /\ Running(k).at = "isr" /\ Running(l).at = "isr"
    => Running(l).irq < Running(k).irq

Levels == MaskBelow /\ OldBelow /\ Ascending
HighInv == Taken /\ Levels

LEMMA HighInit == Init => HighInv
<1> SUFFICES ASSUME Init PROVE HighInv
  OBVIOUS
<1>1. frames = << >> /\ Len(frames) = 0 /\ pc.at = "main"
  BY DEF Init, Main, At
<1>2. \A k \in Level : Running(k).at = "main"
  BY <1>1 DEF Level, Running
<1> QED
  BY <1>1, <1>2 DEF HighInv, Taken, Levels, MaskBelow, OldBelow, Ascending, IsOpen

\* The handler of each level is one the level had before.
Keeps(k) == Running(k)'.at = "isr" =>
  /\ Running(k).at = "isr" /\ Running(k)'.irq = Running(k).irq
  /\ Running(k)'.open = Running(k).open /\ Running(k)'.old = Running(k).old

LEMMA KeepLevels ==
  ASSUME Levels, UNCHANGED mask, Len(frames) \in Nat, Len(frames') \in Nat,
         \A k \in Level' : Running(k)'.at = "isr" => k \in Level /\ Keeps(k)
  PROVE  Levels'
<1>1. MaskBelow'
  BY DEF Levels, MaskBelow, IsOpen, Keeps
<1>2. ASSUME NEW k \in Level', NEW l \in Level', k < l, IsOpen(k)', IsOpen(l)'
      PROVE  \A i \in Running(l)'.old : i < Running(k)'.irq
  <2>1. k \in Level /\ l \in Level /\ Keeps(k) /\ Keeps(l)
    BY <1>2 DEF IsOpen
  <2>2. IsOpen(k) /\ IsOpen(l) /\ Running(l)'.old = Running(l).old /\ Running(k)'.irq = Running(k).irq
    BY <1>2, <2>1 DEF IsOpen, Keeps
  <2> QED
    BY <1>2, <2>1, <2>2 DEF Levels, OldBelow
<1>3. ASSUME NEW k \in Level', NEW l \in Level', k < l,
             Running(k)'.at = "isr", Running(l)'.at = "isr"
      PROVE  Running(l)'.irq < Running(k)'.irq
  BY <1>3 DEF Levels, Ascending, Keeps
<1>4. OldBelow'
  BY <1>2 DEF OldBelow
<1>5. Ascending'
  BY <1>3 DEF Ascending
<1> QED
  BY <1>1, <1>4, <1>5 DEF Levels

\* What runs is renewed in place.
LEMMA SameLevel ==
  ASSUME Levels, UNCHANGED <<mask, frames>>, Len(frames) \in Nat,
         Keeps(Len(frames) + 1)
  PROVE  Levels'
<1>1. \A k \in Level' : k \in Level
  BY DEF Level
<1>2. \A k \in 1 .. Len(frames) : Running(k)' = Running(k)
  BY DEF Running
<1>3. ASSUME NEW k \in Level' PROVE Keeps(k)
  <2>1. CASE k \in 1 .. Len(frames)
    BY <1>2, <2>1 DEF Keeps
  <2>2. CASE k = Len(frames) + 1
    BY <2>2
  <2> QED
    BY <1>1, <2>1, <2>2 DEF Level
<1> QED
  BY <1>1, <1>3, KeepLevels

LEMMA FramesAre == ASSUME ExcInv PROVE Len(frames) \in Nat /\ \E S : frames \in Seq(S)
BY DEF ExcInv, Shape

\* What runs when it is not a handler nor a handler's call is not at a level.
LEMMA PassedKeeps ==
  ASSUME NEW code \in Codes, Passed(code)
  PROVE  /\ pc'.at = code.at
         /\ code.at = "isr" => pc'.irq = code.irq /\ pc'.open = code.open /\ pc'.old = code.old
<1>1. CASE code = Main
  BY <1>1 DEF Passed, Main, At
<1>2. CASE code \in Handlers
  BY <1>2 DEF Passed, Handlers
<1> QED
  BY <1>1, <1>2 DEF Codes

LEMMA HighCode ==
  ASSUME ExcInv, HighInv, Execute \/ RegisterApi PROVE HighInv'
<1>1. pc \in Codes /\ pc.at \in {"main", "isr"}
  BY AtInstruction, PlaceFacts DEF Execute, RegisterApi, ExcInv, Shape
<1>2. Passed(pc) /\ UNCHANGED <<frames, mask>>
  BY DEF Execute, RegisterApi, controller
<1>3. pc'.at = pc.at
  BY <1>1, <1>2, PassedKeeps
<1>4. Keeps(Len(frames) + 1)
  BY <1>1, <1>2, <1>3, FramesAre, PassedKeeps DEF Keeps, Running
<1>5. Levels'
  BY <1>2, <1>4, FramesAre, SameLevel DEF HighInv
<1>6. Taken'
  BY <1>2, <1>3 DEF HighInv, Taken
<1> QED
  BY <1>5, <1>6 DEF HighInv

LEMMA HighEnter ==
  ASSUME ExcInv, HighInv, Enter, pc \in Codes PROVE HighInv'
<1> DEFINE f == [pc |-> pc, regs |-> regs, pie |-> pie, after |-> FALSE]
<1>1. frames' = Append(frames, f) /\ f.pc = pc /\ pc' = At("irqtest") /\ UNCHANGED mask
  BY DEF Enter, controller
<1> HIDE DEF f
<1>2. /\ Len(frames') = Len(frames) + 1 /\ Len(frames) \in Nat
      /\ \A k \in 1 .. Len(frames) : frames'[k] = frames[k]
      /\ frames'[Len(frames) + 1] = f
  BY <1>1, FramesAre, SeqAppend
<1>3. pc'.at = "irqtest" /\ pc.at \in {"main", "isr"}
  BY <1>1, PlaceFacts, PlacesAre DEF ExcInv, Shape
<1>4. \A k \in 1 .. Len(frames) : frames[k].pie
  BY <1>2, <1>3 DEF HighInv, Taken
<1>5. Taken'
  BY <1>2, <1>3, <1>4 DEF Taken
<1>6. ASSUME NEW k \in Level', Running(k)'.at = "isr" PROVE k \in Level /\ Keeps(k)
  <2>1. k \in 1 .. (Len(frames) + 2)
    BY <1>2 DEF Level
  <2>2. CASE k \in 1 .. Len(frames)
    <3>1. Running(k)' = Running(k)
      BY <1>2, <2>2 DEF Running
    <3> QED
      BY <1>2, <1>6, <2>2, <3>1 DEF Keeps, Level
  <2>3. CASE k = Len(frames) + 1
    <3>1. Running(k)' = pc /\ Running(k) = pc
      BY <1>1, <1>2, <1>3, <2>3 DEF Running
    <3> QED
      BY <1>2, <1>6, <2>3, <3>1 DEF Keeps, Level
  <2>4. CASE k = Len(frames) + 2
    BY <1>2, <1>3, <1>6, <2>4 DEF Running
  <2> QED
    BY <1>2, <2>1, <2>2, <2>3, <2>4
<1>7. Levels'
  BY <1>1, <1>2, <1>6, KeepLevels DEF HighInv
<1> QED
  BY <1>5, <1>7 DEF HighInv

\* The exception code before a handler is called: no level changes.
LEMMA HighGoes ==
  ASSUME ExcInv, HighInv, UNCHANGED <<frames, mask>>, pc \notin Codes \cup Masked,
         pc' \notin Codes \cup Masked, pc' \in Places,
         pc'.at \in {"pending", "scan"} => Frame.pie
  PROVE  HighInv'
<1>1. pc'.at \notin {"main", "isr", "call"}
  BY PlaceFacts
<1>2. Keeps(Len(frames) + 1)
  BY <1>1, FramesAre DEF Keeps, Running
<1>3. Levels'
  BY <1>2, FramesAre, SameLevel DEF HighInv
<1>4. Taken'
  BY <1>1 DEF HighInv, Taken, Frame
<1> QED
  BY <1>3, <1>4 DEF HighInv

\* A software exception rewrites the newest frame, but for the code and for PIE.
LEMMA HighReframe ==
  ASSUME ExcInv, HighInv, NEW saved, NEW after, Reframe(saved, after), Goes(At("exit")),
         pc \notin Codes \cup Masked
  PROVE  HighInv'
<1> DEFINE f == [pc |-> Frame.pc, regs |-> saved, pie |-> Frame.pie, after |-> after]
           b == Below
<1>1. frames' = Append(b, f) /\ f.pc = Frame.pc /\ f.pie = Frame.pie
  BY DEF Reframe
<1>2. Len(frames) > 0
  BY DEF ExcInv, Closed
<1>3. /\ \E S : b \in Seq(S)
      /\ Len(b) = Len(frames) - 1 /\ Len(frames) \in Nat
      /\ \A k \in 1 .. (Len(frames) - 1) : b[k] = frames[k]
  BY <1>2, BelowFacts
<1> HIDE DEF f, b
<1>4. /\ Len(frames') = Len(b) + 1 /\ Len(b) \in Nat
      /\ \A k \in 1 .. Len(b) : frames'[k] = b[k]
      /\ frames'[Len(b) + 1] = f
  BY <1>1, <1>3, SeqAppend
<1>5. /\ Len(frames') = Len(frames)
      /\ \A k \in 1 .. (Len(frames) - 1) : frames'[k] = frames[k]
      /\ frames'[Len(frames)] = f
  BY <1>3, <1>4
<1>6. \A k \in 1 .. Len(frames) : /\ frames'[k].pc = frames[k].pc
                                  /\ frames'[k].pie = frames[k].pie
  BY <1>1, <1>3, <1>5 DEF Frame
<1>7. pc'.at = "exit" /\ UNCHANGED mask
  BY PlacesAre DEF Goes, controller
<1>8. ASSUME NEW k \in Level', Running(k)'.at = "isr" PROVE k \in Level /\ Keeps(k)
  <2>1. k \in 1 .. Len(frames)
    BY <1>3, <1>5, <1>7, <1>8 DEF Level, Running
  <2>2. Running(k)' = Running(k)
    BY <1>3, <1>5, <1>6, <2>1 DEF Running
  <2> QED
    BY <1>3, <1>8, <2>1, <2>2 DEF Keeps, Level
<1>9. Levels'
  BY <1>3, <1>5, <1>7, <1>8, KeepLevels DEF HighInv
<1>10. Taken'
  BY <1>3, <1>5, <1>6, <1>7 DEF HighInv, Taken
<1> QED
  BY <1>9, <1>10 DEF HighInv

LEMMA HighEntry ==
  ASSUME ExcInv, HighInv,
         IrqTest \/ Emulate \/ Trap \/ BreakSkip \/ BreakReissue \/ AskHandler \/ Continue
           \/ AltIrqPending
  PROVE  HighInv'
<1>1. pc.at \in {"irqtest", "notirq", "break", "pending"}
  BY PlacesAre DEF IrqTest, Emulate, Trap, BreakSkip, BreakReissue, AskHandler, Continue,
                   AltIrqPending
<1>2. pc \notin Codes \cup Masked /\ Len(frames) > 0
  BY <1>1, InException
<1>3. CASE Emulate \/ AskHandler \/ Continue
  <2>1. Goes(At("exit")) /\ \E saved, after : Reframe(saved, after)
    BY <1>3 DEF Emulate, AskHandler, Continue
  <2> QED
    BY <1>2, <2>1, HighReframe
<1>4. CASE IrqTest
  <2>1. UNCHANGED <<frames, mask>> /\ pc' \in Places \ (Codes \cup Masked)
    BY <1>4, PlacesAre DEF IrqTest, Goes, controller
  <2>2. pc'.at \in {"pending", "scan"} => Frame.pie
    BY <1>4, PlacesAre DEF IrqTest, Goes
  <2> QED
    BY <1>2, <2>1, <2>2, HighGoes
<1>5. CASE Trap \/ BreakSkip \/ BreakReissue
  <2>1. UNCHANGED <<frames, mask>> /\ pc' \in Places \ (Codes \cup Masked) /\ pc'.at = "break"
    BY <1>5, PlacesAre DEF Trap, BreakSkip, BreakReissue, After, Goes, controller
  <2> QED
    BY <1>2, <2>1, HighGoes
<1>6. CASE AltIrqPending
  <2>1. Pending \in SUBSET Irqs
    BY <1>6, PlaceFacts DEF AltIrqPending, ExcInv, Shape, Agreement, Pending
  <2>2. UNCHANGED <<frames, mask>> /\ pc' \in Places \ (Codes \cup Masked)
    BY <1>6, <2>1, PlacesAre DEF AltIrqPending, Goes, controller
  <2>3. Frame.pie
    BY <1>2, <1>6 DEF AltIrqPending, HighInv, Taken, Frame
  <2> QED
    BY <1>2, <2>2, <2>3, HighGoes
<1> QED
  BY <1>3, <1>4, <1>5, <1>6

LEMMA HighExit == ASSUME ExcInv, HighInv, Exit PROVE HighInv'
<1>1. pc.at = "exit" /\ Len(frames) > 0
  BY PlacesAre, InException DEF Exit
<1>2. /\ Len(Below) = Len(frames) - 1 /\ Len(frames) \in Nat
      /\ \A k \in 1 .. (Len(frames) - 1) : Below[k] = frames[k]
      /\ Frame.pc \in Codes
  BY <1>1, BelowFacts
<1>3. frames' = Below /\ UNCHANGED mask
      /\ IF Frame.after THEN Passed(Frame.pc) ELSE pc' = Frame.pc /\ pos' = pos
  BY DEF Exit, controller
<1>4. /\ pc'.at = Frame.pc.at /\ pc'.at # "call"
      /\ pc'.at = "isr" => /\ pc'.irq = Frame.pc.irq /\ pc'.open = Frame.pc.open
                           /\ pc'.old = Frame.pc.old
  BY <1>2, <1>3, PassedKeeps, PlaceFacts
<1>5. Len(frames') = Len(frames) - 1 /\ \A k \in 1 .. (Len(frames) - 1) : frames'[k] = frames[k]
  BY <1>2, <1>3
<1>6. Taken'
  <2>1. \A k \in 1 .. Len(frames') : frames'[k].pie
    BY <1>2, <1>5 DEF HighInv, Taken
  <2> QED
    BY <1>2, <1>5, <2>1 DEF Taken
<1>7. ASSUME NEW k \in Level', Running(k)'.at = "isr" PROVE k \in Level /\ Keeps(k)
  <2>1. k \in 1 .. Len(frames)
    BY <1>2, <1>5 DEF Level
  <2>2. CASE k = Len(frames)
    <3>1. Running(k)' = pc' /\ Running(k) = Frame.pc
      BY <1>2, <1>4, <1>5, <2>2 DEF Running, Frame
    <3> QED
      BY <1>2, <1>4, <1>7, <2>1, <3>1 DEF Keeps, Level
  <2>3. CASE k \in 1 .. (Len(frames) - 1)
    <3>1. Running(k)' = Running(k)
      BY <1>2, <1>5, <2>3 DEF Running
    <3> QED
      BY <1>2, <1>7, <2>1, <3>1 DEF Keeps, Level
  <2> QED
    BY <1>2, <2>1, <2>2, <2>3
<1>8. Levels'
  BY <1>2, <1>3, <1>5, <1>7, KeepLevels DEF HighInv
<1> QED
  BY <1>6, <1>8 DEF HighInv

\* The handler that is called is pending, thus within the mask of all that are
\* interrupted.
LEMMA HighScan == ASSUME ExcInv, HighInv, Scan PROVE HighInv'
<1>1. pc.at = "scan" /\ Len(frames) > 0 /\ pc \notin Codes \cup Masked
  BY InException DEF Scan
<1>2. PICK i \in pc.active : \E todo \in setup.work[i] : Goes(Handler(i, todo))
  BY DEF Scan
<1>3. i \in mask /\ i \in Irqs
  BY <1>1, <1>2 DEF ExcInv, Shape, Fresh, Agreement, Pending
<1>4. pc'.at = "isr" /\ pc'.irq = i /\ pc'.open = FALSE /\ UNCHANGED <<frames, mask>>
  BY <1>2 DEF Scan, Goes, Handler, controller
<1>5. \A k \in 1 .. Len(frames) : frames[k].pie
  BY <1>1, FramesAre DEF HighInv, Taken
<1>6. Taken'
  BY <1>1, <1>4, <1>5, FramesAre DEF Taken
<1>7. \A k \in 1 .. Len(frames) : Running(k)' = Running(k) /\ Running(k) = frames[k].pc
  BY <1>4 DEF Running
<1>8. Running(Len(frames) + 1)' = pc'
  BY <1>4, FramesAre DEF Running
<1>9. ASSUME NEW k \in 1 .. Len(frames), Running(k).at = "isr" PROVE IsOpen(k)
  <2>1. Resumable(k)
    BY DEF ExcInv, Shape
  <2>2. frames[k].pc \in Handlers
    BY <1>7, <1>9, <2>1, PlaceFacts DEF Resumable
  <2>3. frames[k].pc.open \in BOOLEAN
    BY <2>2 DEF Handlers
  <2> QED
    BY <1>5, <1>7, <1>9, <2>1, <2>2, <2>3 DEF Resumable, Calm, IsOpen
<1>10. Level' = Level /\ \A k \in Level : k \in 1 .. Len(frames) \/ k = Len(frames) + 1
  BY <1>4, FramesAre DEF Level
<1>11. MaskBelow'
  BY <1>4, <1>7, <1>8, <1>10 DEF HighInv, Levels, MaskBelow, IsOpen
<1>12. ASSUME NEW k \in Level, NEW l \in Level, k < l, IsOpen(k)', IsOpen(l)'
       PROVE  \A j \in Running(l)'.old : j < Running(k)'.irq
  <2>1. l # Len(frames) + 1
    BY <1>4, <1>8, <1>12 DEF IsOpen
  <2>2. k \in 1 .. Len(frames) /\ l \in 1 .. Len(frames)
    BY <1>10, <1>12, <2>1, FramesAre DEF Level
  <2> QED
    BY <1>7, <1>12, <2>2 DEF HighInv, Levels, OldBelow, IsOpen
<1>13. ASSUME NEW k \in Level, NEW l \in Level, k < l,
              Running(k)'.at = "isr", Running(l)'.at = "isr"
       PROVE  Running(l)'.irq < Running(k)'.irq
  <2>1. k \in 1 .. Len(frames)
    BY <1>10, <1>13, FramesAre DEF Level
  <2>2. CASE l \in 1 .. Len(frames)
    BY <1>7, <1>13, <2>1, <2>2 DEF HighInv, Levels, Ascending
  <2>3. CASE l = Len(frames) + 1
    <3>1. IsOpen(k)
      BY <1>7, <1>9, <1>13, <2>1
    <3>2. i < Running(k).irq
      BY <1>3, <3>1 DEF HighInv, Levels, MaskBelow
    <3> QED
      BY <1>4, <1>7, <1>8, <2>1, <2>3, <3>2
  <2> QED
    BY <1>10, <2>2, <2>3
<1>14. OldBelow'
  BY <1>10, <1>12 DEF OldBelow
<1>15. Ascending'
  BY <1>10, <1>13 DEF Ascending
<1> QED
  BY <1>6, <1>11, <1>14, <1>15 DEF HighInv, Levels

\* What runs and what it interrupted, when a handler changes itself in place.
LEMMA TopLevel ==
  ASSUME ExcInv, pc.at = "isr", pc'.at = "isr", UNCHANGED frames,
         NEW n, n = Len(frames) + 1
  PROVE  /\ Level' = Level /\ n \in Level
         /\ \A k \in Level : k \in 1 .. Len(frames) \/ k = n
         /\ \A k \in Level : k \in 1 .. Len(frames) =>
              k < n /\ Running(k)' = Running(k) /\ IsOpen(k)' = IsOpen(k)
         /\ Running(n) = pc /\ Running(n)' = pc'
         /\ \A k \in Level : Running(k).at = "isr" => Running(k).irq \in Irqs
<1>1. Level' = Level /\ n \in Level
  BY FramesAre DEF Level
<1>2. ASSUME NEW k \in Level
      PROVE /\ k \in 1 .. Len(frames) \/ k = n
            /\ k \in 1 .. Len(frames) =>
                 k < n /\ Running(k)' = Running(k) /\ IsOpen(k)' = IsOpen(k)
  BY FramesAre DEF Level, Running, IsOpen
<1>3. Running(n) = pc /\ Running(n)' = pc'
  BY FramesAre DEF Running
<1>4. ASSUME NEW k \in Level, Running(k).at = "isr" PROVE Running(k).irq \in Irqs
  <2>1. CASE k \in 1 .. Len(frames)
    <3>1. Running(k) = frames[k].pc /\ frames[k].pc \in Codes
      BY <2>1 DEF Running, ExcInv, Shape, Resumable
    <3> QED
      BY <1>4, <3>1, PlaceFacts DEF Handlers
  <2>2. CASE k = n
    BY <1>3, <2>2, PlaceFacts DEF ExcInv, Shape, Handlers
  <2> QED
    BY <1>2, <2>1, <2>2
<1> QED
  BY <1>1, <1>2, <1>3, <1>4

LEMMA HighInterruptible == ASSUME ExcInv, HighInv, Interruptible PROVE HighInv'
<1>0. PICK n : n = Len(frames) + 1
  OBVIOUS
<1>1. /\ pc.at = "isr" /\ pc'.at = "isr" /\ UNCHANGED frames
      /\ pc'.irq = pc.irq /\ pc'.open = TRUE /\ pc'.old = mask
      /\ mask' = {i \in Irqs : i < pc.irq}
  <2>1. pc \in Handlers /\ pc' = [pc EXCEPT !.todo = Nothing, !.open = TRUE, !.old = mask]
    BY PlaceFacts DEF Interruptible, ExcInv, Shape
  <2>2. pc'.at = pc.at /\ pc'.irq = pc.irq /\ pc'.open = TRUE /\ pc'.old = mask
    BY <2>1 DEF Handlers
  <2> QED
    BY <2>2 DEF Interruptible
<1>2. /\ Level' = Level /\ n \in Level
      /\ \A k \in Level : k \in 1 .. Len(frames) \/ k = n
      /\ \A k \in Level : k \in 1 .. Len(frames) =>
           k < n /\ Running(k)' = Running(k) /\ IsOpen(k)' = IsOpen(k)
      /\ Running(n) = pc /\ Running(n)' = pc'
      /\ \A k \in Level : Running(k).at = "isr" => Running(k).irq \in Irqs
  BY <1>0, <1>1, TopLevel
<1>3. Irqs \subseteq Nat
  BY ExceptionsAssumption
<1>4. n \in Nat
  BY <1>0, FramesAre
<1>5. Taken'
  BY <1>1 DEF HighInv, Taken
<1>6. ASSUME NEW k \in Level, IsOpen(k)', NEW i \in mask' PROVE i < Running(k)'.irq
  <2>1. CASE k = n
    BY <1>1, <1>2, <1>6, <2>1
  <2>2. CASE k \in 1 .. Len(frames)
    <3>1. k < n /\ IsOpen(k) /\ Running(k)' = Running(k)
      BY <1>2, <1>6, <2>2
    <3>2. pc.irq < Running(k).irq
      BY <1>1, <1>2, <3>1 DEF HighInv, Levels, Ascending, IsOpen
    <3>3. i \in Nat /\ i < pc.irq /\ pc.irq \in Nat /\ Running(k).irq \in Nat
      BY <1>1, <1>2, <1>3, <1>6, <3>1 DEF IsOpen
    <3> QED
      BY <3>1, <3>2, <3>3
  <2> QED
    BY <1>2, <2>1, <2>2
<1>7. ASSUME NEW k \in Level, NEW l \in Level, k < l, IsOpen(k)', IsOpen(l)'
      PROVE  \A i \in Running(l)'.old : i < Running(k)'.irq
  <2>1. k \in 1 .. Len(frames)
    <3>1. k # n
      BY <1>0, <1>2, <1>4, <1>7, FramesAre DEF Level
    <3> QED
      BY <1>2, <3>1
  <2>2. IsOpen(k) /\ Running(k)' = Running(k)
    BY <1>2, <1>7, <2>1
  <2>3. CASE l = n
    BY <1>1, <1>2, <2>2, <2>3 DEF HighInv, Levels, MaskBelow
  <2>4. CASE l \in 1 .. Len(frames)
    BY <1>2, <1>7, <2>2, <2>4 DEF HighInv, Levels, OldBelow
  <2> QED
    BY <1>2, <2>3, <2>4
<1>8. \A k \in Level : Running(k)'.at = Running(k).at /\ Running(k)'.irq = Running(k).irq
  BY <1>1, <1>2
<1>9. MaskBelow' /\ OldBelow' /\ Ascending'
  <2>1. MaskBelow'
    BY <1>2, <1>6 DEF MaskBelow
  <2>2. OldBelow'
    BY <1>2, <1>7 DEF OldBelow
  <2>3. Ascending'
    BY <1>2, <1>8 DEF HighInv, Levels, Ascending
  <2> QED
    BY <2>1, <2>2, <2>3
<1> QED
  BY <1>5, <1>9 DEF HighInv, Levels

LEMMA HighNonInterruptible == ASSUME ExcInv, HighInv, NonInterruptible PROVE HighInv'
<1>0. PICK n : n = Len(frames) + 1
  OBVIOUS
<1>1. /\ pc.at = "isr" /\ pc'.at = "isr" /\ UNCHANGED frames /\ pc.open
      /\ pc'.irq = pc.irq /\ pc'.open = FALSE /\ pc'.old = pc.old
      /\ mask' = pc.old
  <2>1. pc \in Handlers /\ pc' = [pc EXCEPT !.open = FALSE]
    BY PlaceFacts DEF NonInterruptible, ExcInv, Shape
  <2>2. pc'.at = pc.at /\ pc'.irq = pc.irq /\ pc'.open = FALSE /\ pc'.old = pc.old
    BY <2>1 DEF Handlers
  <2> QED
    BY <2>2 DEF NonInterruptible
<1>2. /\ Level' = Level /\ n \in Level
      /\ \A k \in Level : k \in 1 .. Len(frames) \/ k = n
      /\ \A k \in Level : k \in 1 .. Len(frames) =>
           k < n /\ Running(k)' = Running(k) /\ IsOpen(k)' = IsOpen(k)
      /\ Running(n) = pc /\ Running(n)' = pc'
  BY <1>0, <1>1, TopLevel
<1>3. Taken'
  BY <1>1 DEF HighInv, Taken
<1>4. \A k \in Level : /\ Running(k)'.at = Running(k).at /\ Running(k)'.irq = Running(k).irq
                       /\ Running(k)'.old = Running(k).old
                       /\ IsOpen(k)' => k \in 1 .. Len(frames) /\ IsOpen(k)
  BY <1>1, <1>2 DEF IsOpen
<1>5. ASSUME NEW k \in Level, IsOpen(k)', NEW i \in mask' PROVE i < Running(k)'.irq
  <2>1. k < n /\ IsOpen(k) /\ IsOpen(n) /\ i \in Running(n).old
    BY <1>1, <1>2, <1>4, <1>5 DEF IsOpen
  <2>2. i < Running(k).irq
    BY <1>2, <2>1 DEF HighInv, Levels, OldBelow
  <2> QED
    BY <1>4, <2>2
<1>6. MaskBelow'
  BY <1>2, <1>5 DEF MaskBelow
<1>7. OldBelow'
  BY <1>2, <1>4 DEF HighInv, Levels, OldBelow
<1>8. Ascending'
  BY <1>2, <1>4 DEF HighInv, Levels, Ascending
<1> QED
  BY <1>3, <1>6, <1>7, <1>8 DEF HighInv, Levels

\* A handler that goes on, calls or returns; main() that calls.
LEMMA HighHandler ==
  ASSUME ExcInv, HighInv, Acknowledge \/ Return \/ DisableAll PROVE HighInv'
<1>1. CASE Acknowledge
  <2>1. pc \in Handlers /\ UNCHANGED <<frames, mask>> /\ pc' = [pc EXCEPT !.acked = TRUE]
    BY <1>1, PlaceFacts DEF Acknowledge, ExcInv, Shape
  <2>2. /\ pc.at = "isr" /\ pc'.at = "isr" /\ pc'.irq = pc.irq /\ pc'.open = pc.open
        /\ pc'.old = pc.old
    BY <2>1 DEF Handlers
  <2>3. Keeps(Len(frames) + 1)
    BY <2>1, <2>2, FramesAre DEF Keeps, Running
  <2>4. Taken'
    BY <2>1, <2>2 DEF HighInv, Taken
  <2> QED
    BY <2>1, <2>3, <2>4, FramesAre, SameLevel DEF HighInv
<1>2. CASE Return
  <2>1. pc.at = "isr" /\ pc'.at = "pending" /\ UNCHANGED <<frames, mask>>
    BY <1>2 DEF Return, Goes, controller
  <2>2. Keeps(Len(frames) + 1)
    BY <2>1, FramesAre DEF Keeps, Running
  <2>3. Taken'
    BY <2>1 DEF HighInv, Taken
  <2> QED
    BY <2>1, <2>2, <2>3, FramesAre, SameLevel DEF HighInv
<1>3. CASE DisableAll
  <2>1. pc \in Codes
    BY <1>3, AtInstruction DEF DisableAll, Calls, Registry
  <2>2. /\ pc.at \in {"main", "isr"} /\ pc'.at = "call" /\ pc'.from = pc
        /\ UNCHANGED <<frames, mask>>
    BY <1>3, <2>1, PlaceFacts DEF DisableAll, controller, ExcInv, Shape
  <2>3. Keeps(Len(frames) + 1)
    BY <2>2, FramesAre DEF Keeps, Running
  <2>4. Taken'
    BY <2>2 DEF HighInv, Taken
  <2> QED
    BY <2>2, <2>3, <2>4, FramesAre, SameLevel DEF HighInv
<1> QED
  BY <1>1, <1>2, <1>3

LEMMA HighCalls ==
  ASSUME ExcInv, HighInv, ReadActive \/ WriteActive \/ Quiet \/ EnableAll PROVE HighInv'
<1>1. pc \in Masked /\ pc.at = "call" /\ UNCHANGED <<frames, mask>>
  BY PlaceFacts DEF ReadActive, WriteActive, Quiet, EnableAll, controller, ExcInv, Shape
<1>2. CASE ReadActive \/ WriteActive \/ Quiet
  <2>1. pc'.at = "call" /\ pc'.from = pc.from
    BY <1>1, <1>2 DEF ReadActive, WriteActive, Quiet, Masked
  <2>2. Keeps(Len(frames) + 1)
    BY <1>1, <2>1, FramesAre DEF Keeps, Running
  <2>3. Taken'
    BY <1>1, <2>1 DEF HighInv, Taken
  <2> QED
    BY <1>1, <2>2, <2>3, FramesAre, SameLevel DEF HighInv
<1>3. CASE EnableAll
  <2>1. pc.from \in Codes /\ Passed(pc.from)
    BY <1>1, <1>3 DEF EnableAll, Masked, Codes
  <2>2. /\ pc'.at \in {"main", "isr"} /\ pc'.at = pc.from.at
        /\ pc'.at = "isr" => /\ pc'.irq = pc.from.irq /\ pc'.open = pc.from.open
                             /\ pc'.old = pc.from.old
    BY <2>1, PassedKeeps, PlaceFacts
  <2>3. Keeps(Len(frames) + 1)
    BY <1>1, <2>2, FramesAre DEF Keeps, Running
  <2>4. Taken'
    BY <1>1, <2>2 DEF HighInv, Taken
  <2> QED
    BY <1>1, <2>3, <2>4, FramesAre, SameLevel DEF HighInv
<1> QED
  BY <1>2, <1>3

LEMMA HighNext == ExcInv /\ HighInv /\ [Next]_vars => HighInv'
<1> SUFFICES ASSUME ExcInv, HighInv, [Next]_vars PROVE HighInv'
  OBVIOUS
<1>1. CASE Execute \/ RegisterApi
  BY <1>1, HighCode
<1>2. CASE Interrupt
  BY <1>2, HighEnter DEF Interrupt, ExcInv, Closed
<1>3. CASE Exception
  <2>1. Instruction(pc).op # "none"
    BY <1>3 DEF Exception, Trapped, Faults, Emulable, Divides, Multiplies
  <2> QED
    BY <1>3, <2>1, AtInstruction, HighEnter DEF Exception
<1>4. CASE IrqTest \/ Emulate \/ Trap \/ BreakSkip \/ BreakReissue \/ AskHandler
             \/ Continue \/ AltIrqPending
  BY <1>4, HighEntry
<1>5. CASE Exit \/ Scan
  BY <1>5, HighExit, HighScan
<1>6. CASE Interruptible \/ NonInterruptible
  BY <1>6, HighInterruptible, HighNonInterruptible
<1>7. CASE Acknowledge \/ Return \/ DisableAll
  BY <1>7, HighHandler
<1>8. CASE ReadActive \/ WriteActive \/ Quiet \/ EnableAll
  BY <1>8, HighCalls
<1>9. CASE (\E i \in Irqs : Request(i)) \/ UNCHANGED vars
  <2>1. UNCHANGED <<pc, frames, mask>>
    BY <1>9 DEF Request, vars, cpu, controller
  <2>2. Keeps(Len(frames) + 1)
    BY <2>1 DEF Keeps, Running
  <2>3. Taken'
    BY <2>1 DEF HighInv, Taken
  <2> QED
    BY <2>1, <2>2, <2>3, FramesAre, SameLevel DEF HighInv
<1> QED
  BY <1>1, <1>2, <1>3, <1>4, <1>5, <1>6, <1>7, <1>8, <1>9 DEF Next, Cpu

\* A handler runs above another only with a smaller interrupt number, however deep
\* they nest and whatever masks they put back (alt_legacy_irq.h:102-146).
THEOREM IrqOnlyHigher == Spec => []OnlyHigher
<1>1. Init => ExcInv /\ HighInv
  BY ExcInit, HighInit
<1>2. ExcInv /\ HighInv /\ [Next]_vars => ExcInv' /\ HighInv'
  BY ExcNext, HighNext
<1>3. ASSUME ExcInv, HighInv PROVE OnlyHigher
  <2>1. ASSUME NEW k \in Level, Code(k).at = "isr" PROVE Running(k) = Code(k)
    BY <2>1 DEF Code, Running
  <2> QED
    BY <1>3, <2>1 DEF OnlyHigher, HighInv, Levels, Ascending, Level
<1> QED
  BY <1>1, <1>2, <1>3, PTL DEF Spec
-----------------------------------------------------------------------------
(* main(): its registers, and what the exceptions it meets leave of them *)

LEMMA SlotWord ==
  ASSUME NEW r \in File, NEW n \in Regs
  PROVE  Slot(r, n) \in Word
BY WordFacts DEF Slot, File

LEMMA StoredTyped ==
  ASSUME NEW r \in File, NEW n \in Regs, NEW v \in Word
  PROVE  Stored(r, n, v) \in File
BY DEF Stored, File

\* The value the emulation stores, and where.
Computed(r, ins) ==
  LET x == Slot(r, ins.a)
      y == Slot(r, ins.b)
  IN IF ins.op = "muli" THEN Product("mul", x, Wrapped(ins.imm))
     ELSE IF ins.op \in Divides THEN Division(ins.op, x, y) ELSE Product(ins.op, x, y)

LEMMA EmulatedStores ==
  ASSUME NEW r \in File, NEW ins, ins.op \in Emulable,
         {ins.a, ins.b, ins.c} \subseteq Regs, ins.imm \in Int
  PROVE  /\ Emulated(r, ins) = Stored(r, M!Target(ins), Computed(r, ins))
         /\ M!Target(ins) \in Regs /\ Computed(r, ins) \in Word
         /\ Emulated(r, ins) \in File
<1>1. Emulated(r, ins) = Stored(r, M!Target(ins), Computed(r, ins))
  BY DEF Emulated, Computed, M!Target
<1>2. M!Target(ins) \in Regs
  BY DEF M!Target
<1>3. Slot(r, ins.a) \in Word /\ Slot(r, ins.b) \in Word /\ Wrapped(ins.imm) \in Word
  BY SlotWord, WordFacts
<1>4. Computed(r, ins) \in Word
  BY <1>3, ProductIs, DivisionIs DEF Computed
<1> QED
  BY <1>1, <1>2, <1>4, StoredTyped

\* The emulation computes a result of the instruction set.
LEMMA EmulatedRight ==
  ASSUME MainRegs \in File, NEW ins, ins.op \in Emulable,
         {ins.a, ins.b, ins.c} \subseteq Regs, ins.imm \in Int
  PROVE  Computed(MainRegs, ins) \in M!Results(ins)
<1> DEFINE x == Slot(MainRegs, ins.a)
           y == Slot(MainRegs, ins.b)
           v == Computed(MainRegs, ins)
<1>1. M!Read(ins.a) = x /\ M!Read(ins.b) = y
  BY DEF M!Read, Slot
<1>2. x \in Word /\ y \in Word
  BY SlotWord
<1>3. M!Span = 2^W /\ \A w \in Word : M!Value(w) = Signed(w)
  <2>1. ASSUME NEW w \in Word PROVE M!Value(w) = Signed(w)
    <3>1. w \in Nat /\ Msb(w) \in {0, 1} /\ (Msb(w) = 1 <=> w >= 2^(W - 1)) /\ 2^W \in Nat
      BY MsbIs, WordFacts
    <3> QED
      BY <3>1 DEF M!Value, M!Span, Signed
  <2> QED
    BY <2>1 DEF M!Span
<1>4. v \in Word
  BY EmulatedStores
<1>5. Word = 0 .. (M!Span - 1)
  BY <1>3 DEF Word
<1> HIDE DEF x, y
<1>6. CASE ins.op = "mul"
  <2>1. v = Product("mul", x, y)
    BY <1>6 DEF Computed, Divides, x, y
  <2>2. M!Results(ins) = {(x * y) % M!Span}
    BY <1>1, <1>6 DEF M!Results
  <2> QED
    BY <1>2, <1>3, <2>1, <2>2, ProductIs DEF Wrapped
<1>7. CASE ins.op = "muli"
  <2>1. v = Product("mul", x, Wrapped(ins.imm))
    BY <1>7 DEF Computed, x
  <2>2. M!Results(ins) = {(x * ins.imm) % M!Span}
    BY <1>1, <1>7 DEF M!Results
  <2>3. v = Wrapped(x * ins.imm)
    <3> DEFINE z == Wrapped(ins.imm)
    <3>1. z \in Word /\ Wrapped(x * z) = Wrapped(x * ins.imm)
      BY <1>2, ImmediateProduct
    <3> HIDE DEF z
    <3>2. Product("mul", x, z) = Wrapped(x * z)
      BY <1>2, <3>1, ProductIs
    <3> QED
      BY <2>1, <3>1, <3>2 DEF z
  <2> QED
    BY <1>3, <2>2, <2>3 DEF Wrapped
<1>8. CASE ins.op = "mulxuu"
  <2>1. v = Product("mulxuu", x, y)
    BY <1>8 DEF Computed, Divides, x, y
  <2>2. M!Results(ins) = {(x * y) \div M!Span}
    BY <1>1, <1>8 DEF M!Results
  <2> QED
    BY <1>2, <1>3, <2>1, <2>2, ProductIs
<1>9. CASE ins.op = "mulxsu"
  <2>1. v = Product("mulxsu", x, y)
    BY <1>9 DEF Computed, Divides, x, y
  <2>2. M!Results(ins) = {((M!Value(x) * y) \div M!Span) % M!Span}
    BY <1>1, <1>9 DEF M!Results
  <2> QED
    BY <1>2, <1>3, <2>1, <2>2, ProductIs DEF Wrapped
<1>10. CASE ins.op = "mulxss"
  <2>1. v = Product("mulxss", x, y)
    BY <1>10 DEF Computed, Divides, x, y
  <2>2. M!Results(ins) = {((M!Value(x) * M!Value(y)) \div M!Span) % M!Span}
    BY <1>1, <1>10 DEF M!Results
  <2> QED
    BY <1>2, <1>3, <2>1, <2>2, ProductIs DEF Wrapped
<1>11. CASE ins.op = "divu"
  <2>1. v = Division("divu", x, y)
    BY <1>11 DEF Computed, Divides, x, y
  <2>2. M!Results(ins) = IF y = 0 THEN Word ELSE {x \div y}
    BY <1>1, <1>5, <1>11 DEF M!Results
  <2>3. y # 0 => v = x \div y
    BY <1>2, <2>1, DivisionIs
  <2> QED
    BY <1>4, <2>2, <2>3
<1>12. CASE ins.op = "div"
  <2>1. v = Division("div", x, y)
    BY <1>12 DEF Computed, Divides, x, y
  <2>2. /\ y = 0 => M!Results(ins) = Word
        /\ y # 0 => M!Results(ins) = Word
             \/ M!Results(ins) = {M!Truncated(M!Value(x), M!Value(y)) % M!Span}
    BY <1>1, <1>5, <1>12 DEF M!Results
  <2>3. y # 0 => v = M!Truncated(M!Value(x), M!Value(y)) % M!Span
    <3>1. M!Value(x) = Signed(x) /\ M!Value(y) = Signed(y)
      BY <1>2, <1>3
    <3>2. \A n : M!Signum(n) = Sign(n)
      BY DEF M!Signum, Sign
    <3> QED
      BY <1>2, <1>3, <2>1, <3>1, <3>2, DivisionIs DEF M!Truncated, Wrapped
  <2> QED
    BY <1>4, <2>2, <2>3
<1> QED
  BY <1>6, <1>7, <1>8, <1>9, <1>10, <1>11, <1>12 DEF Emulable, Divides, Multiplies

-----------------------------------------------------------------------------
(* main() and its frame *)

Stack == [pc : Codes, regs : File, pie : BOOLEAN, after : BOOLEAN]

Typed == /\ pos <= Len(setup.program) + 1
         /\ frames \in Seq(Stack) /\ regs \in File
         /\ api \in BOOLEAN /\ repaired \in BOOLEAN
         /\ request \subseteq Irqs /\ handler \subseteq Irqs /\ quota \in [Irqs -> Nat]

\* main() is what the first frame resumes, and nothing else is.
MainFirst == /\ \A k \in 1 .. Len(frames) : frames[k].pc = Main => k = 1
             /\ pc = Main \/ (pc.at = "call" /\ pc.from = Main) => Len(frames) = 0

\* The instruction behind the frame's is resumed at once.
Resumes == \A k \in 1 .. Len(frames) :
  frames[k].after => k = Len(frames) /\ pc.at = "exit"

\* What main() is about to leave behind: a call, or what only the debugger sees.
Broken(ins) == ins.op = "trap" \/ Lost(ins)

Doing == /\ Len(frames) > 0 /\ frames[1].after => pos <= Len(setup.program)
         /\ pc.at = "call" /\ pc.from = Main
              => pos <= Len(setup.program) /\ setup.program[pos].op \in Calls
         /\ pc.at = "break" /\ pc.after /\ Len(frames) = 1
              => pos <= Len(setup.program) /\ Broken(setup.program[pos])
         /\ repaired => setup.api

MainInv == Typed /\ MainFirst /\ Resumes /\ Doing

LEMMA MainInit == Init => MainInv
<1> SUFFICES ASSUME Init PROVE MainInv
  OBVIOUS
<1>1. setup \in Setups /\ Len(setup.program) \in Nat /\ setup.regs \subseteq File
      /\ setup.quota \in [Irqs -> Nat] /\ setup.devices \subseteq Irqs
  BY ExceptionsAssumption DEF Init
<1>2. frames \in Seq(Stack) /\ Len(frames) = 0 /\ pc.at = "main"
  BY DEF Init, Main, At
<1>3. Typed
  <2>1. pos <= Len(setup.program) + 1
    BY <1>1 DEF Init
  <2>2. regs \in File /\ request \subseteq Irqs /\ handler \subseteq Irqs
        /\ quota \in [Irqs -> Nat] /\ api \in BOOLEAN /\ repaired \in BOOLEAN
    BY <1>1 DEF Init
  <2> QED
    BY <1>2, <2>1, <2>2 DEF Typed
<1> QED
  BY <1>2, <1>3 DEF Init, MainInv, MainFirst, Resumes, Doing

LEMMA TopIs ==
  ASSUME ExcInv, MainInv
  PROVE  /\ Len(frames) \in Nat /\ (frames = << >> <=> Len(frames) = 0)
         /\ pc \in Codes => (pc = Main <=> Len(frames) = 0)
         /\ pc \in Masked => (pc.from = Main <=> Len(frames) = 0) /\ pc.from \in Codes
         /\ Len(frames) > 0 => /\ frames[1].pc = Main /\ Frame.pc \in Codes
                               /\ Frame.pc = Main <=> Len(frames) = 1
<1>1. Len(frames) \in Nat /\ (frames = << >> <=> Len(frames) = 0)
  BY DEF MainInv, Typed
<1>2. ASSUME pc \in Codes PROVE pc = Main <=> Len(frames) = 0
  <2>1. Len(frames) = 0 => pc \notin Handlers
    BY DEF ExcInv, Closed, Calm
  <2> QED
    BY <1>2, <2>1 DEF MainInv, MainFirst, Codes
<1>3. ASSUME pc \in Masked
      PROVE (pc.from = Main <=> Len(frames) = 0) /\ pc.from \in Codes
  <2>1. pc.from \in Codes /\ pc.at = "call"
    BY <1>3 DEF Masked, Codes
  <2>2. Len(frames) = 0 => pc.from \notin Handlers
    BY <1>3 DEF ExcInv, InCall, Calm
  <2> QED
    BY <2>1, <2>2 DEF MainInv, MainFirst, Codes
<1>4. ASSUME Len(frames) > 0
      PROVE /\ frames[1].pc = Main /\ Frame.pc \in Codes
            /\ Frame.pc = Main <=> Len(frames) = 1
  <2>1. Resumable(1) /\ Resumable(Len(frames))
    BY <1>1, <1>4 DEF ExcInv, Shape
  <2>2. frames[1].pc = Main
    BY <2>1 DEF Resumable, Calm, Codes
  <2>3. Frame.pc \in Codes
    BY <2>1 DEF Resumable, Frame
  <2>4. Frame.pc = Main => Len(frames) = 1
    BY <1>1, <1>4 DEF Frame, MainInv, MainFirst
  <2>5. Len(frames) = 1 => Frame.pc = Main
    BY <2>2 DEF Frame
  <2> QED
    BY <2>2, <2>3, <2>4, <2>5
<1> QED
  BY <1>1, <1>2, <1>3, <1>4

\* Main's instruction.
LEMMA ProgramIs ==
  ASSUME setup \in Setups, pos \in Nat \ {0}, pos <= Len(setup.program)
  PROVE  /\ Instruction(Main) = setup.program[pos] /\ setup.program[pos] \in Instructions
         /\ pos \in DOMAIN setup.program
<1>1. pos \in DOMAIN setup.program
  BY ExceptionsAssumption
<1> QED
  BY <1>1, ExceptionsAssumption DEF Instruction, Main, At, Instructions

LEMMA EffectiveIs ==
  ASSUME setup \in Setups
  PROVE  /\ Len(Effective) = Len(setup.program)
         /\ \A k \in 1 .. Len(setup.program) :
              Effective[k] = IF Lost(setup.program[k]) THEN Nothing ELSE setup.program[k]
<1>1. Len(setup.program) \in Nat /\ DOMAIN setup.program = 1 .. Len(setup.program)
  BY ExceptionsAssumption
<1> DEFINE n == Len(setup.program)
<1>2. DOMAIN Effective = 1 .. n
  BY <1>1 DEF Effective
<1>3. Effective \in Seq({Effective[k] : k \in 1 .. n})
  <2> DEFINE e == Effective
  <2>1. e = [k \in 1 .. n |-> e[k]]
    BY <1>1 DEF Effective
  <2> HIDE DEF e, n
  <2>2. n \in Nat
    BY <1>1 DEF n
  <2>3. e \in [1 .. n -> {e[k] : k \in 1 .. n}]
    BY <2>1
  <2> QED
    BY <2>2, <2>3 DEF e
<1>4. Len(Effective) = n
  BY <1>1, <1>2, <1>3
<1> QED
  BY <1>1, <1>4 DEF Effective

\* A step of main() is a step of the machine.
LEMMA MachineStep ==
  ASSUME setup \in Setups, UNCHANGED setup,
         MainAt \in Nat \ {0}, MainAt <= Len(setup.program), MainAt' = MainAt + 1,
         NEW ins, Effective[MainAt] = ins,
         \/ M!Results(ins) = {} /\ MainRegs' = MainRegs
         \/ \E v \in M!Results(ins) : MainRegs' = Stored(MainRegs, M!Target(ins), v)
  PROVE  M!Step
<1>1. MainAt <= Len(Effective)
  BY EffectiveIs
<1>2. UNCHANGED Effective
  BY DEF Effective, Lost
<1> QED
  BY <1>1, <1>2 DEF M!Step, Stored

\* The controller's side of a step: main()'s frame and registers stay.
LEMMA InPlace ==
  ASSUME ExcInv, MainInv, UNCHANGED <<setup, pos, frames, repaired>>,
         regs' \in File, Len(frames) > 0 \/ regs' = regs, api' \in BOOLEAN,
         request' \subseteq Irqs, handler' \subseteq Irqs, quota' \in [Irqs -> Nat],
         pc.at # "exit" \/ UNCHANGED pc,
         pc' = Main \/ (pc'.at = "call" /\ pc'.from = Main) => Len(frames) = 0,
         pc'.at = "call" /\ pc'.from = Main
           => pos <= Len(setup.program) /\ setup.program[pos].op \in Calls,
         pc'.at = "break" /\ pc'.after /\ Len(frames) = 1
           => pos <= Len(setup.program) /\ Broken(setup.program[pos])
  PROVE  MainInv' /\ UNCHANGED M!vars
<1>1. Typed'
  BY DEF MainInv, Typed
<1>2. MainFirst' /\ Resumes'
  BY DEF MainInv, MainFirst, Resumes
<1>3. Doing'
  BY DEF MainInv, Doing, Broken, Lost
<1>4. UNCHANGED <<MainAt, MainRegs, Effective>>
  BY TopIs DEF MainAt, MainRegs, Effective, Lost
<1> QED
  BY <1>1, <1>2, <1>3, <1>4 DEF MainInv, M!vars

\* Instructions that leave the registers alone.
LEMMA NoResults ==
  /\ M!Results(Nothing) = {}
  /\ \A ins : ins.op \in Calls \cup {"api", "trap", "open"} => M!Results(ins) = {}
  /\ \A ins : ins.op = "load" /\ ins.cause # "none" /\ ~GeneratedBadAddr(ins.cause)
                => M!Results(ins) = {}
<1>1. ASSUME NEW ins, ins.op \notin Emulable \cup {"load"} PROVE M!Results(ins) = {}
  BY <1>1 DEF M!Results, Emulable, Divides, Multiplies
<1>2. ASSUME NEW ins, ins.op = "load", ins.cause # "none", ~GeneratedBadAddr(ins.cause)
      PROVE  M!Results(ins) = {}
  BY <1>2 DEF M!Results
<1>3. Nothing.op \notin Emulable \cup {"load"}
  BY DEF Nothing, Emulable, Divides, Multiplies
<1>4. \A ins : ins.op \in Calls \cup {"api", "trap", "open"} => ins.op \notin Emulable \cup {"load"}
  BY DEF Calls, Registry, Emulable, Divides, Multiplies
<1> QED
  BY <1>1, <1>2, <1>3, <1>4

LEMMA SetupIs ==
  ASSUME ExcInv PROVE setup \in Setups /\ pos \in Nat \ {0} /\ Len(setup.program) \in Nat
BY ExceptionsAssumption DEF ExcInv, Shape

\* main() or its call has done its instruction, no exception below it.
LEMMA MainPasses ==
  ASSUME ExcInv, MainInv, Len(frames) = 0, UNCHANGED <<setup, frames, repaired>>,
         Passed(Main), pos <= Len(setup.program),
         regs' \in File, api' \in BOOLEAN,
         request' \subseteq Irqs, handler' \subseteq Irqs, quota' \in [Irqs -> Nat],
         LET ins == setup.program[pos]
         IN \/ M!Results(ins) = {} /\ regs' = regs
            \/ ~Lost(ins) /\ \E v \in M!Results(ins) : regs' = Stored(regs, M!Target(ins), v)
  PROVE  MainInv' /\ M!Step
<1>1. setup \in Setups /\ pos \in Nat \ {0} /\ Len(setup.program) \in Nat
  BY SetupIs
<1>2. pos' = pos + 1 /\ pc' = Main /\ Main.at = "main"
  BY DEF Passed, Main, At
<1>3. Typed'
  BY <1>1, <1>2 DEF MainInv, Typed
<1>4. MainFirst' /\ Resumes' /\ Doing'
  BY <1>2 DEF MainInv, MainFirst, Resumes, Doing
<1>5. frames = << >> /\ frames' = << >>
  BY TopIs
<1>6. MainAt = pos /\ MainAt' = pos + 1 /\ MainRegs = regs /\ MainRegs' = regs'
  BY <1>2, <1>5 DEF MainAt, MainRegs
<1>7. Effective[pos] = IF Lost(setup.program[pos]) THEN Nothing ELSE setup.program[pos]
  BY <1>1, EffectiveIs
<1>8. M!Step
  <2>1. CASE Lost(setup.program[pos])
    BY <1>1, <1>6, <1>7, <2>1, MachineStep, NoResults
  <2>2. CASE ~Lost(setup.program[pos])
    BY <1>1, <1>6, <1>7, <2>2, MachineStep
  <2> QED
    BY <2>1, <2>2
<1> QED
  BY <1>3, <1>4, <1>8 DEF MainInv

LEMMA MainExecutes ==
  ASSUME ExcInv, MainInv, Execute \/ RegisterApi
  PROVE  MainInv' /\ (M!Step \/ UNCHANGED M!vars)
<1> DEFINE ins == Instruction(pc)
<1>1. pc \in Codes /\ Passed(pc) /\ UNCHANGED <<setup, frames, repaired, controller, quota>>
  BY AtInstruction DEF Execute, RegisterApi
<1>2. setup \in Setups /\ pos \in Nat \ {0} /\ Len(setup.program) \in Nat
  BY SetupIs
<1>3. ins \in Instructions /\ ins.op \in {"load", "api"} /\ ins.op # "none"
  BY <1>1, <1>2, InstructionIn DEF Execute, RegisterApi
<1>4. request' \subseteq Irqs /\ handler' \subseteq Irqs /\ quota' \in [Irqs -> Nat]
  BY <1>1 DEF MainInv, Typed, controller
<1>5. regs' \in File /\ api' \in BOOLEAN
  <2>1. CASE Execute
    <3>1. ins.op = "load" /\ regs' = Stored(regs, ins.c, ins.imm) /\ api' = api
      BY <2>1 DEF Execute
    <3>2. ins.c \in Regs /\ ins.imm \in Word
      BY <1>3, <3>1, ExceptionsAssumption
    <3> QED
      BY <3>1, <3>2, StoredTyped DEF MainInv, Typed
  <2>2. CASE RegisterApi
    <3>1. ins.op = "api" /\ regs' = regs /\ api' = ins.on
      BY <2>2 DEF RegisterApi
    <3> QED
      BY <1>3, <3>1, ExceptionsAssumption DEF MainInv, Typed
  <2> QED
    BY <2>1, <2>2
<1>6. CASE Len(frames) = 0
  <2>1. pc = Main /\ pos <= Len(setup.program) /\ ins = setup.program[pos]
    <3>1. pc = Main
      BY <1>1, <1>6, TopIs
    <3>2. pos <= Len(setup.program)
      BY <1>2, <1>3, <3>1 DEF Instruction, Main, At, Nothing
    <3> QED
      BY <1>2, <3>1, <3>2, ProgramIs
  <2>2. \/ M!Results(ins) = {} /\ regs' = regs
        \/ ~Lost(ins) /\ \E v \in M!Results(ins) : regs' = Stored(regs, M!Target(ins), v)
    <3>1. CASE RegisterApi
      BY <3>1, NoResults DEF RegisterApi
    <3>2. CASE Execute
      <4>1. ins.op = "load" /\ ~Faults(ins) /\ regs' = Stored(regs, ins.c, ins.imm)
        BY <3>2 DEF Execute
      <4>2. ins.cause = "none" \/ (GeneratedBadAddr(ins.cause) /\ repaired)
        BY <4>1 DEF Faults
      <4>3. M!Results(ins) = {ins.imm} /\ M!Target(ins) = ins.c
        BY <4>1, <4>2 DEF M!Results, M!Target
      <4>4. ~Lost(ins)
        BY <4>1, <4>2 DEF Lost, MainInv, Doing, Emulable, Divides, Multiplies
      <4> QED
        BY <4>1, <4>3, <4>4
    <3> QED
      BY <3>1, <3>2
  <2> HIDE DEF ins
  <2>3. MainInv' /\ M!Step
    BY <1>1, <1>4, <1>5, <1>6, <2>1, <2>2, MainPasses
  <2> QED
    BY <2>3
<1>7. CASE Len(frames) # 0
  <2>1. pc \in Handlers /\ Len(frames) > 0
    BY <1>1, <1>7, TopIs DEF Codes
  <2>2. pos' = pos /\ pc' \in Handlers /\ pc'.at = "isr" /\ pc' # Main
    <3>1. Nothing \in Instructions
      BY DEF Instructions
    <3> QED
      BY <1>1, <2>1, <3>1 DEF Passed, Handlers, Main, At
  <2>3. pc.at # "exit"
    BY <2>1 DEF Handlers
  <2> QED
    BY <1>1, <1>4, <1>5, <2>1, <2>2, <2>3, InPlace
<1> QED
  BY <1>6, <1>7

LEMMA MainEnters ==
  ASSUME ExcInv, MainInv, Enter, pc \in Codes
  PROVE  MainInv' /\ UNCHANGED M!vars
<1> DEFINE f == [pc |-> pc, regs |-> regs, pie |-> pie, after |-> FALSE]
<1>1. /\ frames' = Append(frames, f) /\ pc' = At("irqtest")
      /\ UNCHANGED <<setup, pos, regs, controller, api, repaired, quota>>
  BY DEF Enter
<1>2. f \in Stack
  <2>1. pie \in BOOLEAN
    BY DEF ExcInv, Closed, Calm
  <2> QED
    BY <2>1 DEF Stack, MainInv, Typed
<1>3. f.pc = pc /\ f.after = FALSE /\ f.regs = regs
  OBVIOUS
<1> HIDE DEF f
<1>4. /\ frames' \in Seq(Stack)
      /\ Len(frames') = Len(frames) + 1 /\ Len(frames) \in Nat
      /\ \A k \in 1 .. Len(frames) : frames'[k] = frames[k]
      /\ frames'[Len(frames) + 1] = f
  BY <1>1, <1>2 DEF MainInv, Typed
<1>5. pc' # Main /\ pc'.at = "irqtest" /\ pc.at # "exit"
  BY <1>1, PlaceFacts, PlacesAre DEF Main, At, ExcInv, Shape
<1>6. Typed'
  BY <1>1, <1>4 DEF MainInv, Typed, controller
<1>7. \A k \in 1 .. Len(frames) : ~frames[k].after
  BY <1>5 DEF MainInv, Resumes
<1>8. \A k \in 1 .. Len(frames') : ~frames'[k].after
  BY <1>3, <1>4, <1>7
<1>9. MainFirst'
  <2>1. ASSUME NEW k \in 1 .. Len(frames'), frames'[k].pc = Main PROVE k = 1
    <3>1. CASE k \in 1 .. Len(frames)
      BY <1>4, <2>1, <3>1 DEF MainInv, MainFirst
    <3>2. CASE k = Len(frames) + 1
      BY <1>3, <1>4, <2>1, <3>2, TopIs
    <3> QED
      BY <1>4, <3>1, <3>2
  <2> QED
    BY <1>5, <2>1 DEF MainFirst
<1>10. Resumes' /\ Doing'
  <2>1. Resumes'
    BY <1>8 DEF Resumes
  <2>2. Doing'
    BY <1>1, <1>4, <1>5, <1>8 DEF MainInv, Doing
  <2> QED
    BY <2>1, <2>2
<1>11. UNCHANGED <<MainAt, MainRegs, Effective>>
  <2>1. frames' # << >> /\ ~frames'[1].after
    BY <1>4, <1>8
  <2>2. MainAt' = pos /\ MainAt = pos
    BY <1>1, <1>4, <1>7, <2>1, TopIs DEF MainAt
  <2>3. MainRegs' = MainRegs
    BY <1>3, <1>4, <2>1, TopIs DEF MainRegs
  <2>4. UNCHANGED Effective
    BY <1>1 DEF Effective, Lost
  <2> QED
    BY <2>2, <2>3, <2>4
<1> QED
  BY <1>6, <1>9, <1>10, <1>11 DEF MainInv, M!vars

LEMMA BelowTyped ==
  ASSUME ExcInv, MainInv, Len(frames) > 0
  PROVE  /\ Below \in Seq(Stack) /\ Len(Below) = Len(frames) - 1 /\ Len(frames) \in Nat
         /\ \A k \in 1 .. (Len(frames) - 1) : Below[k] = frames[k]
         /\ Frame \in Stack
<1>1. /\ Len(Below) = Len(frames) - 1 /\ Len(frames) \in Nat
      /\ \A k \in 1 .. (Len(frames) - 1) : Below[k] = frames[k]
  BY BelowFacts
<1>2. \A k \in 1 .. Len(frames) : frames[k] \in Stack
  BY DEF MainInv, Typed
<1>3. Below \in Seq(Stack)
  <2> DEFINE n == Len(frames) - 1
  <2>1. frames \in Seq(Stack) /\ n \in Int /\ n >= 0 /\ \A k \in 1 .. n : frames[k] \in Stack
    BY <1>1, <1>2 DEF MainInv, Typed
  <2> HIDE DEF n
  <2>2. SubSeq(frames, 1, n) \in Seq(Stack)
    BY <2>1, SubSeqProperties
  <2> QED
    BY <2>2 DEF Below, n
<1>4. Frame \in Stack
  BY <1>1, <1>2 DEF Frame
<1> QED
  BY <1>1, <1>3, <1>4

\* A software exception: what it leaves in main()'s frame is what the machine does.
LEMMA MainReframes ==
  ASSUME ExcInv, MainInv, NEW saved \in File, NEW after \in BOOLEAN,
         Reframe(saved, after), Goes(At("exit")), pc \notin Codes \cup Masked, pc.at # "exit",
         api' \in BOOLEAN, repaired' \in BOOLEAN, repaired' => setup.api, UNCHANGED regs,
         Len(frames) = 1 /\ ~after => saved = frames[1].regs,
         Len(frames) = 1 /\ after =>
           /\ pos <= Len(setup.program)
           /\ LET ins == setup.program[pos]
              IN \/ (M!Results(ins) = {} \/ Lost(ins)) /\ saved = frames[1].regs
                 \/ ~Lost(ins) /\ \E v \in M!Results(ins) :
                      saved = Stored(frames[1].regs, M!Target(ins), v)
  PROVE  MainInv' /\ (M!Step \/ UNCHANGED M!vars)
<1> DEFINE f == [pc |-> Frame.pc, regs |-> saved, pie |-> Frame.pie, after |-> after]
           b == Below
<1>1. Len(frames) > 0
  BY DEF ExcInv, Closed
<1>2. /\ b \in Seq(Stack) /\ Len(b) = Len(frames) - 1 /\ Len(frames) \in Nat
      /\ \A k \in 1 .. (Len(frames) - 1) : b[k] = frames[k]
      /\ Frame \in Stack
  BY <1>1, BelowTyped
<1>3. f \in Stack
  BY <1>2 DEF Stack
<1>4. frames' = Append(b, f) /\ f.pc = Frame.pc /\ f.regs = saved /\ f.after = after
  BY DEF Reframe
<1> HIDE DEF f, b
<1>5. /\ frames' \in Seq(Stack) /\ Len(frames') = Len(frames)
      /\ \A k \in 1 .. (Len(frames) - 1) : frames'[k] = frames[k]
      /\ frames'[Len(frames)] = f
  <2>1. /\ frames' \in Seq(Stack) /\ Len(frames') = Len(b) + 1 /\ Len(b) \in Nat
        /\ \A k \in 1 .. Len(b) : frames'[k] = b[k]
        /\ frames'[Len(b) + 1] = f
    BY <1>2, <1>3, <1>4
  <2> QED
    BY <1>2, <2>1
<1>6. /\ pc' = At("exit") /\ pc'.at = "exit" /\ pc' # Main
      /\ UNCHANGED <<setup, pos, controller, quota>>
  BY PlacesAre DEF Goes, Main, At
<1>7. \A k \in 1 .. Len(frames) : ~frames[k].after
  BY DEF MainInv, Resumes
<1>8. \A k \in 1 .. (Len(frames) - 1) : ~frames'[k].after
  BY <1>2, <1>5, <1>7
<1>9. Typed'
  BY <1>5, <1>6 DEF MainInv, Typed, controller
<1>10. MainFirst'
  <2>1. ASSUME NEW k \in 1 .. Len(frames) PROVE frames'[k].pc = frames[k].pc
    BY <1>2, <1>4, <1>5 DEF Frame
  <2> QED
    BY <1>5, <1>6, <2>1 DEF MainInv, MainFirst
<1>11. Resumes'
  <2>1. ASSUME NEW k \in 1 .. Len(frames'), frames'[k].after PROVE k = Len(frames')
    BY <1>2, <1>5, <1>8, <2>1
  <2> QED
    BY <1>6, <2>1 DEF Resumes
<1>12. Doing'
  <2>1. Len(frames) > 1 => ~frames'[1].after
    BY <1>2, <1>8
  <2>2. Len(frames) = 1 => frames'[1].after = after
    BY <1>4, <1>5
  <2> QED
    BY <1>1, <1>2, <1>5, <1>6, <2>1, <2>2 DEF Doing
<1>13. M!Step \/ UNCHANGED M!vars
  <2>0. UNCHANGED Effective /\ frames # << >> /\ frames' # << >> /\ ~frames[1].after
    BY <1>1, <1>2, <1>5, <1>6, <1>7 DEF Effective, Lost
  <2>1. MainAt = pos /\ MainRegs = frames[1].regs /\ MainRegs' = frames'[1].regs
    BY <2>0 DEF MainAt, MainRegs
  <2>2. CASE Len(frames) > 1
    <3>1. frames'[1] = frames[1]
      BY <1>2, <1>5, <2>2
    <3>2. MainAt' = pos /\ MainRegs' = MainRegs
      BY <1>6, <2>0, <2>1, <3>1 DEF MainAt
    <3> QED
      BY <2>0, <2>1, <3>2 DEF M!vars
  <2>3. CASE Len(frames) = 1 /\ ~after
    <3>1. frames'[1].after = after /\ frames'[1].regs = saved
      BY <1>4, <1>5, <2>3
    <3>2. MainAt' = pos /\ MainRegs' = MainRegs
      BY <1>6, <2>1, <2>3, <3>1 DEF MainAt
    <3> QED
      BY <2>0, <2>1, <3>2 DEF M!vars
  <2>4. CASE Len(frames) = 1 /\ after
    <3>1. frames'[1].after = after /\ frames'[1].regs = saved
      BY <1>4, <1>5, <2>4
    <3>2. MainAt' = pos + 1 /\ MainRegs' = saved
      BY <1>6, <2>0, <2>1, <2>4, <3>1 DEF MainAt
    <3>3. setup \in Setups /\ pos \in Nat \ {0} /\ Len(setup.program) \in Nat
      BY SetupIs
    <3>4. pos <= Len(setup.program)
          /\ Effective[pos] = IF Lost(setup.program[pos]) THEN Nothing ELSE setup.program[pos]
      BY <2>4, <3>3, EffectiveIs
    <3>5. CASE Lost(setup.program[pos])
      BY <1>6, <2>1, <2>4, <3>2, <3>3, <3>4, <3>5, MachineStep, NoResults
    <3>6. CASE ~Lost(setup.program[pos])
      BY <1>6, <2>1, <2>4, <3>2, <3>3, <3>4, <3>6, MachineStep
    <3> QED
      BY <3>5, <3>6
  <2> QED
    BY <1>1, <1>2, <2>2, <2>3, <2>4
<1> QED
  BY <1>9, <1>10, <1>11, <1>12, <1>13 DEF MainInv

\* What the exception handler finds at -4(ea).
LEMMA CauseIs ==
  ASSUME ExcInv, MainInv, Len(frames) > 0, Cause.op # "none"
  PROVE  /\ Cause \in Instructions /\ Frame \in Stack
         /\ Len(frames) = 1 => /\ pos <= Len(setup.program) /\ Cause = setup.program[pos]
                               /\ Frame = frames[1] /\ MainRegs = frames[1].regs
<1>1. setup \in Setups /\ pos \in Nat \ {0} /\ Len(setup.program) \in Nat
  BY SetupIs
<1>2. Frame \in Stack /\ Frame.pc \in Codes
  BY BelowTyped DEF Stack
<1>3. Cause \in Instructions
  BY <1>1, <1>2, InstructionIn DEF Cause
<1>4. ASSUME Len(frames) = 1
      PROVE  /\ pos <= Len(setup.program) /\ Cause = setup.program[pos]
             /\ Frame = frames[1] /\ MainRegs = frames[1].regs
  <2>1. Frame.pc = Main /\ Frame = frames[1] /\ frames # << >>
    BY <1>4, TopIs DEF Frame
  <2>2. Cause = Instruction(Main)
    BY <2>1 DEF Cause
  <2>3. pos <= Len(setup.program)
    BY <1>1, <2>2 DEF Instruction, Main, At, Nothing
  <2> QED
    BY <1>1, <2>1, <2>2, <2>3, ProgramIs DEF MainRegs
<1> QED
  BY <1>2, <1>3, <1>4

LEMMA MainEmulated ==
  ASSUME ExcInv, MainInv, Emulate
  PROVE  MainInv' /\ (M!Step \/ UNCHANGED M!vars)
<1>1. /\ pc = At("notirq") /\ setup.emulates /\ Cause.op \in Emulable
      /\ Reframe(Emulated(Frame.regs, Cause), TRUE) /\ Goes(At("exit"))
      /\ UNCHANGED <<regs, api, repaired>>
  BY DEF Emulate
<1>2. pc.at # "exit" /\ pc \notin Codes \cup Masked /\ Len(frames) > 0
  BY <1>1, PlacesAre, InException
<1>3. Cause.op # "none"
  BY <1>1 DEF Emulable, Divides, Multiplies
<1>4. Cause \in Instructions /\ Frame.regs \in File
  BY <1>2, <1>3, CauseIs DEF Stack
<1>5. {Cause.a, Cause.b, Cause.c} \subseteq Regs /\ Cause.imm \in Int
  BY <1>1, <1>4, ExceptionsAssumption
<1> DEFINE saved == Emulated(Frame.regs, Cause)
<1>6. saved \in File /\ saved = Stored(Frame.regs, M!Target(Cause), Computed(Frame.regs, Cause))
  BY <1>1, <1>4, <1>5, EmulatedStores
<1>7. api' \in BOOLEAN /\ repaired' \in BOOLEAN /\ (repaired' => setup.api)
  BY <1>1 DEF MainInv, Typed, Doing
<1>8. ASSUME Len(frames) = 1
      PROVE  /\ pos <= Len(setup.program) /\ ~Lost(setup.program[pos])
             /\ \E v \in M!Results(setup.program[pos]) :
                  saved = Stored(frames[1].regs, M!Target(setup.program[pos]), v)
  <2>1. /\ pos <= Len(setup.program) /\ Cause = setup.program[pos]
        /\ Frame = frames[1] /\ MainRegs = frames[1].regs
    BY <1>2, <1>3, <1>8, CauseIs
  <2>2. ~Lost(Cause)
    BY <1>1 DEF Lost, Emulable, Divides, Multiplies
  <2>3. Computed(MainRegs, Cause) \in M!Results(Cause)
    BY <1>1, <1>4, <1>5, <2>1, EmulatedRight
  <2> QED
    BY <1>6, <2>1, <2>2, <2>3
<1> HIDE DEF saved
<1>9. Reframe(saved, TRUE)
  BY <1>1 DEF saved
<1> QED
  BY <1>1, <1>2, <1>6, <1>7, <1>8, <1>9, MainReframes

LEMMA MainAsks ==
  ASSUME ExcInv, MainInv, AskHandler
  PROVE  MainInv' /\ (M!Step \/ UNCHANGED M!vars)
<1> DEFINE after == After(IF HasAddr THEN Reissue ELSE Skip)
<1>1. /\ pc = At("notirq") /\ setup.api /\ Unknown
      /\ repaired' = (repaired \/ HasAddr)
      /\ Reframe(Frame.regs, after) /\ Goes(At("exit")) /\ UNCHANGED <<regs, api>>
  BY DEF AskHandler
<1>2. pc.at # "exit" /\ pc \notin Codes \cup Masked /\ Len(frames) > 0
  BY <1>1, PlacesAre, InException
<1>3. \/ Cause.op = "load" /\ Cause.cause # "none"
      \/ Cause.op # "none" /\ Lost(Cause)
  BY <1>1 DEF Unknown, Faults, Lost, Emulable, Divides, Multiplies
<1>4. Frame.regs \in File
  BY <1>2, BelowTyped DEF Stack
<1>5. after \in BOOLEAN /\ (after => ~HasAddr)
  BY DEF After, Reissue, Skip
<1>6. api' \in BOOLEAN /\ repaired' \in BOOLEAN /\ (repaired' => setup.api)
  BY <1>1 DEF MainInv, Typed, Doing, HasAddr, GeneratedBadAddr
<1>7. ASSUME Len(frames) = 1
      PROVE  Frame.regs = frames[1].regs
  BY <1>7 DEF Frame
<1>8. ASSUME Len(frames) = 1, after
      PROVE  /\ pos <= Len(setup.program)
             /\ M!Results(setup.program[pos]) = {} \/ Lost(setup.program[pos])
  <2>1. pos <= Len(setup.program) /\ Cause = setup.program[pos]
    BY <1>2, <1>3, <1>8, CauseIs
  <2>2. CASE Cause.op = "load" /\ Cause.cause # "none"
    <3>1. ~GeneratedBadAddr(Cause.cause)
      BY <1>5, <1>8, <2>2 DEF HasAddr
    <3> QED
      BY <2>1, <2>2, <3>1, NoResults
  <2>3. CASE Lost(Cause)
    BY <2>1, <2>3
  <2> QED
    BY <1>3, <2>2, <2>3
<1> HIDE DEF after
<1> QED
  BY <1>1, <1>2, <1>4, <1>5, <1>6, <1>7, <1>8, MainReframes

LEMMA MainContinues ==
  ASSUME ExcInv, MainInv, Continue
  PROVE  MainInv' /\ (M!Step \/ UNCHANGED M!vars)
<1>1. /\ pc.at = "break" /\ Reframe(Frame.regs, pc.after) /\ Goes(At("exit"))
      /\ UNCHANGED <<regs, api, repaired>>
  BY DEF Continue
<1>2. pc.at # "exit" /\ pc \notin Codes \cup Masked /\ Len(frames) > 0
  BY <1>1, InException
<1>3. pc.after \in BOOLEAN
  BY <1>1 DEF ExcInv, Shape, Places, Codes, Masked, Handlers, At, Main
<1>4. Frame.regs \in File
  BY <1>2, BelowTyped DEF Stack
<1>5. api' \in BOOLEAN /\ repaired' \in BOOLEAN /\ (repaired' => setup.api)
  BY <1>1 DEF MainInv, Typed, Doing
<1>6. ASSUME Len(frames) = 1 PROVE Frame.regs = frames[1].regs
  BY <1>6 DEF Frame
<1>7. ASSUME Len(frames) = 1, pc.after
      PROVE  /\ pos <= Len(setup.program)
             /\ M!Results(setup.program[pos]) = {} \/ Lost(setup.program[pos])
  BY <1>1, <1>7, NoResults DEF MainInv, Doing, Broken
<1> QED
  BY <1>1, <1>2, <1>3, <1>4, <1>5, <1>6, <1>7, MainReframes

LEMMA MainExits ==
  ASSUME ExcInv, MainInv, Exit
  PROVE  MainInv' /\ UNCHANGED M!vars
<1>1. /\ pc.at = "exit" /\ frames' = Below /\ regs' = Frame.regs
      /\ IF Frame.after THEN Passed(Frame.pc) ELSE pc' = Frame.pc /\ pos' = pos
      /\ UNCHANGED <<setup, controller, api, repaired, quota>>
  BY PlacesAre DEF Exit
<1>2. Len(frames) > 0
  BY <1>1, InException
<1>3. /\ frames' \in Seq(Stack) /\ Len(frames') = Len(frames) - 1 /\ Len(frames) \in Nat
      /\ \A k \in 1 .. (Len(frames) - 1) : frames'[k] = frames[k]
      /\ Frame \in Stack /\ Frame.pc \in Codes
  BY <1>1, <1>2, BelowTyped DEF Stack
<1>4. /\ setup \in Setups /\ pos \in Nat \ {0} /\ Len(setup.program) \in Nat
      /\ pos <= Len(setup.program) + 1
  BY SetupIs DEF MainInv, Typed
<1>5. Frame.pc = Main <=> Len(frames) = 1
  BY <1>2, TopIs
<1>6. /\ pc' \in Codes /\ (pc' = Main <=> Len(frames) = 1) /\ pc'.at \notin {"call", "break"}
      /\ pos' = IF Frame.after /\ Len(frames) = 1 THEN pos + 1 ELSE pos
  <2>1. Nothing \in Instructions /\ Main \notin Handlers
    BY DEF Instructions, Main, At, Handlers
  <2>2. CASE Frame.pc = Main
    <3>1. pc' = Main /\ pos' = IF Frame.after THEN pos + 1 ELSE pos
      BY <1>1, <2>2 DEF Passed, Main, At
    <3> QED
      BY <1>5, <2>2, <3>1 DEF Codes, Main, At
  <2>3. CASE Frame.pc \in Handlers
    <3>1. pc' \in Handlers /\ pos' = pos
      BY <1>1, <2>1, <2>3 DEF Passed, Handlers
    <3>2. Frame.pc # Main /\ pc' # Main /\ pc'.at = "isr"
      BY <2>1, <2>3, <3>1 DEF Handlers
    <3> QED
      BY <1>5, <3>1, <3>2 DEF Codes
  <2> QED
    BY <1>3, <2>2, <2>3 DEF Codes
<1>7. Len(frames) = 1 => Frame = frames[1]
  BY DEF Frame
<1>8. pos' <= Len(setup.program) + 1
  BY <1>2, <1>4, <1>6, <1>7 DEF MainInv, Doing
<1>9. Typed'
  BY <1>1, <1>3, <1>8 DEF MainInv, Typed, controller, Stack
<1>10. \A k \in 1 .. Len(frames') : ~frames'[k].after
  BY <1>3 DEF MainInv, Resumes
<1>11. MainFirst'
  <2>1. \A k \in 1 .. Len(frames') : frames'[k].pc = frames[k].pc /\ k \in 1 .. Len(frames)
    BY <1>3
  <2> QED
    BY <1>3, <1>6, <2>1 DEF MainInv, MainFirst
<1>12. Resumes' /\ Doing'
  <2>1. Resumes'
    BY <1>10 DEF Resumes
  <2>2. Doing'
    BY <1>1, <1>3, <1>6, <1>10 DEF MainInv, Doing
  <2> QED
    BY <2>1, <2>2
<1>13. UNCHANGED <<MainAt, MainRegs, Effective>>
  <2>1. UNCHANGED Effective
    BY <1>1 DEF Effective, Lost
  <2>2. frames # << >> /\ (frames' = << >> <=> Len(frames) = 1)
    BY <1>2, <1>3
  <2>3. CASE Len(frames) = 1
    <3>1. MainAt = IF Frame.after THEN pos + 1 ELSE pos
      BY <1>7, <2>2, <2>3 DEF MainAt
    <3>2. MainAt' = pos' /\ MainRegs' = regs' /\ MainRegs = Frame.regs
      BY <1>7, <2>2, <2>3 DEF MainAt, MainRegs
    <3> QED
      BY <1>1, <1>6, <2>1, <2>3, <3>1, <3>2
  <2>4. CASE Len(frames) > 1
    <3>1. frames'[1] = frames[1] /\ ~frames[1].after
      BY <1>3, <2>4 DEF MainInv, Resumes
    <3>2. Len(frames) # 1 /\ frames' # << >>
      BY <1>3, <2>2, <2>4
    <3>3. MainAt = pos /\ MainAt' = pos'
      BY <2>2, <3>1, <3>2 DEF MainAt
    <3>4. MainRegs' = MainRegs
      BY <2>2, <3>1, <3>2 DEF MainRegs
    <3> QED
      BY <1>6, <2>1, <3>2, <3>3, <3>4
  <2> QED
    BY <1>2, <1>3, <2>3, <2>4
<1> QED
  BY <1>9, <1>11, <1>12, <1>13 DEF MainInv, M!vars

\* The steps that leave main()'s frame as it is: the interrupt test, the breaks,
\* the dispatch, the handlers' own steps and the devices.
LEMMA MainWaits ==
  ASSUME ExcInv, MainInv,
         \/ IrqTest \/ Trap \/ BreakSkip \/ BreakReissue \/ AltIrqPending \/ Scan \/ Return
         \/ Acknowledge \/ Interruptible \/ NonInterruptible
         \/ (\E i \in Irqs : Request(i)) \/ UNCHANGED vars
  PROVE  MainInv' /\ UNCHANGED M!vars
<1>1. /\ request \subseteq Irqs /\ handler \subseteq Irqs /\ quota \in [Irqs -> Nat]
      /\ regs \in File /\ api \in BOOLEAN
  BY DEF MainInv, Typed
<1>2. CASE IrqTest \/ AltIrqPending \/ Return
  <2>1. /\ UNCHANGED <<setup, pos, frames, repaired, regs, api, request, handler, quota>>
        /\ pc'.at \in {"pending", "notirq", "scan", "exit"} /\ pc.at # "exit"
    BY <1>2, PlacesAre DEF IrqTest, AltIrqPending, Return, Goes, controller, At
  <2>2. pc' # Main
    BY <2>1 DEF Main, At
  <2> QED
    BY <1>1, <2>1, <2>2, InPlace
<1>3. CASE Trap \/ BreakSkip \/ BreakReissue
  <2>1. /\ UNCHANGED <<setup, pos, frames, repaired, regs, api, request, handler, quota>>
        /\ pc'.at = "break" /\ pc = At("notirq") /\ pc.at # "exit"
    BY <1>3, PlacesAre DEF Trap, BreakSkip, BreakReissue, Goes, controller
  <2>2. pc' # Main
    BY <2>1 DEF Main, At
  <2>3. ASSUME pc'.after, Len(frames) = 1
        PROVE  pos <= Len(setup.program) /\ Broken(setup.program[pos])
    <3>a. ASSUME BreakReissue PROVE FALSE
      <4>1. After(Reissue) = FALSE
        BY DEF After, Reissue
      <4>2. pc' = [at |-> "break", after |-> FALSE]
        BY <3>a, <4>1 DEF BreakReissue, Goes
      <4>3. pc'.after = FALSE
        BY <4>2
      <4> QED
        BY <2>3, <4>3
    <3>1. Trap \/ BreakSkip
      BY <1>3, <3>a
    <3>2. Broken(Cause)
      BY <3>1 DEF Trap, BreakSkip, Unknown, Faults, Broken, Lost
    <3>3. Cause.op # "none"
      BY <3>2 DEF Broken, Lost, Emulable, Divides, Multiplies
    <3> QED
      BY <2>3, <3>2, <3>3, CauseIs
  <2> QED
    BY <1>1, <2>1, <2>2, <2>3, InPlace
<1>4. CASE Scan
  <2>1. /\ UNCHANGED <<setup, pos, frames, repaired, api, request, handler, quota>>
        /\ pc'.at = "isr" /\ pc.at = "scan" /\ regs' = Scratch
    BY <1>4 DEF Scan, Goes, Handler, controller
  <2>2. Len(frames) > 0 /\ pc' # Main
    BY <2>1, InException DEF Main, At
  <2>3. regs' \in File
    BY <2>1, WordFacts DEF Scratch, File
  <2> QED
    BY <1>1, <2>1, <2>2, <2>3, InPlace
<1>5. CASE Acknowledge \/ Interruptible \/ NonInterruptible
  <2>1. pc \in Handlers /\ pc.at = "isr"
    BY <1>5, PlaceFacts DEF Acknowledge, Interruptible, NonInterruptible, ExcInv, Shape
  <2>2. /\ UNCHANGED <<setup, pos, frames, repaired, regs, api, handler, quota>>
        /\ request' \subseteq request
    BY <1>5 DEF Acknowledge, Interruptible, NonInterruptible
  <2>3. pc'.at = "isr"
    BY <1>5, <2>1 DEF Acknowledge, Interruptible, NonInterruptible, Handlers
  <2>4. pc' # Main /\ request' \subseteq Irqs
    BY <1>1, <2>2, <2>3 DEF Main, At
  <2> QED
    BY <1>1, <2>1, <2>2, <2>3, <2>4, InPlace
<1>6. CASE (\E i \in Irqs : Request(i)) \/ UNCHANGED vars
  <2>1. UNCHANGED <<setup, pc, pos, frames, repaired, regs, api, handler>>
    BY <1>6 DEF Request, vars, cpu, controller
  <2>2. request' \subseteq Irqs /\ quota' \in [Irqs -> Nat]
    <3>1. CASE UNCHANGED vars
      BY <1>1, <3>1 DEF vars, controller
    <3>2. CASE \E i \in Irqs : Request(i)
      <4>1. PICK i \in Irqs : Request(i)
        BY <3>2
      <4>2. quota[i] \in Nat /\ quota[i] - 1 \in Nat
        BY <1>1, <4>1 DEF Request
      <4> QED
        BY <1>1, <4>1, <4>2 DEF Request
    <3> QED
      BY <1>6, <3>1, <3>2
  <2>3. Typed'
    BY <2>1, <2>2 DEF MainInv, Typed
  <2>4. MainFirst' /\ Resumes' /\ Doing'
    BY <2>1 DEF MainInv, MainFirst, Resumes, Doing, Broken, Lost
  <2>5. UNCHANGED M!vars
    BY <2>1 DEF M!vars, MainAt, MainRegs, Effective, Lost
  <2> QED
    BY <2>3, <2>4, <2>5 DEF MainInv
<1> QED
  BY <1>2, <1>3, <1>4, <1>5, <1>6

LEMMA MainCalls ==
  ASSUME ExcInv, MainInv, DisableAll \/ ReadActive \/ WriteActive \/ Quiet \/ EnableAll
  PROVE  MainInv' /\ (M!Step \/ UNCHANGED M!vars)
<1>1. /\ request \subseteq Irqs /\ handler \subseteq Irqs /\ quota \in [Irqs -> Nat]
      /\ regs \in File /\ api \in BOOLEAN
  BY DEF MainInv, Typed
<1>2. /\ setup \in Setups /\ pos \in Nat \ {0} /\ Len(setup.program) \in Nat
  BY SetupIs
<1>3. CASE DisableAll
  <2>1. /\ Instruction(pc).op \in Calls /\ pc'.at = "call" /\ pc'.from = pc
        /\ UNCHANGED <<setup, pos, frames, repaired, regs, api, request, handler, quota>>
    BY <1>3 DEF DisableAll, controller
  <2>2. Instruction(pc).op # "none"
    BY <2>1 DEF Calls, Registry
  <2>3. pc \in Codes /\ pc.at # "exit" /\ pc' # Main
    BY <2>1, <2>2, AtInstruction, PlaceFacts DEF Main, At, ExcInv, Shape
  <2>4. ASSUME pc = Main
        PROVE  /\ Len(frames) = 0
               /\ pos <= Len(setup.program) /\ setup.program[pos].op \in Calls
    <3>1. Len(frames) = 0
      BY <2>3, <2>4, TopIs
    <3>2. pos <= Len(setup.program)
      BY <1>2, <2>2, <2>4 DEF Instruction, Main, At, Nothing
    <3> QED
      BY <1>2, <2>1, <2>4, <3>1, <3>2, ProgramIs
  <2> QED
    BY <1>1, <2>1, <2>3, <2>4, InPlace
<1>4. CASE ReadActive \/ WriteActive \/ Quiet
  <2>1. pc \in Masked /\ pc.at = "call"
    BY <1>4, PlaceFacts DEF ReadActive, WriteActive, Quiet, ExcInv, Shape
  <2>2. UNCHANGED <<setup, pos, frames, repaired, regs, api>>
    BY <1>4 DEF ReadActive, WriteActive, Quiet
  <2>3. pc'.at = "call" /\ pc'.from = pc.from /\ pc' # Main
    BY <1>4, <2>1 DEF ReadActive, WriteActive, Quiet, Masked, Main, At
  <2>4. request' \subseteq Irqs /\ handler' \subseteq Irqs /\ quota' \in [Irqs -> Nat]
    <3>1. CASE ReadActive
      <4>1. pc.ins \in Instructions /\ pc.ins.op \in Calls
        BY <2>1 DEF Masked, ExcInv, InCall
      <4>2. pc.ins.irq \in Irqs
        BY <4>1, ExceptionsAssumption
      <4>3. handler' \subseteq handler \cup {pc.ins.irq} /\ UNCHANGED <<request, quota>>
        BY <3>1 DEF ReadActive
      <4> QED
        BY <1>1, <4>2, <4>3
    <3>2. CASE WriteActive
      BY <1>1, <3>2 DEF WriteActive
    <3>3. CASE Quiet
      BY <1>1, <3>3 DEF Quiet
    <3> QED
      BY <1>4, <3>1, <3>2, <3>3
  <2>5. pc.from = Main => /\ Len(frames) = 0 /\ pos <= Len(setup.program)
                          /\ setup.program[pos].op \in Calls
    BY <2>1, TopIs DEF MainInv, Doing
  <2> QED
    BY <1>1, <2>1, <2>2, <2>3, <2>4, <2>5, InPlace
<1>5. CASE EnableAll
  <2>1. pc \in Masked /\ pc.at = "call" /\ Passed(pc.from)
        /\ UNCHANGED <<setup, frames, regs, controller, api, repaired, quota>>
    BY <1>5, PlaceFacts DEF EnableAll, ExcInv, Shape
  <2>2. UNCHANGED <<request, handler>>
    BY <2>1 DEF controller
  <2>3. (pc.from = Main <=> Len(frames) = 0) /\ pc.from \in Codes /\ Len(frames) \in Nat
    BY <2>1, TopIs
  <2>4. CASE Len(frames) = 0
    <3>1. pos <= Len(setup.program) /\ setup.program[pos].op \in Calls
      BY <2>1, <2>3, <2>4 DEF MainInv, Doing
    <3>2. M!Results(setup.program[pos]) = {} /\ Passed(Main)
      BY <2>1, <2>3, <2>4, <3>1, NoResults
    <3>3. MainInv' /\ M!Step
      BY <1>1, <2>1, <2>2, <2>4, <3>1, <3>2, MainPasses
    <3> QED
      BY <3>3
  <2>5. CASE Len(frames) # 0
    <3>1. pc.from \in Handlers /\ Len(frames) > 0
      BY <2>3, <2>5 DEF Codes
    <3>2. pos' = pos /\ pc'.at = "isr" /\ pc' # Main /\ pc.at # "exit"
      BY <2>1, <3>1 DEF Passed, Handlers, Main, At
    <3> QED
      BY <1>1, <2>1, <2>2, <3>1, <3>2, InPlace
  <2> QED
    BY <2>4, <2>5
<1> QED
  BY <1>3, <1>4, <1>5

LEMMA MainNext ==
  ExcInv /\ MainInv /\ [Next]_vars => MainInv' /\ [M!Step]_(M!vars)
<1> SUFFICES ASSUME ExcInv, MainInv, [Next]_vars
             PROVE  MainInv' /\ (M!Step \/ UNCHANGED M!vars)
  OBVIOUS
<1>1. CASE Execute \/ RegisterApi
  BY <1>1, MainExecutes
<1>2. CASE Interrupt
  BY <1>2, MainEnters DEF Interrupt, ExcInv, Closed
<1>3. CASE Exception
  <2>1. Instruction(pc).op # "none"
    BY <1>3 DEF Exception, Trapped, Faults, Emulable, Divides, Multiplies
  <2> QED
    BY <1>3, <2>1, AtInstruction, MainEnters DEF Exception
<1>4. CASE Emulate \/ AskHandler \/ Continue
  BY <1>4, MainEmulated, MainAsks, MainContinues
<1>5. CASE Exit
  BY <1>5, MainExits
<1>6. CASE DisableAll \/ ReadActive \/ WriteActive \/ Quiet \/ EnableAll
  BY <1>6, MainCalls
<1>7. CASE \/ IrqTest \/ Trap \/ BreakSkip \/ BreakReissue \/ AltIrqPending \/ Scan \/ Return
           \/ Acknowledge \/ Interruptible \/ NonInterruptible
           \/ (\E i \in Irqs : Request(i)) \/ UNCHANGED vars
  BY <1>7, MainWaits
<1> QED
  BY <1>1, <1>2, <1>3, <1>4, <1>5, <1>6, <1>7 DEF Next, Cpu

\* Every variable has its type: main() stays within its program, every word of the
\* registers and of the frames is a word.
THEOREM IrqTyped == Spec => []ExceptionsTypeOK
<1>1. Init => ExcInv /\ MainInv
  BY ExcInit, MainInit
<1>2. ExcInv /\ MainInv /\ [Next]_vars => ExcInv' /\ MainInv'
  BY ExcNext, MainNext
<1>3. ASSUME ExcInv, MainInv PROVE ExceptionsTypeOK
  <2>1. setup \in Setups /\ pos \in 1 .. (Len(setup.program) + 1)
    BY <1>3, SetupIs DEF MainInv, Typed
  <2>2. pc \in Places /\ active \subseteq Irqs /\ mask \subseteq Irqs
    BY <1>3 DEF ExcInv, Shape
  <2>3. pie \in BOOLEAN
    BY <1>3 DEF ExcInv, Closed, Calm
  <2>4. ienable \subseteq Irqs
    BY <1>3, <2>2, PlaceFacts DEF ExcInv, Shape, InCall, Agreement
  <2> QED
    BY <1>3, <2>1, <2>2, <2>3, <2>4 DEF ExceptionsTypeOK, MainInv, Typed, Stack
<1> QED
  BY <1>1, <1>2, <1>3, PTL DEF Spec

\* main() runs on the machine of the instruction set, for every program, every word
\* size and every interleaving of handlers (alt_exception_entry.S, ..._muldiv.S).
THEOREM MainRunsOnMachine == Spec => IsMachine
<1>1. Init => ExcInv /\ MainInv
  BY ExcInit, MainInit
<1>2. ExcInv /\ MainInv /\ [Next]_vars => ExcInv' /\ MainInv' /\ [M!Step]_(M!vars)
  BY ExcNext, MainNext
<1>3. Init => M!Init
  <2> SUFFICES ASSUME Init PROVE M!Init
    OBVIOUS
  <2>1. frames = << >> /\ pos = 1 /\ regs \in File
    BY ExceptionsAssumption DEF Init
  <2>2. MainAt = 1 /\ MainRegs = regs
    BY <2>1 DEF MainAt, MainRegs
  <2>3. File = [Regs \ {0} -> 0 .. (M!Span - 1)]
    BY DEF File, Word, M!Span
  <2> QED
    BY <2>1, <2>2, <2>3 DEF M!Init
<1> QED
  BY <1>1, <1>2, <1>3, PTL DEF Spec, IsMachine, M!Spec
=============================================================================
