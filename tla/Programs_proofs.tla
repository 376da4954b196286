-------------------------- MODULE Programs_proofs --------------------------
(***************************************************************************)
(* What the programs and services keep, for every value of the constants   *)
(* the assumptions of Programs allow: the light shows one LED at a time,   *)
(* moves along and waits long enough; the polling driver is a serial line; *)
(* a call that prints loses a character at most to each interrupt; the     *)
(* heap's blocks and the profiler's structures are apart, and calls are    *)
(* counted but for the races; a flush, a sleep, a timestamp and an open do *)
(* what they promise.  Each service has inductive invariants of its own,   *)
(* and a step of another service changes none of its variables.            *)
(***************************************************************************)
EXTENDS Programs, Arithmetic, SequenceTheorems

-----------------------------------------------------------------------------
(* The running light *)

Steps == [do : {"set", "wait"}, leds : SUBSET Light!Leds]

\* The LED of a routine's g-th turn, there and back
LedOf(g) == IF g <= 4 THEN g - 1 ELSE 7 - g

SetTo(leds) == [do |-> "set", leds |-> leds]
WaitStep == [do |-> "wait", leds |-> {}]

\* A routine of `rounds' turns: each sets its LED and waits, and with three steps a turn
\* all but the last turn their LED off.
Routine(plan, stride, rounds) ==
  /\ stride \in {2, 3} /\ rounds \in 1 .. 7 /\ Len(plan) = stride * (rounds - 1) + 2
  /\ \A g \in 1 .. rounds : /\ plan[stride * (g - 1) + 1] = SetTo({LedOf(g)})
                           /\ plan[stride * (g - 1) + 2] = WaitStep
  /\ stride = 3 => \A g \in 1 .. (rounds - 1) : plan[stride * (g - 1) + 3] = SetTo({})

\* All but the first n steps of the routine are left.
Rest(plan, n) == /\ todo \in Seq(Steps)
                 /\ n \in 0 .. Len(plan) /\ Len(todo) = Len(plan) - n
                 /\ \A j \in 1 .. Len(todo) : todo[j] = plan[n + j]

\* What was shown before the g-th turn
Before(g) == IF g = 1 THEN shown \in {{}, {0}, {1}} ELSE shown = {LedOf(g - 1)}

\* p steps of the g-th turn are done.
InTurn(plan, stride, rounds, g, p) ==
  /\ Rest(plan, stride * (g - 1) + p)
  /\ p = 2 => stride = 3 \/ g = rounds
  /\ wait # "none" => p = 1
  /\ p # 0 => Light!Lit = {LedOf(g)}
  /\ IF p = 2 \/ wait # "none" THEN shown = {LedOf(g)} ELSE Before(g)

Runs(plan, stride, rounds) ==
  \E g \in 1 .. rounds, p \in 0 .. 2 : InTurn(plan, stride, rounds, g, p)

LightInv ==
  /\ pc \in {"new", "loop", "cycle", "smooth"} /\ wait \in {"none", "poll", "clear"}
  /\ pc \in {"new", "loop"} =>
       /\ todo = <<>> /\ wait = "none"
       /\ shown = {} \/ (shown = Light!Lit /\ shown \in {{0}, {1}})
  /\ pc = "cycle" => Runs(Light!Cycle, 3, 6)
  /\ pc = "smooth" => Runs(Light!Smooth, 2, 7)

\* A time-out that was counted, or is there to be, is a period's end, but for the one
\* under way when the wait began.
WaitInv ==
  /\ ms_count \in Nat /\ elapsed \in Nat /\ timeout \in BOOLEAN
  /\ wait = "clear" => timeout
  /\ wait # "none" => \/ elapsed = Light!Cap
                      \/ ms_count + (IF timeout THEN 1 ELSE 0) <= elapsed + 1

\* Concatenation and length, to be reasoned about by the lemma only
Join(s, u) == s \o u
Length(s) == Len(s)

LEMMA JoinIs ==
  ASSUME NEW s \in Seq(Steps), NEW u \in Seq(Steps)
  PROVE  /\ Join(s, u) \in Seq(Steps) /\ Length(s) \in Nat /\ Length(u) \in Nat
         /\ Length(Join(s, u)) = Length(s) + Length(u)
         /\ \A n \in 1 .. Length(s) : Join(s, u)[n] = s[n]
         /\ \A n \in 1 .. Length(u) : Join(s, u)[Length(s) + n] = u[n]
<1> DEFINE t == Join(s, u)
           m == Length(s)
           k == Length(u)
<1>1. /\ t \in Seq(Steps) /\ m \in Nat /\ k \in Nat /\ Length(t) = m + k
      /\ \A n \in 1 .. (m + k) : t[n] = IF n <= m THEN s[n] ELSE u[n - m]
  BY ConcatProperties DEF Join, Length
<1> HIDE DEF t, m, k
<1>2. \A n \in 1 .. m : t[n] = s[n]
  BY <1>1
<1>3. ASSUME NEW n \in 1 .. k PROVE t[m + n] = u[n]
  <2>1. m + n \in 1 .. (m + k) /\ ~(m + n <= m) /\ (m + n) - m = n
    BY <1>1
  <2> QED
    BY <1>1, <2>1
<1> QED
  BY <1>1, <1>2, <1>3 DEF t, m, k

LEMMA StepsAre ==
  /\ \A led \in Light!Leds : SetTo({led}) \in Steps
  /\ SetTo({}) \in Steps /\ WaitStep \in Steps
BY DEF Steps, SetTo, WaitStep

LEMMA PassIs ==
  ASSUME NEW led \in Light!Leds
  PROVE  /\ Light!Pass(led) \in Seq(Steps) /\ Length(Light!Pass(led)) = 3
         /\ Light!Pass(led)[1] = SetTo({led}) /\ Light!Pass(led)[2] = WaitStep
         /\ Light!Pass(led)[3] = SetTo({})
<1> DEFINE x == SetTo({led})
           y == WaitStep
           z == SetTo({})
<1>1. x \in Steps /\ y \in Steps /\ z \in Steps
  BY StepsAre
<1>2. Light!Pass(led) = <<x>> \o <<y>> \o <<z>>
  BY DEF Light!Pass, Light!On, Light!Off, Light!Wait, SetTo, WaitStep
<1> HIDE DEF x, y, z
<1>3. /\ <<x>> \o <<y>> \o <<z>> \in Seq(Steps) /\ Len(<<x>> \o <<y>> \o <<z>>) = 3
      /\ (<<x>> \o <<y>> \o <<z>>)[1] = x /\ (<<x>> \o <<y>> \o <<z>>)[2] = y
      /\ (<<x>> \o <<y>> \o <<z>>)[3] = z
  BY <1>1
<1> QED
  BY <1>2, <1>3 DEF x, y, z, Length

LEMMA ShowIs ==
  ASSUME NEW led \in Light!Leds
  PROVE  /\ Light!Show(led) \in Seq(Steps) /\ Length(Light!Show(led)) = 2
         /\ Light!Show(led)[1] = SetTo({led}) /\ Light!Show(led)[2] = WaitStep
<1> DEFINE x == SetTo({led})
           y == WaitStep
<1>1. x \in Steps /\ y \in Steps
  BY StepsAre
<1>2. Light!Show(led) = <<x>> \o <<y>>
  BY DEF Light!Show, Light!On, Light!Wait, SetTo, WaitStep
<1> HIDE DEF x, y
<1>3. /\ <<x>> \o <<y>> \in Seq(Steps) /\ Len(<<x>> \o <<y>>) = 2
      /\ (<<x>> \o <<y>>)[1] = x /\ (<<x>> \o <<y>>)[2] = y
  BY <1>1
<1> QED
  BY <1>2, <1>3 DEF x, y, Length

\* The first k turns of a routine, and what a turn adds
Turns(plan, stride, k) ==
  /\ plan \in Seq(Steps) /\ Length(plan) = stride * k
  /\ \A g \in 1 .. k : /\ plan[stride * (g - 1) + 1] = SetTo({LedOf(g)})
                       /\ plan[stride * (g - 1) + 2] = WaitStep
                       /\ stride = 3 => plan[stride * (g - 1) + 3] = SetTo({})

LEMMA TurnAdded ==
  ASSUME NEW stride \in {2, 3}, NEW k \in 0 .. 6, NEW plan, Turns(plan, stride, k)
  PROVE  LET turn == IF stride = 3 THEN Light!Pass(LedOf(k + 1)) ELSE Light!Show(LedOf(k + 1))
         IN  Turns(Join(plan, turn), stride, k + 1)
<1> DEFINE led == LedOf(k + 1)
           u == IF stride = 3 THEN Light!Pass(led) ELSE Light!Show(led)
           t == Join(plan, u)
           m == Length(plan)
<1>1. led \in Light!Leds
  BY DEF LedOf, Light!Leds
<1> HIDE DEF led
<1>2. /\ u \in Seq(Steps) /\ Length(u) = stride /\ u[1] = SetTo({led}) /\ u[2] = WaitStep
      /\ stride = 3 => u[3] = SetTo({})
  <2>1. CASE stride = 3
    BY <1>1, <2>1, PassIs
  <2>2. CASE stride = 2
    BY <1>1, <2>2, ShowIs
  <2> QED
    BY <2>1, <2>2
<1> HIDE DEF u
<1>3. plan \in Seq(Steps) /\ m = stride * k /\ m \in Nat
  <2>1. CASE stride = 3
    BY <2>1 DEF Turns
  <2>2. CASE stride = 2
    BY <2>2 DEF Turns
  <2> QED
    BY <2>1, <2>2
<1>4. /\ t \in Seq(Steps) /\ Length(t) = m + stride
      /\ \A n \in 1 .. m : t[n] = plan[n]
      /\ \A n \in 1 .. stride : t[m + n] = u[n]
  BY <1>2, <1>3, JoinIs
<1> HIDE DEF t, m
<1>5. Length(t) = stride * (k + 1)
  <2>1. CASE stride = 3
    BY <1>3, <1>4, <2>1
  <2>2. CASE stride = 2
    BY <1>3, <1>4, <2>2
  <2> QED
    BY <2>1, <2>2
<1>6. ASSUME NEW g \in 1 .. (k + 1)
      PROVE  /\ t[stride * (g - 1) + 1] = SetTo({LedOf(g)})
             /\ t[stride * (g - 1) + 2] = WaitStep
             /\ stride = 3 => t[stride * (g - 1) + 3] = SetTo({})
  <2>1. CASE g = k + 1
    <3>1. stride * (g - 1) = m
      <4>1. g - 1 = k
        BY <2>1
      <4> QED
        BY <1>3, <4>1
    <3>2. t[m + 1] = u[1] /\ t[m + 2] = u[2] /\ (stride = 3 => t[m + 3] = u[3])
      BY <1>4
    <3>3. led = LedOf(g)
      BY <2>1 DEF led
    <3> QED
      BY <1>2, <3>1, <3>2, <3>3
  <2>2. CASE g \in 1 .. k
    <3> DEFINE n == stride * (g - 1)
    <3>1. n + 1 \in 1 .. m /\ n + 2 \in 1 .. m /\ (stride = 3 => n + 3 \in 1 .. m)
      <4>1. CASE stride = 3
        BY <1>3, <2>2, <4>1
      <4>2. CASE stride = 2
        BY <1>3, <2>2, <4>2
      <4> QED
        BY <4>1, <4>2
    <3>2. /\ plan[n + 1] = SetTo({LedOf(g)}) /\ plan[n + 2] = WaitStep
          /\ stride = 3 => plan[n + 3] = SetTo({})
      BY <2>2 DEF Turns
    <3> HIDE DEF n
    <3>3. t[n + 1] = plan[n + 1] /\ t[n + 2] = plan[n + 2] /\ (stride = 3 => t[n + 3] = plan[n + 3])
      BY <1>4, <3>1
    <3>4. t[n + 1] = SetTo({LedOf(g)}) /\ t[n + 2] = WaitStep /\ (stride = 3 => t[n + 3] = SetTo({}))
      BY <3>2, <3>3
    <3> QED
      BY <3>4 DEF n
  <2> QED
    BY <2>1, <2>2
<1>7. Turns(t, stride, k + 1)
  BY <1>4, <1>5, <1>6 DEF Turns
<1> QED
  BY <1>7 DEF t, u, led

\* The last turn of either routine leaves its LED on.
LEMMA LastAdded ==
  ASSUME NEW stride \in {2, 3}, NEW k \in 0 .. 6, NEW plan, Turns(plan, stride, k)
  PROVE  /\ Join(plan, Light!Show(LedOf(k + 1))) \in Seq(Steps)
         /\ Routine(Join(plan, Light!Show(LedOf(k + 1))), stride, k + 1)
<1> DEFINE led == LedOf(k + 1)
           u == Light!Show(led)
           t == Join(plan, u)
           m == Length(plan)
<1>1. led \in Light!Leds
  BY DEF LedOf, Light!Leds
<1> HIDE DEF led
<1>2. u \in Seq(Steps) /\ Length(u) = 2 /\ u[1] = SetTo({led}) /\ u[2] = WaitStep
  BY <1>1, ShowIs
<1> HIDE DEF u
<1>3. plan \in Seq(Steps) /\ m = stride * k /\ m \in Nat
  <2>1. CASE stride = 3
    BY <2>1 DEF Turns
  <2>2. CASE stride = 2
    BY <2>2 DEF Turns
  <2> QED
    BY <2>1, <2>2
<1>4. /\ t \in Seq(Steps) /\ Length(t) = m + 2
      /\ \A n \in 1 .. m : t[n] = plan[n]
      /\ t[m + 1] = u[1] /\ t[m + 2] = u[2]
  <2> DEFINE w == Length(u)
  <2>1. /\ t \in Seq(Steps) /\ Length(t) = m + w
        /\ \A n \in 1 .. m : t[n] = plan[n]
        /\ \A n \in 1 .. w : t[m + n] = u[n]
    BY <1>2, <1>3, JoinIs
  <2>2. w = 2
    BY <1>2
  <2> HIDE DEF w, t, m
  <2>3. 1 \in 1 .. w /\ 2 \in 1 .. w
    BY <2>2
  <2> QED
    BY <2>1, <2>2, <2>3
<1> HIDE DEF t, m
<1>5. Length(t) = stride * ((k + 1) - 1) + 2 /\ k + 1 \in 1 .. 7
  <2>1. (k + 1) - 1 = k
    OBVIOUS
  <2> QED
    BY <1>3, <1>4, <2>1
<1>6. ASSUME NEW g \in 1 .. (k + 1)
      PROVE  /\ t[stride * (g - 1) + 1] = SetTo({LedOf(g)})
             /\ t[stride * (g - 1) + 2] = WaitStep
  <2>1. CASE g = k + 1
    <3>1. stride * (g - 1) = m
      <4>1. g - 1 = k
        BY <2>1
      <4> QED
        BY <1>3, <4>1
    <3>2. t[m + 1] = u[1] /\ t[m + 2] = u[2]
      BY <1>4
    <3>3. led = LedOf(g)
      BY <2>1 DEF led
    <3> QED
      BY <1>2, <3>1, <3>2, <3>3
  <2>2. CASE g \in 1 .. k
    <3> DEFINE n == stride * (g - 1)
    <3>1. n + 1 \in 1 .. m /\ n + 2 \in 1 .. m
      <4>1. CASE stride = 3
        BY <1>3, <2>2, <4>1
      <4>2. CASE stride = 2
        BY <1>3, <2>2, <4>2
      <4> QED
        BY <4>1, <4>2
    <3>2. plan[n + 1] = SetTo({LedOf(g)}) /\ plan[n + 2] = WaitStep
      BY <2>2 DEF Turns
    <3> HIDE DEF n
    <3>3. t[n + 1] = plan[n + 1] /\ t[n + 2] = plan[n + 2]
      BY <1>4, <3>1
    <3>4. t[n + 1] = SetTo({LedOf(g)}) /\ t[n + 2] = WaitStep
      BY <3>2, <3>3
    <3> QED
      BY <3>4 DEF n
  <2> QED
    BY <2>1, <2>2
<1>7. ASSUME stride = 3, NEW g \in 1 .. ((k + 1) - 1)
      PROVE  t[stride * (g - 1) + 3] = SetTo({})
  <2>1. g \in 1 .. k
    OBVIOUS
  <2> DEFINE n == stride * (g - 1)
  <2>2. n + 3 \in 1 .. m
    BY <1>3, <1>7, <2>1
  <2>3. plan[n + 3] = SetTo({})
    BY <1>7, <2>1 DEF Turns
  <2> HIDE DEF n
  <2>4. t[n + 3] = SetTo({})
    BY <1>4, <2>2, <2>3
  <2> QED
    BY <2>4 DEF n
<1>8. Len(t) = stride * ((k + 1) - 1) + 2
  BY <1>5 DEF Length
<1>9. Routine(t, stride, k + 1)
  BY <1>5, <1>6, <1>7, <1>8 DEF Routine
<1> QED
  BY <1>4, <1>9 DEF t, u, led

LEMMA LedsAre ==
  /\ LedOf(1) = 0 /\ LedOf(2) = 1 /\ LedOf(3) = 2 /\ LedOf(4) = 3
  /\ LedOf(5) = 2 /\ LedOf(6) = 1 /\ LedOf(7) = 0
BY DEF LedOf

LEMMA FirstIs == Turns(Light!Pass(0), 3, 1) /\ Turns(Light!Show(0), 2, 1)
<1>1. 0 \in Light!Leds
  BY DEF Light!Leds
<1> DEFINE p == Light!Pass(0)
           q == Light!Show(0)
<1>2. /\ p \in Seq(Steps) /\ Length(p) = 3 /\ p[1] = SetTo({0}) /\ p[2] = WaitStep
      /\ p[3] = SetTo({})
  BY <1>1, PassIs
<1>3. q \in Seq(Steps) /\ Length(q) = 2 /\ q[1] = SetTo({0}) /\ q[2] = WaitStep
  BY <1>1, ShowIs
<1> HIDE DEF p, q
<1>4. ASSUME NEW g \in 1 .. 1
      PROVE  /\ 3 * (g - 1) + 1 = 1 /\ 3 * (g - 1) + 2 = 2 /\ 3 * (g - 1) + 3 = 3
             /\ 2 * (g - 1) + 1 = 1 /\ 2 * (g - 1) + 2 = 2 /\ LedOf(g) = 0
  BY LedsAre
<1>5. Turns(p, 3, 1)
  <2>1. \A g \in 1 .. 1 : /\ p[3 * (g - 1) + 1] = SetTo({LedOf(g)})
                          /\ p[3 * (g - 1) + 2] = WaitStep
                          /\ p[3 * (g - 1) + 3] = SetTo({})
    BY <1>2, <1>4
  <2> QED
    BY <1>2, <2>1 DEF Turns
<1>6. Turns(q, 2, 1)
  <2>1. \A g \in 1 .. 1 : /\ q[2 * (g - 1) + 1] = SetTo({LedOf(g)})
                          /\ q[2 * (g - 1) + 2] = WaitStep
    BY <1>3, <1>4
  <2> QED
    BY <1>3, <2>1 DEF Turns
<1> QED
  BY <1>5, <1>6 DEF p, q

\* KnightRiderLight.c:129-152
LEMMA CycleIs == Light!Cycle \in Seq(Steps) /\ Routine(Light!Cycle, 3, 6)
<1> DEFINE a == Light!Pass(0)
           b == Join(a, Light!Pass(1))
           c == Join(b, Light!Pass(2))
           d == Join(c, Light!Pass(3))
           e == Join(d, Light!Pass(2))
           f == Join(e, Light!Show(1))
<1>1. Light!Cycle = f
  BY DEF Light!Cycle, Join
<1>2. Turns(a, 3, 1)
  BY FirstIs
<1> HIDE DEF a
<1>3. Turns(b, 3, 2)
  <2>1. 1 \in 0 .. 6 /\ 1 + 1 = 2 /\ 3 \in {2, 3}
    OBVIOUS
  <2> QED
    BY <1>2, <2>1, LedsAre, TurnAdded
<1> HIDE DEF b
<1>4. Turns(c, 3, 3)
  <2>1. 2 \in 0 .. 6 /\ 2 + 1 = 3 /\ 3 \in {2, 3}
    OBVIOUS
  <2> QED
    BY <1>3, <2>1, LedsAre, TurnAdded
<1> HIDE DEF c
<1>5. Turns(d, 3, 4)
  <2>1. 3 \in 0 .. 6 /\ 3 + 1 = 4 /\ 3 \in {2, 3}
    OBVIOUS
  <2> QED
    BY <1>4, <2>1, LedsAre, TurnAdded
<1> HIDE DEF d
<1>6. Turns(e, 3, 5)
  <2>1. 4 \in 0 .. 6 /\ 4 + 1 = 5 /\ 3 \in {2, 3}
    OBVIOUS
  <2> QED
    BY <1>5, <2>1, LedsAre, TurnAdded
<1> HIDE DEF e
<1>7. f \in Seq(Steps) /\ Routine(f, 3, 6)
  <2>1. 5 \in 0 .. 6 /\ 5 + 1 = 6 /\ 3 \in {2, 3}
    OBVIOUS
  <2> QED
    BY <1>6, <2>1, LedsAre, LastAdded
<1> HIDE DEF f
<1> QED
  BY <1>1, <1>7

\* KnightRiderLight.c:154-177
LEMMA SmoothIs == Light!Smooth \in Seq(Steps) /\ Routine(Light!Smooth, 2, 7)
<1> DEFINE a == Light!Show(0)
           b == Join(a, Light!Show(1))
           c == Join(b, Light!Show(2))
           d == Join(c, Light!Show(3))
           e == Join(d, Light!Show(2))
           f == Join(e, Light!Show(1))
           h == Join(f, Light!Show(0))
<1>1. Light!Smooth = h
  BY DEF Light!Smooth, Join
<1>2. Turns(a, 2, 1)
  BY FirstIs
<1> HIDE DEF a
<1>3. Turns(b, 2, 2)
  <2>1. 1 \in 0 .. 6 /\ 1 + 1 = 2 /\ 2 \in {2, 3}
    OBVIOUS
  <2> QED
    BY <1>2, <2>1, LedsAre, TurnAdded
<1> HIDE DEF b
<1>4. Turns(c, 2, 3)
  <2>1. 2 \in 0 .. 6 /\ 2 + 1 = 3 /\ 2 \in {2, 3}
    OBVIOUS
  <2> QED
    BY <1>3, <2>1, LedsAre, TurnAdded
<1> HIDE DEF c
<1>5. Turns(d, 2, 4)
  <2>1. 3 \in 0 .. 6 /\ 3 + 1 = 4 /\ 2 \in {2, 3}
    OBVIOUS
  <2> QED
    BY <1>4, <2>1, LedsAre, TurnAdded
<1> HIDE DEF d
<1>6. Turns(e, 2, 5)
  <2>1. 4 \in 0 .. 6 /\ 4 + 1 = 5 /\ 2 \in {2, 3}
    OBVIOUS
  <2> QED
    BY <1>5, <2>1, LedsAre, TurnAdded
<1> HIDE DEF e
<1>7. Turns(f, 2, 6)
  <2>1. 5 \in 0 .. 6 /\ 5 + 1 = 6 /\ 2 \in {2, 3}
    OBVIOUS
  <2> QED
    BY <1>6, <2>1, LedsAre, TurnAdded
<1> HIDE DEF f
<1>8. h \in Seq(Steps) /\ Routine(h, 2, 7)
  <2>1. 6 \in 0 .. 6 /\ 6 + 1 = 7 /\ 2 \in {2, 3}
    OBVIOUS
  <2> QED
    BY <1>7, <2>1, LedsAre, LastAdded
<1> HIDE DEF h
<1> QED
  BY <1>1, <1>8

LEMMA RestStep ==
  ASSUME NEW plan, NEW n \in Nat, Rest(plan, n), todo # <<>>
  PROVE  /\ n + 1 \in 1 .. Len(plan) /\ Head(todo) = plan[n + 1]
         /\ todo' = Tail(todo) => Rest(plan, n + 1)'
<1>1. /\ todo \in Seq(Steps) /\ n \in 0 .. Len(plan) /\ Len(todo) = Len(plan) - n
      /\ \A j \in 1 .. Len(todo) : todo[j] = plan[n + j]
  BY DEF Rest
<1> DEFINE m == Len(todo)
<1>2. m \in Nat \ {0} /\ Head(todo) = todo[1]
  BY <1>1
<1>3. Len(plan) = n + m
  <2>1. Len(plan) \in Nat
    BY <1>1, <1>2
  <2> QED
    BY <1>1, <2>1
<1>4. n + 1 \in 1 .. Len(plan) /\ Head(todo) = plan[n + 1]
  BY <1>1, <1>2, <1>3
<1>5. ASSUME todo' = Tail(todo) PROVE Rest(plan, n + 1)'
  <2>1. /\ todo' \in Seq(Steps) /\ Len(todo') = m - 1
        /\ \A j \in 1 .. (m - 1) : todo'[j] = todo[j + 1]
    BY <1>1, <1>2, <1>5
  <2> HIDE DEF m
  <2>2. Len(plan) - (n + 1) = m - 1 /\ n + 1 \in 0 .. Len(plan)
    BY <1>2, <1>3
  <2>3. ASSUME NEW j \in 1 .. (m - 1) PROVE todo'[j] = plan[(n + 1) + j]
    <3>1. j + 1 \in 1 .. m /\ n + (j + 1) = (n + 1) + j
      BY <1>2
    <3>2. todo[j + 1] = plan[n + (j + 1)]
      BY <1>1, <3>1 DEF m
    <3> QED
      BY <2>1, <3>1, <3>2
  <2> QED
    BY <2>1, <2>2, <2>3 DEF Rest
<1> QED
  BY <1>4, <1>5

Ended == todo = <<>>

\* Where a turn's steps are
LEMMA StepIs ==
  ASSUME NEW plan, NEW stride, NEW rounds, Routine(plan, stride, rounds),
         NEW g \in 1 .. rounds, NEW p \in 0 .. 2, InTurn(plan, stride, rounds, g, p)
  PROVE  /\ stride * (g - 1) + p \in Nat /\ stride \in {2, 3} /\ rounds \in 1 .. 7
         /\ LedOf(g) \in Light!Leds
         /\ Ended => g = rounds /\ p = 2
         /\ ~Ended => \/ p = 0 /\ Head(todo) = SetTo({LedOf(g)})
                      \/ p = 1 /\ Head(todo) = WaitStep
                      \/ p = 2 /\ stride = 3 /\ g + 1 \in 1 .. rounds
                         /\ Head(todo) = SetTo({})
<1> DEFINE n == stride * (g - 1) + p
<1>1. stride \in {2, 3} /\ rounds \in 1 .. 7 /\ Len(plan) = stride * (rounds - 1) + 2
  BY DEF Routine
<1>2. n \in Nat /\ Len(plan) \in Nat
  <2>1. CASE stride = 2
    BY <1>1, <2>1
  <2>2. CASE stride = 3
    BY <1>1, <2>2
  <2> QED
    BY <1>1, <2>1, <2>2
<1>3. LedOf(g) \in Light!Leds
  BY <1>1 DEF LedOf, Light!Leds
<1>4. Rest(plan, n)
  BY DEF InTurn
<1>5. ASSUME todo = <<>> PROVE g = rounds /\ p = 2
  <2>1. Len(todo) = Len(plan) - n /\ Len(todo) = 0
    BY <1>4, <1>5 DEF Rest
  <2>2. stride * (g - 1) + p = stride * (rounds - 1) + 2
    <3> HIDE DEF n
    <3>1. n = Len(plan)
      BY <1>2, <2>1
    <3> QED
      BY <1>1, <3>1 DEF n
  <2>3. CASE stride = 2
    <3>1. p = 2 => g = rounds
      BY <2>3 DEF InTurn
    <3> QED
      BY <1>1, <2>2, <2>3, <3>1
  <2>4. CASE stride = 3
    BY <1>1, <2>2, <2>4
  <2> QED
    BY <1>1, <2>3, <2>4
<1>6. ASSUME todo # <<>>
      PROVE  \/ p = 0 /\ Head(todo) = SetTo({LedOf(g)})
             \/ p = 1 /\ Head(todo) = WaitStep
             \/ p = 2 /\ stride = 3 /\ g + 1 \in 1 .. rounds /\ Head(todo) = SetTo({})
  <2>1. Head(todo) = plan[n + 1] /\ n + 1 \in 1 .. Len(plan)
    <3> HIDE DEF n
    <3> QED
      BY <1>2, <1>4, <1>6, RestStep
  <2>2. CASE p = 0
    <3>1. n + 1 = stride * (g - 1) + 1
      BY <1>1, <2>2
    <3> QED
      BY <2>1, <2>2, <3>1 DEF Routine
  <2>3. CASE p = 1
    <3>1. n + 1 = stride * (g - 1) + 2
      <4>1. stride * (g - 1) \in Int
        BY <1>1
      <4> QED
        BY <2>3, <4>1
    <3> QED
      BY <2>1, <2>3, <3>1 DEF Routine
  <2>4. CASE p = 2
    <3>1. n + 1 = stride * (g - 1) + 3
      <4>1. stride * (g - 1) \in Int
        BY <1>1
      <4> QED
        BY <2>4, <4>1
    <3>2. stride * (g - 1) + 3 <= stride * (rounds - 1) + 2
      BY <1>1, <2>1, <3>1
    <3>3. g < rounds
      <4>1. CASE stride = 2
        BY <1>1, <3>2, <4>1
      <4>2. CASE stride = 3
        BY <1>1, <3>2, <4>2
      <4> QED
        BY <1>1, <4>1, <4>2
    <3>4. stride = 3
      BY <1>1, <2>4, <3>3 DEF InTurn
    <3>5. g \in 1 .. (rounds - 1) /\ g + 1 \in 1 .. rounds
      BY <1>1, <3>3
    <3> QED
      BY <2>1, <2>4, <3>1, <3>4, <3>5 DEF Routine
  <2> QED
    BY <2>2, <2>3, <2>4
<1> QED
  BY <1>1, <1>2, <1>3, <1>5, <1>6 DEF Ended

\* A step of a routine moves to the next step of the turn, or to the next turn.
LEMMA TurnSet ==
  ASSUME NEW plan, NEW stride, NEW rounds, Routine(plan, stride, rounds),
         Runs(plan, stride, rounds), Light!SetLed
  PROVE  Runs(plan, stride, rounds)' /\ shown' = shown
<1>1. PICK g \in 1 .. rounds, p \in 0 .. 2 : InTurn(plan, stride, rounds, g, p)
  BY DEF Runs
<1>2. /\ todo # <<>> /\ Head(todo).do = "set" /\ todo' = Tail(todo)
      /\ Light!Lit' = Light!Leds \ (Light!Leds \ Head(todo).leds)
      /\ shown' = shown /\ wait' = wait
  BY DEF Light!SetLed, Light!waiting, Light!Lit, Light!Leds
<1> DEFINE n == stride * (g - 1) + p
<1>3. /\ n \in Nat /\ stride \in {2, 3} /\ rounds \in 1 .. 7 /\ LedOf(g) \in Light!Leds
      /\ \/ p = 0 /\ Head(todo) = SetTo({LedOf(g)})
         \/ p = 2 /\ stride = 3 /\ g + 1 \in 1 .. rounds /\ Head(todo) = SetTo({})
  <2>1. /\ n \in Nat /\ stride \in {2, 3} /\ rounds \in 1 .. 7 /\ LedOf(g) \in Light!Leds
        /\ ~Ended => \/ p = 0 /\ Head(todo) = SetTo({LedOf(g)})
                     \/ p = 1 /\ Head(todo) = WaitStep
                     \/ p = 2 /\ stride = 3 /\ g + 1 \in 1 .. rounds
                        /\ Head(todo) = SetTo({})
    BY <1>1, StepIs, Zenon
  <2> HIDE DEF n
  <2> QED
    BY <1>2, <2>1 DEF WaitStep, Ended
<1>4. Rest(plan, n + 1)'
  <2>1. Rest(plan, n)
    BY <1>1 DEF InTurn
  <2> HIDE DEF n
  <2> QED
    BY <1>2, <1>3, <2>1, RestStep
<1>5. wait' = "none" /\ wait = "none"
  BY <1>1, <1>2, <1>3 DEF InTurn
<1>6. CASE p = 0
  <2>1. n + 1 = stride * (g - 1) + 1
    BY <1>3, <1>6
  <2>2. Light!Lit' = {LedOf(g)}
    BY <1>2, <1>3, <1>6 DEF SetTo
  <2>3. Before(g)'
    BY <1>1, <1>2, <1>5, <1>6 DEF InTurn, Before
  <2>4. InTurn(plan, stride, rounds, g, 1)'
    <3> HIDE DEF n
    <3> QED
      BY <1>4, <1>5, <2>1, <2>2, <2>3 DEF InTurn
  <2> QED
    BY <1>2, <2>4 DEF Runs
<1>7. CASE p = 2
  <2>1. stride = 3 /\ g + 1 \in 1 .. rounds
    BY <1>3, <1>7
  <2>2. n + 1 = stride * ((g + 1) - 1) + 0
    BY <1>3, <1>7, <2>1
  <2>3. shown = {LedOf(g)}
    BY <1>1, <1>7 DEF InTurn
  <2>4. Before(g + 1)'
    <3>1. g + 1 # 1 /\ (g + 1) - 1 = g
      OBVIOUS
    <3> QED
      BY <1>2, <2>3, <3>1 DEF Before
  <2>5. InTurn(plan, stride, rounds, g + 1, 0)'
    <3> HIDE DEF n
    <3> QED
      BY <1>4, <1>5, <2>1, <2>2, <2>4 DEF InTurn
  <2>6. 0 \in 0 .. 2
    OBVIOUS
  <2> QED
    BY <1>2, <2>1, <2>5, <2>6 DEF Runs
<1> QED
  BY <1>3, <1>6, <1>7

LEMMA TurnBegin ==
  ASSUME NEW plan, NEW stride, NEW rounds, Routine(plan, stride, rounds),
         Runs(plan, stride, rounds), Light!WaitBegin
  PROVE  Runs(plan, stride, rounds)' /\ Light!MoveStep
<1>1. PICK g \in 1 .. rounds, p \in 0 .. 2 : InTurn(plan, stride, rounds, g, p)
  BY DEF Runs
<1>2. /\ todo # <<>> /\ Head(todo).do = "wait" /\ todo' = todo /\ wait = "none"
      /\ Light!Lit' = Light!Lit /\ shown' = Light!Lit /\ wait' = "poll"
  BY DEF Light!WaitBegin, Light!board, Light!Lit, Light!Leds
<1>3. p = 1 /\ rounds \in 1 .. 7
  BY <1>1, <1>2, StepIs DEF SetTo, Ended
<1>4. Light!Lit = {LedOf(g)} /\ Before(g)
  BY <1>1, <1>2, <1>3 DEF InTurn
<1>5. InTurn(plan, stride, rounds, g, 1)'
  BY <1>1, <1>2, <1>3, <1>4 DEF InTurn, Rest
<1>6. Light!MoveStep
  <2> SUFFICES ASSUME shown # {}, NEW a \in shown PROVE LET m == LedOf(g) IN m \in {a, a + 1} \/ a = m + 1
    BY <1>2, <1>4 DEF Light!MoveStep
  <2>1. CASE g = 1
    BY <1>4, <2>1 DEF Before, LedOf
  <2>2. CASE g # 1
    <3>1. a = LedOf(g - 1)
      BY <1>4, <2>2 DEF Before
    <3> QED
      BY <1>3, <2>2, <3>1 DEF LedOf
  <2> QED
    BY <2>1, <2>2
<1> QED
  BY <1>3, <1>5, <1>6 DEF Runs

LEMMA TurnEnd ==
  ASSUME NEW plan, NEW stride, NEW rounds, Routine(plan, stride, rounds),
         Runs(plan, stride, rounds), Light!WaitEnd
  PROVE  Runs(plan, stride, rounds)' /\ shown' = shown
<1>1. PICK g \in 1 .. rounds, p \in 0 .. 2 : InTurn(plan, stride, rounds, g, p)
  BY DEF Runs
<1>2. /\ todo' = Tail(todo) /\ wait = "poll" /\ wait' = "none"
      /\ Light!Lit' = Light!Lit /\ shown' = shown
  BY DEF Light!WaitEnd, Light!board, Light!Lit, Light!Leds
<1>3. p = 1 /\ Light!Lit = {LedOf(g)} /\ shown = {LedOf(g)}
  BY <1>1, <1>2 DEF InTurn
<1> DEFINE n == stride * (g - 1) + p
<1>4. n \in Nat /\ stride \in {2, 3} /\ rounds \in 1 .. 7 /\ todo # <<>>
  <2>1. n \in Nat /\ stride \in {2, 3} /\ rounds \in 1 .. 7
    BY <1>1, StepIs, Zenon
  <2>2. ASSUME Ended PROVE g = rounds /\ p = 2
    BY <1>1, <2>2, StepIs
  <2> HIDE DEF n
  <2> QED
    BY <1>3, <2>1, <2>2 DEF Ended
<1>5. Rest(plan, n + 1)'
  <2>1. Rest(plan, n)
    BY <1>1 DEF InTurn
  <2> HIDE DEF n
  <2> QED
    BY <1>2, <1>4, <2>1, RestStep
<1>6. CASE stride = 3 \/ g = rounds
  <2>1. n + 1 = stride * (g - 1) + 2
    <3>1. stride * (g - 1) \in Int
      BY <1>4
    <3> QED
      BY <1>3, <3>1
  <2>2. InTurn(plan, stride, rounds, g, 2)'
    <3> HIDE DEF n
    <3> QED
      BY <1>2, <1>3, <1>5, <1>6, <2>1 DEF InTurn
  <2>3. 2 \in 0 .. 2
    OBVIOUS
  <2> QED
    BY <1>2, <2>2, <2>3 DEF Runs
<1>7. CASE stride = 2 /\ g # rounds
  <2>1. g + 1 \in 1 .. rounds /\ n + 1 = stride * ((g + 1) - 1) + 0
    BY <1>3, <1>4, <1>7
  <2>2. Before(g + 1)'
    <3>1. g + 1 # 1 /\ (g + 1) - 1 = g
      OBVIOUS
    <3> QED
      BY <1>2, <1>3, <3>1 DEF Before
  <2>3. InTurn(plan, stride, rounds, g + 1, 0)'
    <3> HIDE DEF n
    <3> QED
      BY <1>2, <1>5, <2>1, <2>2 DEF InTurn
  <2>4. 0 \in 0 .. 2
    OBVIOUS
  <2> QED
    BY <1>2, <2>1, <2>3, <2>4 DEF Runs
<1> QED
  BY <1>4, <1>6, <1>7

LEMMA TurnStays ==
  ASSUME NEW plan, NEW stride, NEW rounds, Runs(plan, stride, rounds),
         UNCHANGED <<todo, outputs, shown>>, wait = wait' \/ (wait # "none" /\ wait' # "none")
  PROVE  Runs(plan, stride, rounds)'
<1>1. PICK g \in 1 .. rounds, p \in 0 .. 2 : InTurn(plan, stride, rounds, g, p)
  BY DEF Runs
<1>2. InTurn(plan, stride, rounds, g, p)'
  BY <1>1 DEF InTurn, Rest, Before, Light!Lit, Light!Leds
<1> QED
  BY <1>2 DEF Runs

\* What a routine leaves, and what is lit while it waits
LEMMA TurnShows ==
  ASSUME NEW plan, NEW stride, NEW rounds \in {6, 7}, Routine(plan, stride, rounds),
         Runs(plan, stride, rounds)
  PROVE  /\ wait # "none" => todo # <<>> /\ \E led \in Light!Leds : Light!Lit = {led}
         /\ todo = <<>> => wait = "none" /\ shown = Light!Lit /\ shown \in {{0}, {1}}
         /\ shown = {} \/ \E led \in Light!Leds : shown = {led}
<1>1. PICK g \in 1 .. rounds, p \in 0 .. 2 : InTurn(plan, stride, rounds, g, p)
  BY DEF Runs
<1>2. LedOf(g) \in Light!Leds /\ (todo = <<>> => g = rounds /\ p = 2)
  <2>1. LedOf(g) \in Light!Leds
    BY <1>1, StepIs, Zenon
  <2>2. ASSUME Ended PROVE g = rounds /\ p = 2
    BY <1>1, <2>2, StepIs
  <2> QED
    BY <2>1, <2>2 DEF Ended
<1>3. wait # "none" => todo # <<>> /\ Light!Lit = {LedOf(g)}
  BY <1>1, <1>2 DEF InTurn
<1>4. ASSUME todo = <<>> PROVE wait = "none" /\ shown = Light!Lit /\ shown \in {{0}, {1}}
  <2>1. wait = "none" /\ shown = {LedOf(g)} /\ Light!Lit = {LedOf(g)}
    BY <1>1, <1>2, <1>4 DEF InTurn
  <2>2. LedOf(g) \in {0, 1}
    BY <1>2, <1>4 DEF LedOf
  <2> QED
    BY <2>1, <2>2
<1>5. shown = {} \/ \E led \in Light!Leds : shown = {led}
  <2>1. shown = {LedOf(g)} \/ Before(g)
    BY <1>1 DEF InTurn
  <2>2. g # 1 => LedOf(g - 1) \in Light!Leds
    BY DEF LedOf, Light!Leds
  <2>3. 0 \in Light!Leds /\ 1 \in Light!Leds
    BY DEF Light!Leds
  <2> QED
    BY <1>2, <2>1, <2>2, <2>3 DEF Before
<1> QED
  BY <1>2, <1>3, <1>4, <1>5

\* Before its first step a routine has shown nothing.
LEMMA RunsFromStart ==
  ASSUME NEW plan \in Seq(Steps), NEW stride, NEW rounds, Routine(plan, stride, rounds),
         todo' = plan, wait' = "none", shown' \in {{}, {0}, {1}}
  PROVE  Runs(plan, stride, rounds)'
<1>1. stride \in {2, 3} /\ rounds \in 1 .. 7
  BY DEF Routine
<1>2. stride * (1 - 1) + 0 = 0 /\ 1 \in 1 .. rounds /\ 0 \in 0 .. 2
  BY <1>1
<1>3. Rest(plan, 0)'
  BY DEF Rest
<1>4. InTurn(plan, stride, rounds, 1, 0)'
  BY <1>2, <1>3 DEF InTurn, Before
<1> QED
  BY <1>2, <1>4 DEF Runs

LEMMA LightStarts == Init => LightInv /\ WaitInv
<1> SUFFICES ASSUME Init PROVE LightInv /\ WaitInv
  OBVIOUS
<1>1. /\ pc = "new" /\ todo = <<>> /\ wait = "none" /\ ms_count = 0 /\ timeout = FALSE
      /\ elapsed = 0 /\ shown = {}
  BY DEF Init, Light!Init
<1>2. LightInv
  <2>1. pc = "new" /\ todo = <<>> /\ wait = "none" /\ shown = {}
    BY <1>1, Zenon
  <2> QED
    BY <2>1 DEF LightInv
<1>3. timeout \in BOOLEAN
  BY <1>1, Zenon
<1>4. WaitInv
  BY <1>1, <1>3 DEF WaitInv
<1> QED
  BY <1>2, <1>4

LEMMA LightStep == LightInv /\ Light!Next => LightInv' /\ Light!MoveStep
<1> SUFFICES ASSUME LightInv, Light!Next PROVE LightInv' /\ Light!MoveStep
  OBVIOUS
<1>1. Routine(Light!Cycle, 3, 6) /\ Routine(Light!Smooth, 2, 7)
  BY CycleIs, SmoothIs
<1>2. /\ pc = "cycle" => Runs(Light!Cycle, 3, 6)
      /\ pc = "smooth" => Runs(Light!Smooth, 2, 7)
      /\ pc \in {"new", "loop", "cycle", "smooth"} /\ wait \in {"none", "poll", "clear"}
  BY DEF LightInv
<1> DEFINE Still == /\ pc \in {"new", "loop"}
                    /\ todo = <<>> /\ wait = "none"
                    /\ shown = {} \/ (shown = Light!Lit /\ shown \in {{0}, {1}})
<1>3. pc \in {"new", "loop"} => Still
  BY DEF LightInv
<1>4. shown = {} \/ \E led \in Light!Leds : shown = {led}
  <2>1. CASE pc = "cycle"
    BY <1>1, <1>2, <2>1, TurnShows
  <2>2. CASE pc = "smooth"
    BY <1>1, <1>2, <2>2, TurnShows
  <2>3. CASE pc \in {"new", "loop"}
    BY <1>3, <2>3 DEF Light!Leds
  <2> QED
    BY <1>2, <2>1, <2>2, <2>3
<1>5. ASSUME shown' = shown PROVE Light!MoveStep
  BY <1>4, <1>5 DEF Light!MoveStep
<1>6. /\ \/ pc \in {"new", "loop"} /\ Still
         \/ pc = "cycle" /\ Runs(Light!Cycle, 3, 6)
         \/ pc = "smooth" /\ Runs(Light!Smooth, 2, 7)
  BY <1>2, <1>3
<1>7. CASE Light!New
  <2>1. /\ pc = "new" /\ pc' = "loop" /\ UNCHANGED <<todo, wait, outputs, shown>>
    BY <1>7 DEF Light!New, Light!waiting
  <2> QED
    BY <1>3, <1>5, <2>1 DEF LightInv, Light!Lit, Light!Leds
<1>8. CASE Light!RunCycle
  <2>1. /\ pc = "loop" /\ pc' = "cycle" /\ todo' = Light!Cycle
        /\ UNCHANGED <<wait, outputs, shown>>
    BY <1>8 DEF Light!RunCycle, Light!waiting, Light!board
  <2>2. Still
    BY <1>3, <2>1
  <2>3. Runs(Light!Cycle, 3, 6)'
    BY <2>1, <2>2, CycleIs, RunsFromStart
  <2> QED
    BY <1>5, <2>1, <2>3 DEF LightInv
<1>9. CASE Light!ReadButton
  <2>1. /\ pc = "cycle" /\ todo = <<>> /\ UNCHANGED <<wait, outputs, shown>>
        /\ \/ pc' = "smooth" /\ todo' = Light!Smooth
           \/ pc' = "loop" /\ todo' = todo
    BY <1>9 DEF Light!ReadButton, Light!waiting, Light!board
  <2>2. wait = "none" /\ shown = Light!Lit /\ shown \in {{0}, {1}}
    BY <1>1, <1>2, <2>1, TurnShows
  <2>3. CASE pc' = "smooth" /\ todo' = Light!Smooth
    <3>1. Runs(Light!Smooth, 2, 7)'
      BY <2>1, <2>2, <2>3, SmoothIs, RunsFromStart
    <3> QED
      BY <1>5, <2>1, <2>2, <2>3, <3>1 DEF LightInv
  <2>4. CASE pc' = "loop" /\ todo' = todo
    BY <1>5, <2>1, <2>2, <2>4 DEF LightInv, Light!Lit, Light!Leds
  <2> QED
    BY <2>1, <2>3, <2>4
<1>10. CASE Light!SmoothEnd
  <2>1. /\ pc = "smooth" /\ todo = <<>> /\ pc' = "loop"
        /\ UNCHANGED <<todo, wait, outputs, shown>>
    BY <1>10 DEF Light!SmoothEnd, Light!waiting, Light!board
  <2>2. wait = "none" /\ shown = Light!Lit /\ shown \in {{0}, {1}}
    BY <1>1, <1>2, <2>1, TurnShows
  <2> QED
    BY <1>5, <2>1, <2>2 DEF LightInv, Light!Lit, Light!Leds
<1>11. CASE Light!SetLed
  <2>1. pc' = pc /\ wait' = wait /\ todo # <<>>
    BY <1>11 DEF Light!SetLed, Light!waiting
  <2>2. pc \in {"cycle", "smooth"}
    BY <1>2, <1>3, <2>1
  <2>3. CASE pc = "cycle"
    <3>1. Runs(Light!Cycle, 3, 6)' /\ shown' = shown
      BY <1>1, <1>2, <1>11, <2>3, TurnSet
    <3> QED
      BY <1>2, <1>5, <2>1, <2>3, <3>1 DEF LightInv
  <2>4. CASE pc = "smooth"
    <3>1. Runs(Light!Smooth, 2, 7)' /\ shown' = shown
      BY <1>1, <1>2, <1>11, <2>4, TurnSet
    <3> QED
      BY <1>2, <1>5, <2>1, <2>4, <3>1 DEF LightInv
  <2> QED
    BY <2>2, <2>3, <2>4
<1>12. CASE Light!WaitBegin
  <2>1. pc' = pc /\ wait' = "poll" /\ todo # <<>>
    BY <1>12 DEF Light!WaitBegin
  <2>2. pc \in {"cycle", "smooth"}
    BY <1>2, <1>3, <2>1
  <2>3. CASE pc = "cycle"
    <3>1. Runs(Light!Cycle, 3, 6)' /\ Light!MoveStep
      BY <1>1, <1>2, <1>12, <2>3, TurnBegin
    <3> QED
      BY <2>1, <2>3, <3>1 DEF LightInv
  <2>4. CASE pc = "smooth"
    <3>1. Runs(Light!Smooth, 2, 7)' /\ Light!MoveStep
      BY <1>1, <1>2, <1>12, <2>4, TurnBegin
    <3> QED
      BY <2>1, <2>4, <3>1 DEF LightInv
  <2> QED
    BY <2>2, <2>3, <2>4
<1>13. CASE Light!WaitEnd
  <2>1. pc' = pc /\ wait' = "none" /\ wait = "poll"
    BY <1>13 DEF Light!WaitEnd
  <2>2. pc \in {"cycle", "smooth"}
    BY <1>2, <1>3, <2>1
  <2>3. CASE pc = "cycle"
    <3>1. Runs(Light!Cycle, 3, 6)' /\ shown' = shown
      BY <1>1, <1>2, <1>13, <2>3, TurnEnd
    <3> QED
      BY <1>5, <2>1, <2>3, <3>1 DEF LightInv
  <2>4. CASE pc = "smooth"
    <3>1. Runs(Light!Smooth, 2, 7)' /\ shown' = shown
      BY <1>1, <1>2, <1>13, <2>4, TurnEnd
    <3> QED
      BY <1>5, <2>1, <2>4, <3>1 DEF LightInv
  <2> QED
    BY <2>2, <2>3, <2>4
<1>14. CASE Light!PollNothing \/ Light!PollTimeout \/ Light!Clear \/ Light!TimerPeriod
            \/ Light!Button
  <2>1. /\ pc' = pc /\ UNCHANGED <<todo, outputs, shown>>
        /\ wait' = wait \/ (wait # "none" /\ wait' # "none")
        /\ wait' \in {wait, "poll", "clear"}
    <3>1. CASE Light!PollNothing
      BY <3>1 DEF Light!PollNothing, Light!board
    <3>2. CASE Light!PollTimeout
      BY <3>2 DEF Light!PollTimeout, Light!board
    <3>3. CASE Light!Clear
      BY <3>3 DEF Light!Clear
    <3>4. CASE Light!TimerPeriod
      BY <3>4 DEF Light!TimerPeriod, Light!waiting
    <3>5. CASE Light!Button
      BY <3>5 DEF Light!Button, Light!waiting
    <3> QED
      BY <1>14, <3>1, <3>2, <3>3, <3>4, <3>5
  <2>2. wait' \in {"none", "poll", "clear"}
    BY <1>2, <2>1
  <2>3. pc = "cycle" => Runs(Light!Cycle, 3, 6)'
    BY <1>2, <2>1, TurnStays
  <2>4. pc = "smooth" => Runs(Light!Smooth, 2, 7)'
    BY <1>2, <2>1, TurnStays
  <2>5. Still => Still'
    BY <2>1 DEF Light!Lit, Light!Leds
  <2> QED
    BY <1>2, <1>3, <1>5, <2>1, <2>2, <2>3, <2>4, <2>5 DEF LightInv
<1> QED
  BY <1>7, <1>8, <1>9, <1>10, <1>11, <1>12, <1>13, <1>14 DEF Light!Next, Light!Main

LEMMA WaitStepKeeps == WaitInv /\ Light!Next => WaitInv'
<1> SUFFICES ASSUME WaitInv, Light!Next PROVE WaitInv'
  OBVIOUS
<1>1. /\ ms_count \in Nat /\ elapsed \in Nat /\ timeout \in BOOLEAN
      /\ wait = "clear" => timeout
      /\ wait # "none" => \/ elapsed = Light!Cap
                          \/ ms_count + (IF timeout THEN 1 ELSE 0) <= elapsed + 1
  BY DEF WaitInv
<1>2. CASE UNCHANGED <<wait, ms_count, timeout, elapsed>>
  BY <1>1, <1>2 DEF WaitInv, Light!Cap, Light!Target
<1>3. CASE Light!WaitBegin
  BY <1>1, <1>3 DEF WaitInv, Light!WaitBegin, Light!board
<1>4. CASE Light!PollTimeout
  <2>1. /\ wait = "poll" /\ timeout /\ timeout' = timeout /\ UNCHANGED <<ms_count, elapsed>>
    BY <1>4 DEF Light!PollTimeout, Light!board
  <2>2. timeout' \in BOOLEAN /\ timeout'
    BY <1>1, <2>1, Zenon
  <2>3. elapsed = Light!Cap \/ ms_count + 1 <= elapsed + 1
    BY <1>1, <2>1
  <2>4. ms_count' \in Nat /\ elapsed' \in Nat /\ Light!Cap' = Light!Cap
    BY <1>1, <2>1 DEF Light!Cap, Light!Target
  <2>5. elapsed' = Light!Cap' \/ ms_count' + (IF timeout' THEN 1 ELSE 0) <= elapsed' + 1
    BY <2>1, <2>2, <2>3, <2>4
  <2> QED
    BY <2>2, <2>4, <2>5 DEF WaitInv
<1>5. CASE Light!Clear
  <2>1. /\ wait = "clear" /\ wait' = "poll" /\ timeout' = FALSE
        /\ ms_count' = ms_count + 1 /\ elapsed' = elapsed
    BY <1>5 DEF Light!Clear
  <2>2. timeout' \in BOOLEAN /\ ~timeout'
    BY <2>1, Zenon
  <2>3. timeout
    BY <1>1, <2>1
  <2>4. elapsed = Light!Cap \/ ms_count + 1 <= elapsed + 1
    BY <1>1, <2>1, <2>3
  <2>5. ms_count' \in Nat /\ elapsed' \in Nat /\ Light!Cap' = Light!Cap
    BY <1>1, <2>1 DEF Light!Cap, Light!Target
  <2>6. elapsed' = Light!Cap' \/ ms_count' + (IF timeout' THEN 1 ELSE 0) <= elapsed' + 1
    BY <1>1, <2>1, <2>2, <2>4, <2>5
  <2> QED
    BY <2>1, <2>2, <2>5, <2>6 DEF WaitInv
<1>6. CASE Light!WaitEnd
  BY <1>1, <1>6 DEF WaitInv, Light!WaitEnd, Light!board
<1>7. CASE Light!TimerPeriod
  BY <1>1, <1>7 DEF WaitInv, Light!TimerPeriod, Light!waiting, Light!Cap, Light!Target
<1> QED
  BY <1>2, <1>3, <1>4, <1>5, <1>6, <1>7
     DEF Light!Next, Light!Main, Light!New, Light!RunCycle, Light!ReadButton, Light!SmoothEnd,
         Light!SetLed, Light!PollNothing, Light!Button, Light!waiting, Light!board

LEMMA LightNext == LightInv /\ WaitInv /\ [Next]_vars => LightInv' /\ WaitInv'
<1> SUFFICES ASSUME LightInv, WaitInv, [Next]_vars PROVE LightInv' /\ WaitInv'
  OBVIOUS
<1>1. CASE Light!Next
  BY <1>1, LightStep, WaitStepKeeps
<1>2. CASE UNCHANGED light
  <2>1. UNCHANGED <<pc, todo, wait, ms_count, timeout, outputs, elapsed, shown>>
    BY <1>2 DEF light
  <2>2. WaitInv'
    BY <2>1 DEF WaitInv, Light!Cap, Light!Target
  <2>3. (pc = "cycle" => Runs(Light!Cycle, 3, 6)') /\ (pc = "smooth" => Runs(Light!Smooth, 2, 7)')
    BY <2>1, TurnStays DEF LightInv
  <2> QED
    BY <2>1, <2>2, <2>3 DEF LightInv, Light!Lit, Light!Leds
<1> QED
  BY <1>1, <1>2 DEF Next, vars, NotUart, NotPrinter, NotProfiler, NotCache, NotSleeper,
                    NotStamps, NotChannels

LEMMA OneIsLit == LightInv => Light!OneLit
<1> SUFFICES ASSUME LightInv, wait # "none" \/ (pc = "loop" /\ shown # {})
             PROVE  \E led \in Light!Leds : Light!Lit = {led}
  BY DEF Light!OneLit
<1>1. CASE pc = "cycle"
  BY <1>1, CycleIs, TurnShows DEF LightInv
<1>2. CASE pc = "smooth"
  BY <1>2, SmoothIs, TurnShows DEF LightInv
<1>3. CASE pc \in {"new", "loop"}
  BY <1>3 DEF LightInv, Light!Leds
<1> QED
  BY <1>1, <1>2, <1>3 DEF LightInv

\* The sizes of the light's counters
LEMMA LightSizes == /\ LED_DELAY \in Nat /\ Light!Target \in Nat /\ Light!MaxIterations \in Nat
                    /\ Light!Cap \in Nat
<1>1. Light!Target \in Nat
  <2>1. LED_DELAY + UsPerMs - 1 \in Nat /\ UsPerMs \in Nat \ {0}
    BY LightAssumption
  <2> QED
    BY <2>1, DivModNat DEF Light!Target
<1>2. Light!MaxIterations \in Nat
  BY <1>1, LightAssumption DEF Light!MaxIterations
<1> QED
  BY <1>1, <1>2, LightAssumption DEF Light!Cap

LEMMA WaitCounts == WaitInv => Light!CountedStep
<1> SUFFICES ASSUME WaitInv, wait = "poll", ms_count = Light!Target
             PROVE  elapsed + 1 >= Light!Target
  BY DEF Light!CountedStep
<1>1. LED_DELAY \in Nat /\ Light!Target \in Nat /\ Light!Cap = Light!Target + LED_DELAY
  BY LightSizes DEF Light!Cap
<1>2. elapsed \in Nat /\ (elapsed = Light!Cap \/ Light!Target <= elapsed + 1)
  BY <1>1 DEF WaitInv
<1> QED
  BY <1>1, <1>2

\* The bounds of the running light's counters; its control is in LightInv.
LightTypes ==
  /\ ms_count \in 0 .. Light!Target
  /\ iteration_count \in 0 .. (Light!MaxIterations + 1)
  /\ wait = "clear" => ms_count < Light!Target /\ iteration_count <= Light!MaxIterations
  /\ started \in BOOLEAN /\ timeout \in BOOLEAN /\ pressed \in BOOLEAN
  /\ outputs \subseteq Light!Leds /\ shown \subseteq Light!Leds
  /\ elapsed \in 0 .. Light!Cap

LEMMA SameSizes == /\ Light!Target' = Light!Target /\ Light!MaxIterations' = Light!MaxIterations
                   /\ Light!Cap' = Light!Cap
BY DEF Light!Target, Light!MaxIterations, Light!Cap

LEMMA LightTypesStart == Init => LightTypes
<1> SUFFICES ASSUME Light!Init PROVE LightTypes
  BY DEF Init
<1>1. started \in BOOLEAN /\ timeout \in BOOLEAN /\ pressed \in BOOLEAN
  BY Zenon DEF Light!Init
<1> QED
  BY <1>1, LightSizes DEF Light!Init, LightTypes, Light!Leds

LEMMA LightTypesNext == LightTypes /\ [Next]_vars => LightTypes'
<1> SUFFICES ASSUME LightTypes, [Next]_vars PROVE LightTypes'
  OBVIOUS
<1> USE LightSizes, SameSizes DEF LightTypes, Light!Leds, Light!waiting, Light!board
<1>0. CASE UNCHANGED light
  BY <1>0 DEF light
<1>1. CASE Light!New
  <2>1. started' \in BOOLEAN
    BY <1>1, Zenon DEF Light!New
  <2> QED
    BY <1>1, <2>1 DEF Light!New
<1>2. CASE Light!RunCycle \/ Light!ReadButton \/ Light!SmoothEnd
  BY <1>2 DEF Light!RunCycle, Light!ReadButton, Light!SmoothEnd
<1>3. CASE Light!SetLed
  BY <1>3 DEF Light!SetLed
<1>4. CASE Light!WaitBegin
  BY <1>4 DEF Light!WaitBegin, Light!Lit
<1>5. CASE Light!PollNothing \/ Light!PollTimeout
  <2>1. /\ wait = "poll" /\ ms_count < Light!Target /\ iteration_count <= Light!MaxIterations
        /\ ms_count' = ms_count /\ iteration_count' \in {iteration_count, iteration_count + 1}
        /\ wait' = "clear" => iteration_count' = iteration_count
        /\ UNCHANGED <<started, timeout, outputs, pressed, elapsed, shown>>
    BY <1>5 DEF Light!PollNothing, Light!PollTimeout, Light!GoesOn
  <2> QED
    BY <2>1
<1>6. CASE Light!Clear
  <2>1. timeout' \in BOOLEAN
    BY <1>6, Zenon DEF Light!Clear
  <2> QED
    BY <1>6, <2>1 DEF Light!Clear
<1>7. CASE Light!WaitEnd
  BY <1>7 DEF Light!WaitEnd
<1>8. CASE Light!TimerPeriod
  <2>1. timeout' \in BOOLEAN
    BY <1>8, Zenon DEF Light!TimerPeriod
  <2> QED
    BY <1>8, <2>1 DEF Light!TimerPeriod
<1>9. CASE Light!Button
  BY <1>9 DEF Light!Button
<1> QED
  BY <1>0, <1>1, <1>2, <1>3, <1>4, <1>5, <1>6, <1>7, <1>8, <1>9
     DEF Light!Next, Light!Main, Next, vars, NotUart, NotPrinter, NotProfiler, NotCache,
         NotSleeper, NotStamps, NotChannels

LEMMA LightTyped == LightInv /\ LightTypes => Light!LightTypeOK
<1> SUFFICES ASSUME LightInv, LightTypes PROVE Light!LightTypeOK
  OBVIOUS
<1>1. todo \in Seq(Steps)
  <2>1. todo = <<>> \/ Runs(Light!Cycle, 3, 6) \/ Runs(Light!Smooth, 2, 7)
    BY DEF LightInv
  <2>2. ASSUME NEW plan, NEW stride, NEW rounds, Runs(plan, stride, rounds)
        PROVE  todo \in Seq(Steps)
    BY <2>2 DEF Runs, InTurn, Rest
  <2>3. <<>> \in Seq(Steps)
    OBVIOUS
  <2> QED
    BY <2>1, <2>2, <2>3, Zenon
<1>2. todo \in Seq([do : {"set", "wait"}, leds : SUBSET Light!Leds])
  BY <1>1, Zenon DEF Steps
<1>3. pc \in {"new", "loop", "cycle", "smooth"} /\ wait \in {"none", "poll", "clear"}
  BY DEF LightInv
<1>4. /\ ms_count \in 0 .. Light!Target
      /\ iteration_count \in 0 .. (Light!MaxIterations + 1)
      /\ started \in BOOLEAN /\ timeout \in BOOLEAN /\ pressed \in BOOLEAN
      /\ outputs \subseteq Light!Leds /\ elapsed \in 0 .. Light!Cap /\ shown \subseteq Light!Leds
  BY DEF LightTypes
<1> QED
  BY <1>2, <1>3, <1>4, Zenon DEF Light!LightTypeOK

-----------------------------------------------------------------------------
(* The polling driver *)

\* A step of another program leaves the polling driver alone.
LEMMA UartStands ==
  ASSUME [Next]_vars
  PROVE  Uart!Next \/ UNCHANGED uart
BY DEF Next, vars, NotLight, NotUart, NotPrinter, NotProfiler, NotCache, NotSleeper, NotStamps,
   NotChannels

UartInv == Uart!SmallTypeOK

\* What the operations of a FIFO do to its bytes
LEMMA FifoBytes ==
  ASSUME NEW s \in Seq(Byte)
  PROVE  /\ Len(s) \in Nat /\ (s # <<>> <=> Len(s) > 0)
         /\ s # <<>> => /\ Head(s) \in Byte /\ Tail(s) \in Seq(Byte) /\ Len(Tail(s)) = Len(s) - 1
         /\ \A b \in Byte : /\ Append(s, b) \in Seq(Byte) /\ Len(Append(s, b)) = Len(s) + 1
                            /\ Append(s, b) # <<>>
<1>1. Len(s) \in Nat /\ (s # <<>> <=> Len(s) > 0)
  BY EmptySeq, LenProperties
<1>2. s # <<>> => Head(s) \in Byte /\ Tail(s) \in Seq(Byte) /\ Len(Tail(s)) = Len(s) - 1
  BY HeadTailProperties
<1>3. ASSUME NEW b \in Byte
      PROVE  Append(s, b) \in Seq(Byte) /\ Len(Append(s, b)) = Len(s) + 1 /\ Append(s, b) # <<>>
  BY AppendProperties
<1> QED
  BY <1>1, <1>2, <1>3

LEMMA FirstByte ==
  ASSUME NEW s \in Seq(Byte), s # <<>>
  PROVE  /\ SubSeq(s, 1, 1) = <<Head(s)>> /\ SubSeq(s, 2, Len(s)) = Tail(s)
         /\ \A u \in Seq(Byte) : u \o <<Head(s)>> = Append(u, Head(s))
<1>0. Len(s) \in Nat /\ Len(s) > 0 /\ Head(s) \in Byte /\ Head(s) = s[1]
  BY FifoBytes
<1>1. SubSeq(s, 1, 1) = <<Head(s)>>
  <2>1. /\ SubSeq(s, 1, 1) \in Seq(Byte) /\ Len(SubSeq(s, 1, 1)) = 1
        /\ SubSeq(s, 1, 1)[1] = s[1]
    <3>1. 1 \in 1 .. (Len(s) + 1) /\ 1 \in 0 .. Len(s) /\ 1 \in 1 .. (1 - 1 + 1)
      BY <1>0
    <3>2. \A k \in 1 .. (1 - 1 + 1) : SubSeq(s, 1, 1)[k] = s[1 + k - 1]
      BY <3>1, SubSeqProperties
    <3> QED
      BY <3>1, <3>2, SubSeqProperties
  <2>2. /\ <<Head(s)>> \in Seq(Byte) /\ Len(<<Head(s)>>) = 1 /\ <<Head(s)>>[1] = s[1]
    BY <1>0
  <2>3. \A k \in 1 .. 1 : SubSeq(s, 1, 1)[k] = <<Head(s)>>[k]
    BY <2>1, <2>2
  <2> QED
    BY <2>1, <2>2, <2>3, SeqEqual
<1>2. SubSeq(s, 2, Len(s)) = Tail(s)
  BY TailIsSubSeq
<1>3. \A u \in Seq(Byte) : u \o <<Head(s)>> = Append(u, Head(s))
  BY <1>0
<1> QED
  BY <1>1, <1>2, <1>3

LEMMA UartTyped == UartInv =>
  /\ rxFifo \in Seq(Byte) /\ Len(rxFifo) \in Nat /\ Len(rxFifo) <= RxDepth
  /\ txFifo \in Seq(Byte) /\ Len(txFifo) \in Nat /\ Len(txFifo) <= TxDepth
  /\ active \in BOOLEAN /\ call \in {"idle", "read", "write"}
  /\ nonblock \in BOOLEAN /\ wspace \in BOOLEAN /\ space \in Nat
  /\ received \in Seq(Byte) /\ offered \in Seq(Byte)
  /\ wspace => (call = "write" /\ offered # <<>> /\ Len(txFifo) < TxDepth)
BY UartAssumption, FifoBytes DEF
     UartInv, Uart!SmallTypeOK, Uart!HostTypeOK, Uart!WSpace

LEMMA UartIs ==
  /\ rxFifo \in Seq(Byte) /\ Len(rxFifo) <= RxDepth
  /\ txFifo \in Seq(Byte) /\ Len(txFifo) <= TxDepth
  /\ active \in BOOLEAN /\ call \in {"idle", "read", "write"}
  /\ nonblock \in BOOLEAN /\ wspace \in BOOLEAN /\ space \in Nat
  /\ received \in Seq(Byte) /\ offered \in Seq(Byte)
  /\ wspace => (call = "write" /\ offered # <<>> /\ Len(txFifo) < TxDepth)
  => UartInv
BY UartAssumption, FifoBytes DEF
     UartInv, Uart!SmallTypeOK, Uart!HostTypeOK, Uart!WSpace

LEMMA UartStarts == Init => UartInv
<1> SUFFICES ASSUME Uart!Init PROVE UartInv
  BY DEF Init
<1>1. <<>> \in Seq(Byte) /\ Len(<<>>) = 0
  OBVIOUS
<1>2. active \in BOOLEAN /\ nonblock \in BOOLEAN /\ wspace \in BOOLEAN /\ ~wspace
  BY Zenon DEF Uart!Init, Uart!HostInit
<1> QED
  BY <1>1, <1>2, UartIs, UartAssumption DEF Uart!Init, Uart!HostInit

LEMMA UartNext == UartInv /\ [Next]_vars => UartInv'
<1> SUFFICES ASSUME UartInv, [Next]_vars PROVE UartInv'
  OBVIOUS
<1>0. CASE UNCHANGED uart
  BY <1>0, UartTyped, UartIs DEF uart, uartCall,
     UartInv, Uart!SmallTypeOK, Uart!HostTypeOK, Uart!WSpace
<1>1. CASE \E n \in Spaces, flag \in BOOLEAN : Uart!Read(n, flag)
  BY <1>1, UartTyped, UartAssumption DEF Uart!Read, Uart!hardware,
     UartInv, Uart!SmallTypeOK, Uart!HostTypeOK, Uart!WSpace
<1>2. CASE \E m \in Messages : Uart!Write(m)
  BY <1>2, UartTyped, UartAssumption DEF Uart!Write, Uart!hardware,
     UartInv, Uart!SmallTypeOK, Uart!HostTypeOK, Uart!WSpace
<1>3. CASE Uart!ReadByte
  BY <1>3, UartTyped, UartAssumption, FifoBytes DEF Uart!ReadByte,
     UartInv, Uart!SmallTypeOK, Uart!HostTypeOK, Uart!WSpace
<1>4. CASE Uart!ReadReturn
  <2>1. /\ call = "read" /\ call' = "idle" /\ space' = 0 /\ received' = <<>> /\ received' \in Seq(Byte)
        /\ UNCHANGED <<rxFifo, txFifo, active, offered, wspace>>
    BY <1>4 DEF Uart!ReadReturn, Uart!hardware
  <2>2. nonblock' \in BOOLEAN
    BY <1>4, Zenon DEF Uart!ReadReturn
  <2> QED
    BY <2>1, <2>2, UartTyped, UartAssumption DEF
     UartInv, Uart!SmallTypeOK, Uart!HostTypeOK, Uart!WSpace
<1>5. CASE Uart!SeeSpace
  BY <1>5, UartTyped, UartAssumption, FifoBytes DEF Uart!SeeSpace, Uart!hardware,
     UartInv, Uart!SmallTypeOK, Uart!HostTypeOK, Uart!WSpace
<1>6. CASE Uart!WriteByte
  <2>1. /\ txFifo' = Append(txFifo, Head(offered)) /\ offered' = Tail(offered)
        /\ UNCHANGED <<rxFifo, active, call, nonblock, space, received>>
        /\ offered # <<>> /\ Len(txFifo) < TxDepth
    BY <1>6, UartTyped, UartAssumption DEF Uart!WriteByte, Uart!WSpace
  <2>2. wspace' \in BOOLEAN /\ ~wspace'
    BY <1>6, Zenon DEF Uart!WriteByte
  <2>3. /\ txFifo' \in Seq(Byte) /\ Len(txFifo') = Len(txFifo) + 1 /\ offered' \in Seq(Byte)
    BY <2>1, UartTyped, FifoBytes
  <2> QED
    BY <2>1, <2>2, <2>3, UartTyped, UartAssumption
       DEF
     UartInv, Uart!SmallTypeOK, Uart!HostTypeOK, Uart!WSpace
<1>7. CASE Uart!WriteReturn
  BY <1>7, UartTyped, UartAssumption, FifoBytes DEF Uart!WriteReturn, Uart!hardware,
     UartInv, Uart!SmallTypeOK, Uart!HostTypeOK, Uart!WSpace
<1>8. CASE Uart!Host /\ UNCHANGED Uart!locals
  <2>1. /\ rxFifo' \in Seq(Byte) /\ Len(rxFifo') <= RxDepth
        /\ txFifo' \in Seq(Byte) /\ Len(txFifo') <= Len(txFifo) /\ Len(txFifo') \in Nat
    <3>1. CASE \E b \in Byte : Uart!HostSend(b)
      BY <3>1, UartTyped, UartAssumption, FifoBytes DEF Uart!HostSend
    <3>2. CASE Uart!HostTake \/ Uart!HostPoll
      <4>1. rxFifo' = rxFifo /\ (txFifo' = txFifo \/ (txFifo # <<>> /\ txFifo' = Tail(txFifo)))
        BY <3>2 DEF Uart!HostTake, Uart!HostPoll
      <4>2. CASE txFifo' = txFifo
        BY <4>1, <4>2, UartTyped
      <4>3. CASE txFifo # <<>> /\ txFifo' = Tail(txFifo)
        <5>1. Tail(txFifo) \in Seq(Byte) /\ Len(Tail(txFifo)) = Len(txFifo) - 1 /\ Len(txFifo) > 0
          BY <4>3, UartTyped, FifoBytes
        <5> DEFINE t == Tail(txFifo)
        <5>2. t \in Seq(Byte) /\ Len(t) = Len(txFifo) - 1 /\ txFifo' = t
          BY <4>3, <5>1
        <5>3. Len(t) <= Len(txFifo) /\ Len(t) \in Nat
          BY <5>1, UartTyped
        <5> HIDE DEF t
        <5>4. rxFifo' \in Seq(Byte) /\ Len(rxFifo') <= RxDepth
          BY <4>1, UartTyped
        <5> QED
          BY <5>2, <5>3, <5>4
      <4> QED
        BY <4>1, <4>2, <4>3
    <3> QED
      BY <1>8, <3>1, <3>2 DEF Uart!Host
  <2>2. active' \in BOOLEAN
    BY <1>8, Zenon DEF Uart!Host, Uart!HostSend, Uart!HostTake, Uart!HostPoll
  <2> QED
    BY <1>8, <2>1, <2>2, UartTyped, UartAssumption
       DEF Uart!locals,
     UartInv, Uart!SmallTypeOK, Uart!HostTypeOK, Uart!WSpace
<1> QED
  BY <1>0, <1>1, <1>2, <1>3, <1>4, <1>5, <1>6, <1>7, <1>8, UartStands DEF Uart!Next, Uart!Driver

\* The steps of the driver and the host, as steps of the line
LEMMA LineStep == UartInv /\ [Next]_vars => [Uart!Wire!LineNext]_(Uart!Wire!vars)
<1> SUFFICES ASSUME UartInv, [Next]_vars PROVE [Uart!Wire!LineNext]_(Uart!Wire!vars)
  OBVIOUS
<1> USE DEF Uart!hardware, Uart!locals, Uart!Wire!read, Uart!Wire!write, Uart!Wire!vars
<1>0. CASE UNCHANGED uart
  BY <1>0 DEF uart, uartCall
<1>1. CASE \E n \in Spaces, flag \in BOOLEAN : Uart!Read(n, flag)
  BY <1>1, UartTyped DEF Uart!Read, Uart!Wire!ReadBegins, Uart!Wire!LineNext
<1>2. CASE \E m \in Messages : Uart!Write(m)
  BY <1>2, UartTyped, UartAssumption DEF Uart!Write, Uart!Wire!WriteBegins, Uart!Wire!LineNext
<1>3. CASE Uart!ReadByte
  <2>1. rxFifo \in Seq(Byte) /\ rxFifo # <<>> /\ 1 \in 1 .. Len(rxFifo) /\ received \in Seq(Byte)
    BY <1>3, UartTyped, FifoBytes DEF Uart!ReadByte
  <2>2. SubSeq(rxFifo, 1, 1) = <<Head(rxFifo)>> /\ SubSeq(rxFifo, 2, Len(rxFifo)) = Tail(rxFifo)
    BY <2>1, FirstByte
  <2>3. received \o <<Head(rxFifo)>> = Append(received, Head(rxFifo))
    BY <2>1
  <2>4. Uart!Wire!ReadGets(1)
    BY <1>3, <2>1, <2>2, <2>3 DEF Uart!ReadByte, Uart!Wire!ReadGets
  <2> QED
    BY <2>1, <2>4 DEF Uart!Wire!LineNext
<1>4. CASE Uart!ReadReturn
  BY <1>4, UartTyped DEF Uart!ReadReturn, Uart!Wire!ReadReturns, Uart!Wire!LineNext
<1>5. CASE Uart!SeeSpace
  BY <1>5 DEF Uart!SeeSpace
<1>6. CASE Uart!WriteByte
  <2>1. /\ offered \in Seq(Byte) /\ offered # <<>> /\ 1 \in 1 .. Len(offered) /\ txFifo \in Seq(Byte)
        /\ call = "write" /\ txFifo' = Append(txFifo, Head(offered))
    BY <1>6, UartTyped, FifoBytes, UartAssumption DEF Uart!WriteByte, Uart!WSpace
  <2>2. SubSeq(offered, 1, 1) = <<Head(offered)>> /\ SubSeq(offered, 2, Len(offered)) = Tail(offered)
    BY <2>1, FirstByte
  <2>3. txFifo \o <<Head(offered)>> = Append(txFifo, Head(offered))
    BY <2>1
  <2>4. Uart!Wire!WriteAccepts(1)
    BY <1>6, <2>1, <2>2, <2>3 DEF Uart!WriteByte, Uart!Wire!WriteAccepts
  <2> QED
    BY <2>1, <2>4 DEF Uart!Wire!LineNext
<1>7. CASE Uart!WriteReturn
  BY <1>7, UartTyped DEF Uart!WriteReturn, Uart!Wire!WriteReturns, Uart!Wire!LineNext
<1>8. CASE Uart!Host /\ UNCHANGED Uart!locals
  BY <1>8 DEF Uart!Host, Uart!HostSend, Uart!HostTake, Uart!HostPoll,
     Uart!Wire!HostSends, Uart!Wire!HostTakes, Uart!Wire!LineNext
<1> QED
  BY <1>0, <1>1, <1>2, <1>3, <1>4, <1>5, <1>6, <1>7, <1>8, UartStands DEF Uart!Next, Uart!Driver

-----------------------------------------------------------------------------
(* The printing below the C library *)

\* A sequence, of whatever
Listing(s) == \E S : s \in Seq(S)

LEMMA Appended ==
  ASSUME NEW s, Listing(s), NEW x
  PROVE  Listing(Append(s, x)) /\ Len(s) \in Nat /\ Len(Append(s, x)) = Len(s) + 1
<1>1. PICK S : s \in Seq(S)
  BY DEF Listing
<1> DEFINE T == S \cup {x}
<1>2. s \in Seq(T) /\ x \in T
  BY <1>1
<1> HIDE DEF T
<1>3. Append(s, x) \in Seq(T) /\ Len(Append(s, x)) = Len(s) + 1 /\ Len(s) \in Nat
  BY <1>2, AppendProperties, LenProperties
<1> QED
  BY <1>3 DEF Listing

Specs == [zero : BOOLEAN, signed : BOOLEAN, base : {8, 10, 16}, upper : BOOLEAN,
          before : Nat \cup {-1}, after : Nat \cup {-1}]

\* A character is lost only after a handler printed between the look at the FIFO and the
\* write, and a handler writes only where it saw room.
PrintInv ==
  /\ level \in ALT_LOG_FLAGS
  /\ routine \in {"none", "alt_printf", "alt_log", "alt_putstr", "tx_log_str"}
  /\ state \in {"chars", "first", "other"} /\ spec \in Specs
  /\ ready \in BOOLEAN /\ isrReady \in BOOLEAN /\ room \in BOOLEAN
  /\ clock \in 0 .. Interval /\ bursts \in 0 .. Bursts
  /\ Listing(printed) /\ lost \in 0 .. Len(printed)
  /\ routine = "none" => out = <<>>
  /\ ready => out # <<>>
  /\ isr \in Seq({"i"}) /\ (isrReady => room /\ isr # <<>>)
  /\ lost <= bursts
  /\ ready /\ (isr # <<>> \/ ~room) => lost < bursts

\* The conversions' specifiers stay what they are.
LEMMA FreshIs == Printer!Fresh \in Specs
<1>1. FALSE \in BOOLEAN /\ TRUE \in BOOLEAN
  OBVIOUS
<1> QED
  BY <1>1 DEF Printer!Fresh, Specs

LEMMA PrintStarts == Init => PrintInv
<1> SUFFICES ASSUME Printer!Init PROVE PrintInv
  BY DEF Init
<1>1. /\ ready \in BOOLEAN /\ isrReady \in BOOLEAN /\ room \in BOOLEAN
      /\ ~ready /\ ~isrReady /\ room
  BY Zenon DEF Printer!Init
<1>2. spec \in Specs
  BY FreshIs DEF Printer!Init
<1>3. Listing(printed) /\ Len(printed) = 0
  <2>1. <<>> \in Seq({}) /\ Len(<<>>) = 0
    OBVIOUS
  <2> QED
    BY <2>1 DEF Listing, Printer!Init
<1>4. isr \in Seq({"i"})
  BY DEF Printer!Init
<1>5. /\ level \in ALT_LOG_FLAGS /\ routine = "none" /\ state = "chars" /\ out = <<>>
      /\ clock = 0 /\ bursts = 0 /\ lost = 0
  BY DEF Printer!Init
<1> QED
  BY <1>1, <1>2, <1>3, <1>4, <1>5, PrinterAssumption DEF PrintInv

\* What the parser's steps and the calls leave alone
LEMMA PrintFrame ==
  ASSUME PrintInv, UNCHANGED <<ready, isr, isrReady, room, printed, lost, bursts, clock, level>>,
         routine' \in {"none", "alt_printf", "alt_log", "alt_putstr", "tx_log_str"},
         state' \in {"chars", "first", "other"}, spec' \in Specs,
         routine' = "none" => out' = <<>>, ready => out' # <<>>
  PROVE  PrintInv'
BY DEF PrintInv, Listing

LEMMA CallBegins ==
  ASSUME PrintInv, routine = "none",
         UNCHANGED <<level, state, spec, clock, ready, isr, isrReady, room>>,
         routine' \in {"alt_printf", "alt_log", "alt_putstr", "tx_log_str"},
         printed' = <<>>, lost' = 0, bursts' = 0
  PROVE  PrintInv'
<1>1. ~ready
  BY DEF PrintInv
<1>2. Listing(<<>>) /\ Len(<<>>) = 0
  <2>1. <<>> \in Seq({}) /\ Len(<<>>) = 0
    OBVIOUS
  <2> QED
    BY <2>1 DEF Listing
<1>3. Listing(printed') /\ lost' \in 0 .. Len(printed') /\ bursts' \in 0 .. Bursts /\ lost' <= bursts'
  BY <1>2, PrinterAssumption
<1>4. Listing(printed)'
  BY <1>2 DEF Listing
<1> QED
  BY <1>1, <1>3, <1>4 DEF PrintInv

LEMMA BaseIs == ASSUME NEW letter PROVE Printer!BaseOf(letter) \in {8, 10, 16}
BY DEF Printer!BaseOf

LEMMA TypedIs ==
  ASSUME spec \in Specs, NEW letter
  PROVE  Printer!Typed(letter) \in Specs
<1> DEFINE g == letter \in {"d", "i"}
           b == Printer!BaseOf(letter)
           u == letter = "X"
<1>1. g \in BOOLEAN /\ u \in BOOLEAN /\ b \in {8, 10, 16}
  BY BaseIs
<1> HIDE DEF g, b, u
<1>2. [spec EXCEPT !.signed = g, !.base = b, !.upper = u] \in Specs
  BY <1>1 DEF Specs
<1> QED
  BY <1>2 DEF Printer!Typed, g, b, u

LEMMA DigitIs ==
  ASSUME NEW c, Printer!IsDigit(c), NEW n \in Nat \cup {-1}
  PROVE  Printer!Counted(n, c) \in Nat
<1>1. Printer!DigitOf(c) \in 0 .. 9
  BY DEF Printer!DigitOf, Printer!IsDigit
<1> DEFINE d == Printer!DigitOf(c)
<1> HIDE DEF d
<1>2. (IF n < 0 THEN 0 ELSE n * 10) + d \in Nat
  BY <1>1 DEF d
<1> QED
  BY <1>2 DEF Printer!Counted, d

LEMMA PrintNext == PrintInv /\ [Next]_vars => PrintInv'
<1> SUFFICES ASSUME PrintInv, [Next]_vars PROVE PrintInv'
  OBVIOUS
<1> USE DEF Printer!call, Printer!format, Printer!device
<1>1. /\ routine \in {"none", "alt_printf", "alt_log", "alt_putstr", "tx_log_str"}
      /\ state \in {"chars", "first", "other"} /\ spec \in Specs
      /\ (routine = "none" => out = <<>>) /\ (ready => out # <<>>)
      /\ ready \in BOOLEAN /\ isrReady \in BOOLEAN /\ room \in BOOLEAN
  BY DEF PrintInv
<1>0. CASE UNCHANGED printer
  BY <1>0, <1>1, PrintFrame DEF printer
\* The calls
<1>2. ASSUME NEW name \in {"alt_printf", "alt_log"}, NEW p, Printer!Begin(name, p) PROVE PrintInv'
  <2>1. /\ routine = "none" /\ routine' = name /\ printed' = <<>> /\ lost' = 0 /\ bursts' = 0
        /\ UNCHANGED <<level, state, spec, clock, ready, isr, isrReady, room>>
    BY <1>2 DEF Printer!Begin
  <2> QED
    BY <2>1, CallBegins
<1>3. ASSUME NEW name \in {"alt_putstr", "tx_log_str"}, NEW s, Printer!PutAll(name, s) PROVE PrintInv'
  <2>1. /\ routine = "none" /\ routine' = name /\ printed' = <<>> /\ lost' = 0 /\ bursts' = 0
        /\ UNCHANGED <<level, state, spec, clock, ready, isr, isrReady, room>>
    BY <1>3 DEF Printer!PutAll
  <2> QED
    BY <2>1, CallBegins
<1>4. ASSUME \/ \E p \in AltPrints : Printer!AltPrintf(p)
             \/ \E p \in LogPrints : Printer!LogPrintf(p)
             \/ \E s \in Puts : Printer!PutStr(s) \/ Printer!BootMessage(s)
             \/ \E n \in 0 .. 1, ac \in 0 .. 1 : Printer!StartupInfo(n, ac)
             \/ \E s \in Writes : Printer!WriteEcho(s)
      PROVE  PrintInv'
  BY <1>2, <1>3, <1>4 DEF Printer!AltPrintf, Printer!LogPrintf, Printer!PutStr, Printer!BootMessage,
     Printer!StartupInfo, Printer!WriteEcho
\* The parsers
<1>5. ASSUME NEW name \in {"alt_printf", "alt_log"}, Printer!Formatting(name)
      PROVE  ~ready /\ routine # "none"
  BY <1>1, <1>5 DEF Printer!Formatting
<1>6. CASE Printer!AltChar \/ Printer!AltDirective
  <2>1. /\ UNCHANGED <<level, routine, state, spec, clock, ready, isr, isrReady, room, printed, lost, bursts>>
        /\ Printer!Formatting("alt_printf")
    BY <1>6 DEF Printer!AltChar, Printer!AltDirective
  <2> QED
    BY <1>1, <1>5, <2>1, PrintFrame
<1>7. CASE Printer!LogChar \/ Printer!LogConversion
  <2>1. /\ UNCHANGED <<level, routine, spec, clock, ready, isr, isrReady, room, printed, lost, bursts>>
        /\ state' \in {state, "chars"} /\ Printer!Formatting("alt_log")
    BY <1>7 DEF Printer!LogChar, Printer!LogConversion, Printer!Other
  <2> QED
    BY <1>1, <1>5, <2>1, PrintFrame
<1>8. CASE Printer!LogDirective
  <2>1. /\ UNCHANGED <<level, routine, clock, ready, isr, isrReady, room, printed, lost, bursts>>
        /\ state' = "first" /\ spec' = Printer!Fresh /\ Printer!Formatting("alt_log")
    BY <1>8 DEF Printer!LogDirective
  <2> QED
    BY <1>1, <1>5, <2>1, PrintFrame, FreshIs
<1>9. CASE Printer!LogFirst
  <2>1. /\ UNCHANGED <<level, routine, clock, ready, isr, isrReady, room, printed, lost, bursts>>
        /\ state' \in {"chars", "other"} /\ spec' \in {spec, [spec EXCEPT !.zero = TRUE]}
        /\ Printer!Formatting("alt_log")
    BY <1>9 DEF Printer!LogFirst
  <2>2. TRUE \in BOOLEAN
    OBVIOUS
  <2>3. [spec EXCEPT !.zero = TRUE] \in Specs
    BY <1>1, <2>2 DEF Specs
  <2> QED
    BY <1>1, <1>5, <2>1, <2>3, PrintFrame
<1>10. CASE Printer!LogModifier
  <2> DEFINE c == Head(fmt)
  <2>1. /\ UNCHANGED <<level, routine, clock, ready, isr, isrReady, room, printed, lost, bursts>>
        /\ state' = "other" /\ Printer!Formatting("alt_log")
        /\ c \in {".", "l"} \/ Printer!IsDigit(c)
        /\ spec' = CASE c = "." -> [spec EXCEPT !.after = 0]
                     [] c = "l" -> spec
                     [] Printer!IsDigit(c) /\ spec.after < 0 -> [spec EXCEPT !.before = Printer!Counted(@, c)]
                     [] OTHER -> [spec EXCEPT !.after = Printer!Counted(@, c)]
    BY <1>10 DEF Printer!LogModifier, Printer!Other
  <2>2. spec.before \in Nat \cup {-1} /\ spec.after \in Nat \cup {-1}
    BY <1>1 DEF Specs
  <2> HIDE DEF c
  <2>3. Printer!IsDigit(c) => Printer!Counted(spec.before, c) \in Nat /\ Printer!Counted(spec.after, c) \in Nat
    BY <2>2, DigitIs
  <2>4. \/ spec' = spec \/ spec' = [spec EXCEPT !.after = 0]
        \/ Printer!IsDigit(c) /\ spec' = [spec EXCEPT !.before = Printer!Counted(spec.before, c)]
        \/ Printer!IsDigit(c) /\ spec' = [spec EXCEPT !.after = Printer!Counted(spec.after, c)]
    <3>1. CASE c = "."
      <4>1. ~Printer!IsDigit(c)
        BY <3>1 DEF Printer!IsDigit, Printer!Lower
      <4> QED
        BY <2>1, <3>1, <4>1
    <3>2. CASE c = "l"
      <4>1. ~Printer!IsDigit(c)
        BY <3>2 DEF Printer!IsDigit, Printer!Lower
      <4> QED
        BY <2>1, <3>2, <4>1
    <3>3. CASE c # "." /\ c # "l"
      BY <2>1, <3>3
    <3> QED
      BY <3>1, <3>2, <3>3
  <2>5. spec' \in Specs
    BY <1>1, <2>3, <2>4 DEF Specs
  <2> QED
    BY <1>1, <1>5, <2>1, <2>5, PrintFrame
<1>11. CASE Printer!Return
  <2>1. /\ UNCHANGED <<level, state, out, clock, ready, isr, isrReady, room, printed, lost, bursts>>
        /\ routine' = "none" /\ spec' = Printer!Fresh /\ out = <<>>
    BY <1>11 DEF Printer!Return
  <2> QED
    BY <1>1, <2>1, PrintFrame, FreshIs
\* One character of the program
<1>12. CASE Printer!SeeRoom
  <2>1. /\ UNCHANGED <<level, routine, state, spec, out, clock, isr, isrReady, room, printed, lost, bursts>>
        /\ out # <<>> /\ isr = <<>> /\ room
    BY <1>12 DEF Printer!SeeRoom
  <2>2. ready' \in BOOLEAN
    BY <1>12, Zenon DEF Printer!SeeRoom
  <2> QED
    BY <2>1, <2>2 DEF PrintInv, Listing
<1>13. CASE Printer!Put
  <2>1. /\ UNCHANGED <<level, routine, state, spec, clock, isr, isrReady, bursts>>
        /\ ready /\ isr = <<>> /\ printed' = Append(printed, Head(out))
        /\ lost' = (IF room THEN lost ELSE lost + 1) /\ out' = Tail(out)
    BY <1>13 DEF Printer!Put
  <2>2. ready' \in BOOLEAN /\ room' \in BOOLEAN /\ ~ready'
    BY <1>13, Zenon DEF Printer!Put
  <2>3. Listing(printed') /\ Len(printed') = Len(printed) + 1 /\ Len(printed) \in Nat
    BY <2>1, Appended DEF PrintInv
  <2>4. /\ ~isrReady /\ lost \in 0 .. Len(printed) /\ bursts \in Nat /\ lost <= bursts
        /\ (~room => lost < bursts) /\ routine # "none"
    BY <2>1, PrinterAssumption DEF PrintInv
  <2>5. lost' \in 0 .. Len(printed') /\ lost' <= bursts'
    BY <2>1, <2>3, <2>4
  <2>6. Listing(printed)'
    BY <2>3 DEF Listing
  <2> QED
    BY <1>1, <2>1, <2>2, <2>4, <2>5, <2>6 DEF PrintInv
\* The handlers and the host
<1>14. ASSUME Printer!Burst, clock' \in 0 .. Interval PROVE PrintInv'
  <2>1. /\ UNCHANGED <<level, routine, state, spec, out, ready, isrReady, room, printed, lost>>
        /\ isr = <<>> /\ bursts < Bursts /\ bursts' = bursts + 1 /\ isr' = Printer!Repeat("i", IsrLine)
    BY <1>14 DEF Printer!Burst
  <2>2. isr' \in Seq({"i"})
    <3>1. IsrLine \in Nat
      BY PrinterAssumption
    <3> QED
      BY <2>1, <3>1 DEF Printer!Repeat
  <2>3. ~isrReady /\ bursts \in Nat /\ bursts' \in 0 .. Bursts
    BY <2>1, PrinterAssumption DEF PrintInv
  <2> QED
    BY <1>14, <2>1, <2>2, <2>3, PrinterAssumption DEF PrintInv, Listing
<1>15. CASE Printer!Isr \/ Printer!Report \/ Printer!SystemClock
  <2>1. clock \in 0 .. Interval /\ Interval \in Nat
    BY PrinterAssumption DEF PrintInv
  <2>2. CASE Printer!Burst
    <3>1. clock' \in {0, clock, clock + 1} /\ (clock' = clock + 1 => clock + 1 <= Interval)
      BY <1>15, <2>1 DEF Printer!Isr, Printer!Report, Printer!SystemClock
    <3> QED
      BY <1>14, <2>1, <2>2, <3>1
  <2>3. CASE clock + 1 <= Interval /\ clock' = clock + 1 /\ UNCHANGED <<level, Printer!call, out, Printer!device>>
    BY <2>1, <2>3 DEF PrintInv, Listing
  <2> QED
    BY <1>15, <2>2, <2>3 DEF Printer!Isr, Printer!Report, Printer!SystemClock
<1>16. CASE Printer!IsrSeeRoom
  <2>1. /\ UNCHANGED <<level, routine, state, spec, out, clock, ready, isr, room, printed, lost, bursts>>
        /\ isr # <<>> /\ room
    BY <1>16 DEF Printer!IsrSeeRoom
  <2>2. isrReady' \in BOOLEAN
    BY <1>16, Zenon DEF Printer!IsrSeeRoom
  <2> QED
    BY <2>1, <2>2 DEF PrintInv, Listing
<1>17. CASE Printer!IsrPut
  <2>1. /\ UNCHANGED <<level, routine, state, spec, out, clock, ready, printed, lost, bursts>>
        /\ isrReady /\ isr' = Tail(isr)
    BY <1>17 DEF Printer!IsrPut
  <2>2. isrReady' \in BOOLEAN /\ room' \in BOOLEAN /\ ~isrReady'
    BY <1>17, Zenon DEF Printer!IsrPut
  <2>3. isr # <<>> /\ isr \in Seq({"i"})
    BY <2>1 DEF PrintInv
  <2>4. isr' \in Seq({"i"})
    BY <2>1, <2>3, HeadTailProperties
  <2> QED
    BY <2>1, <2>2, <2>3, <2>4 DEF PrintInv, Listing
<1>18. CASE Printer!HostTake
  <2>1. UNCHANGED <<level, routine, state, spec, out, clock, ready, isr, isrReady, printed, lost, bursts>>
    BY <1>18 DEF Printer!HostTake
  <2>2. room' \in BOOLEAN /\ room'
    BY <1>18, Zenon DEF Printer!HostTake
  <2> QED
    BY <2>1, <2>2 DEF PrintInv, Listing
<1>19. CASE Printer!Next
  BY <1>4, <1>6, <1>7, <1>8, <1>9, <1>10, <1>11, <1>12, <1>13, <1>15, <1>16, <1>17, <1>18, <1>19
     DEF Printer!Next, Printer!Main, Printer!Handler
<1> QED
  BY <1>0, <1>19 DEF Next, vars, NotLight, NotUart, NotProfiler, NotCache, NotSleeper, NotStamps,
                    NotChannels

LEMMA PrintTyped == PrintInv => Printer!ConsoleTypeOK
BY DEF PrintInv, Specs, Printer!ConsoleTypeOK

-----------------------------------------------------------------------------
(* The heap and the profiler *)

\* What alt_sbrk keeps true, whatever the stack pointer is.
Owners == {"malloc", "slab", "histogram"}

Heaps == [end : Nat, limit : Nat, overflow : BOOLEAN, odd : BOOLEAN,
          blocks : SUBSET [at : Nat, size : Nat, who : Owners]]

GoodHeap(h, top) ==
  /\ h \in Heaps
  /\ \A b \in h.blocks : b.at % 4 = 0 /\ b.at + b.size <= h.end /\ b.at + b.size <= HeapBytes
  /\ \A b \in h.blocks, c \in h.blocks :
        b = c \/ b.at + b.size <= c.at \/ c.at + c.size <= b.at
  /\ ~h.odd => /\ h.end % 4 = 0 /\ h.limit = h.end
               /\ h.overflow \/ h.end <= top

LEMMA AlignedIs ==
  ASSUME NEW a \in Nat
  PROVE  /\ Profiler!Aligned(a) \in Nat /\ a <= Profiler!Aligned(a)
         /\ Profiler!Aligned(a) % 4 = 0
         /\ a % 4 = 0 => Profiler!Aligned(a) = a
BY DEF Profiler!Aligned

LEMMA SbrkKeeps ==
  ASSUME NEW h, GoodHeap(h, sp), sp \in Nat, NEW incr \in Nat, NEW who \in Owners
  PROVE  LET g == Profiler!Sbrk(h, incr, who)
         IN /\ GoodHeap(g, sp) /\ h.end <= g.end /\ h.blocks \subseteq g.blocks
            /\ Profiler!Granted(h, incr) =>
                 /\ Profiler!Given(h, incr, who) \in g.blocks
                 /\ g.end = Profiler!Aligned(h.end) + incr
<1> DEFINE a == Profiler!Aligned(h.end)
           nxt == a + incr
           g == Profiler!Sbrk(h, incr, who)
           new == Profiler!Given(h, incr, who)
<1>1. h \in Heaps /\ h.end \in Nat
  BY DEF GoodHeap, Heaps
<1>2. a \in Nat /\ h.end <= a /\ a % 4 = 0 /\ (h.end % 4 = 0 => a = h.end)
  BY <1>1, AlignedIs
<1>3. CASE ~Profiler!Granted(h, incr)
  <2>1. g = [h EXCEPT !.end = a]
    BY <1>3 DEF Profiler!Sbrk
  <2> HIDE DEF a, g
  <2>2. g \in Heaps /\ g.end = a /\ g.blocks = h.blocks /\ g.odd = h.odd /\ g.limit = h.limit
        /\ g.overflow = h.overflow
    BY <1>1, <1>2, <2>1 DEF Heaps
  <2>3. \A b \in h.blocks : b.at \in Nat /\ b.size \in Nat
    BY <1>1 DEF Heaps
  <2>4. \A b \in g.blocks : b.at % 4 = 0 /\ b.at + b.size <= g.end /\ b.at + b.size <= HeapBytes
    BY <1>1, <1>2, <2>2, <2>3 DEF GoodHeap
  <2>5. ~g.odd => /\ g.end % 4 = 0 /\ g.limit = g.end
                  /\ g.overflow \/ g.end <= sp
    BY <1>2, <2>2 DEF GoodHeap
  <2>6. GoodHeap(g, sp)
    BY <2>2, <2>4, <2>5 DEF GoodHeap
  <2> QED
    BY <1>2, <1>3, <2>2, <2>6 DEF g
<1>4. CASE Profiler!Granted(h, incr)
  <2>1. /\ g = [end |-> nxt,
                limit |-> IF h.limit = a THEN nxt ELSE h.limit,
                overflow |-> h.overflow \/ (h.limit = a /\ sp <= nxt),
                odd |-> h.odd \/ nxt % 4 # 0,
                blocks |-> h.blocks \cup {new}]
        /\ new = [at |-> a, size |-> incr, who |-> who] /\ nxt <= HeapBytes
    BY <1>4 DEF Profiler!Sbrk, Profiler!Follows, Profiler!Granted, Profiler!Given
  <2>2. nxt \in Nat /\ a <= nxt /\ nxt = a + incr
    BY <1>2
  <2> HIDE DEF a, g, new, nxt
  <2>3. new \in [at : Nat, size : Nat, who : Owners] /\ new.at = a /\ new.size = incr
    BY <1>2, <2>1
  <2>4. /\ g.end = nxt /\ g.blocks = h.blocks \cup {new}
        /\ g.limit = (IF h.limit = a THEN nxt ELSE h.limit)
        /\ (g.overflow <=> h.overflow \/ (h.limit = a /\ sp <= nxt))
        /\ (g.odd <=> h.odd \/ nxt % 4 # 0)
    BY <2>1
  <2>5. g \in Heaps
    <3>1. h.limit \in Nat /\ h.overflow \in BOOLEAN /\ h.odd \in BOOLEAN
          /\ h.blocks \subseteq [at : Nat, size : Nat, who : Owners]
      BY <1>1 DEF Heaps
    <3>2. (h.overflow \/ (h.limit = a /\ sp <= nxt)) \in BOOLEAN
          /\ (h.odd \/ nxt % 4 # 0) \in BOOLEAN
      OBVIOUS
    <3>3. h.blocks \cup {new} \subseteq [at : Nat, size : Nat, who : Owners]
      BY <2>3, <3>1
    <3>4. (IF h.limit = a THEN nxt ELSE h.limit) \in Nat
      BY <2>2, <3>1
    <3> QED
      BY <2>1, <2>2, <3>2, <3>3, <3>4 DEF Heaps
  <2>6. \A b \in h.blocks : b.at \in Nat /\ b.size \in Nat /\ b.at + b.size <= a
    BY <1>1, <1>2 DEF GoodHeap, Heaps
  <2>7. \A b \in g.blocks : b.at % 4 = 0 /\ b.at + b.size <= g.end /\ b.at + b.size <= HeapBytes
    BY <1>2, <2>1, <2>2, <2>3, <2>4, <2>6 DEF GoodHeap
  <2>8. \A b \in g.blocks, c \in g.blocks :
          b = c \/ b.at + b.size <= c.at \/ c.at + c.size <= b.at
    BY <2>3, <2>4, <2>6 DEF GoodHeap
  <2>9. ~g.odd => /\ g.end % 4 = 0 /\ g.limit = g.end
                  /\ g.overflow \/ g.end <= sp
    <3> SUFFICES ASSUME ~g.odd PROVE g.end % 4 = 0 /\ g.limit = g.end /\ (g.overflow \/ g.end <= sp)
      OBVIOUS
    <3>1. ~h.odd /\ nxt % 4 = 0
      BY <2>4
    <3>2. h.limit = a
      BY <1>2, <3>1 DEF GoodHeap
    <3> QED
      BY <2>2, <2>4, <3>1, <3>2
  <2>10. GoodHeap(g, sp)
    BY <2>5, <2>7, <2>8, <2>9 DEF GoodHeap
  <2>11. /\ h.end <= g.end /\ h.blocks \subseteq g.blocks /\ new \in g.blocks
         /\ g.end = a + incr
    <3>1. h.end <= nxt
      BY <1>1, <1>2, <2>2
    <3> QED
      BY <2>2, <2>4, <3>1
  <2> QED
    BY <2>10, <2>11 DEF g, new, a
<1> QED
  BY <1>3, <1>4

\* Where entries and arcs have been put: each in a slab, each in a place of its
\* own, and none in what is left of the slab in use.
Within(s, n, blocks) == \E b \in blocks : b.who = "slab" /\ b.at <= s /\ s + n <= b.at + b.size

Disjoint(a, b) == a + Struct <= b \/ b + Struct <= a

GoodMemory(m, top) ==
  /\ GoodHeap(m.heap, top)
  /\ m.refused \in BOOLEAN
  /\ ~m.refused =>
       /\ m.ptr \in Nat /\ m.size \in Nat
       /\ m.size > 0 => Within(m.ptr, m.size, m.heap.blocks)
       /\ m.structs \in Seq(Nat)
       /\ \A k \in 1 .. Len(m.structs) :
             /\ Within(m.structs[k], Struct, m.heap.blocks)
             /\ m.structs[k] + Struct <= m.heap.end
             /\ m.structs[k] + Struct <= m.ptr \/ m.ptr + m.size <= m.structs[k]
       /\ \A k, l \in 1 .. Len(m.structs) : k = l \/ Disjoint(m.structs[k], m.structs[l])

\* More memory, for whatever purpose, leaves what was given out where it is.
LEMMA WithinMore ==
  ASSUME NEW s, NEW n, NEW B, NEW C, B \subseteq C, Within(s, n, B)
  PROVE  Within(s, n, C)
BY DEF Within

Memories == [heap : Heaps, ptr : Int, size : Int, structs : Seq(Int), refused : BOOLEAN]

LEMMA AllocateKeeps ==
  ASSUME NEW m \in Memories, GoodMemory(m, sp), sp \in Nat
  PROVE  Profiler!Allocate(m) \in Memories /\ GoodMemory(Profiler!Allocate(m), sp)
<1> DEFINE s == Profiler!Slabbed(m)
           h == m.heap
           g == Profiler!Sbrk(h, Slab, "slab")
           r == Profiler!Allocate(m)
<1>1. Struct \in Nat \ {0} /\ Slab \in Nat /\ Struct <= Slab
  BY ProfilerAssumption
<1>2. /\ h \in Heaps /\ m.ptr \in Int /\ m.size \in Int /\ m.structs \in Seq(Int)
      /\ m.refused \in BOOLEAN /\ GoodHeap(h, sp)
  BY DEF Memories, GoodMemory
\* What is used is within the slab, and apart from what was given out.
<1>3. /\ s \in Memories /\ GoodHeap(s.heap, sp) /\ s.structs = m.structs
      /\ ~s.refused =>
           /\ ~m.refused /\ s.ptr \in Nat /\ s.size \in Nat /\ Struct <= s.size
           /\ Within(s.ptr, s.size, s.heap.blocks)
           /\ h.blocks \subseteq s.heap.blocks /\ h.end <= s.heap.end
           /\ \A k \in 1 .. Len(m.structs) :
                 m.structs[k] + Struct <= s.ptr \/ s.ptr + s.size <= m.structs[k]
  <2>1. CASE Struct <= m.size
    <3>1. s = m
      BY <2>1 DEF Profiler!Slabbed
    <3>2. ~m.refused => /\ m.size \in Nat /\ m.ptr \in Nat
                        /\ Within(m.ptr, m.size, m.heap.blocks)
      BY <1>1, <2>1 DEF GoodMemory
    <3>3. h.end <= h.end
      BY <1>2 DEF Heaps
    <3> QED
      BY <1>2, <2>1, <3>1, <3>2, <3>3 DEF GoodMemory
  <2>2. CASE ~(Struct <= m.size)
    <3>1. s = [m EXCEPT !.heap = g,
                        !.ptr = IF Profiler!Granted(h, Slab) THEN Profiler!Aligned(h.end) ELSE -1,
                        !.size = Slab,
                        !.refused = m.refused \/ ~Profiler!Granted(h, Slab)]
      BY <2>2 DEF Profiler!Slabbed
    <3>2. /\ GoodHeap(g, sp) /\ h.end <= g.end /\ h.blocks \subseteq g.blocks
          /\ Profiler!Granted(h, Slab) =>
                 /\ Profiler!Given(h, Slab, "slab") \in g.blocks
                 /\ g.end = Profiler!Aligned(h.end) + Slab
      <4> HIDE DEF h
      <4>1. GoodHeap(h, sp) /\ Slab \in Nat
        BY <1>1, <1>2
      <4>2. "slab" \in Owners
        BY DEF Owners
      <4> QED
        BY <4>1, <4>2, SbrkKeeps, Zenon
    <3> DEFINE a == Profiler!Aligned(h.end)
    <3>3. a \in Nat /\ h.end <= a /\ h.end \in Nat
      BY <1>2, AlignedIs DEF Heaps
    <3>4. Profiler!Given(h, Slab, "slab") = [at |-> a, size |-> Slab, who |-> "slab"]
      BY DEF Profiler!Given
    <3> DEFINE o == m.refused \/ ~Profiler!Granted(h, Slab)
               p == IF Profiler!Granted(h, Slab) THEN a ELSE -1
    <3>9. s = [m EXCEPT !.heap = g, !.ptr = p, !.size = Slab, !.refused = o]
      BY <3>1
    <3>10. o \in BOOLEAN /\ (o <=> m.refused \/ ~Profiler!Granted(h, Slab))
      OBVIOUS
    <3>11. p \in Int /\ (Profiler!Granted(h, Slab) => p = a)
      BY <3>3
    <3> HIDE DEF a, g, s, o, p
    <3>5. /\ s.heap = g /\ s.size = Slab /\ s.structs = m.structs
          /\ s.ptr = p /\ s.refused = o
          /\ s = [heap |-> s.heap, ptr |-> s.ptr, size |-> s.size, structs |-> s.structs,
                  refused |-> s.refused]
      BY <3>9 DEF Memories
    <3>6. s \in Memories
      <4>1. g \in Heaps
        BY <3>2 DEF GoodHeap
      <4>2. s.ptr \in Int
        BY <3>5, <3>11
      <4>3. s.refused \in BOOLEAN
        BY <3>5, <3>10
      <4> QED
        BY <1>1, <1>2, <3>5, <4>1, <4>2, <4>3 DEF Memories
    <3>7. ASSUME ~s.refused
          PROVE  /\ ~m.refused /\ s.ptr \in Nat /\ s.size \in Nat /\ Struct <= s.size
                 /\ Within(s.ptr, s.size, s.heap.blocks)
                 /\ h.blocks \subseteq s.heap.blocks /\ h.end <= s.heap.end
                 /\ \A k \in 1 .. Len(m.structs) :
                       m.structs[k] + Struct <= s.ptr \/ s.ptr + s.size <= m.structs[k]
      <4>1. Profiler!Granted(h, Slab) /\ ~m.refused /\ s.ptr = a
        BY <3>5, <3>7, <3>10, <3>11
      <4>2. Within(a, Slab, g.blocks)
        <5> DEFINE b == [at |-> a, size |-> Slab, who |-> "slab"]
        <5>1. b \in g.blocks
          BY <3>2, <3>4, <4>1
        <5>3. b.who = "slab" /\ b.at = a /\ b.size = Slab
          OBVIOUS
        <5> HIDE DEF b
        <5>2. b.who = "slab" /\ b.at <= a /\ a + Slab <= b.at + b.size
          BY <1>1, <3>3, <5>3
        <5> QED
          BY <5>1, <5>2 DEF Within
      <4>3. ASSUME NEW k \in 1 .. Len(m.structs)
            PROVE  m.structs[k] + Struct <= a
        <5>1. m.structs[k] + Struct <= h.end /\ m.structs[k] \in Nat
          BY <4>1 DEF GoodMemory
        <5> QED
          BY <1>1, <3>3, <5>1
      <4> QED
        BY <1>1, <3>2, <3>3, <3>5, <4>1, <4>2, <4>3
    <3> QED
      BY <3>2, <3>5, <3>6, <3>7
  <2> QED
    BY <2>1, <2>2
<1>4. r = [s EXCEPT !.ptr = s.ptr + Struct, !.size = s.size - Struct,
                    !.structs = Append(s.structs, s.ptr)]
  BY DEF Profiler!Allocate
<1> HIDE DEF s, r
<1>5. /\ r.heap = s.heap /\ r.ptr = s.ptr + Struct /\ r.size = s.size - Struct
      /\ r.structs = Append(m.structs, s.ptr) /\ r.refused = s.refused
      /\ r = [heap |-> r.heap, ptr |-> r.ptr, size |-> r.size, structs |-> r.structs,
              refused |-> r.refused]
  BY <1>3, <1>4 DEF Memories
<1>6. r \in Memories
  <2>1. s.ptr \in Int /\ s.size \in Int /\ s.heap \in Heaps /\ s.refused \in BOOLEAN
    BY <1>3 DEF Memories
  <2>2. Append(m.structs, s.ptr) \in Seq(Int)
    BY <1>2, <2>1
  <2>3. r.heap \in Heaps /\ r.ptr \in Int /\ r.size \in Int /\ r.structs \in Seq(Int)
        /\ r.refused \in BOOLEAN
    BY <1>1, <1>5, <2>1, <2>2
  <2> QED
    BY <1>5, <2>3 DEF Memories
<1>7. ASSUME ~r.refused
      PROVE  /\ r.ptr \in Nat /\ r.size \in Nat
             /\ r.size > 0 => Within(r.ptr, r.size, r.heap.blocks)
             /\ r.structs \in Seq(Nat)
             /\ \A k \in 1 .. Len(r.structs) :
                   /\ Within(r.structs[k], Struct, r.heap.blocks)
                   /\ r.structs[k] + Struct <= r.heap.end
                   /\ r.structs[k] + Struct <= r.ptr \/ r.ptr + r.size <= r.structs[k]
             /\ \A k, l \in 1 .. Len(r.structs) : k = l \/ Disjoint(r.structs[k], r.structs[l])
  <2>1. /\ ~m.refused /\ s.ptr \in Nat /\ s.size \in Nat /\ Struct <= s.size
        /\ Within(s.ptr, s.size, s.heap.blocks)
        /\ h.blocks \subseteq s.heap.blocks /\ h.end <= s.heap.end
        /\ \A k \in 1 .. Len(m.structs) :
              m.structs[k] + Struct <= s.ptr \/ s.ptr + s.size <= m.structs[k]
    BY <1>3, <1>5, <1>7
  <2>2. PICK b \in s.heap.blocks : b.who = "slab" /\ b.at <= s.ptr /\ s.ptr + s.size <= b.at + b.size
    BY <2>1 DEF Within
  <2>3. b.at \in Nat /\ b.size \in Nat /\ b.at + b.size <= s.heap.end /\ s.heap.end \in Nat
    <3>1. s.heap \in Heaps /\ b.at + b.size <= s.heap.end
      BY <1>3 DEF GoodHeap
    <3>2. /\ s.heap.blocks \subseteq [at : Nat, size : Nat, who : Owners]
          /\ s.heap.end \in Nat
      BY <3>1 DEF Heaps
    <3> QED
      BY <3>1, <3>2
  <2>4. r.ptr \in Nat /\ r.size \in Nat
    BY <1>1, <1>5, <2>1
  <2>5. Within(r.ptr, r.size, r.heap.blocks) /\ Within(s.ptr, Struct, r.heap.blocks)
    <3>1. b.at <= r.ptr /\ r.ptr + r.size <= b.at + b.size /\ s.ptr + Struct <= b.at + b.size
      BY <1>1, <1>5, <2>1, <2>2, <2>3
    <3> QED
      BY <1>5, <2>2, <3>1 DEF Within
  <2> DEFINE n == Len(m.structs)
  <2>6. m.structs \in Seq(Nat) /\ n \in Nat
    BY <2>1 DEF GoodMemory
  <2>7. /\ r.structs \in Seq(Nat) /\ Len(r.structs) = n + 1
        /\ r.structs[n + 1] = s.ptr
        /\ \A k \in 1 .. n : r.structs[k] = m.structs[k]
    BY <1>5, <2>1, <2>6
  <2>8. \A k \in 1 .. n : /\ Within(m.structs[k], Struct, h.blocks)
                          /\ m.structs[k] + Struct <= h.end /\ m.structs[k] \in Nat
                          /\ \A l \in 1 .. n : k = l \/ Disjoint(m.structs[k], m.structs[l])
    BY <2>1, <2>6 DEF GoodMemory
  <2> HIDE DEF n, h
  <2>9. ASSUME NEW k \in 1 .. (n + 1)
        PROVE  /\ Within(r.structs[k], Struct, r.heap.blocks)
               /\ r.structs[k] + Struct <= r.heap.end
               /\ r.structs[k] + Struct <= r.ptr \/ r.ptr + r.size <= r.structs[k]
    <3>1. CASE k = n + 1
      <4>1. s.ptr + Struct <= s.heap.end
        BY <1>1, <2>1, <2>2, <2>3
      <4>2. s.ptr + Struct <= r.ptr
        BY <1>1, <1>5, <2>1
      <4> QED
        BY <1>5, <2>5, <2>7, <3>1, <4>1, <4>2
    <3>2. CASE k # n + 1
      <4>1. k \in 1 .. n
        BY <2>6, <3>2
      <4> DEFINE p == m.structs[k]
      <4>2. /\ r.structs[k] = p /\ p \in Nat /\ p + Struct <= h.end /\ Within(p, Struct, h.blocks)
            /\ p + Struct <= s.ptr \/ s.ptr + s.size <= p
        BY <2>1, <2>7, <2>8, <4>1 DEF n
      <4> HIDE DEF p
      <4>3. Within(p, Struct, r.heap.blocks)
        BY <1>5, <2>1, <4>2, WithinMore
      <4>4. h.end \in Nat
        BY <1>2 DEF Heaps
      <4>5. p + Struct <= s.heap.end
        BY <1>1, <2>1, <2>3, <4>2, <4>4
      <4>6. p + Struct <= r.ptr \/ r.ptr + r.size <= p
        BY <1>1, <1>5, <2>1, <4>2
      <4> QED
        BY <1>5, <4>2, <4>3, <4>5, <4>6
    <3> QED
      BY <3>1, <3>2
  <2>10. ASSUME NEW k \in 1 .. (n + 1), NEW l \in 1 .. (n + 1), k # l
         PROVE  Disjoint(r.structs[k], r.structs[l])
    <3>1. ASSUME NEW j \in 1 .. n PROVE Disjoint(r.structs[j], s.ptr) /\ Disjoint(s.ptr, r.structs[j])
      <4>1. /\ r.structs[j] = m.structs[j] /\ m.structs[j] \in Nat
            /\ m.structs[j] + Struct <= s.ptr \/ s.ptr + s.size <= m.structs[j]
        BY <2>1, <2>7, <2>8 DEF n
      <4> QED
        BY <1>1, <2>1, <4>1 DEF Disjoint
    <3>2. CASE k = n + 1
      <4>1. l \in 1 .. n
        BY <2>6, <2>10, <3>2
      <4> QED
        BY <2>7, <3>1, <3>2, <4>1
    <3>3. CASE l = n + 1
      <4>1. k \in 1 .. n
        BY <2>6, <2>10, <3>3
      <4> QED
        BY <2>7, <3>1, <3>3, <4>1
    <3>4. CASE k # n + 1 /\ l # n + 1
      <4>1. k \in 1 .. n /\ l \in 1 .. n
        BY <2>6, <3>4
      <4> QED
        BY <2>7, <2>8, <2>10, <4>1
    <3> QED
      BY <3>2, <3>3, <3>4
  <2> QED
    BY <2>4, <2>5, <2>7, <2>9, <2>10
<1>8. GoodMemory(r, sp)
  <2>1. GoodHeap(r.heap, sp) /\ r.refused \in BOOLEAN
    BY <1>3, <1>5, <1>6 DEF Memories
  <2> QED
    BY <1>7, <2>1 DEF GoodMemory
<1> QED
  BY <1>6, <1>8 DEF r

ProfInv ==
  /\ sp \in Nat
  /\ Profiler!Memory \in Memories /\ GoodMemory(Profiler!Memory, sp)
  /\ sampled < Profiler!HistogramSize

LEMMA HistogramIs == Profiler!HistogramSize \in Nat
BY ProfilerAssumption DEF Profiler!HistogramSize

\* What is kept of the memory when only the heap is given something more.
LEMMA HeapGrows ==
  ASSUME NEW m \in Memories, GoodMemory(m, sp), sp \in Nat,
         NEW incr \in Nat, NEW who \in Owners, NEW n \in Memories,
         n.heap = Profiler!Sbrk(m.heap, incr, who),
         n.ptr = m.ptr, n.size = m.size, n.structs = m.structs,
         ~n.refused => ~m.refused
  PROVE  GoodMemory(n, sp)
<1> DEFINE h == m.heap
           g == n.heap
<1>1. GoodHeap(h, sp) /\ h.end \in Nat
  BY DEF GoodMemory, GoodHeap, Heaps
<1>2. GoodHeap(g, sp) /\ h.end <= g.end /\ h.blocks \subseteq g.blocks
  <2>1. g = Profiler!Sbrk(h, incr, who)
    OBVIOUS
  <2> HIDE DEF h, g
  <2>2. /\ GoodHeap(Profiler!Sbrk(h, incr, who), sp)
        /\ h.end <= Profiler!Sbrk(h, incr, who).end
        /\ h.blocks \subseteq Profiler!Sbrk(h, incr, who).blocks
    BY <1>1, SbrkKeeps, Zenon
  <2> QED
    BY <2>1, <2>2
<1>3. g.end \in Nat /\ n.refused \in BOOLEAN
  BY <1>2 DEF GoodHeap, Heaps, Memories
<1>4. ASSUME ~n.refused
      PROVE  /\ n.ptr \in Nat /\ n.size \in Nat
             /\ n.size > 0 => Within(n.ptr, n.size, n.heap.blocks)
             /\ n.structs \in Seq(Nat)
             /\ \A k \in 1 .. Len(n.structs) :
                   /\ Within(n.structs[k], Struct, n.heap.blocks)
                   /\ n.structs[k] + Struct <= n.heap.end
                   /\ n.structs[k] + Struct <= n.ptr \/ n.ptr + n.size <= n.structs[k]
             /\ \A k, l \in 1 .. Len(n.structs) : k = l \/ Disjoint(n.structs[k], n.structs[l])
  <2>1. /\ m.ptr \in Nat /\ m.size \in Nat
        /\ m.size > 0 => Within(m.ptr, m.size, h.blocks)
        /\ m.structs \in Seq(Nat)
        /\ \A k \in 1 .. Len(m.structs) :
              /\ Within(m.structs[k], Struct, h.blocks)
              /\ m.structs[k] + Struct <= h.end
              /\ m.structs[k] + Struct <= m.ptr \/ m.ptr + m.size <= m.structs[k]
        /\ \A k, l \in 1 .. Len(m.structs) : k = l \/ Disjoint(m.structs[k], m.structs[l])
    BY <1>4 DEF GoodMemory
  <2>2. n.size > 0 => Within(n.ptr, n.size, g.blocks)
    BY <1>2, <2>1, WithinMore
  <2>3. ASSUME NEW k \in 1 .. Len(m.structs)
        PROVE  Within(m.structs[k], Struct, g.blocks) /\ m.structs[k] + Struct <= g.end
    <3> DEFINE p == m.structs[k]
    <3>1. p \in Nat /\ Within(p, Struct, h.blocks) /\ p + Struct <= h.end
      BY <2>1
    <3> HIDE DEF p, h, g
    <3>2. Within(p, Struct, g.blocks)
      BY <1>2, <3>1, WithinMore
    <3>3. p + Struct <= g.end
      BY <1>1, <1>2, <1>3, <3>1, ProfilerAssumption
    <3> QED
      BY <3>2, <3>3 DEF p
  <2> QED
    BY <2>1, <2>2, <2>3
<1> QED
  BY <1>2, <1>3, <1>4 DEF GoodMemory

LEMMA ProfStarts == Init => ProfInv
<1> SUFFICES ASSUME Init PROVE ProfInv
  OBVIOUS
<1>1. /\ heap = Profiler!NewHeap /\ sp = HeapBytes /\ slab_ptr = 0 /\ slab_size = 0
      /\ structs = <<>> /\ refused = FALSE /\ sampled = -1
  BY DEF Init, Profiler!Init, Profiler!HeapInit
<1>2. Profiler!NewHeap \in Heaps
  BY DEF Profiler!NewHeap, Heaps
<1>3. GoodHeap(heap, sp)
  BY <1>1, <1>2, ProfilerAssumption DEF GoodHeap, Profiler!NewHeap
<1>4. Profiler!Memory \in Memories
  <2>1. heap \in Heaps /\ slab_ptr \in Int /\ slab_size \in Int
    BY <1>1, <1>2
  <2>2. refused \in BOOLEAN
    BY <1>1
  <2>3. structs \in Seq(Int)
    BY <1>1
  <2> QED
    BY <2>1, <2>2, <2>3 DEF Memories, Profiler!Memory
<1>5. GoodMemory(Profiler!Memory, sp)
  <2>1. structs \in Seq(Nat) /\ 1 .. Len(structs) = {}
    BY <1>1
  <2> DEFINE m == Profiler!Memory
  <2>2. /\ m.heap = heap /\ m.ptr = 0 /\ m.size = 0 /\ m.structs = structs
        /\ m.refused = FALSE
    BY <1>1 DEF Profiler!Memory
  <2> HIDE DEF m
  <2>3. 1 .. Len(m.structs) = {} /\ m.structs \in Seq(Nat)
    BY <2>1, <2>2
  <2>4. ~(m.size > 0)
    BY <2>2
  <2>5. m.ptr \in Nat /\ m.size \in Nat
    BY <2>2
  <2>8. m.refused \in BOOLEAN
    BY <2>2, Zenon
  <2>6. GoodHeap(m.heap, sp)
    BY <1>3, <2>2
  <2>7. GoodMemory(m, sp)
    BY <2>3, <2>4, <2>5, <2>6, <2>8 DEF GoodMemory
  <2> QED
    BY <2>7 DEF m
<1> QED
  BY <1>1, <1>4, <1>5, HistogramIs, ProfilerAssumption DEF ProfInv

LEMMA ProfNext == ProfInv /\ [Next]_vars => ProfInv'
<1> SUFFICES ASSUME ProfInv, [Next]_vars PROVE ProfInv'
  OBVIOUS
<1>1. ASSUME UNCHANGED profiler PROVE ProfInv'
  BY <1>1 DEF ProfInv, profiler, Profiler!Memory, Profiler!HistogramSize
<1> DEFINE M == Profiler!Memory
<1>2. /\ sp \in Nat /\ M \in Memories /\ GoodMemory(M, sp) /\ sampled < Profiler!HistogramSize
      /\ GoodHeap(heap, sp) /\ M.heap = heap
      /\ M = [heap |-> heap, ptr |-> slab_ptr, size |-> slab_size, structs |-> structs,
              refused |-> refused]
  BY DEF ProfInv, GoodMemory, Profiler!Memory
\* Steps that leave the memory alone
<1>3. ASSUME UNCHANGED <<heap, sp, slab_ptr, slab_size, structs, refused>>,
             sampled' < Profiler!HistogramSize
      PROVE  ProfInv'
  BY <1>3 DEF ProfInv, Profiler!Memory, Profiler!HistogramSize
<1>4. ASSUME Profiler!Next PROVE ProfInv'
  <2>1. ASSUME NEW c \in Profiler!Contexts, NEW x \in Arcs, Profiler!Call(c, x)
        PROVE  ProfInv'
    BY <1>2, <1>3, <2>1 DEF Profiler!Call, Profiler!lists, Profiler!sampler
  <2>2. ASSUME NEW c \in Profiler!Contexts, Profiler!FindEntry(c) PROVE ProfInv'
    BY <1>2, <1>3, <2>2 DEF Profiler!FindEntry, Profiler!lists, Profiler!sampler
  <2>3. ASSUME NEW c \in Profiler!Contexts, Profiler!FindArc(c) PROVE ProfInv'
    BY <1>2, <1>3, <2>3 DEF Profiler!FindArc, Profiler!lists, Profiler!sampler
  <2>4. ASSUME NEW c \in Profiler!Contexts, Profiler!Load(c) PROVE ProfInv'
    BY <1>2, <1>3, <2>4 DEF Profiler!Load, Profiler!lists, Profiler!sampler
  <2>5. ASSUME NEW c \in Profiler!Contexts, Profiler!Store(c) PROVE ProfInv'
    BY <1>2, <1>3, <2>5 DEF Profiler!Store, Profiler!Over, Profiler!lists, Profiler!sampler
  <2>6. ASSUME NEW c \in Profiler!Contexts, Profiler!TestInit(c) PROVE ProfInv'
    BY <1>2, <1>3, <2>6 DEF Profiler!TestInit, Profiler!lists, Profiler!sampler
  <2>7. ASSUME NEW c \in Profiler!Contexts, Profiler!ClearInit(c) PROVE ProfInv'
    BY <1>2, <1>3, <2>7 DEF Profiler!ClearInit, Profiler!lists
  <2>8. ASSUME NEW c \in Profiler!Contexts, Profiler!StartSampling(c) PROVE ProfInv'
    <3>1. CASE ~rate
      BY <1>2, <1>3, <2>8, <3>1 DEF Profiler!StartSampling
    <3>2. CASE rate
      <4> DEFINE z == 2 * Profiler!HistogramSize
                 N == [heap |-> heap', ptr |-> slab_ptr, size |-> slab_size,
                       structs |-> structs, refused |-> refused']
      <4>1. /\ heap' = Profiler!Sbrk(heap, z, "histogram")
            /\ refused' = (refused \/ ~Profiler!Granted(heap, z))
            /\ UNCHANGED <<sp, slab_ptr, slab_size, structs, sampled>>
        BY <2>8, <3>2 DEF Profiler!StartSampling
      <4>2. z \in Nat /\ "histogram" \in Owners
        BY HistogramIs DEF Owners
      <4>3. refused' \in BOOLEAN /\ (~refused' => ~refused)
        BY <4>1
      <4> HIDE DEF z, M
      <4>4. GoodHeap(Profiler!Sbrk(heap, z, "histogram"), sp)
        BY <1>2, <4>2, SbrkKeeps, Zenon
      <4>5. heap' \in Heaps
        BY <4>1, <4>4 DEF GoodHeap
      <4>6. slab_ptr \in Int /\ slab_size \in Int /\ structs \in Seq(Int)
        BY <1>2 DEF Memories
      <4>7. N \in Memories
        BY <4>3, <4>5, <4>6 DEF Memories
      <4>8. /\ N.heap = Profiler!Sbrk(M.heap, z, "histogram") /\ N.ptr = M.ptr
            /\ N.size = M.size /\ N.structs = M.structs /\ (~N.refused => ~M.refused)
        BY <1>2, <4>1, <4>3
      <4>9. GoodMemory(N, sp)
        <5> HIDE DEF N
        <5> QED
          BY <1>2, <4>2, <4>7, <4>8, HeapGrows
      <4>10. Profiler!Memory' = N
        BY <4>1 DEF Profiler!Memory
      <4> HIDE DEF N
      <4>11. Profiler!HistogramSize' = Profiler!HistogramSize
        BY DEF Profiler!HistogramSize
      <4>12. sp' = sp /\ sampled' = sampled
        BY <4>1
      <4> QED
        BY <1>2, <4>7, <4>9, <4>10, <4>11, <4>12 DEF ProfInv
    <3> QED
      BY <3>1, <3>2
  <2>9. ASSUME NEW c \in Profiler!Contexts, Profiler!Add(c) PROVE ProfInv'
    <3> DEFINE A == Profiler!Allocate(M)
               B == Profiler!Allocate(A)
               m == IF entry[c] = 0 THEN B ELSE A
    <3>1. /\ heap' = m.heap /\ slab_ptr' = m.ptr /\ slab_size' = m.size
          /\ structs' = m.structs /\ refused' = m.refused
          /\ sp' = sp /\ sampled' = sampled
      BY <2>9 DEF Profiler!Add, Profiler!Over, Profiler!sampler
    <3>2. m \in Memories /\ GoodMemory(m, sp)
      <4> HIDE DEF M
      <4>1. A \in Memories /\ GoodMemory(A, sp)
        BY <1>2, AllocateKeeps
      <4> HIDE DEF A
      <4>2. B \in Memories /\ GoodMemory(B, sp)
        BY <1>2, <4>1, AllocateKeeps
      <4> HIDE DEF B
      <4> QED
        BY <4>1, <4>2
    <3> HIDE DEF m
    <3>3. m = [heap |-> m.heap, ptr |-> m.ptr, size |-> m.size, structs |-> m.structs,
               refused |-> m.refused]
      BY <3>2 DEF Memories
    <3>4. Profiler!Memory' = m
      BY <3>1, <3>3 DEF Profiler!Memory
    <3>5. Profiler!HistogramSize' = Profiler!HistogramSize
      BY DEF Profiler!HistogramSize
    <3> QED
      BY <1>2, <3>1, <3>2, <3>4, <3>5, SMTT(30) DEF ProfInv
  <2>10. ASSUME NEW c \in 0 .. Text - 1, Profiler!Sample(c) PROVE ProfInv'
    <3>1. /\ sampled' = c \div Bucket
          /\ UNCHANGED <<heap, sp, slab_ptr, slab_size, structs, refused>>
      BY <2>10 DEF Profiler!Sample, Profiler!lists
    <3>2. c \div Bucket < Text \div Bucket
      <4>1. c \in Nat /\ c < Text /\ Text \in Nat /\ Bucket \in Nat \ {0} /\ Text % Bucket = 0
        BY ProfilerAssumption
      <4>2. Text = Bucket * (Text \div Bucket) /\ Text \div Bucket \in Nat
        BY <4>1
      <4>3. /\ c \div Bucket \in Nat /\ Bucket * (c \div Bucket) <= c
        BY <4>1
      <4>4. CASE Text \div Bucket <= c \div Bucket
        <5>1. Bucket * (Text \div Bucket) <= Bucket * (c \div Bucket)
          BY <4>1, <4>2, <4>3, <4>4
        <5> QED
          BY <4>1, <4>2, <4>3, <5>1
      <4> QED
        BY <4>2, <4>3, <4>4
    <3> QED
      BY <1>3, <3>1, <3>2 DEF Profiler!HistogramSize
  <2>11. ASSUME Profiler!ClockStarts PROVE ProfInv'
    BY <1>2, <1>3, <2>11 DEF Profiler!ClockStarts, Profiler!lists
  <2>12. ASSUME NEW n \in Increments, Profiler!Malloc(n),
                UNCHANGED <<Profiler!lists, Profiler!sampler>>
         PROVE  ProfInv'
    <3> DEFINE N == [heap |-> heap', ptr |-> slab_ptr, size |-> slab_size,
                     structs |-> structs, refused |-> refused]
    <3>1. /\ heap' = Profiler!Sbrk(heap, n, "malloc")
          /\ UNCHANGED <<sp, slab_ptr, slab_size, structs, refused, sampled>>
      BY <2>12 DEF Profiler!Malloc, Profiler!lists, Profiler!sampler
    <3>2. n \in Nat /\ "malloc" \in Owners
      BY ProfilerAssumption DEF Owners
    <3> HIDE DEF M
    <3>4. GoodHeap(Profiler!Sbrk(heap, n, "malloc"), sp)
      BY <1>2, <3>2, SbrkKeeps, Zenon
    <3>5. heap' \in Heaps
      BY <3>1, <3>4 DEF GoodHeap
    <3>6. slab_ptr \in Int /\ slab_size \in Int /\ structs \in Seq(Int) /\ refused \in BOOLEAN
      BY <1>2 DEF Memories
    <3>7. N \in Memories
      BY <3>5, <3>6 DEF Memories
    <3>8. /\ N.heap = Profiler!Sbrk(M.heap, n, "malloc") /\ N.ptr = M.ptr
          /\ N.size = M.size /\ N.structs = M.structs /\ (~N.refused => ~M.refused)
      BY <1>2, <3>1
    <3>9. GoodMemory(N, sp)
      <4> HIDE DEF N
      <4> QED
        BY <1>2, <3>2, <3>7, <3>8, HeapGrows
    <3>10. Profiler!Memory' = N
      BY <3>1 DEF Profiler!Memory
    <3> HIDE DEF N
    <3>11. Profiler!HistogramSize' = Profiler!HistogramSize
      BY DEF Profiler!HistogramSize
    <3>12. sp' = sp /\ sampled' = sampled
      BY <3>1
    <3> QED
      BY <1>2, <3>7, <3>9, <3>10, <3>11, <3>12 DEF ProfInv
  \* The stack moves; the memory is what it was, but for the report.
  <2>13. ASSUME Profiler!Push(Frame) \/ Profiler!Pop(Frame),
                UNCHANGED <<Profiler!lists, Profiler!sampler>>
         PROVE  ProfInv'
    <3>1. UNCHANGED <<slab_ptr, slab_size, structs, refused, sampled>>
      BY <2>13 DEF Profiler!lists, Profiler!sampler
    <3>2. GoodHeap(heap', sp') /\ sp' \in Nat /\ heap'.blocks = heap.blocks
          /\ heap'.end = heap.end
      <4>1. /\ heap \in Heaps
            /\ ~heap.odd => /\ heap.end % 4 = 0 /\ heap.limit = heap.end
                            /\ heap.overflow \/ heap.end <= sp
        BY <1>2 DEF GoodHeap
      <4>2. /\ heap.end \in Nat /\ heap.limit \in Nat /\ heap.overflow \in BOOLEAN
            /\ heap.odd \in BOOLEAN /\ sp \in Nat /\ Frame \in Nat
        BY <1>2, <4>1, ProfilerAssumption DEF Heaps
      <4>3. CASE Profiler!Pop(Frame)
        <5>1. heap' = heap /\ sp' = sp + Frame
          BY <4>3 DEF Profiler!Pop
        <5>2. sp' \in Nat /\ (heap.end <= sp => heap.end <= sp')
          BY <4>2, <5>1
        <5> QED
          BY <1>2, <5>1, <5>2 DEF GoodHeap
      <4>4. CASE Profiler!Push(Frame)
        <5> DEFINE o == heap.overflow \/ sp - Frame < heap.limit
        <5>1. heap' = [heap EXCEPT !.overflow = o] /\ sp' = sp - Frame /\ sp >= Frame
          BY <4>4 DEF Profiler!Push
        <5>2. o \in BOOLEAN
          BY <4>2
        <5>3. sp' \in Nat /\ (heap.limit = heap.end => o \/ heap.end <= sp')
          BY <4>2, <5>1
        <5> HIDE DEF o
        <5>4. /\ heap' \in Heaps /\ heap'.end = heap.end /\ heap'.limit = heap.limit
              /\ heap'.overflow = o /\ heap'.odd = heap.odd /\ heap'.blocks = heap.blocks
          BY <4>1, <5>1, <5>2 DEF Heaps
        <5> QED
          BY <1>2, <5>3, <5>4 DEF GoodHeap
      <4> QED
        BY <2>13, <4>3, <4>4
    <3>3. Profiler!Memory' = [heap |-> heap', ptr |-> slab_ptr, size |-> slab_size,
                              structs |-> structs, refused |-> refused]
      BY <3>1 DEF Profiler!Memory
    <3>4. slab_ptr \in Int /\ slab_size \in Int /\ structs \in Seq(Int) /\ refused \in BOOLEAN
      BY <1>2 DEF Memories
    <3>5. Profiler!Memory' \in Memories
      BY <3>2, <3>3, <3>4 DEF Memories, GoodHeap
    <3>6. GoodMemory(Profiler!Memory', sp')
      BY <1>2, <3>2, <3>3 DEF GoodMemory
    <3>7. Profiler!HistogramSize' = Profiler!HistogramSize
      BY DEF Profiler!HistogramSize
    <3> QED
      BY <1>2, <3>1, <3>2, <3>5, <3>6, <3>7 DEF ProfInv
  <2> QED
    BY <1>4, <2>1, <2>2, <2>3, <2>4, <2>5, <2>6, <2>7, <2>8, <2>9, <2>10, <2>11, <2>12, <2>13
       DEF Profiler!Next
<1> QED
  BY <1>1, <1>4 DEF Next, vars, NotLight, NotUart, NotPrinter, NotCache, NotSleeper,
                    NotStamps, NotChannels

LEMMA ProfApart == ProfInv => HeapIsApart
<1> SUFFICES ASSUME ProfInv PROVE Profiler!HeapApart /\ Profiler!ProfileApart
  BY DEF HeapIsApart
<1>1. GoodHeap(heap, sp) /\ sampled < Profiler!HistogramSize /\ sp \in Nat
  BY DEF ProfInv, GoodMemory, Profiler!Memory
<1>2. /\ heap \in Heaps
      /\ \A b \in heap.blocks : /\ b.at \in Nat /\ b.size \in Nat
  BY <1>1 DEF GoodHeap, Heaps
<1>3. Profiler!HeapApart
  <2>1. ASSUME NEW b \in heap.blocks, NEW c \in heap.blocks, b # c
        PROVE  Profiler!Bytes(b) \cap Profiler!Bytes(c) = {}
    <3>1. b.at + b.size <= c.at \/ c.at + c.size <= b.at
      BY <1>1, <2>1 DEF GoodHeap
    <3> QED
      BY <1>2, <3>1 DEF Profiler!Bytes
  <2>2. \A b \in heap.blocks : b.at % 4 = 0 /\ b.at + b.size <= HeapBytes
    BY <1>1 DEF GoodHeap
  <2>3. heap.overflow \/ heap.odd \/ heap.end <= sp
    BY <1>1 DEF GoodHeap
  <2> QED
    BY <2>1, <2>2, <2>3 DEF Profiler!HeapApart
<1>4. ASSUME ~refused
      PROVE  /\ \A k, l \in DOMAIN structs : k = l \/ Disjoint(structs[k], structs[l])
             /\ \A k \in DOMAIN structs : \E b \in heap.blocks :
                   b.who = "slab" /\ structs[k] .. structs[k] + Struct - 1 \subseteq Profiler!Bytes(b)
  <2>1. /\ structs \in Seq(Nat)
        /\ \A k \in 1 .. Len(structs) : Within(structs[k], Struct, heap.blocks)
        /\ \A k, l \in 1 .. Len(structs) : k = l \/ Disjoint(structs[k], structs[l])
    BY <1>4 DEF ProfInv, GoodMemory, Profiler!Memory
  <2>2. DOMAIN structs = 1 .. Len(structs)
    BY <2>1
  <2>3. ASSUME NEW k \in DOMAIN structs
        PROVE  \E b \in heap.blocks :
                  b.who = "slab" /\ structs[k] .. structs[k] + Struct - 1 \subseteq Profiler!Bytes(b)
    <3>1. structs[k] \in Nat
      BY <2>1, <2>2
    <3>2. PICK b \in heap.blocks : /\ b.who = "slab" /\ b.at <= structs[k]
                                   /\ structs[k] + Struct <= b.at + b.size
      BY <2>1, <2>2 DEF Within
    <3>3. structs[k] .. structs[k] + Struct - 1 \subseteq Profiler!Bytes(b)
      BY <1>2, <3>1, <3>2, ProfilerAssumption DEF Profiler!Bytes
    <3> QED
      BY <3>2, <3>3
  <2> QED
    BY <2>1, <2>2, <2>3
<1> QED
  BY <1>1, <1>3, <1>4 DEF Profiler!ProfileApart, Disjoint

-----------------------------------------------------------------------------
(* The calls that are counted *)

\* The lists of one function, oldest first: where arc r is in them, a mark for each
\* call of it, and the places it has or would be given, one in each entry at least.
Froms == {x.from : x \in Arcs}
Node == [from : Froms, count : Nat]
Lists == Seq(Seq(Node))

PlacesIn(L, r) == UNION {{<<e, j>> : j \in {k \in DOMAIN L[e] : L[e][k].from = r}} :
                           e \in DOMAIN L}

MarksIn(L, r) == UNION {{<<p, k>> : k \in 1 .. L[p[1]][p[2]].count} : p \in PlacesIn(L, r)}

Lacks(L, e, r) == \A k \in DOMAIN L[e] : L[e][k].from # r

SpotsIn(L, r) == PlacesIn(L, r) \cup {<<e, 0>> : e \in {d \in DOMAIN L : Lacks(L, d, r)}}

\* What is in the sets of places and of marks
LEMMA PlacesAre ==
  ASSUME NEW L, NEW r, NEW p
  PROVE  p \in PlacesIn(L, r) <=>
           \E e \in DOMAIN L : \E j \in DOMAIN L[e] : p = <<e, j>> /\ L[e][j].from = r
<1> DEFINE Row(e) == {<<e, j>> : j \in {k \in DOMAIN L[e] : L[e][k].from = r}}
<1>1. \A e : p \in Row(e) <=> \E j \in DOMAIN L[e] : p = <<e, j>> /\ L[e][j].from = r
  <2> SUFFICES ASSUME NEW e
               PROVE  p \in Row(e) <=> \E j \in DOMAIN L[e] : p = <<e, j>> /\ L[e][j].from = r
    OBVIOUS
  <2> DEFINE J == {k \in DOMAIN L[e] : L[e][k].from = r}
  <2>1. \A j : j \in J <=> j \in DOMAIN L[e] /\ L[e][j].from = r
    OBVIOUS
  <2> HIDE DEF J
  <2>2. p \in {<<e, j>> : j \in J} <=> \E j \in J : p = <<e, j>>
    OBVIOUS
  <2> QED
    BY <2>1, <2>2 DEF J
<1>2. PlacesIn(L, r) = UNION {Row(e) : e \in DOMAIN L}
  BY DEF PlacesIn
<1> HIDE DEF Row
<1>3. p \in UNION {Row(e) : e \in DOMAIN L} <=> \E e \in DOMAIN L : p \in Row(e)
  OBVIOUS
<1> QED
  BY <1>1, <1>2, <1>3

LEMMA PlaceIn ==
  ASSUME NEW L, NEW r, NEW e, NEW j
  PROVE  <<e, j>> \in PlacesIn(L, r) <=> e \in DOMAIN L /\ j \in DOMAIN L[e] /\ L[e][j].from = r
<1>1. ASSUME NEW d \in DOMAIN L, NEW k \in DOMAIN L[d], <<e, j>> = <<d, k>>, L[d][k].from = r
      PROVE  e \in DOMAIN L /\ j \in DOMAIN L[e] /\ L[e][j].from = r
  <2>1. e = d /\ j = k
    BY <1>1
  <2> QED
    BY <1>1, <2>1
<1>2. <<e, j>> \in PlacesIn(L, r) <=>
        \E d \in DOMAIN L : \E k \in DOMAIN L[d] : <<e, j>> = <<d, k>> /\ L[d][k].from = r
  <2> DEFINE p == <<e, j>>
  <2> HIDE DEF p
  <2>1. p \in PlacesIn(L, r) <=>
          \E d \in DOMAIN L : \E k \in DOMAIN L[d] : p = <<d, k>> /\ L[d][k].from = r
    BY PlacesAre
  <2> QED
    BY <2>1 DEF p
<1> QED
  BY <1>1, <1>2, Zenon

LEMMA MarksAre ==
  ASSUME NEW L, NEW r, NEW t
  PROVE  t \in MarksIn(L, r) <=>
           \E e \in DOMAIN L : \E j \in DOMAIN L[e] : \E k \in 1 .. L[e][j].count :
              t = <<<<e, j>>, k>> /\ L[e][j].from = r
<1>1. t \in MarksIn(L, r) <=>
        \E p \in PlacesIn(L, r) : \E k \in 1 .. L[p[1]][p[2]].count : t = <<p, k>>
  <2> DEFINE Row(p) == {<<p, k>> : k \in 1 .. L[p[1]][p[2]].count}
  <2>1. \A p : t \in Row(p) <=> \E k \in 1 .. L[p[1]][p[2]].count : t = <<p, k>>
    OBVIOUS
  <2>2. MarksIn(L, r) = UNION {Row(p) : p \in PlacesIn(L, r)}
    BY DEF MarksIn
  <2> HIDE DEF Row
  <2>3. t \in UNION {Row(p) : p \in PlacesIn(L, r)} <=> \E p \in PlacesIn(L, r) : t \in Row(p)
    OBVIOUS
  <2> QED
    BY <2>1, <2>2, <2>3
<1>2. ASSUME NEW p \in PlacesIn(L, r), NEW k \in 1 .. L[p[1]][p[2]].count, t = <<p, k>>
      PROVE  \E e \in DOMAIN L : \E j \in DOMAIN L[e] : \E l \in 1 .. L[e][j].count :
                t = <<<<e, j>>, l>> /\ L[e][j].from = r
  <2>1. PICK e \in DOMAIN L : \E j \in DOMAIN L[e] : p = <<e, j>> /\ L[e][j].from = r
    BY PlacesAre
  <2>2. PICK j \in DOMAIN L[e] : p = <<e, j>> /\ L[e][j].from = r
    BY <2>1
  <2>3. p[1] = e /\ p[2] = j
    BY <2>2
  <2> QED
    BY <1>2, <2>2, <2>3
<1>3. ASSUME NEW e \in DOMAIN L, NEW j \in DOMAIN L[e], NEW k \in 1 .. L[e][j].count,
             t = <<<<e, j>>, k>>, L[e][j].from = r
      PROVE  \E p \in PlacesIn(L, r) : \E l \in 1 .. L[p[1]][p[2]].count : t = <<p, l>>
  <2> DEFINE p == <<e, j>>
  <2>1. p \in PlacesIn(L, r) /\ p[1] = e /\ p[2] = j
    BY <1>3, PlaceIn
  <2> QED
    BY <1>3, <2>1
<1> QED
  BY <1>1, <1>2, <1>3

LEMMA MarkOf ==
  ASSUME NEW L, NEW r, NEW t \in MarksIn(L, r)
  PROVE  \E e \in DOMAIN L : \E j \in DOMAIN L[e] : \E k \in 1 .. L[e][j].count :
            t = <<<<e, j>>, k>> /\ L[e][j].from = r
<1>1. t \in MarksIn(L, r)
  OBVIOUS
<1> QED
  BY <1>1, MarksAre

LEMMA MarkIn ==
  ASSUME NEW L, NEW r, NEW e \in DOMAIN L, NEW j \in DOMAIN L[e], NEW k \in 1 .. L[e][j].count,
         L[e][j].from = r
  PROVE  <<<<e, j>>, k>> \in MarksIn(L, r)
<1> DEFINE t == <<<<e, j>>, k>>
<1>1. \E d \in DOMAIN L : \E i1 \in DOMAIN L[d] : \E k1 \in 1 .. L[d][i1].count :
        t = <<<<d, i1>>, k1>> /\ L[d][i1].from = r
  OBVIOUS
<1> HIDE DEF t
<1>2. t \in MarksIn(L, r)
  BY <1>1, MarksAre
<1> QED
  BY <1>2 DEF t

\* The shape of the lists of a function
LEMMA ListIs ==
  ASSUME NEW L \in Lists
  PROVE  /\ Len(L) \in Nat /\ DOMAIN L = 1 .. Len(L)
         /\ \A e \in 1 .. Len(L) :
              /\ L[e] \in Seq(Node) /\ Len(L[e]) \in Nat /\ DOMAIN L[e] = 1 .. Len(L[e])
              /\ \A j \in 1 .. Len(L[e]) : /\ L[e][j] \in Node /\ L[e][j].from \in Froms
                                           /\ L[e][j].count \in Nat
<1>1. Len(L) \in Nat /\ DOMAIN L = 1 .. Len(L) /\ \A e \in 1 .. Len(L) : L[e] \in Seq(Node)
  BY DEF Lists
<1>2. ASSUME NEW e \in 1 .. Len(L)
      PROVE  /\ L[e] \in Seq(Node) /\ Len(L[e]) \in Nat /\ DOMAIN L[e] = 1 .. Len(L[e])
             /\ \A j \in 1 .. Len(L[e]) : /\ L[e][j] \in Node /\ L[e][j].from \in Froms
                                          /\ L[e][j].count \in Nat
  <2> DEFINE s == L[e]
  <2>1. s \in Seq(Node)
    BY <1>1
  <2> HIDE DEF s
  <2>2. Len(s) \in Nat /\ DOMAIN s = 1 .. Len(s) /\ \A j \in 1 .. Len(s) : s[j] \in Node
    BY <2>1
  <2>3. \A j \in 1 .. Len(s) : s[j].from \in Froms /\ s[j].count \in Nat
    BY <2>2 DEF Node
  <2> QED
    BY <2>1, <2>2, <2>3 DEF s
<1> QED
  BY <1>1, <1>2

\* The marks of one place.
MarksOf(e, j, n) == {<<<<e, j>>, k>> : k \in 1 .. n}

LEMMA MarksOfOne ==
  ASSUME NEW e, NEW j, NEW n \in Nat
  PROVE  IsFiniteSet(MarksOf(e, j, n)) /\ Cardinality(MarksOf(e, j, n)) = n
<1> DEFINE f == [k \in 1 .. n |-> <<<<e, j>>, k>>]
<1>1. f \in Bijection(1 .. n, MarksOf(e, j, n))
  <2>1. \A k \in 1 .. n : f[k] \in MarksOf(e, j, n)
    BY DEF MarksOf
  <2>2. \A k, l \in 1 .. n : f[k] = f[l] => k = l
    OBVIOUS
  <2>3. \A t \in MarksOf(e, j, n) : \E k \in 1 .. n : f[k] = t
    BY DEF MarksOf
  <2> QED
    BY <2>1, <2>2, <2>3, Fun_IsBij
<1>2. IsFiniteSet(1 .. n) /\ Cardinality(1 .. n) = n
  BY FS_Interval
<1> QED
  BY <1>1, <1>2, FS_Bijection DEF ExistsBijection

\* M is L but for the count of one node.
Alike(L, M) ==
  /\ DOMAIN M = DOMAIN L
  /\ \A d \in DOMAIN L : /\ DOMAIN M[d] = DOMAIN L[d]
                         /\ \A k \in DOMAIN L[d] : M[d][k].from = L[d][k].from

Stored(L, M, e, j, v) ==
  /\ Alike(L, M) /\ e \in DOMAIN L /\ j \in DOMAIN L[e]
  /\ \A d \in DOMAIN L : \A k \in DOMAIN L[d] :
        M[d][k].count = IF d = e /\ k = j THEN v ELSE L[d][k].count

\* One element of a sequence is replaced.
LEMMA PutIn ==
  ASSUME NEW S, NEW q \in Seq(S), NEW e \in 1 .. Len(q), NEW s \in S
  PROVE  LET m == [q EXCEPT ![e] = s]
         IN /\ m \in Seq(S) /\ Len(m) = Len(q) /\ DOMAIN m = 1 .. Len(q) /\ DOMAIN q = 1 .. Len(q)
            /\ m[e] = s /\ \A d \in 1 .. Len(q) : d # e => m[d] = q[d]
OBVIOUS

\* What a store of a count does to the lists
LEMMA StoredIs ==
  ASSUME NEW L \in Lists, NEW e \in 1 .. Len(L), NEW j \in 1 .. Len(L[e]), NEW v \in Nat,
         NEW M, M = [L EXCEPT ![e][j].count = v]
  PROVE  /\ M \in Lists /\ Len(M) = Len(L) /\ \A d \in 1 .. Len(L) : Len(M[d]) = Len(L[d])
         /\ Stored(L, M, e, j, v)
<1> DEFINE s == L[e]
           n == s[j]
           m == [n EXCEPT !.count = v]
           t == [s EXCEPT ![j] = m]
<1>1. s \in Seq(Node) /\ n \in Node /\ j \in 1 .. Len(s)
  BY ListIs
<1>2. m \in Node /\ m.from = n.from /\ m.count = v
  BY <1>1 DEF Node
<1>3. M = [L EXCEPT ![e] = t]
  BY Zenon
<1> HIDE DEF m
<1>4. t \in Seq(Node) /\ Len(t) = Len(s) /\ DOMAIN t = DOMAIN s /\ t[j] = m
      /\ \A k \in DOMAIN s : k # j => t[k] = s[k]
  BY <1>1, <1>2, PutIn
<1> HIDE DEF t
<1>6. M \in Lists /\ Len(M) = Len(L) /\ DOMAIN M = DOMAIN L /\ M[e] = t
      /\ DOMAIN L = 1 .. Len(L) /\ \A d \in DOMAIN L : d # e => M[d] = L[d]
  <2> DEFINE S == Seq(Node)
  <2>1. L \in Seq(S) /\ t \in S
    BY <1>4 DEF Lists
  <2> HIDE DEF S
  <2>2. /\ [L EXCEPT ![e] = t] \in Seq(S) /\ Len([L EXCEPT ![e] = t]) = Len(L)
        /\ DOMAIN [L EXCEPT ![e] = t] = 1 .. Len(L) /\ DOMAIN L = 1 .. Len(L)
        /\ [L EXCEPT ![e] = t][e] = t
        /\ \A d \in 1 .. Len(L) : d # e => [L EXCEPT ![e] = t][d] = L[d]
    BY <2>1, PutIn
  <2> QED
    BY <1>3, <2>2 DEF S, Lists
<1>7. ASSUME NEW d \in DOMAIN L
      PROVE  /\ Len(M[d]) = Len(L[d]) /\ DOMAIN M[d] = DOMAIN L[d]
             /\ \A k \in DOMAIN L[d] :
                   /\ M[d][k].from = L[d][k].from
                   /\ M[d][k].count = IF d = e /\ k = j THEN v ELSE L[d][k].count
  <2>1. CASE d # e
    BY <1>6, <2>1
  <2>2. CASE d = e
    <3>1. M[d] = t /\ L[d] = s
      BY <1>6, <2>2
    <3>2. ASSUME NEW k \in DOMAIN s
          PROVE  t[k].from = s[k].from /\ t[k].count = IF k = j THEN v ELSE s[k].count
      BY <1>2, <1>4
    <3> QED
      BY <1>4, <2>2, <3>1, <3>2
  <2> QED
    BY <2>1, <2>2
<1> QED
  BY <1>1, <1>6, <1>7 DEF Stored, Alike

\* A new count moves no place, and changes the marks by what it is more or less.
LEMMA AlikePlaces ==
  ASSUME NEW L, NEW M, Alike(L, M), NEW r
  PROVE  /\ PlacesIn(M, r) = PlacesIn(L, r) /\ SpotsIn(M, r) = SpotsIn(L, r)
         /\ \A d \in DOMAIN L : Lacks(M, d, r) <=> Lacks(L, d, r)
<1>1. /\ DOMAIN M = DOMAIN L
      /\ \A d \in DOMAIN L : /\ DOMAIN M[d] = DOMAIN L[d]
                             /\ \A k \in DOMAIN L[d] : M[d][k].from = L[d][k].from
  BY DEF Alike
<1>2. \A p : p \in PlacesIn(M, r) <=> p \in PlacesIn(L, r)
  BY <1>1, PlacesAre
<1>3. \A d \in DOMAIN L : Lacks(M, d, r) <=> Lacks(L, d, r)
  BY <1>1 DEF Lacks
<1>4. PlacesIn(M, r) = PlacesIn(L, r)
  BY <1>2
<1> QED
  BY <1>1, <1>3, <1>4 DEF SpotsIn

LEMMA StoredMarks ==
  ASSUME NEW L \in Lists, NEW M, NEW e, NEW j, NEW v \in Nat, Stored(L, M, e, j, v), NEW r,
         IsFiniteSet(MarksIn(L, r))
  PROVE  /\ IsFiniteSet(MarksIn(M, r))
         /\ Cardinality(MarksIn(M, r)) =
              IF L[e][j].from = r THEN (Cardinality(MarksIn(L, r)) - L[e][j].count) + v
                                  ELSE Cardinality(MarksIn(L, r))
<1>1. /\ DOMAIN M = DOMAIN L
      /\ \A d \in DOMAIN L :
           /\ DOMAIN M[d] = DOMAIN L[d]
           /\ \A k \in DOMAIN L[d] :
                /\ M[d][k].from = L[d][k].from
                /\ M[d][k].count = IF d = e /\ k = j THEN v ELSE L[d][k].count
  BY DEF Stored, Alike
<1>2. e \in DOMAIN L /\ j \in DOMAIN L[e] /\ L[e][j].count \in Nat
  BY ListIs DEF Stored
<1>3. CASE L[e][j].from # r
  <2>1. ASSUME NEW d \in DOMAIN L, NEW k \in DOMAIN L[d], L[d][k].from = r
        PROVE  M[d][k].count = L[d][k].count
    BY <1>1, <1>3, <2>1
  <2>2. ASSUME NEW t PROVE t \in MarksIn(M, r) <=> t \in MarksIn(L, r)
    <3>1. ASSUME t \in MarksIn(M, r) PROVE t \in MarksIn(L, r)
      <4>1. PICK d \in DOMAIN M : \E k \in DOMAIN M[d] : \E l \in 1 .. M[d][k].count :
              t = <<<<d, k>>, l>> /\ M[d][k].from = r
        BY <3>1, MarkOf
      <4>2. PICK k \in DOMAIN M[d] : \E l \in 1 .. M[d][k].count :
              t = <<<<d, k>>, l>> /\ M[d][k].from = r
        BY <4>1
      <4>3. d \in DOMAIN L /\ k \in DOMAIN L[d] /\ L[d][k].from = r
            /\ M[d][k].count = L[d][k].count
        BY <1>1, <2>1, <4>2
      <4>4. \E l \in 1 .. L[d][k].count : t = <<<<d, k>>, l>>
        BY <4>2, <4>3
      <4> QED
        BY <4>3, <4>4, MarkIn
    <3>2. ASSUME t \in MarksIn(L, r) PROVE t \in MarksIn(M, r)
      <4>1. PICK d \in DOMAIN L : \E k \in DOMAIN L[d] : \E l \in 1 .. L[d][k].count :
              t = <<<<d, k>>, l>> /\ L[d][k].from = r
        BY <3>2, MarkOf
      <4>2. PICK k \in DOMAIN L[d] : \E l \in 1 .. L[d][k].count :
              t = <<<<d, k>>, l>> /\ L[d][k].from = r
        BY <4>1
      <4>3. d \in DOMAIN M /\ k \in DOMAIN M[d] /\ M[d][k].from = r
            /\ M[d][k].count = L[d][k].count
        BY <1>1, <2>1, <4>2
      <4>4. \E l \in 1 .. M[d][k].count : t = <<<<d, k>>, l>>
        BY <4>2, <4>3
      <4> QED
        BY <4>3, <4>4, MarkIn
    <3> QED
      BY <3>1, <3>2
  <2>3. MarksIn(M, r) = MarksIn(L, r)
    BY <2>2
  <2> QED
    BY <1>3, <2>3
<1>4. CASE L[e][j].from = r
  <2> DEFINE old == MarksOf(e, j, L[e][j].count)
             new == MarksOf(e, j, v)
             A == MarksIn(L, r)
             rest == {t \in A : t[1] # <<e, j>>}
  <2>1. \A n \in Nat : \A t : t \in MarksOf(e, j, n) <=> \E l \in 1 .. n : t = <<<<e, j>>, l>>
    BY DEF MarksOf
  <2>2. A = rest \cup old /\ rest \cap old = {}
    <3>1. ASSUME NEW t \in A, t[1] = <<e, j>> PROVE t \in old
      <4>1. PICK d \in DOMAIN L : \E k \in DOMAIN L[d] : \E l \in 1 .. L[d][k].count :
              t = <<<<d, k>>, l>> /\ L[d][k].from = r
        BY <3>1, MarkOf
      <4>2. PICK k \in DOMAIN L[d] : \E l \in 1 .. L[d][k].count :
              t = <<<<d, k>>, l>> /\ L[d][k].from = r
        BY <4>1
      <4>3. d = e /\ k = j
        BY <3>1, <4>2
      <4> QED
        BY <1>2, <2>1, <4>2, <4>3
    <3>2. ASSUME NEW t \in old PROVE t \in A /\ t[1] = <<e, j>>
      <4>1. PICK l \in 1 .. L[e][j].count : t = <<<<e, j>>, l>>
        BY <1>2, <2>1
      <4> QED
        BY <1>2, <1>4, <4>1, MarkIn
    <3> QED
      BY <3>1, <3>2
  <2>3. MarksIn(M, r) = rest \cup new /\ rest \cap new = {}
    <3>1. ASSUME NEW t \in MarksIn(M, r) PROVE t \in rest \cup new
      <4>1. PICK d \in DOMAIN M : \E k \in DOMAIN M[d] : \E l \in 1 .. M[d][k].count :
              t = <<<<d, k>>, l>> /\ M[d][k].from = r
        BY <3>1, MarkOf
      <4>2. PICK k \in DOMAIN M[d] : \E l \in 1 .. M[d][k].count :
              t = <<<<d, k>>, l>> /\ M[d][k].from = r
        BY <4>1
      <4>3. PICK l \in 1 .. M[d][k].count : t = <<<<d, k>>, l>> /\ M[d][k].from = r
        BY <4>2
      <4>4. CASE d = e /\ k = j
        <5>1. M[d][k].count = v
          BY <1>1, <1>2, <4>4
        <5> QED
          BY <2>1, <4>3, <4>4, <5>1
      <4>5. CASE ~(d = e /\ k = j)
        <5>1. d \in DOMAIN L /\ k \in DOMAIN L[d] /\ L[d][k].from = r
              /\ M[d][k].count = L[d][k].count
          BY <1>1, <4>3, <4>5
        <5>2. l \in 1 .. L[d][k].count /\ t = <<<<d, k>>, l>> /\ t[1] # <<e, j>>
          BY <4>3, <4>5, <5>1
        <5>3. t \in A
          BY <5>1, <5>2, MarkIn
        <5> QED
          BY <5>2, <5>3
      <4> QED
        BY <4>4, <4>5
    <3>2. ASSUME NEW t \in new PROVE t \in MarksIn(M, r) /\ t[1] = <<e, j>>
      <4>1. PICK l \in 1 .. v : t = <<<<e, j>>, l>>
        BY <2>1
      <4>2. e \in DOMAIN M /\ j \in DOMAIN M[e] /\ M[e][j].from = r /\ M[e][j].count = v
        BY <1>1, <1>2, <1>4
      <4> QED
        BY <4>1, <4>2, MarkIn
    <3>3. ASSUME NEW t \in rest PROVE t \in MarksIn(M, r)
      <4>1. PICK d \in DOMAIN L : \E k \in DOMAIN L[d] : \E l \in 1 .. L[d][k].count :
              t = <<<<d, k>>, l>> /\ L[d][k].from = r
        BY <3>3, MarkOf
      <4>2. PICK k \in DOMAIN L[d] : \E l \in 1 .. L[d][k].count :
              t = <<<<d, k>>, l>> /\ L[d][k].from = r
        BY <4>1
      <4>3. ~(d = e /\ k = j)
        BY <3>3, <4>2
      <4>4. d \in DOMAIN M /\ k \in DOMAIN M[d] /\ M[d][k].from = r
            /\ M[d][k].count = L[d][k].count
        BY <1>1, <4>2, <4>3
      <4>5. \E l \in 1 .. M[d][k].count : t = <<<<d, k>>, l>>
        BY <4>2, <4>4
      <4> QED
        BY <4>4, <4>5, MarkIn
    <3> QED
      BY <3>1, <3>2, <3>3
  <2>4. /\ IsFiniteSet(old) /\ Cardinality(old) = L[e][j].count
        /\ IsFiniteSet(new) /\ Cardinality(new) = v
    BY <1>2, MarksOfOne
  <2>5. rest \subseteq A
    OBVIOUS
  <2> HIDE DEF old, new, A, rest
  <2>6. IsFiniteSet(A) /\ IsFiniteSet(rest)
    BY <2>5, FS_Subset DEF A
  <2>7. Cardinality({}) = 0 /\ Cardinality(rest) \in Nat
    BY <2>6, FS_EmptySet, FS_CardinalityType
  <2>8. Cardinality(A) = Cardinality(rest) + L[e][j].count
    <3>1. Cardinality(rest \cup old) = Cardinality(rest) + Cardinality(old) - Cardinality(rest \cap old)
      BY <2>4, <2>6, FS_Union
    <3> QED
      BY <1>2, <2>2, <2>4, <2>7, <3>1
  <2>9. IsFiniteSet(MarksIn(M, r)) /\ Cardinality(MarksIn(M, r)) = Cardinality(rest) + v
    <3>1. /\ IsFiniteSet(rest \cup new)
          /\ Cardinality(rest \cup new) = Cardinality(rest) + Cardinality(new) - Cardinality(rest \cap new)
      BY <2>4, <2>6, FS_Union
    <3>2. MarksIn(M, r) = rest \cup new
      BY <2>3
    <3>3. Cardinality(rest \cap new) = 0
      BY <2>3, <2>7
    <3>4. Cardinality(rest \cup new) = Cardinality(rest) + v
      BY <2>4, <2>7, <3>1, <3>3
    <3> QED
      BY <3>1, <3>2, <3>4, Zenon
  <2> QED
    BY <1>2, <1>4, <2>7, <2>8, <2>9 DEF A
<1> QED
  BY <1>3, <1>4

\* M has one node more than L, <<e, j>>, for a first call of arc r.
Grown(L, M, e, j, r) ==
  /\ e \in DOMAIN M /\ j \in DOMAIN M[e] /\ M[e][j].from = r /\ M[e][j].count = 1
  /\ ~(e \in DOMAIN L /\ j \in DOMAIN L[e])
  /\ \A d \in DOMAIN L : d \in DOMAIN M
  /\ \A d \in DOMAIN L : \A k \in DOMAIN L[d] : k \in DOMAIN M[d] /\ M[d][k] = L[d][k]
  /\ \A d \in DOMAIN M : \A k \in DOMAIN M[d] :
        (d = e /\ k = j) \/ (d \in DOMAIN L /\ k \in DOMAIN L[d])

\* A new node is a place more and a mark more, both of its arc.
LEMMA GrownMarks ==
  ASSUME NEW L, NEW M, NEW e, NEW j, NEW r, Grown(L, M, e, j, r), NEW q,
         IsFiniteSet(MarksIn(L, q))
  PROVE  /\ IsFiniteSet(MarksIn(M, q))
         /\ Cardinality(MarksIn(M, q)) = Cardinality(MarksIn(L, q)) + (IF q = r THEN 1 ELSE 0)
<1> DEFINE one == <<<<e, j>>, 1>>
<1>1. MarksIn(L, q) \subseteq MarksIn(M, q)
  <2>1. ASSUME NEW t \in MarksIn(L, q) PROVE t \in MarksIn(M, q)
    <3>1. PICK d \in DOMAIN L : \E k \in DOMAIN L[d] : \E l \in 1 .. L[d][k].count :
            t = <<<<d, k>>, l>> /\ L[d][k].from = q
      BY <2>1, MarkOf
    <3>2. PICK k \in DOMAIN L[d] : \E l \in 1 .. L[d][k].count :
            t = <<<<d, k>>, l>> /\ L[d][k].from = q
      BY <3>1
    <3>3. d \in DOMAIN M /\ k \in DOMAIN M[d] /\ M[d][k] = L[d][k]
      BY DEF Grown
    <3>4. PICK l \in 1 .. M[d][k].count : t = <<<<d, k>>, l>> /\ M[d][k].from = q
      BY <3>2, <3>3
    <3> QED
      BY <3>3, <3>4, MarkIn
  <2> QED
    BY <2>1
<1>2. \A t \in MarksIn(M, q) : t \in MarksIn(L, q) \/ (q = r /\ t = one)
  <2>1. ASSUME NEW t \in MarksIn(M, q) PROVE t \in MarksIn(L, q) \/ (q = r /\ t = one)
    <3>1. PICK d \in DOMAIN M : \E k \in DOMAIN M[d] : \E l \in 1 .. M[d][k].count :
            t = <<<<d, k>>, l>> /\ M[d][k].from = q
      BY <2>1, MarkOf
    <3>2. PICK k \in DOMAIN M[d] : \E l \in 1 .. M[d][k].count :
            t = <<<<d, k>>, l>> /\ M[d][k].from = q
      BY <3>1
    <3>3. CASE d = e /\ k = j
      <4>1. M[d][k].from = r /\ M[d][k].count = 1
        BY <3>3 DEF Grown
      <4> QED
        BY <3>2, <3>3, <4>1
    <3>4. CASE d \in DOMAIN L /\ k \in DOMAIN L[d]
      <4>1. M[d][k] = L[d][k]
        BY <3>4 DEF Grown
      <4>2. PICK l \in 1 .. L[d][k].count : t = <<<<d, k>>, l>> /\ L[d][k].from = q
        BY <3>2, <4>1
      <4> QED
        BY <3>4, <4>2, MarkIn
    <3> QED
      BY <3>3, <3>4 DEF Grown
  <2> QED
    BY <2>1
<1>3. one \notin MarksIn(L, q)
  <2>1. ASSUME one \in MarksIn(L, q) PROVE FALSE
    <3>1. PICK d \in DOMAIN L : \E k \in DOMAIN L[d] : \E l \in 1 .. L[d][k].count :
            one = <<<<d, k>>, l>> /\ L[d][k].from = q
      BY <2>1, MarkOf
    <3>2. PICK k \in DOMAIN L[d] : \E l \in 1 .. L[d][k].count : one = <<<<d, k>>, l>>
      BY <3>1
    <3>3. e = d /\ j = k
      BY <3>2
    <3> QED
      BY <3>3 DEF Grown
  <2> QED
    BY <2>1
<1>4. q = r => one \in MarksIn(M, q)
  <2>1. e \in DOMAIN M /\ j \in DOMAIN M[e] /\ M[e][j].from = r /\ 1 \in 1 .. M[e][j].count
    BY DEF Grown
  <2> QED
    BY <2>1, MarkIn
<1> DEFINE A == MarksIn(L, q)
           B == MarksIn(M, q)
<1> HIDE DEF one, A, B
<1>5. CASE q = r
  <2>1. B = A \cup {one}
    BY <1>1, <1>2, <1>4, <1>5 DEF A, B
  <2>2. IsFiniteSet(A \cup {one}) /\ Cardinality(A \cup {one}) = Cardinality(A) + 1
    BY <1>3, FS_AddElement DEF A
  <2>3. IsFiniteSet(B)
    BY <2>1, <2>2, Zenon
  <2>4. Cardinality(B) = Cardinality(A) + 1
    BY <2>1, <2>2
  <2> QED
    BY <1>5, <2>3, <2>4 DEF A, B
<1>6. CASE q # r
  <2>1. B = A
    BY <1>1, <1>2, <1>6 DEF A, B
  <2>2. Cardinality(A) \in Nat
    BY FS_CardinalityType DEF A
  <2>3. IsFiniteSet(B)
    BY <2>1, Zenon DEF A
  <2>4. Cardinality(B) = Cardinality(A) + 0
    BY <2>1, <2>2
  <2> QED
    BY <1>6, <2>3, <2>4 DEF A, B
<1> QED
  BY <1>5, <1>6

LEMMA GrownPlaces ==
  ASSUME NEW L, NEW M, NEW e, NEW j, NEW r, Grown(L, M, e, j, r), NEW q
  PROVE  PlacesIn(M, q) = PlacesIn(L, q) \cup (IF q = r THEN {<<e, j>>} ELSE {})
<1>1. ASSUME NEW p
      PROVE  p \in PlacesIn(M, q) <=> p \in PlacesIn(L, q) \/ (q = r /\ p = <<e, j>>)
  <2>1. ASSUME p \in PlacesIn(M, q) PROVE p \in PlacesIn(L, q) \/ (q = r /\ p = <<e, j>>)
    <3>1. PICK d \in DOMAIN M : \E k \in DOMAIN M[d] : p = <<d, k>> /\ M[d][k].from = q
      BY <2>1, PlacesAre
    <3>2. PICK k \in DOMAIN M[d] : p = <<d, k>> /\ M[d][k].from = q
      BY <3>1
    <3>3. CASE d = e /\ k = j
      BY <3>2, <3>3 DEF Grown
    <3>4. CASE d \in DOMAIN L /\ k \in DOMAIN L[d]
      <4>1. L[d][k].from = q
        BY <3>2, <3>4 DEF Grown
      <4> QED
        BY <3>2, <3>4, <4>1, PlaceIn
    <3> QED
      BY <3>3, <3>4 DEF Grown
  <2>2. ASSUME p \in PlacesIn(L, q) PROVE p \in PlacesIn(M, q)
    <3>1. PICK d \in DOMAIN L : \E k \in DOMAIN L[d] : p = <<d, k>> /\ L[d][k].from = q
      BY <2>2, PlacesAre
    <3>2. PICK k \in DOMAIN L[d] : p = <<d, k>> /\ L[d][k].from = q
      BY <3>1
    <3>3. d \in DOMAIN M /\ k \in DOMAIN M[d] /\ M[d][k].from = q
      BY <3>2 DEF Grown
    <3> QED
      BY <3>2, <3>3, PlaceIn
  <2>3. ASSUME q = r, p = <<e, j>> PROVE p \in PlacesIn(M, q)
    BY <2>3, PlaceIn DEF Grown
  <2> QED
    BY <2>1, <2>2, <2>3
<1> QED
  BY <1>1

\* A first arc in an entry of its own, and one in front of those of an entry.
WithEntry(L, r) == Append(L, <<[from |-> r, count |-> 1]>>)

WithNode(L, e, r) == [L EXCEPT ![e] = Append(@, [from |-> r, count |-> 1])]

\* What the two additions do to the lists
LEMMA NewEntry ==
  ASSUME NEW L \in Lists, NEW r \in Froms, NEW M,
         M = WithEntry(L, r)
  PROVE  /\ M \in Lists /\ Len(M) = Len(L) + 1 /\ Grown(L, M, Len(L) + 1, 1, r)
         /\ \A d \in 1 .. Len(L) : M[d] = L[d]
         /\ DOMAIN M = DOMAIN L \cup {Len(L) + 1}
         /\ M[Len(L) + 1] = <<[from |-> r, count |-> 1]>>
<1> DEFINE n == [from |-> r, count |-> 1]
           s == <<n>>
           S == Seq(Node)
<1>1. n \in Node /\ n.from = r /\ n.count = 1
  BY DEF Node
<1> HIDE DEF n
<1>2. s \in S /\ Len(s) = 1 /\ DOMAIN s = {1} /\ s[1] = n
  BY <1>1
<1>3. L \in Seq(S)
  BY DEF Lists
<1>4. M = Append(L, s)
  BY DEF n, WithEntry
<1> HIDE DEF s, S
<1>5. /\ M \in Seq(S) /\ Len(M) = Len(L) + 1 /\ DOMAIN M = 1 .. Len(L) + 1
      /\ DOMAIN L = 1 .. Len(L) /\ Len(L) \in Nat /\ M[Len(L) + 1] = s
      /\ \A d \in 1 .. Len(L) : M[d] = L[d]
  BY <1>2, <1>3, <1>4
<1>6. DOMAIN M = DOMAIN L \cup {Len(L) + 1} /\ Len(L) + 1 \notin DOMAIN L
  BY <1>5
<1>7. Grown(L, M, Len(L) + 1, 1, r)
  <2>1. \A d \in DOMAIN L : M[d] = L[d]
    BY <1>5
  <2> QED
    BY <1>1, <1>2, <1>5, <1>6, <2>1 DEF Grown
<1>8. M \in Lists
  BY <1>5 DEF Lists, S
<1> QED
  BY <1>5, <1>6, <1>7, <1>8 DEF s, n

LEMMA NewNode ==
  ASSUME NEW L \in Lists, NEW r \in Froms, NEW e \in 1 .. Len(L), NEW M,
         M = WithNode(L, e, r)
  PROVE  /\ M \in Lists /\ Len(M) = Len(L) /\ Grown(L, M, e, Len(L[e]) + 1, r)
         /\ Len(M[e]) = Len(L[e]) + 1 /\ DOMAIN M = DOMAIN L
         /\ \A d \in 1 .. Len(L) : d # e => M[d] = L[d]
<1> DEFINE n == [from |-> r, count |-> 1]
           s == L[e]
           t == Append(s, n)
           S == Seq(Node)
<1>1. n \in Node /\ n.from = r /\ n.count = 1
  BY DEF Node
<1>2. M = [L EXCEPT ![e] = t]
  BY Zenon DEF WithNode
<1>3. s \in S
  BY ListIs
<1> HIDE DEF n, s
<1>4. /\ t \in S /\ Len(t) = Len(s) + 1 /\ Len(s) \in Nat /\ t[Len(s) + 1] = n
      /\ DOMAIN s = 1 .. Len(s) /\ DOMAIN t = 1 .. Len(s) + 1
      /\ \A k \in 1 .. Len(s) : t[k] = s[k]
  BY <1>1, <1>3
<1>5. L \in Seq(S)
  BY DEF Lists
<1> HIDE DEF t, S
<1>6. /\ M \in Seq(S) /\ Len(M) = Len(L) /\ DOMAIN M = 1 .. Len(L) /\ DOMAIN L = 1 .. Len(L)
      /\ M[e] = t /\ \A d \in 1 .. Len(L) : d # e => M[d] = L[d]
  <2> DEFINE K == [L EXCEPT ![e] = t]
  <2>1. /\ K \in Seq(S) /\ Len(K) = Len(L) /\ DOMAIN K = 1 .. Len(L) /\ DOMAIN L = 1 .. Len(L)
        /\ K[e] = t /\ \A d \in 1 .. Len(L) : d # e => K[d] = L[d]
    BY <1>4, <1>5, PutIn
  <2> HIDE DEF K
  <2>2. M = K
    BY <1>2 DEF K
  <2> QED
    BY <2>1, <2>2
<1>7. Grown(L, M, e, Len(s) + 1, r)
  <2>1. /\ e \in DOMAIN M /\ Len(s) + 1 \in DOMAIN M[e] /\ M[e][Len(s) + 1].from = r
        /\ M[e][Len(s) + 1].count = 1 /\ Len(s) + 1 \notin DOMAIN L[e]
    BY <1>1, <1>4, <1>6 DEF s
  <2>2. ASSUME NEW d \in DOMAIN L, NEW k \in DOMAIN L[d]
        PROVE  k \in DOMAIN M[d] /\ M[d][k] = L[d][k]
    <3>1. CASE d = e
      BY <1>4, <1>6, <3>1 DEF s
    <3>2. CASE d # e
      BY <1>6, <3>2
    <3> QED
      BY <3>1, <3>2
  <2>3. ASSUME NEW d \in DOMAIN M, NEW k \in DOMAIN M[d]
        PROVE  (d = e /\ k = Len(s) + 1) \/ (d \in DOMAIN L /\ k \in DOMAIN L[d])
    <3>1. CASE d = e
      <4>1. k \in 1 .. Len(s) + 1 /\ L[d] = s
        BY <1>4, <1>6, <2>3, <3>1 DEF s
      <4>2. k = Len(s) + 1 \/ k \in 1 .. Len(s)
        BY <1>4, <4>1
      <4> QED
        BY <1>4, <1>6, <3>1, <4>1, <4>2
    <3>2. CASE d # e
      BY <1>6, <3>2
    <3> QED
      BY <3>1, <3>2
  <2> QED
    BY <1>6, <2>1, <2>2, <2>3 DEF Grown
<1>8. M \in Lists
  BY <1>6 DEF Lists, S
<1> QED
  BY <1>4, <1>6, <1>7, <1>8 DEF s

\* An entry more is a spot more of every arc; a node more is one only of an arc
\* the entry had already.
LEMMA SpotsGrow ==
  ASSUME NEW L \in Lists, NEW r \in Froms, NEW M,
         M = WithEntry(L, r), NEW q, IsFiniteSet(SpotsIn(L, q))
  PROVE  IsFiniteSet(SpotsIn(M, q)) /\ Cardinality(SpotsIn(M, q)) <= Cardinality(SpotsIn(L, q)) + 1
<1> DEFINE n == Len(L)
           p == <<n + 1, IF q = r THEN 1 ELSE 0>>
           A == SpotsIn(L, q)
<1>1. /\ n \in Nat /\ DOMAIN L = 1 .. n /\ DOMAIN M = DOMAIN L \cup {n + 1} /\ n + 1 \notin DOMAIN L
      /\ Grown(L, M, n + 1, 1, r) /\ \A d \in DOMAIN L : M[d] = L[d]
      /\ M[n + 1] = <<[from |-> r, count |-> 1]>>
  <2>1. n \in Nat /\ DOMAIN L = 1 .. n
    BY ListIs
  <2>2. /\ DOMAIN M = DOMAIN L \cup {n + 1} /\ Grown(L, M, n + 1, 1, r)
        /\ \A d \in 1 .. n : M[d] = L[d]
        /\ M[n + 1] = <<[from |-> r, count |-> 1]>>
    BY NewEntry
  <2>3. n + 1 \notin 1 .. n
    BY <2>1
  <2> QED
    BY <2>1, <2>2, <2>3
<1>2. PlacesIn(M, q) = PlacesIn(L, q) \cup (IF q = r THEN {<<n + 1, 1>>} ELSE {})
  BY <1>1, GrownPlaces
<1>3. \A d \in DOMAIN L : Lacks(M, d, q) <=> Lacks(L, d, q)
  BY <1>1 DEF Lacks
<1>4. Lacks(M, n + 1, q) <=> q # r
  BY <1>1 DEF Lacks
<1>5. SpotsIn(M, q) = A \cup {p}
  <2>1. {d \in DOMAIN M : Lacks(M, d, q)}
          = {d \in DOMAIN L : Lacks(L, d, q)} \cup (IF q = r THEN {} ELSE {n + 1})
    BY <1>1, <1>3, <1>4
  <2> DEFINE P == PlacesIn(L, q)
             D == {d \in DOMAIN L : Lacks(L, d, q)}
             Dn == {d \in DOMAIN M : Lacks(M, d, q)}
  <2>2. SpotsIn(M, q) = PlacesIn(M, q) \cup {<<d, 0>> : d \in Dn} /\ A = P \cup {<<d, 0>> : d \in D}
    BY DEF SpotsIn
  <2>3. Dn = D \cup (IF q = r THEN {} ELSE {n + 1})
    BY <2>1
  <2>4. PlacesIn(M, q) = P \cup (IF q = r THEN {<<n + 1, 1>>} ELSE {})
    BY <1>2
  <2> HIDE DEF P, D, Dn, A
  <2>5. CASE q = r
    <3>1. Dn = D /\ PlacesIn(M, q) = P \cup {p}
      BY <2>3, <2>4, <2>5
    <3> QED
      BY <2>2, <3>1
  <2>6. CASE q # r
    <3>1. Dn = D \cup {n + 1} /\ PlacesIn(M, q) = P /\ p = <<n + 1, 0>>
      BY <2>3, <2>4, <2>6
    <3>2. {<<d, 0>> : d \in Dn} = {<<d, 0>> : d \in D} \cup {p}
      BY <3>1
    <3> QED
      BY <2>2, <3>1, <3>2
  <2> QED
    BY <2>5, <2>6
<1> HIDE DEF A, p
<1>6. /\ IsFiniteSet(A \cup {p})
      /\ Cardinality(A \cup {p}) = IF p \in A THEN Cardinality(A) ELSE Cardinality(A) + 1
  BY FS_AddElement DEF A
<1>7. Cardinality(A) \in Nat
  BY FS_CardinalityType DEF A
<1>8. Cardinality(SpotsIn(M, q)) <= Cardinality(A) + 1
  <2>1. Cardinality(A \cup {p}) <= Cardinality(A) + 1
    BY <1>6, <1>7
  <2> QED
    BY <1>5, <2>1
<1> QED
  BY <1>5, <1>6, <1>8 DEF A

LEMMA SpotsStay ==
  ASSUME NEW L \in Lists, NEW r \in Froms, NEW e \in 1 .. Len(L), NEW M,
         M = WithNode(L, e, r),
         NEW q, IsFiniteSet(SpotsIn(L, q))
  PROVE  /\ IsFiniteSet(SpotsIn(M, q))
         /\ q # r => SpotsIn(M, q) = SpotsIn(L, q)
         /\ Lacks(L, e, r) => Cardinality(SpotsIn(M, q)) <= Cardinality(SpotsIn(L, q))
         /\ Cardinality(SpotsIn(M, q)) <= Cardinality(SpotsIn(L, q)) + 1
         /\ \A d \in DOMAIN L : Lacks(L, d, q) /\ (q # r \/ d # e) => Lacks(M, d, q)
<1> DEFINE j == Len(L[e]) + 1
           p == <<e, j>>
           z == <<e, 0>>
           A == SpotsIn(L, q)
           P == PlacesIn(L, q)
           D == {d \in DOMAIN L : Lacks(L, d, q)}
           Dn == {d \in DOMAIN M : Lacks(M, d, q)}
<1>1. /\ DOMAIN L = 1 .. Len(L) /\ DOMAIN M = DOMAIN L /\ e \in DOMAIN L
      /\ Grown(L, M, e, j, r) /\ \A d \in DOMAIN L : d # e => M[d] = L[d]
      /\ j \in Nat /\ j # 0 /\ 0 \notin DOMAIN L[e]
  <2>1. /\ DOMAIN L = 1 .. Len(L) /\ Len(L[e]) \in Nat /\ DOMAIN L[e] = 1 .. Len(L[e])
    BY ListIs
  <2>2. /\ Grown(L, M, e, j, r) /\ DOMAIN M = DOMAIN L
        /\ \A d \in 1 .. Len(L) : d # e => M[d] = L[d]
    BY NewNode
  <2>3. j \in Nat /\ j # 0 /\ 0 \notin 1 .. Len(L[e])
    BY <2>1
  <2> QED
    BY <2>1, <2>2, <2>3
<1>2. PlacesIn(M, q) = P \cup (IF q = r THEN {p} ELSE {})
  BY <1>1, GrownPlaces
<1>3. ASSUME NEW d \in DOMAIN L
      PROVE  Lacks(M, d, q) <=> Lacks(L, d, q) /\ (q # r \/ d # e)
  <2>1. CASE d # e
    BY <1>1, <2>1 DEF Lacks
  <2>2. CASE d = e
    <3>1. /\ j \in DOMAIN M[d] /\ M[d][j].from = r
          /\ \A k \in DOMAIN L[d] : k \in DOMAIN M[d] /\ M[d][k] = L[d][k]
          /\ \A k \in DOMAIN M[d] : k = j \/ k \in DOMAIN L[d]
      BY <1>1, <2>2 DEF Grown
    <3> QED
      BY <2>2, <3>1 DEF Lacks
  <2> QED
    BY <2>1, <2>2
<1>4. SpotsIn(M, q) = PlacesIn(M, q) \cup {<<d, 0>> : d \in Dn} /\ A = P \cup {<<d, 0>> : d \in D}
  BY DEF SpotsIn
<1>5. /\ q # r => Dn = D
      /\ q = r => Dn = D \ {e}
  BY <1>1, <1>3
<1>6. \A t \in P : t # z
  <2>1. ASSUME NEW t \in P PROVE t # z
    <3>1. PICK d \in DOMAIN L : \E k \in DOMAIN L[d] : t = <<d, k>> /\ L[d][k].from = q
      BY <2>1, PlacesAre
    <3>2. PICK k \in DOMAIN L[d] : t = <<d, k>>
      BY <3>1
    <3> QED
      BY <1>1, <3>2
  <2> QED
    BY <2>1
<1>7. D \subseteq DOMAIN L /\ (Lacks(L, e, q) => e \in D)
  BY <1>1
<1> HIDE DEF A, P, D, Dn, z, p
<1>8. IsFiniteSet(A) /\ Cardinality(A) \in Nat
  BY FS_CardinalityType DEF A
<1>9. CASE q # r
  <2>1. SpotsIn(M, q) = A
    BY <1>2, <1>4, <1>5, <1>9
  <2>2. IsFiniteSet(SpotsIn(M, q))
    BY <1>8, <2>1, Zenon
  <2>3. Cardinality(SpotsIn(M, q)) <= Cardinality(A)
    BY <1>8, <2>1
  <2>4. Cardinality(SpotsIn(M, q)) <= Cardinality(A) + 1
    BY <1>8, <2>1
  <2> QED
    BY <1>3, <1>9, <2>1, <2>2, <2>3, <2>4 DEF A
<1>10. CASE q = r
  <2>1. SpotsIn(M, q) = (A \ {z}) \cup {p}
    <3>1. {<<d, 0>> : d \in D \ {e}} = {<<d, 0>> : d \in D} \ {z}
      BY DEF z
    <3>2. P \ {z} = P
      BY <1>6
    <3> QED
      BY <1>2, <1>4, <1>5, <1>10, <3>1, <3>2
  <2> DEFINE B == A \ {z}
  <2>2. /\ IsFiniteSet(B)
        /\ Cardinality(B) = IF z \in A THEN Cardinality(A) - 1 ELSE Cardinality(A)
    BY <1>8, FS_RemoveElement
  <2>3. /\ IsFiniteSet(B \cup {p})
        /\ Cardinality(B \cup {p}) = IF p \in B THEN Cardinality(B) ELSE Cardinality(B) + 1
    BY <2>2, FS_AddElement
  <2>4. Cardinality(B) \in Nat
    BY <2>2, FS_CardinalityType
  <2>5. Lacks(L, e, r) => z \in A
    BY <1>4, <1>7, <1>10 DEF z
  <2> HIDE DEF B
  <2>6. SpotsIn(M, q) = B \cup {p}
    BY <2>1 DEF B
  <2>7. /\ Lacks(L, e, r) => Cardinality(B \cup {p}) <= Cardinality(A)
        /\ Cardinality(B \cup {p}) <= Cardinality(A) + 1
    BY <1>8, <2>2, <2>3, <2>4, <2>5
  <2>8. IsFiniteSet(SpotsIn(M, q))
    BY <2>3, <2>6, Zenon
  <2>9. /\ Lacks(L, e, r) => Cardinality(SpotsIn(M, q)) <= Cardinality(A)
        /\ Cardinality(SpotsIn(M, q)) <= Cardinality(A) + 1
    BY <2>6, <2>7
  <2> QED
    BY <1>3, <1>10, <2>8, <2>9 DEF A
<1> QED
  BY <1>9, <1>10

\* Where a call is to be recorded
Recording == {"record", "clear", "start", "add"}

\* The types of what both contexts keep
WalkTypes ==
  /\ entries \in [Profiler!Functions -> Lists]
  /\ at \in [Profiler!Contexts -> {"none", "entry", "arc", "load", "store"} \cup Recording]
  /\ arc \in [Profiler!Contexts -> Arcs]
  /\ {entry, node, count} \subseteq [Profiler!Contexts -> Nat]
  /\ done \in [Profiler!Contexts -> [Arcs -> Nat]]
  /\ raced \in Nat /\ late \in Nat

\* The lists of the function a context records a call of
ListOf(c) == entries[arc[c].self]

\* What a context has found on its walk is there, however the other changes the lists.
Holds(c) ==
  /\ at[c] \in {"arc", "load", "store"} => entry[c] \in 1 .. Len(ListOf(c))
  /\ at[c] \in {"load", "store"} => /\ node[c] \in 1 .. Len(ListOf(c)[entry[c]])
                                    /\ ListOf(c)[entry[c]][node[c]].from = arc[c].from
  /\ at[c] \in Recording => entry[c] \in 0 .. Len(ListOf(c))

WalkInv == WalkTypes /\ \A c \in Profiler!Contexts : Holds(c)

LEMMA ContextsAre == Profiler!Contexts = {"main", "handler"}
BY DEF Profiler!Contexts

\* What a context has found is typed.
LEMMA ArcIs ==
  ASSUME WalkTypes, NEW c \in Profiler!Contexts
  PROVE  /\ arc[c] \in Arcs /\ arc[c].self \in Profiler!Functions /\ arc[c].from \in Froms
         /\ ListOf(c) \in Lists /\ entry[c] \in Nat /\ node[c] \in Nat /\ count[c] \in Nat
<1>1. arc[c] \in Arcs /\ entries \in [Profiler!Functions -> Lists]
      /\ entry[c] \in Nat /\ node[c] \in Nat /\ count[c] \in Nat
  BY DEF WalkTypes
<1>2. arc[c].self \in Profiler!Functions /\ arc[c].from \in Froms
  BY <1>1 DEF Profiler!Functions, Froms
<1> QED
  BY <1>1, <1>2 DEF ListOf

\* What the two steps that change the lists make of them
LEMMA StoreIs ==
  ASSUME WalkInv, NEW c \in Profiler!Contexts, Profiler!Store(c)
  PROVE  LET f == arc[c].self
             v == count[c] + 1
         IN /\ v \in Nat
            /\ entry[c] \in 1 .. Len(entries[f]) /\ node[c] \in 1 .. Len(entries[f][entry[c]])
            /\ entries[f][entry[c]][node[c]].from = arc[c].from
            /\ entries' \in [Profiler!Functions -> Lists]
            /\ \A g \in Profiler!Functions : g # f => entries'[g] = entries[g]
            /\ Stored(entries[f], entries'[f], entry[c], node[c], v)
            /\ Len(entries'[f]) = Len(entries[f])
            /\ \A e \in 1 .. Len(entries[f]) : Len(entries'[f][e]) = Len(entries[f][e])
<1> DEFINE f == arc[c].self
           v == count[c] + 1
           L == entries[f]
           M == [L EXCEPT ![entry[c]][node[c]].count = v]
<1>1. f \in Profiler!Functions /\ L \in Lists /\ v \in Nat
  BY ArcIs DEF WalkInv, ListOf
<1>2. /\ entry[c] \in 1 .. Len(L) /\ node[c] \in 1 .. Len(L[entry[c]])
      /\ L[entry[c]][node[c]].from = arc[c].from
  BY DEF WalkInv, Holds, ListOf, Profiler!Store
<1>3. entries' = [entries EXCEPT ![f] = M]
  <2>1. entries' = [entries EXCEPT ![arc[c].self][entry[c]][node[c]].count = count[c] + 1]
    BY Zenon DEF Profiler!Store
  <2> QED
    BY <2>1, Zenon
<1> HIDE DEF M, v, L
<1>4. /\ M \in Lists /\ Len(M) = Len(L) /\ \A d \in 1 .. Len(L) : Len(M[d]) = Len(L[d])
      /\ Stored(L, M, entry[c], node[c], v)
  BY <1>1, <1>2, StoredIs DEF M
<1>5. entries \in [Profiler!Functions -> Lists]
  BY DEF WalkInv, WalkTypes
<1>6. /\ entries' \in [Profiler!Functions -> Lists] /\ entries'[f] = M
      /\ \A g \in Profiler!Functions : g # f => entries'[g] = entries[g]
  BY <1>1, <1>3, <1>4, <1>5
<1> QED
  BY <1>1, <1>2, <1>4, <1>6 DEF L, v

LEMMA AddIs ==
  ASSUME WalkInv, NEW c \in Profiler!Contexts, Profiler!Add(c)
  PROVE  LET f == arc[c].self
         IN /\ entry[c] \in 0 .. Len(entries[f])
            /\ entries' \in [Profiler!Functions -> Lists]
            /\ \A g \in Profiler!Functions : g # f => entries'[g] = entries[g]
            /\ entry[c] = 0 => entries'[f] = WithEntry(entries[f], arc[c].from)
            /\ entry[c] # 0 => entries'[f] = WithNode(entries[f], entry[c], arc[c].from)
<1> DEFINE f == arc[c].self
           r == arc[c].from
           L == entries[f]
           M == IF entry[c] = 0 THEN WithEntry(L, r) ELSE WithNode(L, entry[c], r)
<1>1. f \in Profiler!Functions /\ L \in Lists /\ r \in Froms /\ entry[c] \in Nat
  BY ArcIs DEF WalkInv, ListOf
<1>2. entry[c] \in 0 .. Len(L)
  BY DEF WalkInv, Holds, ListOf, Profiler!Add, Recording
<1>3. entries' = [entries EXCEPT ![f] = M]
  <2>1. CASE entry[c] = 0
    <3>1. entries' = [entries EXCEPT ![f] = Append(@, <<[from |-> r, count |-> 1]>>)]
      BY <2>1, Zenon DEF Profiler!Add
    <3>2. M = Append(L, <<[from |-> r, count |-> 1]>>)
      BY <2>1 DEF WithEntry
    <3> QED
      BY <3>1, <3>2, Zenon
  <2>2. CASE entry[c] # 0
    <3>1. entries' = [entries EXCEPT ![f][entry[c]] = Append(@, [from |-> r, count |-> 1])]
      BY <2>2, Zenon DEF Profiler!Add
    <3>2. M = [L EXCEPT ![entry[c]] = Append(@, [from |-> r, count |-> 1])]
      BY <2>2 DEF WithNode
    <3> HIDE DEF M
    <3> QED
      BY <3>1, <3>2, Zenon
  <2> QED
    BY <2>1, <2>2
<1> HIDE DEF L, f, r
<1>4. M \in Lists
  <2>1. CASE entry[c] = 0
    BY <1>1, <2>1, NewEntry
  <2>2. CASE entry[c] # 0
    <3>1. Len(L) \in Nat
      BY <1>1, ListIs
    <3>2. entry[c] \in 1 .. Len(L)
      BY <1>2, <2>2, <3>1
    <3> QED
      BY <1>1, <2>2, <3>2, NewNode
  <2> QED
    BY <2>1, <2>2
<1> HIDE DEF M
<1>5. entries \in [Profiler!Functions -> Lists]
  BY DEF WalkInv, WalkTypes
<1>6. /\ entries' \in [Profiler!Functions -> Lists] /\ entries'[f] = M
      /\ \A g \in Profiler!Functions : g # f => entries'[g] = entries[g]
  BY <1>1, <1>3, <1>4, <1>5
<1> QED
  BY <1>2, <1>6 DEF L, f, r, M

\* The lists of a function only grow, and an arc stays where it is.
Longer(L, M) ==
  /\ Len(L) <= Len(M)
  /\ \A e \in 1 .. Len(L) : /\ Len(L[e]) <= Len(M[e])
                            /\ \A k \in 1 .. Len(L[e]) : M[e][k].from = L[e][k].from

\* Both leave the lists at least as long.
LEMMA LongerSelf == ASSUME NEW L \in Lists PROVE Longer(L, L)
BY ListIs DEF Longer

LEMMA StoreLonger ==
  ASSUME WalkInv, NEW c \in Profiler!Contexts, Profiler!Store(c), NEW g \in Profiler!Functions
  PROVE  Longer(entries[g], entries'[g])
<1>1. entries[g] \in Lists
  BY DEF WalkInv, WalkTypes
<1>2. CASE g # arc[c].self
  <2>1. entries'[g] = entries[g]
    BY <1>2, StoreIs
  <2> QED
    BY <1>1, <2>1, LongerSelf
<1>3. CASE g = arc[c].self
  <2> DEFINE L == entries[g]
             M == entries'[g]
  <2>1. /\ Len(M) = Len(L) /\ \A e \in 1 .. Len(L) : Len(M[e]) = Len(L[e])
        /\ Stored(L, M, entry[c], node[c], count[c] + 1)
    BY <1>3, StoreIs
  <2> HIDE DEF L, M
  <2>2. /\ DOMAIN L = 1 .. Len(L) /\ Len(L) \in Nat
        /\ \A e \in 1 .. Len(L) : DOMAIN L[e] = 1 .. Len(L[e]) /\ Len(L[e]) \in Nat
    BY <1>1, ListIs DEF L
  <2>3. Longer(L, M)
    BY <2>1, <2>2 DEF Longer, Stored, Alike
  <2> QED
    BY <2>3 DEF L, M
<1> QED
  BY <1>2, <1>3

LEMMA AddLonger ==
  ASSUME WalkInv, NEW c \in Profiler!Contexts, Profiler!Add(c), NEW g \in Profiler!Functions
  PROVE  Longer(entries[g], entries'[g])
<1>1. entries[g] \in Lists
  BY DEF WalkInv, WalkTypes
<1>2. CASE g # arc[c].self
  <2>1. entries'[g] = entries[g]
    BY <1>2, AddIs
  <2> QED
    BY <1>1, <2>1, LongerSelf
<1>3. CASE g = arc[c].self
  <2> DEFINE L == entries[g]
             M == entries'[g]
             r == arc[c].from
  <2>1. /\ r \in Froms /\ entry[c] \in 0 .. Len(L)
        /\ entry[c] = 0 => M = WithEntry(L, r)
        /\ entry[c] # 0 => M = WithNode(L, entry[c], r)
    BY <1>3, AddIs, ArcIs DEF WalkInv
  <2>2. /\ L \in Lists /\ DOMAIN L = 1 .. Len(L) /\ Len(L) \in Nat
        /\ \A e \in 1 .. Len(L) : DOMAIN L[e] = 1 .. Len(L[e]) /\ Len(L[e]) \in Nat
    BY <1>1, ListIs
  <2> HIDE DEF L, M, r
  <2>3. CASE entry[c] = 0
    <3>1. Len(M) = Len(L) + 1 /\ \A e \in 1 .. Len(L) : M[e] = L[e]
      BY <2>1, <2>2, <2>3, NewEntry
    <3> QED
      BY <2>2, <3>1 DEF Longer, L, M
  <2>4. CASE entry[c] # 0
    <3> DEFINE x == entry[c]
    <3>1. x \in 1 .. Len(L)
      BY <2>1, <2>2, <2>4
    <3>2. /\ Len(M) = Len(L) /\ Len(M[x]) = Len(L[x]) + 1
          /\ Grown(L, M, x, Len(L[x]) + 1, r)
          /\ \A d \in 1 .. Len(L) : d # x => M[d] = L[d]
      BY <2>1, <2>2, <2>4, <3>1, NewNode
    <3> HIDE DEF x
    <3>3. \A e \in 1 .. Len(L) : \A k \in 1 .. Len(L[e]) : M[e][k].from = L[e][k].from
      BY <2>2, <3>2 DEF Grown
    <3>4. \A e \in 1 .. Len(L) : Len(L[e]) <= Len(M[e])
      BY <2>2, <3>1, <3>2
    <3>5. Longer(L, M)
      BY <2>2, <3>2, <3>3, <3>4 DEF Longer
    <3> QED
      BY <3>5 DEF L, M
  <2> QED
    BY <2>3, <2>4
<1> QED
  BY <1>2, <1>3

\* So what the other context has found stays there.
LEMMA HoldsStays ==
  ASSUME WalkInv, NEW c \in Profiler!Contexts, entries' \in [Profiler!Functions -> Lists],
         Longer(entries[arc[c].self], entries'[arc[c].self]),
         at'[c] = at[c], arc'[c] = arc[c], entry'[c] = entry[c], node'[c] = node[c]
  PROVE  Holds(c)'
<1> DEFINE L == entries[arc[c].self]
           M == entries'[arc[c].self]
<1>1. L \in Lists /\ M \in Lists /\ entry[c] \in Nat /\ node[c] \in Nat
  BY ArcIs DEF WalkInv, ListOf
<1>2. ListOf(c) = L /\ ListOf(c)' = M
  BY DEF ListOf
<1>3. Holds(c)
  BY DEF WalkInv
<1> HIDE DEF L, M
<1>4. /\ Len(L) \in Nat /\ Len(M) \in Nat /\ \A e \in 1 .. Len(L) : Len(L[e]) \in Nat
      /\ \A e \in 1 .. Len(M) : Len(M[e]) \in Nat
  BY <1>1, ListIs
<1>5. /\ Len(L) <= Len(M)
      /\ \A e \in 1 .. Len(L) : /\ Len(L[e]) <= Len(M[e])
                                /\ \A k \in 1 .. Len(L[e]) : M[e][k].from = L[e][k].from
  BY DEF Longer, L, M
<1>6. /\ at[c] \in {"arc", "load", "store"} => entry[c] \in 1 .. Len(L)
      /\ at[c] \in {"load", "store"} => /\ node[c] \in 1 .. Len(L[entry[c]])
                                        /\ L[entry[c]][node[c]].from = arc[c].from
      /\ at[c] \in Recording => entry[c] \in 0 .. Len(L)
  BY <1>2, <1>3 DEF Holds
<1>7. at[c] \in {"arc", "load", "store"} => entry[c] \in 1 .. Len(M)
  BY <1>4, <1>5, <1>6
<1>8. at[c] \in Recording => entry[c] \in 0 .. Len(M)
  BY <1>4, <1>5, <1>6
<1>9. ASSUME at[c] \in {"load", "store"}
      PROVE  node[c] \in 1 .. Len(M[entry[c]]) /\ M[entry[c]][node[c]].from = arc[c].from
  <2> DEFINE e == entry[c]
             k == node[c]
  <2>1. e \in 1 .. Len(L) /\ k \in 1 .. Len(L[e]) /\ L[e][k].from = arc[c].from /\ e \in 1 .. Len(M)
    BY <1>6, <1>7, <1>9
  <2> HIDE DEF e, k
  <2>2. Len(L[e]) \in Nat /\ Len(M[e]) \in Nat /\ Len(L[e]) <= Len(M[e])
        /\ M[e][k].from = L[e][k].from
    BY <1>4, <1>5, <2>1
  <2>3. k \in 1 .. Len(M[e])
    BY <2>1, <2>2
  <2> QED
    BY <2>1, <2>2, <2>3 DEF e, k
<1> QED
  BY <1>2, <1>7, <1>8, <1>9 DEF Holds

LEMMA WalkStarts == Init => WalkInv
<1> SUFFICES ASSUME Init PROVE WalkInv
  OBVIOUS
<1>1. /\ entries = [f \in Profiler!Functions |-> <<>>]
      /\ at = [c \in Profiler!Contexts |-> "none"]
      /\ arc = [c \in Profiler!Contexts |-> CHOOSE x \in Arcs : TRUE]
      /\ entry = [c \in Profiler!Contexts |-> 0] /\ node = [c \in Profiler!Contexts |-> 0]
      /\ count = [c \in Profiler!Contexts |-> 0]
      /\ done = [c \in Profiler!Contexts |-> [x \in Arcs |-> 0]] /\ raced = 0 /\ late = 0
  BY DEF Init, Profiler!Init
<1>2. (CHOOSE x \in Arcs : TRUE) \in Arcs
  BY ProfilerAssumption
<1>3. <<>> \in Lists
  BY DEF Lists
<1>4. entries \in [Profiler!Functions -> Lists]
  BY <1>1, <1>3
<1>5. arc \in [Profiler!Contexts -> Arcs]
  BY <1>1, <1>2
<1>6. at \in [Profiler!Contexts -> {"none", "entry", "arc", "load", "store"} \cup Recording]
  BY <1>1
<1>7. {entry, node, count} \subseteq [Profiler!Contexts -> Nat]
  BY <1>1
<1>8. done \in [Profiler!Contexts -> [Arcs -> Nat]]
  BY <1>1
<1>9. WalkTypes
  BY <1>1, <1>4, <1>5, <1>6, <1>7, <1>8 DEF WalkTypes
<1>10. \A c \in Profiler!Contexts : Holds(c)
  BY <1>1 DEF Holds, Recording
<1> QED
  BY <1>9, <1>10 DEF WalkInv

\* A step of context c that leaves the lists and the other context alone
LEMMA WalkAlone ==
  ASSUME WalkInv, NEW c \in Profiler!Contexts, UNCHANGED <<entries, done, raced, late>>,
         NEW p \in {"none", "entry", "arc", "load", "store"} \cup Recording,
         at' = [at EXCEPT ![c] = p],
         arc' \in [Profiler!Contexts -> Arcs],
         {entry', node', count'} \subseteq [Profiler!Contexts -> Nat],
         \A d \in Profiler!Contexts :
            d # c => arc'[d] = arc[d] /\ entry'[d] = entry[d] /\ node'[d] = node[d],
         Holds(c)'
  PROVE  WalkInv'
<1>1. WalkTypes'
  BY DEF WalkInv, WalkTypes, Profiler!Functions, Profiler!Contexts
<1>2. ASSUME NEW d \in Profiler!Contexts, d # c PROVE Holds(d)'
  <2>1. at'[d] = at[d]
    BY <1>2 DEF WalkInv, WalkTypes
  <2>2. entries' \in [Profiler!Functions -> Lists] /\ Longer(entries[arc[d].self], entries'[arc[d].self])
    BY ArcIs, LongerSelf DEF WalkInv, WalkTypes, ListOf
  <2> QED
    BY <1>2, <2>1, <2>2, HoldsStays
<1> QED
  BY <1>1, <1>2 DEF WalkInv, Profiler!Contexts

\* The steps that end a call, and the others
LEMMA WalkOver ==
  ASSUME WalkInv, NEW c \in Profiler!Contexts, Profiler!Over(c),
         entries' \in [Profiler!Functions -> Lists],
         \A g \in Profiler!Functions : Longer(entries[g], entries'[g])
  PROVE  WalkInv'
<1>1. /\ at' = [at EXCEPT ![c] = "none"] /\ UNCHANGED <<arc, entry, node, count>>
      /\ done' = [done EXCEPT ![c][arc[c]] = @ + 1]
      /\ raced' \in {raced, raced + 1} /\ late' \in {late, late + 1}
  <2>1. /\ at' = [at EXCEPT ![c] = "none"] /\ UNCHANGED <<arc, entry, node, count>>
        /\ raced' \in {raced, raced + 1} /\ late' \in {late, late + 1}
    BY DEF Profiler!Over
  <2>2. done' = [done EXCEPT ![c][arc[c]] = @ + 1]
    BY Zenon DEF Profiler!Over
  <2> QED
    BY <2>1, <2>2
<1>2. done' \in [Profiler!Contexts -> [Arcs -> Nat]]
  <2>1. done \in [Profiler!Contexts -> [Arcs -> Nat]] /\ arc[c] \in Arcs
    BY ArcIs DEF WalkInv, WalkTypes
  <2> DEFINE h == [done[c] EXCEPT ![arc[c]] = @ + 1]
  <2>2. done' = [done EXCEPT ![c] = h]
    BY <1>1, Zenon
  <2>3. h \in [Arcs -> Nat]
    BY <2>1
  <2> HIDE DEF h
  <2> QED
    BY <2>1, <2>2, <2>3
<1>3. WalkTypes'
  BY <1>1, <1>2 DEF WalkInv, WalkTypes, Profiler!Functions, Profiler!Contexts
<1>4. ASSUME NEW d \in Profiler!Contexts PROVE Holds(d)'
  <2>1. CASE d = c
    <3>1. at'[d] = "none"
      BY <1>1, <2>1 DEF WalkInv, WalkTypes
    <3> QED
      BY <3>1 DEF Holds, Recording
  <2>2. CASE d # c
    <3>1. at'[d] = at[d]
      BY <1>1, <2>2 DEF WalkInv, WalkTypes
    <3>2. arc[d].self \in Profiler!Functions
      BY ArcIs DEF WalkInv
    <3> QED
      BY <1>1, <3>1, <3>2, HoldsStays
  <2> QED
    BY <2>1, <2>2
<1> QED
  BY <1>3, <1>4 DEF WalkInv, Profiler!Contexts

LEMMA WalkOne ==
  ASSUME WalkInv, NEW c \in Profiler!Contexts,
         \/ \E x \in Arcs : Profiler!Call(c, x)
         \/ Profiler!FindEntry(c) \/ Profiler!FindArc(c) \/ Profiler!Load(c)
         \/ Profiler!TestInit(c) \/ Profiler!ClearInit(c) \/ Profiler!StartSampling(c)
  PROVE  WalkInv'
<1> DEFINE P == {"none", "entry", "arc", "load", "store"} \cup Recording
<1>1. /\ arc \in [Profiler!Contexts -> Arcs] /\ entry \in [Profiler!Contexts -> Nat]
      /\ node \in [Profiler!Contexts -> Nat] /\ count \in [Profiler!Contexts -> Nat]
      /\ at \in [Profiler!Contexts -> P] /\ entries \in [Profiler!Functions -> Lists]
  BY DEF WalkInv, WalkTypes
<1>2. /\ arc[c] \in Arcs /\ arc[c].self \in Profiler!Functions
      /\ ListOf(c) \in Lists /\ Len(ListOf(c)) \in Nat
      /\ DOMAIN ListOf(c) = 1 .. Len(ListOf(c))
      /\ \A e \in 1 .. Len(ListOf(c)) : DOMAIN ListOf(c)[e] = 1 .. Len(ListOf(c)[e])
  BY ArcIs, ListIs DEF WalkInv
<1>3. Holds(c)
  BY DEF WalkInv
<1>4. ASSUME NEW x \in Arcs, Profiler!Call(c, x) PROVE WalkInv'
  <2>1. /\ at' = [at EXCEPT ![c] = "entry"] /\ arc' = [arc EXCEPT ![c] = x]
        /\ UNCHANGED <<entries, entry, node, count, done, raced, late>>
    BY <1>4 DEF Profiler!Call, Profiler!lists, Profiler!ghosts
  <2>2. Holds(c)'
    BY <1>1, <2>1 DEF Holds, Recording
  <2> QED
    BY <1>1, <2>1, <2>2, WalkAlone
<1>5. ASSUME Profiler!FindEntry(c) PROVE WalkInv'
  <2> DEFINE p == IF ListOf(c) = <<>> THEN "record" ELSE "arc"
  <2>1. /\ at' = [at EXCEPT ![c] = p]
        /\ entry' = [entry EXCEPT ![c] = Len(ListOf(c))]
        /\ UNCHANGED <<entries, arc, node, count, done, raced, late>>
    BY <1>5 DEF Profiler!FindEntry, Profiler!lists, Profiler!ghosts, ListOf
  <2>2. ListOf(c)' = ListOf(c) /\ entry'[c] = Len(ListOf(c)) /\ at'[c] = p
    BY <1>1, <2>1 DEF ListOf
  <2>3. ListOf(c) = <<>> \/ Len(ListOf(c)) \in 1 .. Len(ListOf(c))
    BY <1>2 DEF Lists
  <2>4. Holds(c)'
    BY <1>2, <2>2, <2>3 DEF Holds, Recording
  <2>5. p \in P
    BY DEF Recording
  <2>6. entry' \in [Profiler!Contexts -> Nat]
    BY <1>1, <1>2, <2>1
  <2> HIDE DEF p
  <2> QED
    BY <1>1, <2>1, <2>4, <2>5, <2>6, WalkAlone
<1>6. ASSUME Profiler!FindArc(c) PROVE WalkInv'
  <2>1. /\ at[c] = "arc" /\ UNCHANGED <<entries, arc, entry, count, done, raced, late>>
    BY <1>6 DEF Profiler!FindArc, Profiler!lists, Profiler!ghosts
  <2>2. entry[c] \in 1 .. Len(ListOf(c))
    BY <1>3, <2>1 DEF Holds
  <2>3. ListOf(c)' = ListOf(c)
    BY <2>1 DEF ListOf
  <2>4. CASE /\ at' = [at EXCEPT ![c] = "record"] /\ UNCHANGED node
    <3>1. at'[c] = "record"
      BY <1>1, <2>4
    <3>2. Holds(c)'
      BY <1>2, <2>1, <2>2, <2>3, <3>1 DEF Holds, Recording
    <3>3. "record" \in P
      BY DEF Recording
    <3> QED
      BY <1>1, <2>1, <2>4, <3>2, <3>3, WalkAlone
  <2>5. ASSUME NEW k \in Profiler!Found(c), at' = [at EXCEPT ![c] = "load"],
               node' = [node EXCEPT ![c] = k]
        PROVE  WalkInv'
    <3>1. at'[c] = "load" /\ node'[c] = k
      BY <1>1, <2>5
    <3>2. k \in 1 .. Len(ListOf(c)[entry[c]]) /\ ListOf(c)[entry[c]][k].from = arc[c].from
      BY <1>2, <2>2 DEF Profiler!Found, Profiler!Nodes, ListOf
    <3>3. Holds(c)'
      BY <1>2, <2>1, <2>2, <2>3, <3>1, <3>2 DEF Holds, Recording
    <3>4. k \in Nat
      <4>1. Len(ListOf(c)[entry[c]]) \in Nat
        BY <1>2, <2>2, ListIs
      <4> QED
        BY <3>2, <4>1
    <3>5. node' \in [Profiler!Contexts -> Nat]
      BY <1>1, <2>5, <3>4
    <3> QED
      BY <1>1, <2>1, <2>5, <3>3, <3>5, WalkAlone
  <2> QED
    BY <1>6, <2>4, <2>5 DEF Profiler!FindArc
<1>7. ASSUME Profiler!Load(c) PROVE WalkInv'
  <2> DEFINE n == Profiler!Nodes(c)[node[c]].count
  <2>1. /\ at[c] = "load" /\ at' = [at EXCEPT ![c] = "store"]
        /\ count' = [count EXCEPT ![c] = n]
        /\ UNCHANGED <<entries, arc, entry, node, done, raced, late>>
    BY <1>7 DEF Profiler!Load, Profiler!lists, Profiler!ghosts
  <2>2. /\ entry[c] \in 1 .. Len(ListOf(c)) /\ node[c] \in 1 .. Len(ListOf(c)[entry[c]])
        /\ ListOf(c)[entry[c]][node[c]].from = arc[c].from
    BY <1>3, <2>1 DEF Holds
  <2>3. n \in Nat
    BY <1>2, <2>2, ListIs DEF Profiler!Nodes, ListOf
  <2>4. ListOf(c)' = ListOf(c) /\ at'[c] = "store"
    BY <1>1, <2>1 DEF ListOf
  <2>5. Holds(c)'
    BY <2>1, <2>2, <2>4 DEF Holds, Recording
  <2> HIDE DEF n
  <2>6. count' \in [Profiler!Contexts -> Nat]
    BY <1>1, <2>1, <2>3
  <2> QED
    BY <1>1, <2>1, <2>5, <2>6, WalkAlone
<1>8. ASSUME NEW p \in Recording, at[c] \in Recording, at' = [at EXCEPT ![c] = p],
             UNCHANGED <<entries, arc, entry, node, count, done, raced, late>>
      PROVE  WalkInv'
  <2>1. at'[c] = p /\ ListOf(c)' = ListOf(c)
    BY <1>1, <1>8 DEF ListOf
  <2>2. entry[c] \in 0 .. Len(ListOf(c))
    BY <1>3, <1>8 DEF Holds
  <2>3. Holds(c)'
    BY <1>8, <2>1, <2>2 DEF Holds, Recording
  <2> QED
    BY <1>1, <1>8, <2>3, WalkAlone
<1>9. ASSUME Profiler!TestInit(c) PROVE WalkInv'
  <2> DEFINE p == IF pcsample_need_init THEN "clear" ELSE "add"
  <2>1. /\ p \in Recording /\ at[c] \in Recording /\ at' = [at EXCEPT ![c] = p]
        /\ UNCHANGED <<entries, arc, entry, node, count, done, raced, late>>
    BY <1>9 DEF Profiler!TestInit, Profiler!lists, Profiler!ghosts, Recording
  <2> HIDE DEF p
  <2> QED
    BY <1>8, <2>1
<1>10. ASSUME Profiler!ClearInit(c) PROVE WalkInv'
  BY <1>8, <1>10 DEF Profiler!ClearInit, Profiler!lists, Profiler!ghosts, Recording
<1>11. ASSUME Profiler!StartSampling(c) PROVE WalkInv'
  BY <1>8, <1>11 DEF Profiler!StartSampling, Profiler!ghosts, Recording
<1> QED
  BY <1>4, <1>5, <1>6, <1>7, <1>9, <1>10, <1>11

\* A step of the profiler is one of a context, or it leaves the walks alone.
Walks == <<entries, at, arc, entry, node, count, done, raced, late, starts, pcsample_need_init>>

ContextStep(c) ==
  \/ \E x \in Arcs : Profiler!Call(c, x)
  \/ Profiler!FindEntry(c) \/ Profiler!FindArc(c) \/ Profiler!Load(c)
  \/ Profiler!Store(c) \/ Profiler!TestInit(c) \/ Profiler!ClearInit(c)
  \/ Profiler!StartSampling(c) \/ Profiler!Add(c)

LEMMA ProfSteps ==
  ASSUME [Next]_vars
  PROVE  \/ \E c \in Profiler!Contexts : ContextStep(c)
         \/ UNCHANGED Walks /\ (rate' = rate \/ rate' = TRUE)
<1> DEFINE Idle == UNCHANGED Walks /\ (rate' = rate \/ rate' = TRUE)
<1>1. ASSUME UNCHANGED profiler PROVE Idle
  BY <1>1 DEF profiler, Walks
<1>2. ASSUME NEW c \in 0 .. Text - 1, Profiler!Sample(c) PROVE Idle
  BY <1>2 DEF Profiler!Sample, Walks, Profiler!lists, Profiler!locals, Profiler!ghosts
<1>3. ASSUME Profiler!ClockStarts PROVE Idle
  BY <1>3 DEF Profiler!ClockStarts, Walks, Profiler!lists, Profiler!locals, Profiler!ghosts
<1>4. ASSUME UNCHANGED <<Profiler!lists, Profiler!sampler, Profiler!locals, Profiler!ghosts>>
      PROVE  Idle
  BY <1>4 DEF Walks, Profiler!lists, Profiler!locals, Profiler!ghosts, Profiler!sampler
<1>5. CASE Profiler!Next
  <2>1. \/ \E c \in Profiler!Contexts : ContextStep(c)
        \/ \E k \in 0 .. Text - 1 : Profiler!Sample(k)
        \/ Profiler!ClockStarts
        \/ UNCHANGED <<Profiler!lists, Profiler!sampler, Profiler!locals, Profiler!ghosts>>
    BY <1>5 DEF Profiler!Next, ContextStep
  <2> HIDE DEF Idle
  <2> QED
    BY <2>1, <1>2, <1>3, <1>4 DEF Idle
<1> HIDE DEF Idle
<1>6. UNCHANGED profiler \/ Profiler!Next
  BY DEF Next, vars, NotLight, NotUart, NotPrinter, NotCache, NotSleeper,
         NotStamps, NotChannels
<1> QED
  BY <1>1, <1>5, <1>6 DEF Idle

LEMMA WalkNext == WalkInv /\ [Next]_vars => WalkInv'
<1> SUFFICES ASSUME WalkInv, [Next]_vars PROVE WalkInv'
  OBVIOUS
<1>1. CASE UNCHANGED Walks
  BY <1>1 DEF Walks, WalkInv, WalkTypes, Holds, ListOf, Profiler!Functions, Profiler!Contexts
<1>2. ASSUME NEW c \in Profiler!Contexts, ContextStep(c) PROVE WalkInv'
  <2>1. CASE Profiler!Store(c)
    <3>1. Profiler!Over(c)
      BY <2>1 DEF Profiler!Store
    <3>2. entries' \in [Profiler!Functions -> Lists]
      BY <2>1, StoreIs
    <3>3. \A g \in Profiler!Functions : Longer(entries[g], entries'[g])
      BY <2>1, StoreLonger
    <3> QED
      BY <3>1, <3>2, <3>3, WalkOver
  <2>2. CASE Profiler!Add(c)
    <3>1. Profiler!Over(c)
      BY <2>2 DEF Profiler!Add
    <3>2. entries' \in [Profiler!Functions -> Lists]
      BY <2>2, AddIs
    <3>3. \A g \in Profiler!Functions : Longer(entries[g], entries'[g])
      BY <2>2, AddLonger
    <3> QED
      BY <3>1, <3>2, <3>3, WalkOver
  <2> QED
    BY <1>2, <2>1, <2>2, WalkOne DEF ContextStep
<1> QED
  BY <1>1, <1>2, ProfSteps

One(b) == IF b THEN 1 ELSE 0

\* Sampling starts once for the first function that finds it not started, and once
\* more for each call of a handler between the program's test and its start.
StartsSum(m, h, init, k) ==
  k + One(init \/ h = "start") + One(m = "start" \/ (m = "clear" /\ ~init))
    - One(h \in {"start", "add"} /\ m = "clear")

StartsInv ==
  /\ starts \in Nat /\ pcsample_need_init \in BOOLEAN /\ rate \in BOOLEAN
  /\ at["handler"] = "clear" => pcsample_need_init
  /\ at["handler"] = "start" => ~pcsample_need_init
  /\ at["main"] = "start" => ~pcsample_need_init /\ at["handler"] \notin {"clear", "start"}
  /\ StartsSum(at["main"], at["handler"], pcsample_need_init, starts) <= 1 + late

\* Where both contexts are after a step of one
LEMMA AtIs ==
  ASSUME WalkTypes, NEW c \in Profiler!Contexts, NEW p, at' = [at EXCEPT ![c] = p]
  PROVE  at'["main"] = (IF c = "main" THEN p ELSE at["main"])
         /\ at'["handler"] = (IF c = "handler" THEN p ELSE at["handler"])
BY ContextsAre DEF WalkTypes

LEMMA StartsStart == Init => StartsInv
<1> SUFFICES ASSUME Init PROVE StartsInv
  OBVIOUS
<1>1. /\ at["main"] = "none" /\ at["handler"] = "none" /\ starts = 0 /\ late = 0
      /\ pcsample_need_init = TRUE /\ rate \in BOOLEAN
  BY ContextsAre DEF Init, Profiler!Init
<1>2. pcsample_need_init \in BOOLEAN
  BY <1>1, Zenon
<1>3. StartsSum(at["main"], at["handler"], pcsample_need_init, starts) <= 1 + late
  BY <1>1, <1>2 DEF StartsSum, One
<1> QED
  BY <1>1, <1>2, <1>3 DEF StartsInv

LEMMA StartsNext == WalkInv /\ StartsInv /\ [Next]_vars => StartsInv'
<1> SUFFICES ASSUME WalkInv, StartsInv, [Next]_vars PROVE StartsInv'
  OBVIOUS
<1> DEFINE m == at["main"]
           h == at["handler"]
           init == pcsample_need_init
<1>1. /\ starts \in Nat /\ init \in BOOLEAN /\ rate \in BOOLEAN /\ late \in Nat
      /\ h = "clear" => init
      /\ h = "start" => ~init
      /\ m = "start" => ~init /\ h \notin {"clear", "start"}
      /\ StartsSum(m, h, init, starts) <= 1 + late
  BY DEF StartsInv, WalkInv, WalkTypes
<1>2. CASE UNCHANGED Walks /\ (rate' = rate \/ rate' = TRUE)
  BY <1>1, <1>2 DEF StartsInv, Walks
<1>3. ASSUME NEW c \in Profiler!Contexts, ContextStep(c) PROVE StartsInv'
  <2>0. WalkTypes /\ (c = "main" \/ c = "handler")
    BY ContextsAre DEF WalkInv
  \* Steps that do not come near the sampling
  <2>1. ASSUME NEW p \in {"entry", "arc", "load", "store", "record"}, at' = [at EXCEPT ![c] = p],
               at[c] \in {"none", "entry", "arc", "load"},
               UNCHANGED <<pcsample_need_init, starts, rate, late>>
        PROVE  StartsInv'
    <3>1. CASE c = "main"
      <4>1. at'["main"] = p /\ at'["handler"] = h
        BY <2>0, <2>1, <3>1, AtIs
      <4> QED
        BY <1>1, <2>1, <3>1, <4>1 DEF StartsInv, StartsSum, One
    <3>2. CASE c = "handler"
      <4>1. at'["handler"] = p /\ at'["main"] = m
        BY <2>0, <2>1, <3>2, AtIs
      <4> QED
        BY <1>1, <2>1, <3>2, <4>1 DEF StartsInv, StartsSum, One
    <3> QED
      BY <2>0, <3>1, <3>2
  <2>2. CASE \E x \in Arcs : Profiler!Call(c, x)
    BY <2>1, <2>2 DEF Profiler!Call, Profiler!sampler, Profiler!ghosts
  <2>3. CASE Profiler!FindEntry(c)
    <3> DEFINE p == IF entries[arc[c].self] = <<>> THEN "record" ELSE "arc"
    <3>1. at' = [at EXCEPT ![c] = p] /\ at[c] = "entry"
          /\ UNCHANGED <<pcsample_need_init, starts, rate, late>>
      BY <2>3 DEF Profiler!FindEntry, Profiler!sampler, Profiler!ghosts
    <3>2. p \in {"record", "arc"}
      OBVIOUS
    <3> HIDE DEF p
    <3> QED
      BY <2>1, <3>1, <3>2
  <2>4. CASE Profiler!FindArc(c)
    <3>1. at[c] = "arc" /\ UNCHANGED <<pcsample_need_init, starts, rate, late>>
      BY <2>4 DEF Profiler!FindArc, Profiler!sampler, Profiler!ghosts
    <3>2. at' = [at EXCEPT ![c] = "load"] \/ at' = [at EXCEPT ![c] = "record"]
      BY <2>4 DEF Profiler!FindArc
    <3> QED
      BY <2>1, <3>1, <3>2
  <2>5. CASE Profiler!Load(c)
    BY <2>1, <2>5 DEF Profiler!Load, Profiler!sampler, Profiler!ghosts
  \* A call is over.
  <2>6. ASSUME Profiler!Over(c), at[c] \in {"store", "add"},
               UNCHANGED <<pcsample_need_init, starts, rate>>
        PROVE  StartsInv'
    <3>1. /\ at' = [at EXCEPT ![c] = "none"]
          /\ late' = IF c = "handler" /\ m \in {"record", "clear", "start", "add"}
                     THEN late + 1 ELSE late
      BY <2>6 DEF Profiler!Over
    <3>2. CASE c = "main"
      <4>1. at'["main"] = "none" /\ at'["handler"] = h /\ late' = late
        BY <2>0, <3>1, <3>2, AtIs
      <4> QED
        BY <1>1, <2>6, <3>2, <4>1 DEF StartsInv, StartsSum, One
    <3>3. CASE c = "handler"
      <4>1. at'["handler"] = "none" /\ at'["main"] = m
        BY <2>0, <3>1, <3>3, AtIs
      <4> QED
        BY <1>1, <2>6, <3>1, <3>3, <4>1 DEF StartsInv, StartsSum, One
    <3> QED
      BY <2>0, <3>2, <3>3
  <2>7. CASE Profiler!Store(c)
    BY <2>6, <2>7 DEF Profiler!Store, Profiler!sampler
  <2>8. CASE Profiler!Add(c)
    BY <2>6, <2>8 DEF Profiler!Add, Profiler!sampler
  \* The steps of the start itself; the program's only while no handler runs
  <2>9. CASE Profiler!TestInit(c)
    <3> DEFINE p == IF init THEN "clear" ELSE "add"
    <3>1. /\ at' = [at EXCEPT ![c] = p] /\ at[c] = "record"
          /\ (c = "handler" \/ h = "none")
          /\ UNCHANGED <<pcsample_need_init, starts, rate, late>>
      BY <2>9 DEF Profiler!TestInit, Profiler!sampler, Profiler!ghosts, Profiler!Runs
    <3>2. CASE c = "main"
      <4>1. at'["main"] = p /\ at'["handler"] = h
        BY <2>0, <3>1, <3>2, AtIs
      <4> QED
        BY <1>1, <3>1, <3>2, <4>1 DEF StartsInv, StartsSum, One
    <3>3. CASE c = "handler"
      <4>1. at'["handler"] = p /\ at'["main"] = m
        BY <2>0, <3>1, <3>3, AtIs
      <4> QED
        BY <1>1, <3>1, <3>3, <4>1 DEF StartsInv, StartsSum, One
    <3> QED
      BY <2>0, <3>2, <3>3
  <2>10. CASE Profiler!ClearInit(c)
    <3>1. /\ at' = [at EXCEPT ![c] = "start"] /\ at[c] = "clear"
          /\ (c = "handler" \/ h = "none") /\ pcsample_need_init' = FALSE
          /\ UNCHANGED <<starts, rate, late>>
      BY <2>10 DEF Profiler!ClearInit, Profiler!ghosts, Profiler!Runs
    <3>0. pcsample_need_init' \in BOOLEAN
      BY <3>1, Zenon
    <3>2. CASE c = "main"
      <4>1. at'["main"] = "start" /\ at'["handler"] = h
        BY <2>0, <3>1, <3>2, AtIs
      <4> QED
        BY <1>1, <3>0, <3>1, <3>2, <4>1 DEF StartsInv, StartsSum, One
    <3>3. CASE c = "handler"
      <4>1. at'["handler"] = "start" /\ at'["main"] = m
        BY <2>0, <3>1, <3>3, AtIs
      <4> QED
        BY <1>1, <3>0, <3>1, <3>3, <4>1 DEF StartsInv, StartsSum, One
    <3> QED
      BY <2>0, <3>2, <3>3
  <2>11. CASE Profiler!StartSampling(c)
    <3>1. /\ at' = [at EXCEPT ![c] = "add"] /\ at[c] = "start"
          /\ (c = "handler" \/ h = "none") /\ pcsample_need_init' = ~rate
          /\ starts' = (IF rate THEN starts + 1 ELSE starts)
          /\ UNCHANGED <<rate, late>>
      BY <2>11 DEF Profiler!StartSampling, Profiler!ghosts, Profiler!Runs
    <3>0. pcsample_need_init' \in BOOLEAN
      BY <3>1, Zenon
    <3>2. CASE c = "main"
      <4>1. at'["main"] = "add" /\ at'["handler"] = h
        BY <2>0, <3>1, <3>2, AtIs
      <4> QED
        BY <1>1, <3>0, <3>1, <3>2, <4>1 DEF StartsInv, StartsSum, One
    <3>3. CASE c = "handler"
      <4>1. at'["handler"] = "add" /\ at'["main"] = m
        BY <2>0, <3>1, <3>3, AtIs
      <4> QED
        BY <1>1, <3>0, <3>1, <3>3, <4>1 DEF StartsInv, StartsSum, One
    <3> QED
      BY <2>0, <3>2, <3>3
  <2> QED
    BY <1>3, <2>2, <2>3, <2>4, <2>5, <2>7, <2>8, <2>9, <2>10, <2>11 DEF ContextStep
<1> QED
  BY <1>2, <1>3, ProfSteps

LEMMA StartsFew == WalkInv /\ StartsInv => starts <= 1 + late
BY DEF WalkInv, WalkTypes, StartsInv, StartsSum, One

\* The marks of an arc, and the count a context has found
Marks(x) == MarksIn(entries[x.self], x.from)

InNode(c) == ListOf(c)[entry[c]][node[c]].count

\* What the program's store will take back: counts of handlers since it has loaded
Behind(x) == IF at["main"] = "store" /\ arc["main"] = x THEN InNode("main") - count["main"] ELSE 0

\* Calls that left no mark
Missed(x) == Profiler!Counted(x) - Cardinality(Marks(x))

\* A count is lost only to the program's store, and each time a handler was counted in raced.
MarksInv ==
  /\ at["handler"] = "store" => count["handler"] = InNode("handler")
  /\ at["main"] = "store" => count["main"] <= InNode("main")
  /\ \A x \in Arcs : /\ IsFiniteSet(Marks(x))
                     /\ 0 <= Missed(x) /\ Missed(x) + Behind(x) <= raced

LEMMA OneArc ==
  ASSUME NEW x \in Arcs, NEW y \in Arcs, x.self = y.self, x.from = y.from
  PROVE  x = y
BY ProfilerAssumption

LEMMA ArcList ==
  ASSUME WalkTypes, NEW x \in Arcs
  PROVE  x.self \in Profiler!Functions /\ x.from \in Froms /\ entries[x.self] \in Lists
<1>1. x.self \in Profiler!Functions /\ x.from \in Froms
  BY DEF Profiler!Functions, Froms
<1> QED
  BY <1>1 DEF WalkTypes

\* What the steps that end a call do to the marks
LEMMA StoreCounts ==
  ASSUME WalkInv, NEW c \in Profiler!Contexts, Profiler!Store(c), NEW x \in Arcs,
         IsFiniteSet(Marks(x))
  PROVE  /\ IsFiniteSet(Marks(x)')
         /\ Cardinality(Marks(x)') =
              IF x = arc[c] THEN (Cardinality(Marks(x)) - InNode(c)) + (count[c] + 1)
                            ELSE Cardinality(Marks(x))
<1> DEFINE L == entries[x.self]
           M == entries'[x.self]
           r == x.from
           v == count[c] + 1
<1>1. L \in Lists /\ x.self \in Profiler!Functions /\ arc[c] \in Arcs
  BY ArcList, ArcIs DEF WalkInv
<1>2. Marks(x) = MarksIn(L, r) /\ Marks(x)' = MarksIn(M, r)
  BY DEF Marks
<1>3. CASE x.self # arc[c].self
  <2>1. M = L
    BY <1>1, <1>3, StoreIs
  <2>2. x # arc[c]
    BY <1>3
  <2> QED
    BY <1>2, <2>1, <2>2
<1>4. CASE x.self = arc[c].self
  <2>1. /\ v \in Nat /\ Stored(L, M, entry[c], node[c], v)
        /\ L[entry[c]][node[c]].from = arc[c].from
    BY <1>4, StoreIs
  <2>2. L[entry[c]][node[c]].count = InNode(c)
    BY <1>4 DEF InNode, ListOf
  <2>3. IsFiniteSet(MarksIn(L, r))
    BY <1>2
  <2> HIDE DEF L, M, v, r
  <2>4. /\ IsFiniteSet(MarksIn(M, r))
        /\ Cardinality(MarksIn(M, r)) =
             IF L[entry[c]][node[c]].from = r
             THEN (Cardinality(MarksIn(L, r)) - L[entry[c]][node[c]].count) + v
             ELSE Cardinality(MarksIn(L, r))
    BY <1>1, <2>1, <2>3, StoredMarks
  <2>5. arc[c].from = r <=> x = arc[c]
    BY <1>1, <1>4, OneArc DEF r
  <2>6. CASE x = arc[c]
    BY <1>2, <2>1, <2>2, <2>4, <2>5, <2>6 DEF v
  <2>7. CASE x # arc[c]
    BY <1>2, <2>1, <2>2, <2>4, <2>5, <2>7
  <2> QED
    BY <2>6, <2>7
<1> QED
  BY <1>3, <1>4

\* The lists of the function whose call is added
LEMMA AddGrown ==
  ASSUME WalkInv, NEW c \in Profiler!Contexts, Profiler!Add(c)
  PROVE  \E e, j : Grown(entries[arc[c].self], entries'[arc[c].self], e, j, arc[c].from)
<1> DEFINE L == entries[arc[c].self]
           M == entries'[arc[c].self]
           r == arc[c].from
<1>1. /\ r \in Froms /\ L \in Lists /\ entry[c] \in 0 .. Len(L)
      /\ entry[c] = 0 => M = WithEntry(L, r)
      /\ entry[c] # 0 => M = WithNode(L, entry[c], r)
  BY AddIs, ArcIs DEF WalkInv, ListOf
<1> HIDE DEF L, M, r
<1>2. Len(L) \in Nat
  BY <1>1, ListIs
<1>3. CASE entry[c] = 0
  BY <1>1, <1>3, NewEntry DEF L, M, r
<1>4. CASE entry[c] # 0
  <2>1. entry[c] \in 1 .. Len(L)
    BY <1>1, <1>2, <1>4
  <2>2. Grown(L, M, entry[c], Len(L[entry[c]]) + 1, r)
    BY <1>1, <1>4, <2>1, NewNode
  <2> QED
    BY <2>2 DEF L, M, r
<1> QED
  BY <1>3, <1>4

LEMMA AddCounts ==
  ASSUME WalkInv, NEW c \in Profiler!Contexts, Profiler!Add(c), NEW x \in Arcs,
         IsFiniteSet(Marks(x))
  PROVE  /\ IsFiniteSet(Marks(x)')
         /\ Cardinality(Marks(x)') = Cardinality(Marks(x)) + (IF x = arc[c] THEN 1 ELSE 0)
<1> DEFINE L == entries[x.self]
           M == entries'[x.self]
           r == x.from
<1>1. L \in Lists /\ x.self \in Profiler!Functions /\ arc[c] \in Arcs
  BY ArcList, ArcIs DEF WalkInv
<1>2. Marks(x) = MarksIn(L, r) /\ Marks(x)' = MarksIn(M, r)
  BY DEF Marks
<1>0. Cardinality(Marks(x)) \in Nat
  BY FS_CardinalityType
<1>3. CASE x.self # arc[c].self
  <2>1. M = L
    BY <1>1, <1>3, AddIs
  <2>2. x # arc[c]
    BY <1>3
  <2> QED
    BY <1>0, <1>2, <2>1, <2>2
<1>4. CASE x.self = arc[c].self
  <2>1. PICK e, j : Grown(L, M, e, j, arc[c].from)
    BY <1>4, AddGrown
  <2>3. IsFiniteSet(MarksIn(L, r))
    BY <1>2
  <2> HIDE DEF L, M, r
  <2>4. /\ IsFiniteSet(MarksIn(M, r))
        /\ Cardinality(MarksIn(M, r)) =
             Cardinality(MarksIn(L, r)) + (IF r = arc[c].from THEN 1 ELSE 0)
    BY <2>1, <2>3, GrownMarks
  <2>5. r = arc[c].from <=> x = arc[c]
    BY <1>1, <1>4, OneArc DEF r
  <2> QED
    BY <1>2, <2>4, <2>5
<1> QED
  BY <1>3, <1>4

\* The count of the node that was found
LEMMA InNodeIs ==
  ASSUME WalkInv, NEW c \in Profiler!Contexts, at[c] \in {"load", "store"}
  PROVE  InNode(c) \in Nat
BY ArcIs, ListIs DEF WalkInv, Holds, InNode

\* What a handler's step does to the node the program has found
LEMMA StoreNode ==
  ASSUME WalkInv, Profiler!Store("handler"), at["main"] = "store"
  PROVE  InNode("main")' \in {InNode("main"), count["handler"] + 1}
         /\ (InNode("main")' # InNode("main") => InNode("main") = InNode("handler"))
<1> DEFINE c == "handler"
           L == ListOf("main")
           M == ListOf("main")'
           d == entry["main"]
           k == node["main"]
<1>1. "main" \in Profiler!Contexts /\ c \in Profiler!Contexts
  BY ContextsAre
<1>2. /\ arc["main"] \in Arcs /\ arc["main"].self \in Profiler!Functions /\ L \in Lists
      /\ d \in 1 .. Len(L) /\ k \in 1 .. Len(L[d])
  BY <1>1, ArcIs DEF WalkInv, Holds
<1>3. UNCHANGED <<arc, entry, node>>
  BY DEF Profiler!Store, Profiler!Over
<1>4. L = entries[arc["main"].self] /\ M = entries'[arc["main"].self]
  BY <1>3 DEF ListOf
<1>5. InNode("main") = L[d][k].count /\ InNode("main")' = M[d][k].count
  BY <1>3 DEF InNode
<1>6. CASE arc["main"].self # arc[c].self
  BY <1>1, <1>2, <1>4, <1>5, <1>6, StoreIs
<1>7. CASE arc["main"].self = arc[c].self
  <2>1. Stored(L, M, entry[c], node[c], count[c] + 1)
    BY <1>1, <1>4, <1>7, StoreIs
  <2>2. d \in DOMAIN L /\ k \in DOMAIN L[d]
    BY <1>2, ListIs
  <2>3. M[d][k].count = IF d = entry[c] /\ k = node[c] THEN count[c] + 1 ELSE L[d][k].count
    BY <2>1, <2>2 DEF Stored
  <2>4. InNode(c) = L[entry[c]][node[c]].count
    BY <1>4, <1>7 DEF InNode, ListOf
  <2> QED
    BY <1>5, <2>3, <2>4
<1> QED
  BY <1>6, <1>7

LEMMA AddNode ==
  ASSUME WalkInv, Profiler!Add("handler"), at["main"] = "store"
  PROVE  InNode("main")' = InNode("main")
<1> DEFINE c == "handler"
           L == ListOf("main")
           M == ListOf("main")'
           d == entry["main"]
           k == node["main"]
<1>1. "main" \in Profiler!Contexts /\ c \in Profiler!Contexts
  BY ContextsAre
<1>2. /\ arc["main"] \in Arcs /\ arc["main"].self \in Profiler!Functions /\ L \in Lists
      /\ d \in 1 .. Len(L) /\ k \in 1 .. Len(L[d])
  BY <1>1, ArcIs DEF WalkInv, Holds
<1>3. UNCHANGED <<arc, entry, node>>
  BY DEF Profiler!Add, Profiler!Over
<1>4. L = entries[arc["main"].self] /\ M = entries'[arc["main"].self]
  BY <1>3 DEF ListOf
<1>5. InNode("main") = L[d][k].count /\ InNode("main")' = M[d][k].count
  BY <1>3 DEF InNode
<1>6. CASE arc["main"].self # arc[c].self
  BY <1>1, <1>2, <1>4, <1>5, <1>6, AddIs
<1>7. CASE arc["main"].self = arc[c].self
  <2>1. PICK e, j : Grown(L, M, e, j, arc[c].from)
    BY <1>1, <1>4, <1>7, AddGrown
  <2>2. d \in DOMAIN L /\ k \in DOMAIN L[d]
    BY <1>2, ListIs
  <2>3. M[d][k] = L[d][k]
    BY <2>1, <2>2 DEF Grown
  <2> QED
    BY <1>5, <2>3
<1> QED
  BY <1>6, <1>7

LEMMA MarksStart == Init => MarksInv
<1> SUFFICES ASSUME Init PROVE MarksInv
  OBVIOUS
<1>1. WalkInv
  BY WalkStarts
<1>2. /\ at["main"] = "none" /\ at["handler"] = "none" /\ raced = 0
      /\ entries = [f \in Profiler!Functions |-> <<>>]
      /\ done = [c \in Profiler!Contexts |-> [x \in Arcs |-> 0]]
  BY ContextsAre DEF Init, Profiler!Init
<1>3. ASSUME NEW x \in Arcs
      PROVE  IsFiniteSet(Marks(x)) /\ 0 <= Missed(x) /\ Missed(x) + Behind(x) <= raced
  <2>1. entries[x.self] = <<>>
    BY <1>1, <1>2, ArcList DEF WalkInv
  <2>2. \A t : t \notin MarksIn(<<>>, x.from)
    BY MarksAre
  <2>3. Marks(x) = {}
    BY <2>1, <2>2 DEF Marks
  <2>4. IsFiniteSet(Marks(x)) /\ Cardinality(Marks(x)) = 0
    BY <2>3, FS_EmptySet
  <2>5. Profiler!Counted(x) = 0
    BY <1>2, ContextsAre DEF Profiler!Counted
  <2> QED
    BY <1>2, <2>4, <2>5 DEF Missed, Behind
<1> QED
  BY <1>2, <1>3 DEF MarksInv

\* The calls that were made, and one more when a call is over
LEMMA CountedIs ==
  ASSUME WalkTypes, NEW x \in Arcs
  PROVE  Profiler!Counted(x) \in Nat
BY ContextsAre DEF WalkTypes, Profiler!Counted

LEMMA CountedAfter ==
  ASSUME WalkInv, NEW c \in Profiler!Contexts, Profiler!Over(c), NEW x \in Arcs
  PROVE  Profiler!Counted(x)' = Profiler!Counted(x) + (IF x = arc[c] THEN 1 ELSE 0)
<1>1. done \in [Profiler!Contexts -> [Arcs -> Nat]] /\ arc[c] \in Arcs
  BY ArcIs DEF WalkInv, WalkTypes
<1> DEFINE h == [done[c] EXCEPT ![arc[c]] = @ + 1]
<1>2. done' = [done EXCEPT ![c] = h]
  <2>1. done' = [done EXCEPT ![c][arc[c]] = @ + 1]
    BY Zenon DEF Profiler!Over
  <2> QED
    BY <2>1, Zenon
<1>3. h[x] = done[c][x] + (IF x = arc[c] THEN 1 ELSE 0) /\ done[c][x] \in Nat
  BY <1>1
<1> HIDE DEF h
<1>4. /\ done'["main"][x] = (IF c = "main" THEN h[x] ELSE done["main"][x])
      /\ done'["handler"][x] = (IF c = "handler" THEN h[x] ELSE done["handler"][x])
      /\ done["main"][x] \in Nat /\ done["handler"][x] \in Nat
  BY <1>1, <1>2, ContextsAre
<1> QED
  BY <1>3, <1>4, ContextsAre DEF Profiler!Counted

LEMMA MarksNext == WalkInv /\ WalkInv' /\ MarksInv /\ [Next]_vars => MarksInv'
<1> SUFFICES ASSUME WalkInv, WalkInv', MarksInv, [Next]_vars PROVE MarksInv'
  OBVIOUS
<1>0. /\ WalkTypes /\ "main" \in Profiler!Contexts /\ "handler" \in Profiler!Contexts
      /\ raced \in Nat /\ at \in [Profiler!Contexts -> {"none", "entry", "arc", "load", "store"} \cup Recording]
  BY ContextsAre DEF WalkInv, WalkTypes
<1>1. CASE UNCHANGED Walks /\ (rate' = rate \/ rate' = TRUE)
  BY <1>1 DEF MarksInv, Walks, InNode, ListOf, Marks, Missed, Behind, Profiler!Counted
<1>2. ASSUME NEW c \in Profiler!Contexts, ContextStep(c) PROVE MarksInv'
  \* Steps that neither load nor store
  <2>1. ASSUME NEW p, p # "store", at' = [at EXCEPT ![c] = p], at[c] # "store",
               UNCHANGED <<entries, count, done, raced>>,
               \A d \in Profiler!Contexts :
                  d # c => arc'[d] = arc[d] /\ entry'[d] = entry[d] /\ node'[d] = node[d]
        PROVE  MarksInv'
    <3>1. ASSUME NEW d \in Profiler!Contexts, at'[d] = "store"
          PROVE  at[d] = "store" /\ InNode(d)' = InNode(d) /\ arc'[d] = arc[d]
      <4>1. d # c
        BY <1>0, <2>1, <3>1
      <4> QED
        BY <1>0, <2>1, <3>1, <4>1 DEF InNode, ListOf
    <3>2. ASSUME NEW d \in Profiler!Contexts, at[d] = "store" PROVE at'[d] = "store"
      BY <1>0, <2>1, <3>2
    <3>3. \A x \in Arcs : /\ Marks(x)' = Marks(x) /\ Missed(x)' = Missed(x)
                          /\ Behind(x)' = Behind(x)
      BY <1>0, <2>1, <3>1, <3>2 DEF Marks, Missed, Behind, Profiler!Counted
    <3> QED
      BY <1>0, <2>1, <3>1, <3>3 DEF MarksInv
  <2>2. ASSUME NEW x \in Arcs, Profiler!Call(c, x) PROVE MarksInv'
    BY <1>0, <2>1, <2>2 DEF Profiler!Call, Profiler!lists, Profiler!ghosts, WalkTypes
  <2>3. CASE Profiler!FindEntry(c)
    <3> DEFINE p == IF entries[arc[c].self] = <<>> THEN "record" ELSE "arc"
    <3>1. at' = [at EXCEPT ![c] = p] /\ at[c] = "entry" /\ p # "store"
          /\ UNCHANGED <<entries, count, done, raced, arc, node>>
          /\ entry' = [entry EXCEPT ![c] = Len(entries[arc[c].self])]
      BY <2>3 DEF Profiler!FindEntry, Profiler!lists, Profiler!ghosts
    <3> HIDE DEF p
    <3> QED
      BY <1>0, <2>1, <3>1 DEF WalkTypes
  <2>4. CASE Profiler!FindArc(c)
    <3>1. at[c] = "arc" /\ UNCHANGED <<entries, count, done, raced, arc, entry>>
      BY <2>4 DEF Profiler!FindArc, Profiler!lists, Profiler!ghosts
    <3>2. \/ at' = [at EXCEPT ![c] = "load"] /\ \E k : node' = [node EXCEPT ![c] = k]
          \/ at' = [at EXCEPT ![c] = "record"] /\ node' = node
      BY <2>4 DEF Profiler!FindArc
    <3>3. \A d \in Profiler!Contexts : d # c => node'[d] = node[d]
      BY <1>0, <3>2 DEF WalkTypes
    <3> QED
      BY <1>0, <2>1, <3>1, <3>2, <3>3
  <2>5. CASE Profiler!Load(c)
    <3> DEFINE n == Profiler!Nodes(c)[node[c]].count
    <3>1. /\ at[c] = "load" /\ at' = [at EXCEPT ![c] = "store"]
          /\ count' = [count EXCEPT ![c] = n]
          /\ UNCHANGED <<entries, arc, entry, node, done, raced>>
      BY <2>5 DEF Profiler!Load, Profiler!lists, Profiler!ghosts
    <3>2. n = InNode(c)
      BY DEF Profiler!Nodes, InNode, ListOf
    <3> HIDE DEF n
    <3>3. /\ \A d \in Profiler!Contexts : InNode(d)' = InNode(d)
          /\ count'[c] = n /\ at'[c] = "store"
          /\ \A d \in Profiler!Contexts : d # c => count'[d] = count[d] /\ at'[d] = at[d]
      BY <1>0, <3>1 DEF InNode, ListOf, WalkTypes
    <3>4. InNode(c) \in Nat
      BY <3>1, InNodeIs
    <3>5. \A x \in Arcs : Marks(x)' = Marks(x) /\ Missed(x)' = Missed(x)
      BY <3>1 DEF Marks, Missed, Profiler!Counted
    <3>6. \A x \in Arcs : Behind(x)' = Behind(x)
      <4>1. CASE c = "main"
        BY <1>0, <3>1, <3>2, <3>3, <3>4, <4>1 DEF Behind
      <4>2. CASE c # "main"
        BY <1>0, <3>1, <3>3, <4>2 DEF Behind
      <4> QED
        BY <4>1, <4>2
    <3>7. /\ at'["handler"] = "store" => count'["handler"] = InNode("handler")'
          /\ at'["main"] = "store" => count'["main"] <= InNode("main")'
      BY <1>0, <3>2, <3>3, <3>4 DEF MarksInv
    <3> QED
      BY <3>1, <3>5, <3>6, <3>7 DEF MarksInv
  <2>6. CASE Profiler!TestInit(c)
    <3> DEFINE p == IF pcsample_need_init THEN "clear" ELSE "add"
    <3>1. at' = [at EXCEPT ![c] = p] /\ at[c] = "record" /\ p # "store"
          /\ UNCHANGED <<entries, count, done, raced, arc, entry, node>>
      BY <2>6 DEF Profiler!TestInit, Profiler!lists, Profiler!ghosts
    <3> HIDE DEF p
    <3> QED
      BY <2>1, <3>1
  <2>7. CASE Profiler!ClearInit(c)
    BY <2>1, <2>7 DEF Profiler!ClearInit, Profiler!lists, Profiler!ghosts
  <2>8. CASE Profiler!StartSampling(c)
    BY <2>1, <2>8 DEF Profiler!StartSampling, Profiler!ghosts
  <2>9. CASE Profiler!Store(c)
    <3>1. /\ Profiler!Over(c) /\ at[c] = "store" /\ Profiler!Runs(c)
          /\ at' = [at EXCEPT ![c] = "none"] /\ UNCHANGED <<arc, count>>
          /\ raced' = IF c = "handler" /\ at["main"] = "store" THEN raced + 1 ELSE raced
      BY <2>9 DEF Profiler!Store, Profiler!Over
    <3>2. InNode(c) \in Nat /\ count[c] \in Nat /\ arc[c] \in Arcs
      BY <1>0, <3>1, InNodeIs, ArcIs
    <3>3. ASSUME NEW x \in Arcs
          PROVE  /\ IsFiniteSet(Marks(x)') /\ Missed(x) \in Int /\ Missed(x)' \in Int
                 /\ Missed(x)' = IF x = arc[c] THEN Missed(x) + (InNode(c) - count[c]) ELSE Missed(x)
      <4>1. IsFiniteSet(Marks(x)) /\ Cardinality(Marks(x)) \in Nat
        BY FS_CardinalityType DEF MarksInv
      <4>2. /\ IsFiniteSet(Marks(x)')
            /\ Cardinality(Marks(x)') =
                 IF x = arc[c] THEN (Cardinality(Marks(x)) - InNode(c)) + (count[c] + 1)
                               ELSE Cardinality(Marks(x))
        BY <2>9, <4>1, StoreCounts
      <4>3. Profiler!Counted(x)' = Profiler!Counted(x) + (IF x = arc[c] THEN 1 ELSE 0)
            /\ Profiler!Counted(x) \in Nat
        BY <1>0, <3>1, CountedAfter, CountedIs
      <4>4. Missed(x) = Profiler!Counted(x) - Cardinality(Marks(x))
            /\ Missed(x)' = Profiler!Counted(x)' - Cardinality(Marks(x)')
        BY DEF Missed
      <4>5. Missed(x) \in Int
        BY <4>1, <4>3, <4>4
      <4>6. CASE x = arc[c]
        <5>1. Missed(x)' = Missed(x) + (InNode(c) - count[c]) /\ Missed(x)' \in Int
          BY <3>2, <4>1, <4>2, <4>3, <4>4, <4>6
        <5> QED
          BY <4>2, <4>5, <4>6, <5>1
      <4>7. CASE x # arc[c]
        <5>1. Missed(x)' = Missed(x) /\ Missed(x)' \in Int
          BY <3>2, <4>1, <4>2, <4>3, <4>4, <4>7
        <5> QED
          BY <4>2, <4>5, <4>7, <5>1
      <4> QED
        BY <4>6, <4>7
    <3>4. CASE c = "main"
      <4>1. at["handler"] = "none" /\ at'["handler"] = "none" /\ at'["main"] = "none" /\ raced' = raced
        BY <1>0, <3>1, <3>4 DEF Profiler!Runs
      <4>2. ASSUME NEW x \in Arcs PROVE 0 <= Missed(x)' /\ Missed(x)' + Behind(x)' <= raced'
        <5>1. Behind(x)' = 0 /\ Behind(x) = IF x = arc[c] THEN InNode(c) - count[c] ELSE 0
          BY <3>1, <3>4, <4>1 DEF Behind
        <5>2. 0 <= Missed(x) /\ Missed(x) + Behind(x) <= raced /\ count[c] <= InNode(c)
          BY <3>1, <3>4 DEF MarksInv
        <5>3. Missed(x) \in Int /\ Missed(x)' \in Int
              /\ Missed(x)' = IF x = arc[c] THEN Missed(x) + (InNode(c) - count[c]) ELSE Missed(x)
          BY <3>3
        <5> QED
          BY <1>0, <3>2, <4>1, <5>1, <5>2, <5>3
      <4> QED
        BY <3>3, <4>1, <4>2 DEF MarksInv
    <3>5. CASE c = "handler"
      <4>1. at'["main"] = at["main"] /\ at'["handler"] = "none"
            /\ count[c] = InNode(c)
        BY <1>0, <3>1, <3>5 DEF MarksInv
      <4>2. at["main"] = "store" =>
              /\ InNode("main") \in Nat /\ count["main"] \in Nat
              /\ InNode("main") <= InNode("main")' /\ InNode("main")' <= InNode("main") + 1
        <5> SUFFICES ASSUME at["main"] = "store"
                     PROVE  /\ InNode("main") \in Nat /\ count["main"] \in Nat
                            /\ InNode("main") <= InNode("main")' /\ InNode("main")' <= InNode("main") + 1
          OBVIOUS
        <5>1. InNode("main") \in Nat /\ count["main"] \in Nat
          BY <1>0, InNodeIs, ArcIs
        <5>2. /\ InNode("main")' \in {InNode("main"), count["handler"] + 1}
              /\ (InNode("main")' # InNode("main") => InNode("main") = InNode("handler"))
          BY <2>9, <3>5, StoreNode
        <5> QED
          BY <3>2, <3>5, <4>1, <5>1, <5>2
      <4>3. ASSUME NEW x \in Arcs PROVE 0 <= Missed(x)' /\ Missed(x)' + Behind(x)' <= raced'
        <5>1. Missed(x)' = Missed(x) /\ Missed(x) \in Int
          BY <3>2, <3>3, <4>1
        <5>2. 0 <= Missed(x) /\ Missed(x) + Behind(x) <= raced
          BY DEF MarksInv
        <5>3. CASE at["main"] = "store" /\ arc["main"] = x
          <6>1. Behind(x) = InNode("main") - count["main"] /\ Behind(x)' = InNode("main")' - count["main"]
            BY <3>1, <4>1, <5>3 DEF Behind
          <6>2. raced' = raced + 1
            BY <3>1, <3>5, <5>3
          <6>3. InNode("main")' \in Int
            BY <2>9, <3>2, <3>5, <4>2, <5>3, StoreNode
          <6> QED
            BY <1>0, <4>2, <5>1, <5>2, <5>3, <6>1, <6>2, <6>3
        <5>4. CASE ~(at["main"] = "store" /\ arc["main"] = x)
          <6>1. Behind(x) = 0 /\ Behind(x)' = 0
            BY <3>1, <4>1, <5>4 DEF Behind
          <6> QED
            BY <1>0, <3>1, <5>1, <5>2, <6>1
        <5> QED
          BY <5>3, <5>4
      <4>4. at'["main"] = "store" => count'["main"] <= InNode("main")'
        <5> SUFFICES ASSUME at["main"] = "store" PROVE count["main"] <= InNode("main")'
          BY <3>1, <4>1
        <5>1. InNode("main")' \in Int
          BY <2>9, <3>2, <3>5, <4>2, StoreNode
        <5>2. count["main"] <= InNode("main")
          BY DEF MarksInv
        <5> QED
          BY <4>2, <5>1, <5>2
      <4> QED
        BY <3>3, <4>1, <4>3, <4>4 DEF MarksInv
    <3> QED
      BY <3>4, <3>5, ContextsAre
  <2>10. CASE Profiler!Add(c)
    <3>1. /\ Profiler!Over(c) /\ at[c] = "add" /\ Profiler!Runs(c)
          /\ at' = [at EXCEPT ![c] = "none"] /\ UNCHANGED <<arc, count>>
          /\ raced' \in {raced, raced + 1}
      BY <2>10 DEF Profiler!Add, Profiler!Over
    <3>2. at'[c] = "none" /\ \A d \in Profiler!Contexts : d # c => at'[d] = at[d]
      BY <1>0, <3>1
    <3>3. ASSUME NEW x \in Arcs
          PROVE  /\ IsFiniteSet(Marks(x)') /\ Missed(x) \in Int /\ Missed(x)' = Missed(x)
      <4>1. IsFiniteSet(Marks(x)) /\ Cardinality(Marks(x)) \in Nat
        BY FS_CardinalityType DEF MarksInv
      <4>2. /\ IsFiniteSet(Marks(x)')
            /\ Cardinality(Marks(x)') = Cardinality(Marks(x)) + (IF x = arc[c] THEN 1 ELSE 0)
        BY <2>10, <4>1, AddCounts
      <4>3. Profiler!Counted(x)' = Profiler!Counted(x) + (IF x = arc[c] THEN 1 ELSE 0)
            /\ Profiler!Counted(x) \in Nat
        BY <1>0, <3>1, CountedAfter, CountedIs
      <4>4. Missed(x) = Profiler!Counted(x) - Cardinality(Marks(x))
            /\ Missed(x)' = Profiler!Counted(x)' - Cardinality(Marks(x)')
        BY DEF Missed
      <4>5. Missed(x) \in Int /\ Missed(x)' = Missed(x)
        <5>1. CASE x = arc[c]
          BY <4>1, <4>2, <4>3, <4>4, <5>1
        <5>2. CASE x # arc[c]
          BY <4>1, <4>2, <4>3, <4>4, <5>2
        <5> QED
          BY <5>1, <5>2
      <4> QED
        BY <4>2, <4>5
    <3>4. at'["main"] = "store" =>
            at["main"] = "store" /\ InNode("main")' = InNode("main") /\ c = "handler"
      <4> SUFFICES ASSUME at'["main"] = "store"
                   PROVE  at["main"] = "store" /\ InNode("main")' = InNode("main") /\ c = "handler"
        OBVIOUS
      <4>1. c = "handler" /\ at["main"] = "store"
        BY <1>0, <3>2, ContextsAre
      <4> QED
        BY <2>10, <4>1, AddNode
    <3>5. ASSUME NEW x \in Arcs PROVE 0 <= Missed(x)' /\ Missed(x)' + Behind(x)' <= raced'
      <4>1. 0 <= Missed(x) /\ Missed(x) + Behind(x) <= raced
            /\ (at["main"] = "store" => count["main"] <= InNode("main"))
        BY DEF MarksInv
      <4>2. Missed(x) \in Int /\ Missed(x)' = Missed(x)
        BY <3>3
      <4>3. CASE at'["main"] = "store"
        <5>1. Behind(x)' = Behind(x) /\ Behind(x) \in Int
          <6>1. InNode("main") \in Nat /\ count["main"] \in Nat
            BY <1>0, <3>4, <4>3, InNodeIs, ArcIs
          <6> QED
            BY <3>1, <3>4, <4>3, <6>1 DEF Behind
        <5> QED
          BY <1>0, <3>1, <4>1, <4>2, <5>1
      <4>4. CASE at'["main"] # "store"
        <5>1. Behind(x)' = 0 /\ Behind(x) = 0
          <6>1. at["main"] # "store"
            BY <1>0, <3>1, <3>2, <4>4
          <6> QED
            BY <4>4, <6>1 DEF Behind
        <5> QED
          BY <1>0, <3>1, <4>1, <4>2, <5>1
      <4> QED
        BY <4>3, <4>4
    <3>6. at'["handler"] # "store"
      <4>1. CASE c = "main"
        BY <1>0, <3>1, <3>2, <4>1 DEF Profiler!Runs
      <4>2. CASE c = "handler"
        BY <3>2, <4>2
      <4> QED
        BY <4>1, <4>2, ContextsAre
    <3>7. at'["main"] = "store" => count'["main"] <= InNode("main")'
      BY <3>1, <3>4 DEF MarksInv
    <3> QED
      BY <3>3, <3>5, <3>6, <3>7 DEF MarksInv
  <2> QED
    BY <1>2, <2>2, <2>3, <2>4, <2>5, <2>6, <2>7, <2>8, <2>9, <2>10 DEF ContextStep
<1> QED
  BY <1>1, <1>2, ProfSteps

Spots(x) == SpotsIn(entries[x.self], x.from)

\* An arc has a spot for each time late was counted up and one more, which the program
\* takes when it adds the arc, and a handler finds what it found when it looked.
CopiesInv ==
  /\ \A x \in Arcs : IsFiniteSet(Spots(x)) /\ Cardinality(Spots(x)) <= 1 + late
  /\ at["main"] \in Recording =>
       /\ entry["main"] = 0 =>
            \A x \in Arcs : x.self = arc["main"].self => Cardinality(Spots(x)) <= late
       /\ entry["main"] # 0 =>
            \/ Cardinality(Spots(arc["main"])) <= late
            \/ Lacks(ListOf("main"), entry["main"], arc["main"].from)
  /\ at["handler"] \in Recording =>
       /\ entry["handler"] = 0 => ListOf("handler") = <<>>
       /\ entry["handler"] # 0 =>
            Lacks(ListOf("handler"), entry["handler"], arc["handler"].from)

\* Empty lists have no spots; a store leaves the spots as they are.
LEMMA NoSpots ==
  ASSUME NEW r
  PROVE  SpotsIn(<<>>, r) = {} /\ IsFiniteSet(SpotsIn(<<>>, r)) /\ Cardinality(SpotsIn(<<>>, r)) = 0
<1>1. \A p : p \notin PlacesIn(<<>>, r)
  BY PlacesAre
<1>2. SpotsIn(<<>>, r) = {}
  BY <1>1 DEF SpotsIn
<1> QED
  BY <1>2, FS_EmptySet

LEMMA StoreSpots ==
  ASSUME WalkInv, NEW c \in Profiler!Contexts, Profiler!Store(c), NEW x \in Arcs
  PROVE  Spots(x)' = Spots(x)
<1> DEFINE L == entries[x.self]
           M == entries'[x.self]
<1>1. x.self \in Profiler!Functions
  BY ArcList DEF WalkInv
<1>2. Spots(x) = SpotsIn(L, x.from) /\ Spots(x)' = SpotsIn(M, x.from)
  BY DEF Spots
<1>3. CASE x.self # arc[c].self
  BY <1>1, <1>2, <1>3, StoreIs
<1>4. CASE x.self = arc[c].self
  <2>1. Alike(L, M)
    BY <1>4, StoreIs DEF Stored
  <2> QED
    BY <1>2, <2>1, AlikePlaces
<1> QED
  BY <1>3, <1>4

\* A call that is added takes a spot its arc has, when its entry is there and lacks it,
\* or a new one.
LEMMA AddSpots ==
  ASSUME WalkInv, NEW c \in Profiler!Contexts, Profiler!Add(c), NEW x \in Arcs,
         IsFiniteSet(Spots(x))
  PROVE  /\ IsFiniteSet(Spots(x)') /\ Cardinality(Spots(x)') \in Nat
         /\ Cardinality(Spots(x)') <= Cardinality(Spots(x)) + 1
         /\ x.self # arc[c].self => Cardinality(Spots(x)') = Cardinality(Spots(x))
         /\ entry[c] # 0 /\ (x # arc[c] \/ Lacks(ListOf(c), entry[c], arc[c].from))
              => Cardinality(Spots(x)') <= Cardinality(Spots(x))
<1> DEFINE L == entries[x.self]
           M == entries'[x.self]
           q == x.from
           r == arc[c].from
<1>1. /\ x.self \in Profiler!Functions /\ L \in Lists /\ arc[c] \in Arcs /\ r \in Froms
  BY ArcList, ArcIs DEF WalkInv
<1>2. Spots(x) = SpotsIn(L, q) /\ Spots(x)' = SpotsIn(M, q)
  BY DEF Spots
<1>0. Cardinality(SpotsIn(L, q)) \in Nat /\ IsFiniteSet(SpotsIn(L, q))
  BY <1>2, FS_CardinalityType
<1>3. CASE x.self # arc[c].self
  <2>1. M = L
    BY <1>1, <1>3, AddIs
  <2> QED
    BY <1>0, <1>2, <1>3, <2>1
<1>4. CASE x.self = arc[c].self
  <2>1. /\ entry[c] \in 0 .. Len(L) /\ L = ListOf(c)
        /\ entry[c] = 0 => M = WithEntry(L, r)
        /\ entry[c] # 0 => M = WithNode(L, entry[c], r)
    BY <1>4, AddIs DEF ListOf
  <2>2. Len(L) \in Nat
    BY <1>1, ListIs
  <2>3. x # arc[c] => q # r
    BY <1>1, <1>4, OneArc
  <2> HIDE DEF L, M, q, r
  <2>4. CASE entry[c] = 0
    <3>1. IsFiniteSet(SpotsIn(M, q)) /\ Cardinality(SpotsIn(M, q)) <= Cardinality(SpotsIn(L, q)) + 1
      BY <1>0, <1>1, <2>1, <2>4, SpotsGrow
    <3>2. Cardinality(SpotsIn(M, q)) \in Nat
      BY <3>1, FS_CardinalityType
    <3> QED
      BY <1>2, <1>4, <2>4, <3>1, <3>2
  <2>5. CASE entry[c] # 0
    <3>0. entry[c] \in 1 .. Len(L)
      BY <2>1, <2>2, <2>5
    <3>1. /\ IsFiniteSet(SpotsIn(M, q))
          /\ q # r => SpotsIn(M, q) = SpotsIn(L, q)
          /\ Lacks(L, entry[c], r) => Cardinality(SpotsIn(M, q)) <= Cardinality(SpotsIn(L, q))
          /\ Cardinality(SpotsIn(M, q)) <= Cardinality(SpotsIn(L, q)) + 1
      BY <1>0, <1>1, <2>1, <2>5, <3>0, SpotsStay
    <3>2. Cardinality(SpotsIn(M, q)) \in Nat
      BY <3>1, FS_CardinalityType
    <3>3. x # arc[c] \/ Lacks(ListOf(c), entry[c], r) =>
            Cardinality(SpotsIn(M, q)) <= Cardinality(SpotsIn(L, q))
      BY <1>0, <2>1, <2>3, <3>1
    <3> QED
      BY <1>2, <1>4, <2>5, <3>1, <3>2, <3>3 DEF r
  <2> QED
    BY <2>4, <2>5
<1> QED
  BY <1>3, <1>4

LEMMA CopiesStart == Init => CopiesInv
<1> SUFFICES ASSUME Init PROVE CopiesInv
  OBVIOUS
<1>1. WalkInv
  BY WalkStarts
<1>2. /\ at["main"] = "none" /\ at["handler"] = "none" /\ late = 0
      /\ entries = [f \in Profiler!Functions |-> <<>>]
  BY ContextsAre DEF Init, Profiler!Init
<1>3. ASSUME NEW x \in Arcs PROVE IsFiniteSet(Spots(x)) /\ Cardinality(Spots(x)) <= 1 + late
  <2>1. entries[x.self] = <<>>
    BY <1>1, <1>2, ArcList DEF WalkInv
  <2>2. IsFiniteSet(Spots(x)) /\ Cardinality(Spots(x)) = 0
    BY <2>1, NoSpots DEF Spots
  <2> QED
    BY <1>2, <2>2
<1> QED
  BY <1>2, <1>3 DEF CopiesInv, Recording

LEMMA CopiesNext == WalkInv /\ CopiesInv /\ [Next]_vars => CopiesInv'
<1> SUFFICES ASSUME WalkInv, CopiesInv, [Next]_vars PROVE CopiesInv'
  OBVIOUS
<1>0. /\ WalkTypes /\ "main" \in Profiler!Contexts /\ "handler" \in Profiler!Contexts
      /\ late \in Nat
      /\ at \in [Profiler!Contexts -> {"none", "entry", "arc", "load", "store"} \cup Recording]
      /\ \A x \in Arcs : /\ IsFiniteSet(Spots(x)) /\ Cardinality(Spots(x)) \in Nat
                         /\ Cardinality(Spots(x)) <= 1 + late
  BY ContextsAre, FS_CardinalityType DEF WalkInv, WalkTypes, CopiesInv
<1>1. CASE UNCHANGED Walks /\ (rate' = rate \/ rate' = TRUE)
  BY <1>1 DEF CopiesInv, Walks, Spots, ListOf
<1>2. ASSUME NEW c \in Profiler!Contexts, ContextStep(c) PROVE CopiesInv'
  \* Steps that leave the lists alone and do not turn to recording
  <2>1. ASSUME NEW p, p \in Recording => at[c] \in Recording /\ entry'[c] = entry[c] /\ arc'[c] = arc[c],
               at' = [at EXCEPT ![c] = p], UNCHANGED <<entries, late>>,
               \A d \in Profiler!Contexts : d # c => arc'[d] = arc[d] /\ entry'[d] = entry[d]
        PROVE  CopiesInv'
    <3>1. ASSUME NEW d \in Profiler!Contexts, at'[d] \in Recording
          PROVE  at[d] \in Recording /\ entry'[d] = entry[d] /\ arc'[d] = arc[d]
                 /\ ListOf(d)' = ListOf(d)
      <4>1. at[d] \in Recording /\ entry'[d] = entry[d] /\ arc'[d] = arc[d]
        BY <1>0, <2>1, <3>1
      <4> QED
        BY <2>1, <4>1 DEF ListOf
    <3>2. \A x : Spots(x)' = Spots(x)
      BY <2>1 DEF Spots
    <3>3. late' = late
      BY <2>1
    <3> QED
      BY <1>0, <3>1, <3>2, <3>3 DEF CopiesInv
  <2>2. ASSUME NEW x \in Arcs, Profiler!Call(c, x) PROVE CopiesInv'
    BY <1>0, <2>1, <2>2 DEF Profiler!Call, Profiler!lists, Profiler!ghosts, WalkTypes, Recording
  \* Steps that turn to recording
  <2>3. ASSUME at' = [at EXCEPT ![c] = "record"], UNCHANGED <<entries, arc, late>>,
               Profiler!Runs(c), at[c] \notin Recording,
               \A d \in Profiler!Contexts : d # c => entry'[d] = entry[d],
               \/ entry'[c] = 0 /\ ListOf(c) = <<>>
               \/ entry'[c] # 0 /\ Lacks(ListOf(c), entry'[c], arc[c].from)
        PROVE  CopiesInv'
    <3>1. \A x : Spots(x)' = Spots(x)
      BY <2>3 DEF Spots
    <3>2. \A d \in Profiler!Contexts : ListOf(d)' = ListOf(d)
      BY <2>3 DEF ListOf
    <3>3. at'[c] = "record" /\ \A d \in Profiler!Contexts : d # c => at'[d] = at[d]
      BY <1>0, <2>3
    <3>4. \A x \in Arcs : ListOf(c) = <<>> /\ x.self = arc[c].self => Cardinality(Spots(x)) = 0
      BY NoSpots DEF Spots, ListOf
    <3>5. late' = late /\ arc' = arc
      BY <2>3
    <3>6. CASE c = "main"
      <4>1. at'["handler"] = "none"
        BY <1>0, <2>3, <3>3, <3>6 DEF Profiler!Runs
      <4> QED
        BY <1>0, <2>3, <3>1, <3>2, <3>4, <3>5, <3>6, <4>1 DEF CopiesInv, Recording
    <3>7. CASE c = "handler"
      <4>1. at'["main"] = at["main"] /\ entry'["main"] = entry["main"]
        BY <1>0, <2>3, <3>3, <3>7
      <4> QED
        BY <1>0, <2>3, <3>1, <3>2, <3>5, <3>7, <4>1 DEF CopiesInv
    <3> QED
      BY <3>6, <3>7, ContextsAre
  <2>4. CASE Profiler!FindEntry(c)
    <3> DEFINE L == ListOf(c)
               p == IF L = <<>> THEN "record" ELSE "arc"
    <3>1. at' = [at EXCEPT ![c] = p] /\ at[c] = "entry" /\ Profiler!Runs(c)
          /\ UNCHANGED <<entries, late, arc>> /\ entry' = [entry EXCEPT ![c] = Len(L)]
      BY <2>4 DEF Profiler!FindEntry, Profiler!lists, Profiler!ghosts, ListOf
    <3>2. entry'[c] = Len(L) /\ \A d \in Profiler!Contexts : d # c => entry'[d] = entry[d]
      BY <1>0, <3>1 DEF WalkTypes
    <3>3. CASE L = <<>>
      <4>1. entry'[c] = 0 /\ at' = [at EXCEPT ![c] = "record"]
        BY <3>1, <3>2, <3>3
      <4> QED
        BY <2>3, <3>1, <3>2, <3>3, <4>1 DEF Recording
    <3>4. CASE L # <<>>
      <4>1. at' = [at EXCEPT ![c] = "arc"]
        BY <3>1, <3>4
      <4> QED
        BY <2>1, <3>1, <3>2, <4>1 DEF Recording
    <3> QED
      BY <3>3, <3>4
  <2>5. CASE Profiler!FindArc(c)
    <3>1. at[c] = "arc" /\ UNCHANGED <<entries, late, arc, entry>> /\ Profiler!Runs(c)
      BY <2>5 DEF Profiler!FindArc, Profiler!lists, Profiler!ghosts
    <3>2. CASE at' = [at EXCEPT ![c] = "load"]
      BY <2>1, <3>1, <3>2 DEF Recording
    <3>3. CASE at' = [at EXCEPT ![c] = "record"] /\ Profiler!Found(c) = {}
      <4>1. Holds(c)
        BY DEF WalkInv
      <4>2. entry[c] # 0
        BY <3>1, <4>1 DEF Holds
      <4>3. Lacks(ListOf(c), entry[c], arc[c].from)
        BY <3>3 DEF Profiler!Found, Profiler!Nodes, Lacks, ListOf
      <4> QED
        BY <2>3, <3>1, <3>3, <4>2, <4>3 DEF Recording
    <3> QED
      BY <2>5, <3>2, <3>3 DEF Profiler!FindArc
  <2>6. CASE Profiler!Load(c)
    BY <2>1, <2>6 DEF Profiler!Load, Profiler!lists, Profiler!ghosts, Recording
  <2>7. CASE Profiler!TestInit(c)
    <3> DEFINE p == IF pcsample_need_init THEN "clear" ELSE "add"
    <3>1. at' = [at EXCEPT ![c] = p] /\ at[c] = "record"
          /\ UNCHANGED <<entries, late, arc, entry>>
      BY <2>7 DEF Profiler!TestInit, Profiler!lists, Profiler!ghosts
    <3> HIDE DEF p
    <3> QED
      BY <2>1, <3>1 DEF Recording
  <2>8. CASE Profiler!ClearInit(c)
    BY <2>1, <2>8 DEF Profiler!ClearInit, Profiler!lists, Profiler!ghosts, Recording
  <2>9. CASE Profiler!StartSampling(c)
    BY <2>1, <2>9 DEF Profiler!StartSampling, Profiler!ghosts, Recording
  \* A handler's call is over: whatever spot it took, late has been counted up.
  <2>10. ASSUME c = "handler", Profiler!Over(c),
                \A x \in Arcs : /\ IsFiniteSet(Spots(x)') /\ Cardinality(Spots(x)') \in Nat
                                /\ Cardinality(Spots(x)') <= 1 + late
         PROVE  CopiesInv'
    <3>1. /\ at' = [at EXCEPT ![c] = "none"] /\ UNCHANGED <<arc, entry>>
          /\ late' = IF at["main"] \in Recording THEN late + 1 ELSE late
      BY <2>10 DEF Profiler!Over, Recording
    <3>2. at'["handler"] = "none" /\ at'["main"] = at["main"]
      BY <1>0, <2>10, <3>1
    <3>3. ASSUME NEW x \in Arcs
          PROVE  /\ Cardinality(Spots(x)') <= 1 + late'
                 /\ at["main"] \in Recording => Cardinality(Spots(x)') <= late'
      BY <1>0, <2>10, <3>1
    <3>4. arc["main"] \in Arcs /\ arc'["main"] = arc["main"]
      BY <1>0, <3>1, ArcIs
    <3>6. at'["main"] \in Recording => Cardinality(Spots(arc["main"]))' <= late'
      <4>1. ASSUME NEW x \in Arcs, x = arc["main"], at["main"] \in Recording
            PROVE  Cardinality(Spots(arc["main"]))' <= late'
        <5>1. Spots(arc["main"])' = Spots(x)'
          BY <3>4, <4>1 DEF Spots
        <5> QED
          BY <3>3, <4>1, <5>1
      <4> QED
        BY <3>2, <3>4, <4>1
    <3> QED
      BY <2>10, <3>2, <3>3, <3>4, <3>6 DEF CopiesInv, Recording
  <2>11. ASSUME c = "main", Profiler!Over(c), Profiler!Runs(c),
                \A x \in Arcs : IsFiniteSet(Spots(x)') /\ Cardinality(Spots(x)') <= 1 + late
         PROVE  CopiesInv'
    <3>1. /\ at' = [at EXCEPT ![c] = "none"] /\ late' = late /\ at["handler"] = "none"
      BY <2>11 DEF Profiler!Over, Profiler!Runs
    <3>2. at'["handler"] = "none" /\ at'["main"] = "none"
      BY <1>0, <2>11, <3>1
    <3> QED
      BY <2>11, <3>1, <3>2 DEF CopiesInv, Recording
  <2>12. CASE Profiler!Store(c)
    <3>1. Profiler!Over(c) /\ Profiler!Runs(c)
      BY <2>12 DEF Profiler!Store
    <3>2. \A x \in Arcs : /\ IsFiniteSet(Spots(x)') /\ Cardinality(Spots(x)') \in Nat
                          /\ Cardinality(Spots(x)') <= 1 + late
      BY <1>0, <2>12, StoreSpots
    <3> QED
      BY <2>10, <2>11, <3>1, <3>2, ContextsAre
  <2>13. CASE Profiler!Add(c)
    <3>1. Profiler!Over(c) /\ Profiler!Runs(c) /\ at[c] = "add"
      BY <2>13 DEF Profiler!Add
    <3>2. ASSUME NEW x \in Arcs
          PROVE  /\ IsFiniteSet(Spots(x)') /\ Cardinality(Spots(x)') \in Nat
                 /\ Cardinality(Spots(x)') <= 1 + late
      <4>1. /\ IsFiniteSet(Spots(x)') /\ Cardinality(Spots(x)') \in Nat
            /\ Cardinality(Spots(x)') <= Cardinality(Spots(x)) + 1
            /\ x.self # arc[c].self => Cardinality(Spots(x)') = Cardinality(Spots(x))
            /\ entry[c] # 0 /\ (x # arc[c] \/ Lacks(ListOf(c), entry[c], arc[c].from))
                 => Cardinality(Spots(x)') <= Cardinality(Spots(x))
        BY <1>0, <2>13, AddSpots
      <4>2. CASE \/ x.self # arc[c].self
                 \/ entry[c] # 0 /\ (x # arc[c] \/ Lacks(ListOf(c), entry[c], arc[c].from))
        BY <1>0, <4>1, <4>2
      <4>3. CASE x.self = arc[c].self /\ entry[c] = 0
        <5>1. Cardinality(Spots(x)) <= late
          <6>1. CASE c = "main"
            BY <3>1, <4>3, <6>1 DEF CopiesInv, Recording
          <6>2. CASE c = "handler"
            <7>1. ListOf(c) = <<>>
              BY <3>1, <4>3, <6>2 DEF CopiesInv, Recording
            <7>2. Cardinality(Spots(x)) = 0
              BY <4>3, <7>1, NoSpots DEF Spots, ListOf
            <7> QED
              BY <1>0, <7>2
          <6> QED
            BY <6>1, <6>2, ContextsAre
        <5> QED
          BY <1>0, <4>1, <5>1
      <4>4. CASE x = arc[c] /\ entry[c] # 0 /\ ~Lacks(ListOf(c), entry[c], arc[c].from)
        <5>1. Cardinality(Spots(x)) <= late
          <6>1. CASE c = "main"
            BY <3>1, <4>4, <6>1 DEF CopiesInv, Recording
          <6>2. CASE c = "handler"
            BY <3>1, <4>4, <6>2 DEF CopiesInv, Recording
          <6> QED
            BY <6>1, <6>2, ContextsAre
        <5> QED
          BY <1>0, <4>1, <5>1
      <4> QED
        BY <4>1, <4>2, <4>3, <4>4
    <3> QED
      BY <2>10, <2>11, <3>1, <3>2, ContextsAre
  <2> QED
    BY <1>2, <2>2, <2>4, <2>5, <2>6, <2>7, <2>8, <2>9, <2>12, <2>13 DEF ContextStep
<1> QED
  BY <1>1, <1>2, ProfSteps

\* Cardinality as the profiler's module has it
LEMMA CardIs == \A S : Profiler!Cardinality(S) = Cardinality(S)
BY DEF Profiler!Cardinality, Cardinality

\* The counts, from the invariants
LEMMA CallsAreCounted ==
  WalkInv /\ MarksInv /\ CopiesInv /\ StartsInv => CallsCounted
<1> SUFFICES ASSUME WalkInv, MarksInv, CopiesInv, StartsInv PROVE CallsCounted
  OBVIOUS
<1>0. WalkTypes /\ raced \in Nat /\ late \in Nat
  BY DEF WalkInv, WalkTypes
<1>1. ASSUME NEW x \in Arcs
      PROVE  /\ Cardinality(Marks(x)) \in Profiler!Counted(x) - raced .. Profiler!Counted(x)
             /\ Cardinality(PlacesIn(entries[x.self], x.from)) <= 1 + late
  <2>1. Profiler!Counted(x) \in Nat
    BY <1>0, CountedIs
  <2>2. IsFiniteSet(Marks(x)) /\ Cardinality(Marks(x)) \in Nat
    BY FS_CardinalityType DEF MarksInv
  <2>3. 0 <= Missed(x) /\ Missed(x) + Behind(x) <= raced
    BY DEF MarksInv
  <2>4. Behind(x) \in Int /\ Behind(x) >= 0
    <3>1. CASE at["main"] = "store"
      <4>1. InNode("main") \in Nat /\ count["main"] \in Nat /\ count["main"] <= InNode("main")
        BY <1>0, <3>1, InNodeIs, ArcIs, ContextsAre DEF MarksInv
      <4> QED
        BY <4>1 DEF Behind
    <3>2. CASE at["main"] # "store"
      BY <3>2 DEF Behind
    <3> QED
      BY <3>1, <3>2
  <2>5. Cardinality(Marks(x)) \in Profiler!Counted(x) - raced .. Profiler!Counted(x)
    BY <1>0, <2>1, <2>2, <2>3, <2>4 DEF Missed
  <2> DEFINE P == PlacesIn(entries[x.self], x.from)
  <2>6. P \subseteq Spots(x) /\ IsFiniteSet(Spots(x)) /\ Cardinality(Spots(x)) <= 1 + late
    BY DEF CopiesInv, Spots, SpotsIn
  <2> HIDE DEF P
  <2>7. IsFiniteSet(P) /\ Cardinality(P) <= Cardinality(Spots(x))
    BY <2>6, FS_Subset
  <2>8. Cardinality(P) \in Nat /\ Cardinality(Spots(x)) \in Nat
    BY <2>6, <2>7, FS_CardinalityType
  <2>9. Cardinality(P) <= 1 + late
    BY <1>0, <2>6, <2>7, <2>8
  <2> QED
    BY <2>5, <2>9 DEF P
<1>2. ASSUME NEW x
      PROVE  /\ Profiler!Marks(x) = Marks(x)
             /\ Profiler!Places(x) = PlacesIn(entries[x.self], x.from)
  BY DEF Profiler!Marks, Profiler!Places, Marks, MarksIn, PlacesIn
<1>3. starts <= 1 + late
  BY StartsFew
<1>4. ASSUME NEW x \in Arcs
      PROVE  /\ Profiler!Cardinality(Profiler!Marks(x)) \in Profiler!Counted(x) - raced .. Profiler!Counted(x)
             /\ Profiler!Cardinality(Profiler!Places(x)) <= 1 + late
  <2>1. /\ Profiler!Cardinality(Profiler!Marks(x)) = Cardinality(Marks(x))
        /\ Profiler!Cardinality(Profiler!Places(x)) = Cardinality(PlacesIn(entries[x.self], x.from))
    BY <1>2, CardIs, Zenon
  <2> QED
    BY <1>1, <2>1, Zenon
<1>5. Profiler!ProfileCounts
  BY <1>3, <1>4, Zenon DEF Profiler!ProfileCounts
<1> QED
  BY <1>5 DEF CallsCounted

\* The heap ends in its memory, the stack limit at its end or below, and a slab is
\* never used beyond its size.
Fits(h) == h.end <= HeapBytes /\ h.limit <= h.end

RoomInv == Fits(heap) /\ sp <= HeapBytes /\ slab_size \in 0 .. Slab

\* Memory that is given or refused leaves the heap in its memory.
LEMMA SbrkFits ==
  ASSUME NEW h \in Heaps, Fits(h), NEW incr \in Nat, NEW who
  PROVE  Fits(Profiler!Sbrk(h, incr, who))
<1> DEFINE a == Profiler!Aligned(h.end)
           g == Profiler!Sbrk(h, incr, who)
<1>1. h.end \in Nat /\ h.limit \in Nat /\ HeapBytes \in Nat /\ HeapBytes % 4 = 0
  BY ProfilerAssumption DEF Heaps
<1>2. a \in Nat /\ h.end <= a
  BY <1>1, AlignedIs
<1>3. CASE ~Profiler!Granted(h, incr)
  <2>1. a <= HeapBytes
    BY <1>1 DEF Profiler!Aligned, Fits
  <2>2. g = [h EXCEPT !.end = a]
    BY <1>3 DEF Profiler!Sbrk
  <2> HIDE DEF a, g
  <2>3. g.end = a /\ g.limit = h.limit
    BY <2>2 DEF Heaps
  <2> QED
    BY <1>1, <1>2, <2>1, <2>3 DEF Fits, g
<1>4. CASE Profiler!Granted(h, incr)
  <2>1. a + incr <= HeapBytes
    BY <1>4 DEF Profiler!Granted
  <2>2. g.end = a + incr /\ g.limit = IF Profiler!Follows(h) THEN a + incr ELSE h.limit
    BY <1>4 DEF Profiler!Sbrk
  <2> HIDE DEF a, g
  <2> QED
    BY <1>1, <1>2, <2>1, <2>2 DEF Fits, g
<1> QED
  BY <1>3, <1>4

LEMMA AllocateFits ==
  ASSUME NEW m \in Memories, Fits(m.heap), m.size \in 0 .. Slab
  PROVE  LET r == Profiler!Allocate(m) IN Fits(r.heap) /\ r.size \in 0 .. Slab
<1> DEFINE r == Profiler!Allocate(m)
           s == Profiler!Slabbed(m)
           g == Profiler!Sbrk(m.heap, Slab, "slab")
<1>1. Struct \in Nat \ {0} /\ Slab \in Nat /\ Struct <= Slab
  BY ProfilerAssumption
<1>2. Fits(g)
  BY <1>1, SbrkFits DEF Memories
<1>3. r.heap = s.heap /\ r.size = s.size - Struct
  <2>1. s = m \/ \E q, t, w : s = [m EXCEPT !.heap = g, !.ptr = q, !.size = t, !.refused = w]
    BY DEF Profiler!Slabbed
  <2>2. "heap" \in DOMAIN s /\ "size" \in DOMAIN s
    BY <2>1 DEF Memories
  <2> HIDE DEF s
  <2> QED
    BY <2>2 DEF Profiler!Allocate, s
<1>4. CASE Struct <= m.size
  <2>1. s = m
    BY <1>4 DEF Profiler!Slabbed
  <2> QED
    BY <1>1, <1>3, <1>4, <2>1
<1>5. CASE ~(Struct <= m.size)
  <2>1. s.heap = g /\ s.size = Slab
    BY <1>5 DEF Profiler!Slabbed, Memories
  <2> QED
    BY <1>1, <1>2, <1>3, <2>1
<1> QED
  BY <1>4, <1>5

LEMMA RoomStarts == Init => RoomInv
<1> SUFFICES ASSUME Init PROVE RoomInv
  OBVIOUS
<1>1. heap = Profiler!NewHeap /\ sp = HeapBytes /\ slab_size = 0
  BY DEF Init, Profiler!Init, Profiler!HeapInit
<1> QED
  BY <1>1, ProfilerAssumption DEF RoomInv, Fits, Profiler!NewHeap

LEMMA RoomNext == ProfInv /\ RoomInv /\ [Next]_vars => RoomInv'
<1> SUFFICES ASSUME ProfInv, RoomInv, [Next]_vars PROVE RoomInv'
  OBVIOUS
<1>0. /\ heap \in Heaps /\ sp \in Nat /\ Profiler!Memory \in Memories
      /\ Fits(heap) /\ sp <= HeapBytes /\ slab_size \in 0 .. Slab
  BY DEF ProfInv, RoomInv, Profiler!Memory, Memories
<1>1. CASE UNCHANGED <<heap, sp, slab_size>>
  BY <1>0, <1>1 DEF RoomInv, Fits
<1>2. ASSUME NEW n \in Nat, NEW who, heap' = Profiler!Sbrk(heap, n, who),
             UNCHANGED <<sp, slab_size>>
      PROVE  RoomInv'
  <2>1. Fits(heap')
    BY <1>0, <1>2, SbrkFits
  <2> QED
    BY <1>0, <1>2, <2>1 DEF RoomInv, Fits
<1>3. ASSUME NEW c \in Profiler!Contexts, Profiler!Add(c) PROVE RoomInv'
  <2> DEFINE M == Profiler!Memory
             A == Profiler!Allocate(M)
             B == Profiler!Allocate(A)
             m == IF entry[c] = 0 THEN B ELSE A
  <2>1. heap' = m.heap /\ slab_size' = m.size /\ sp' = sp
    BY <1>3 DEF Profiler!Add, Profiler!Over
  <2>2. M.heap = heap /\ M.size = slab_size
    BY DEF Profiler!Memory
  <2>3. GoodMemory(M, sp)
    BY DEF ProfInv
  <2> HIDE DEF M
  <2>4. Fits(A.heap) /\ A.size \in 0 .. Slab
    BY <1>0, <2>2, AllocateFits DEF M
  <2>5. A \in Memories
    BY <1>0, <2>3, AllocateKeeps DEF M
  <2> HIDE DEF A
  <2>6. Fits(B.heap) /\ B.size \in 0 .. Slab
    BY <2>4, <2>5, AllocateFits
  <2> HIDE DEF B
  <2>7. Fits(m.heap) /\ m.size \in 0 .. Slab
    BY <2>4, <2>6
  <2> HIDE DEF m
  <2> QED
    BY <1>0, <2>1, <2>7 DEF RoomInv, Fits
<1>4. ASSUME NEW c \in Profiler!Contexts, Profiler!StartSampling(c) PROVE RoomInv'
  <2>1. CASE ~rate
    BY <1>1, <1>4, <2>1 DEF Profiler!StartSampling
  <2>2. CASE rate
    <3>1. /\ heap' = Profiler!Sbrk(heap, 2 * Profiler!HistogramSize, "histogram")
          /\ UNCHANGED <<sp, slab_size>>
      BY <1>4, <2>2 DEF Profiler!StartSampling
    <3>2. 2 * Profiler!HistogramSize \in Nat
      BY HistogramIs
    <3> QED
      BY <1>2, <3>1, <3>2
  <2> QED
    BY <2>1, <2>2
<1>5. ASSUME NEW n \in Increments, Profiler!Malloc(n), UNCHANGED Profiler!lists
      PROVE  RoomInv'
  BY <1>2, <1>5, ProfilerAssumption DEF Profiler!Malloc, Profiler!lists
<1>6. ASSUME Profiler!Push(Frame) \/ Profiler!Pop(Frame), UNCHANGED Profiler!lists
      PROVE  RoomInv'
  <2>1. slab_size' = slab_size /\ Frame \in Nat /\ HeapBytes \in Nat
    BY <1>6, ProfilerAssumption DEF Profiler!lists
  <2>2. CASE Profiler!Pop(Frame)
    BY <1>0, <2>1, <2>2 DEF Profiler!Pop, RoomInv, Fits
  <2>3. CASE Profiler!Push(Frame)
    <3> DEFINE o == heap.overflow \/ sp - Frame < heap.limit
    <3>1. heap' = [heap EXCEPT !.overflow = o] /\ sp' = sp - Frame
      BY <2>3 DEF Profiler!Push
    <3> HIDE DEF o
    <3>2. heap'.end = heap.end /\ heap'.limit = heap.limit
      BY <1>0, <3>1 DEF Heaps
    <3> QED
      BY <1>0, <2>1, <3>1, <3>2 DEF RoomInv, Fits
  <2> QED
    BY <1>6, <2>2, <2>3
<1>7. ASSUME Profiler!Next PROVE RoomInv'
  <2>1. ASSUME NEW c \in Profiler!Contexts,
               \/ \E x \in Arcs : Profiler!Call(c, x)
               \/ Profiler!FindEntry(c) \/ Profiler!FindArc(c) \/ Profiler!Load(c)
               \/ Profiler!Store(c) \/ Profiler!TestInit(c) \/ Profiler!ClearInit(c)
        PROVE  RoomInv'
    BY <1>1, <2>1 DEF Profiler!Call, Profiler!FindEntry, Profiler!FindArc, Profiler!Load,
         Profiler!Store, Profiler!Over, Profiler!TestInit, Profiler!ClearInit, Profiler!lists
  <2>2. ASSUME NEW c \in 0 .. Text - 1, Profiler!Sample(c) PROVE RoomInv'
    BY <1>1, <2>2 DEF Profiler!Sample, Profiler!lists
  <2>3. CASE Profiler!ClockStarts
    BY <1>1, <2>3 DEF Profiler!ClockStarts, Profiler!lists
  <2> QED
    BY <1>3, <1>4, <1>5, <1>6, <1>7, <2>1, <2>2, <2>3 DEF Profiler!Next
<1> QED
  BY <1>1, <1>7 DEF Next, vars, profiler, NotLight, NotUart, NotPrinter, NotCache, NotSleeper,
                    NotStamps, NotChannels

\* The profiler's type invariant, from the invariants of its parts
LEMMA ProfTyped == ProfInv /\ RoomInv /\ WalkInv /\ StartsInv => Profiler!ProfileTypeOK
<1> SUFFICES ASSUME ProfInv, RoomInv, WalkInv, StartsInv PROVE Profiler!ProfileTypeOK
  OBVIOUS
<1>1. Profiler!HeapTypeOK
  <2>1. heap \in Heaps /\ sp \in Nat
    BY DEF ProfInv, Profiler!Memory, Memories
  <2>2. heap.end \in Nat /\ heap.limit \in Nat /\ HeapBytes \in Nat
    BY <2>1, ProfilerAssumption DEF Heaps
  <2> QED
    BY <2>1, <2>2 DEF RoomInv, Fits, Profiler!HeapTypeOK
<1>2. ASSUME NEW c \in Profiler!Contexts
      PROVE  arc[c] \in Arcs /\ (at[c] \in {"load", "store"} => node[c] \in DOMAIN Profiler!Nodes(c))
  <2>1. arc[c] \in Arcs /\ ListOf(c) \in Lists
    BY ArcIs DEF WalkInv
  <2>2. ASSUME at[c] \in {"load", "store"} PROVE node[c] \in DOMAIN Profiler!Nodes(c)
    <3>1. entry[c] \in 1 .. Len(ListOf(c)) /\ node[c] \in 1 .. Len(ListOf(c)[entry[c]])
      BY <2>2 DEF WalkInv, Holds
    <3>2. DOMAIN ListOf(c)[entry[c]] = 1 .. Len(ListOf(c)[entry[c]])
      BY <2>1, <3>1, ListIs
    <3> QED
      BY <3>1, <3>2 DEF Profiler!Nodes, ListOf
  <2> QED
    BY <2>1, <2>2
<1>3. starts \in Nat /\ slab_size \in 0 .. Slab
  BY DEF StartsInv, RoomInv
<1> QED
  BY <1>1, <1>2, <1>3 DEF Profiler!ProfileTypeOK

-----------------------------------------------------------------------------
(* The cache calls *)

\* Dropping line d makes the cache forget line l.
Hits(d, l) == IF kind = "data" THEN d = l ELSE d % Sets = l % Sets

\* The loop has dropped what lies before its pointer; a handler may have used some of it
\* again.
Passing ==
  /\ i >= start /\ i % Line = start % Line /\ i < Caches!End + Line
  /\ \A l \in cached, d \in Caches!LineOf(start) .. (Caches!LineOf(i) - 1) :
        Hits(d, l) => l \in touched
  /\ gone \subseteq Caches!Of(start, i - start)

Passed == /\ cached \cap Caches!Of(start, len) \subseteq touched
          /\ gone \subseteq Caches!Of(start, len + Line)

CacheInv ==
  /\ kind \in {"data", "instruction"} /\ cached \subseteq 0 .. (Lines - 1)
  /\ start \in Nat /\ len \in Nat /\ i \in Nat
  /\ job = "discard" => kind = "data"
  /\ job = "flush" => gone = {}
  /\ job # "idle" => IF more THEN Passing ELSE Passed

LEMMA LineFacts ==
  /\ \A a \in Nat : Caches!LineOf(a) \in Nat
  /\ \A a, b \in Nat : a <= b => Caches!LineOf(a) <= Caches!LineOf(b)
  /\ \A a, b \in Nat : a < b /\ Caches!LineOf(a) = Caches!LineOf(b) => b % Line # 0
<1>1. Line \in Nat \ {0}
  BY CacheAssumption
<1>2. ASSUME NEW a \in Nat PROVE Caches!LineOf(a) \in Nat
  BY <1>1, DivModNat DEF Caches!LineOf
<1>3. ASSUME NEW a \in Nat
      PROVE  a = Line * Caches!LineOf(a) + (a % Line) /\ a % Line \in 0 .. (Line - 1)
  BY <1>1, DivMod DEF Caches!LineOf
<1>4. ASSUME NEW a \in Nat, NEW b \in Nat, a <= b PROVE Caches!LineOf(a) <= Caches!LineOf(b)
  <2> DEFINE x == Caches!LineOf(a)
             y == Caches!LineOf(b)
             r == a % Line
             s == b % Line
  <2>1. x \in Nat /\ y \in Nat /\ r \in 0 .. (Line - 1) /\ s \in 0 .. (Line - 1)
        /\ a = Line * x + r /\ b = Line * y + s
    BY <1>2, <1>3
  <2> HIDE DEF x, y, r, s
  <2>2. SUFFICES ASSUME y + 1 <= x PROVE FALSE
    BY <2>1 DEF x, y
  <2>3. Line * (y + 1) <= Line * x /\ Line * (y + 1) = Line * y + Line
    BY <1>1, <2>1, <2>2
  <2>4. Line * x \in Nat /\ Line * y \in Nat
    BY <1>1, <2>1
  <2> QED
    BY <1>1, <1>4, <2>1, <2>3, <2>4
<1>5. ASSUME NEW a \in Nat, NEW b \in Nat, a < b, Caches!LineOf(a) = Caches!LineOf(b)
      PROVE  b % Line # 0
  <2>1. Line * Caches!LineOf(a) \in Nat
    BY <1>1, <1>2
  <2>2. a = Line * Caches!LineOf(a) + (a % Line) /\ a % Line \in 0 .. (Line - 1)
        /\ b = Line * Caches!LineOf(a) + (b % Line) /\ b % Line \in 0 .. (Line - 1)
    BY <1>3, <1>5
  <2> QED
    BY <1>1, <1>5, <2>1, <2>2
<1> QED
  BY <1>2, <1>4, <1>5

LEMMA NextLines ==
  ASSUME NEW a \in Nat, NEW n \in Nat
  PROVE  /\ a + n * Line \in Nat /\ (a + n * Line) % Line = a % Line
         /\ Caches!LineOf(a + n * Line) = Caches!LineOf(a) + n
<1> DEFINE q == a \div Line
           r == a % Line
<1>1. Line \in Nat \ {0}
  BY CacheAssumption
<1>2. a \in Int
  OBVIOUS
<1>3. q \in Nat /\ r \in 0 .. (Line - 1) /\ a = Line * q + r
  BY <1>1, <1>2, DivMod, DivModNat
<1> HIDE DEF q, r
<1>4. Line * q \in Nat /\ n * Line \in Nat /\ Line * (q + n) = Line * q + n * Line
  BY <1>1, <1>3
<1>5. a + n * Line = Line * (q + n) + r /\ q + n \in Int /\ a + n * Line \in Nat
  BY <1>1, <1>3, <1>4
<1>6. (Line * (q + n) + r) \div Line = q + n /\ (Line * (q + n) + r) % Line = r
  BY <1>1, <1>3, <1>5, DivModIs
<1> QED
  BY <1>5, <1>6 DEF Caches!LineOf, q, r

LEMMA EverySet ==
  ASSUME NEW a \in Nat, NEW l \in Nat
  PROVE  \E d \in a .. (a + Sets - 1) : d % Sets = l % Sets
<1>1. Sets \in Nat \ {0}
  BY CacheAssumption
<1> DEFINE q == (l - a) \div Sets
           r == (l - a) % Sets
           p == l \div Sets
           s == l % Sets
           d == a + r
<1>2. l - a \in Int /\ l \in Int
  OBVIOUS
<1>3. q \in Int /\ r \in 0 .. (Sets - 1) /\ l - a = Sets * q + r
  BY <1>1, <1>2, DivMod
<1>4. p \in Int /\ s \in 0 .. (Sets - 1) /\ l = Sets * p + s
  BY <1>1, <1>2, DivMod
<1> HIDE DEF q, r, p, s
<1>5. Sets * q \in Int /\ Sets * p \in Int /\ Sets * (p - q) = Sets * p - Sets * q
      /\ p - q \in Int
  BY <1>1, <1>3, <1>4
<1>6. d = Sets * (p - q) + s /\ d \in a .. (a + Sets - 1)
  BY <1>1, <1>3, <1>4, <1>5
<1>7. (Sets * (p - q) + s) % Sets = s
  BY <1>1, <1>4, <1>5, DivModIs
<1>8. d % Sets = l % Sets
  <2> HIDE DEF d
  <2> QED
    BY <1>6, <1>7 DEF s
<1> QED
  BY <1>6, <1>8

LEMMA CacheStarts == Init => CacheInv
<1> SUFFICES ASSUME Init PROVE CacheInv
  OBVIOUS
<1>1. /\ kind \in {"data", "instruction"} /\ cached = {} /\ job = "idle" /\ start = 0
      /\ len = 0 /\ i = 0
  BY DEF Init, Caches!Init
<1> QED
  BY <1>1 DEF CacheInv

\* What Drop leaves in the cache, the line dropped does not hit.
LEMMA Dropped ==
  ASSUME CacheInv, NEW k \in Nat, Caches!Drop(k), NEW l \in cached'
  PROVE  l \in cached /\ ~Hits(k, l)
<1>1. l \in 0 .. Lines
  BY CacheAssumption DEF CacheInv, Caches!Drop
<1> QED
  BY <1>1 DEF CacheInv, Caches!Drop, Caches!SameSet, Hits

LEMMA CacheTouch ==
  ASSUME CacheInv, NEW l \in 0 .. (Lines - 1), NEW store \in BOOLEAN, Caches!Touch(l, store)
  PROVE  CacheInv'
<1>1. /\ UNCHANGED <<kind, job, start, len, i, more, gone>>
      /\ cached' \subseteq cached \cup {l}
      /\ job # "idle" => touched' = touched \cup {l}
  BY DEF Caches!Touch, Caches!region
<1>2. cached' \subseteq 0 .. (Lines - 1)
  BY <1>1 DEF CacheInv
<1>3. ASSUME job # "idle", more, Passing PROVE Passing'
  <2>1. /\ Caches!LineOf(start)' = Caches!LineOf(start)
        /\ Caches!LineOf(i)' = Caches!LineOf(i) /\ Caches!End' = Caches!End
        /\ Caches!Of(start, i - start)' = Caches!Of(start, i - start)
    BY <1>1 DEF Caches!LineOf, Caches!End, Caches!Of
  <2>2. ASSUME NEW m \in cached', NEW d \in Caches!LineOf(start) .. (Caches!LineOf(i) - 1),
               Hits(d, m)'
        PROVE  m \in touched'
    <3>1. m \in cached => m \in touched
      BY <1>1, <1>3, <2>2 DEF Passing, Hits
    <3> QED
      BY <1>1, <1>3, <3>1
  <2> QED
    BY <1>1, <1>3, <2>1, <2>2 DEF Passing
<1>4. ASSUME job # "idle", Passed PROVE Passed'
  <2>1. /\ Caches!Of(start, len)' = Caches!Of(start, len)
        /\ Caches!Of(start, len + Line)' = Caches!Of(start, len + Line)
    BY <1>1 DEF Caches!LineOf, Caches!Of
  <2> QED
    BY <1>1, <1>4, <2>1 DEF Passed
<1> QED
  BY <1>1, <1>2, <1>3, <1>4 DEF CacheInv

LEMMA CacheBegins ==
  ASSUME CacheInv, NEW a \in Nat, NEW n \in Nat,
         Caches!Flush(a, n) \/ Caches!Discard(a, n)
  PROVE  CacheInv'
<1>1. /\ start' = a /\ len' = n /\ i' = a /\ more' = TRUE /\ gone' = {}
      /\ UNCHANGED <<kind, cached>> /\ job' \in {"flush", "discard"}
      /\ job' = "discard" => kind = "data"
  BY DEF Caches!Flush, Caches!Discard, Caches!Begin
<1>2. Line \in Nat \ {0} /\ Sets \in Nat \ {0}
  BY CacheAssumption
<1>3. Caches!End' \in Nat /\ a <= Caches!End'
  <2>1. Sets * Line \in Nat
    BY <1>2
  <2> QED
    BY <1>1, <2>1 DEF Caches!End
<1>4. Caches!LineOf(start)' = Caches!LineOf(a) /\ Caches!LineOf(i)' = Caches!LineOf(a)
      /\ Caches!LineOf(a) \in Nat
  BY <1>1, LineFacts DEF Caches!LineOf
<1>5. Caches!LineOf(start)' .. (Caches!LineOf(i)' - 1) = {}
  BY <1>4
<1>6. Passing'
  <2>3. i' = start' /\ i' = a
    BY <1>1
  <2>4. i' >= start' /\ i' % Line = start' % Line
    BY <2>3
  <2>6. PICK e \in Nat : e = Caches!End' /\ a <= e
    BY <1>3, Zenon
  <2>8. Line \in Int /\ 0 < Line
    BY <1>2
  <2>9. a \in Int /\ e \in Int /\ a <= e
    BY <2>6
  <2>7. a < e + Line
    BY <2>8, <2>9
  <2>5. i' < Caches!End' + Line
    BY <2>3, <2>6, <2>7
  <2>1. i' >= start' /\ i' % Line = start' % Line /\ i' < Caches!End' + Line
    BY <2>4, <2>5
  <2>2. gone' \subseteq Caches!Of(start, i - start)'
    BY <1>1
  <2> QED
    BY <1>5, <2>1, <2>2 DEF Passing
<1> QED
  BY <1>1, <1>6 DEF CacheInv

LEMMA CacheLoop ==
  ASSUME CacheInv, Caches!LoopStep
  PROVE  CacheInv'
<1> DEFINE k == Caches!LineOf(i)
           z == Caches!LineOf(start)
<1>1. /\ job # "idle" /\ more /\ i < Caches!End /\ Caches!Drop(k)
      /\ i' = i + Line
      /\ UNCHANGED <<kind, job, start, len, more, touched, uncached>>
  BY DEF Caches!LoopStep, Caches!region
<1>2. Passing /\ start \in Nat /\ len \in Nat /\ i \in Nat
  BY <1>1 DEF CacheInv
<1>3. Line \in Nat \ {0} /\ Sets \in Nat \ {0}
  BY CacheAssumption
<1>4. k \in Nat /\ z \in Nat
  BY <1>2, LineFacts
<1>5. Caches!LineOf(i + Line) = k + 1 /\ (i + Line) % Line = i % Line
  <2>1. Caches!LineOf(i + 1 * Line) = k + 1 /\ (i + 1 * Line) % Line = i % Line
    BY <1>2, NextLines
  <2>2. 1 * Line = Line
    BY <1>3
  <2> QED
    BY <2>1, <2>2
<1>6. Caches!End' = Caches!End /\ Caches!End \in Int
  <2>1. Sets * Line \in Nat
    BY <1>3
  <2> QED
    BY <1>1, <1>2, <2>1 DEF Caches!End
<1>7. cached' \subseteq cached
  BY <1>1 DEF Caches!Drop
<1>8. /\ Caches!LineOf(i)' = k + 1 /\ Caches!LineOf(start)' = z
  BY <1>1, <1>5 DEF Caches!LineOf
<1>9. ASSUME NEW l \in cached', NEW d \in z .. k, Hits(d, l)'
      PROVE  l \in touched'
  <2>1. l \in cached /\ ~Hits(k, l)
    BY <1>1, <1>4, Dropped
  <2>2. Hits(d, l)
    BY <1>1, <1>9 DEF Hits
  <2>3. d # k
    BY <2>1, <2>2
  <2>4. d \in z .. (k - 1)
    BY <1>4, <2>3
  <2>5. l \in touched
    BY <1>2, <2>1, <2>2, <2>4 DEF Passing
  <2> QED
    BY <1>1, <2>5
<1>10. (gone \subseteq Caches!Of(start, i - start))
       => gone' \subseteq Caches!Of(start, i' - start)
  <2> SUFFICES ASSUME gone \subseteq Caches!Of(start, i - start), NEW l \in gone'
               PROVE  l \in Caches!Of(start, i' - start)
    OBVIOUS
  <2>1. l \in gone \/ l = k
    BY <1>1 DEF Caches!Drop
  <2>2. i \in Nat /\ i >= start /\ i \in start .. (start + (i' - start) - 1)
    BY <1>1, <1>2, <1>3 DEF Passing
  <2>3. k \in Caches!Of(start, i' - start)
    BY <2>2 DEF Caches!Of
  <2>4. start .. (start + (i - start) - 1) \subseteq start .. (start + (i' - start) - 1)
    BY <1>1, <1>2, <1>3
  <2>5. Caches!Of(start, i - start) \subseteq Caches!Of(start, i' - start)
    BY <2>4 DEF Caches!Of
  <2> QED
    BY <2>1, <2>3, <2>5
<1>11. Caches!Of(start, i' - start) = Caches!Of(start, i - start)'
  BY <1>1 DEF Caches!Of, Caches!LineOf
<1>12. Passing'
  <2>1. i' >= start' /\ i' % Line = start' % Line /\ i' < Caches!End' + Line
    BY <1>1, <1>2, <1>3, <1>5, <1>6 DEF Passing
  <2>2. gone' \subseteq Caches!Of(start, i - start)'
    BY <1>2, <1>10, <1>11 DEF Passing
  <2>3. \A l \in cached', d \in z .. ((k + 1) - 1) : Hits(d, l)' => l \in touched'
    BY <1>4, <1>9
  <2> HIDE DEF k, z
  <2> QED
    BY <1>8, <2>1, <2>2, <2>3 DEF Passing
<1>13. job = "flush" => gone' = {}
  BY <1>1 DEF Caches!Drop, CacheInv
<1>14. i' \in Nat
  BY <1>1, <1>2, <1>3
<1> QED
  BY <1>1, <1>7, <1>12, <1>13, <1>14 DEF CacheInv

LEMMA CacheLast ==
  ASSUME CacheInv, Caches!LastLine
  PROVE  CacheInv'
<1> DEFINE k == Caches!LineOf(i)
           z == Caches!LineOf(start)
<1>1. /\ job # "idle" /\ more /\ i >= Caches!End
      /\ start % Line # 0 => Caches!Drop(k)
      /\ start % Line = 0 => UNCHANGED <<cached, dirty, gone>>
      /\ more' = FALSE
      /\ UNCHANGED <<kind, job, start, len, i, touched, uncached>>
  BY DEF Caches!LastLine, Caches!region
<1>2. Passing /\ start \in Nat /\ len \in Nat /\ i \in Nat
  BY <1>1 DEF CacheInv
<1>3. Line \in Nat \ {0} /\ Sets \in Nat \ {0} /\ Sets * Line \in Nat
  BY CacheAssumption
<1>4. k \in Nat /\ z \in Nat
  BY <1>2, LineFacts
<1>5. cached' \subseteq cached
  BY <1>1 DEF Caches!Drop
<1>6. ASSUME NEW l \in cached', l \in Caches!Of(start, len)
      PROVE  l \in touched
  <2>1. PICK b \in start .. (start + len - 1) : l = Caches!LineOf(b)
    BY <1>6 DEF Caches!Of
  <2>2. b \in Nat /\ b >= start /\ b < start + len /\ l \in Nat /\ z <= l
    BY <1>2, <2>1, LineFacts
  <2>3. l \in cached
    BY <1>5
  <2>4. ASSUME NEW d \in z .. (k - 1), Hits(d, l) PROVE l \in touched
    BY <1>2, <2>3, <2>4 DEF Passing
  <2>5. CASE Caches!End = start + len
    <3>1. b < i /\ l <= k
      <4>1. b < i
        BY <1>1, <1>2, <2>2, <2>5
      <4> QED
        BY <1>2, <2>1, <2>2, <4>1, LineFacts
    <3>2. CASE l < k
      <4>1. l \in z .. (k - 1) /\ Hits(l, l)
        BY <1>4, <2>2, <3>2 DEF Hits
      <4> QED
        BY <2>4, <4>1
    <3>3. CASE l = k
      <4>1. i % Line # 0
        BY <1>2, <2>1, <2>2, <3>1, <3>3, LineFacts
      <4>2. Caches!Drop(k)
        BY <1>1, <1>2, <4>1 DEF Passing
      <4>3. ~Hits(k, l)
        BY <1>4, <4>2, Dropped
      <4> QED
        BY <3>3, <4>3 DEF Hits
    <3> QED
      BY <1>4, <2>2, <3>1, <3>2, <3>3
  <2>6. CASE Caches!End # start + len
    <3>1. kind = "instruction" /\ Caches!End = start + Sets * Line
      BY <2>6 DEF Caches!End
    <3>2. Caches!LineOf(start + Sets * Line) = z + Sets /\ start + Sets * Line \in Nat
      BY <1>2, <1>3, NextLines
    <3>3. z + Sets <= k
      BY <1>1, <1>2, <3>1, <3>2, LineFacts
    <3>4. PICK d \in z .. (z + Sets - 1) : d % Sets = l % Sets
      BY <1>4, <2>2, EverySet
    <3>5. d \in z .. (k - 1)
      BY <1>3, <1>4, <3>3
    <3>6. Hits(d, l)
      BY <3>1, <3>4 DEF Hits
    <3> QED
      BY <2>4, <3>5, <3>6
  <2> QED
    BY <2>5, <2>6
<1>7. gone' \subseteq Caches!Of(start, len + Line)
  <2>1. CASE job = "discard"
    <3>1. kind = "data" /\ Caches!End = start + len
      BY <2>1 DEF CacheInv, Caches!End
    <3>2. i >= start /\ i < start + len + Line
      BY <1>2, <3>1 DEF Passing
    <3>3. /\ i \in start .. (start + (len + Line) - 1)
          /\ start .. (start + (i - start) - 1) \subseteq start .. (start + (len + Line) - 1)
      BY <1>2, <1>3, <3>2
    <3>4. k \in Caches!Of(start, len + Line)
          /\ Caches!Of(start, i - start) \subseteq Caches!Of(start, len + Line)
      BY <3>3 DEF Caches!Of
    <3>5. gone' \subseteq gone \cup {k}
      BY <1>1 DEF Caches!Drop
    <3> QED
      BY <1>2, <3>4, <3>5 DEF Passing
  <2>2. CASE job # "discard"
    <3>1. gone' = gone
      BY <1>1, <2>2 DEF Caches!Drop
    <3>2. CASE kind = "data"
      <4>1. Caches!End = start + len
        BY <3>2 DEF Caches!End
      <4>2. i >= start /\ i < start + len + Line
        BY <1>2, <4>1 DEF Passing
      <4>3. start .. (start + (i - start) - 1) \subseteq start .. (start + (len + Line) - 1)
        BY <1>2, <1>3, <4>2
      <4>4. Caches!Of(start, i - start) \subseteq Caches!Of(start, len + Line)
        BY <4>3 DEF Caches!Of
      <4> QED
        BY <1>2, <3>1, <4>4 DEF Passing
    <3>3. CASE kind # "data"
      <4>1. Caches!End <= start + len
        BY <1>2, <1>3 DEF Caches!End
      <4>2. Caches!End \in Int
        BY <1>2, <1>3 DEF Caches!End
      <4>3. i >= start /\ i < start + len + Line
        BY <1>2, <1>3, <4>1, <4>2 DEF Passing
      <4>4. start .. (start + (i - start) - 1) \subseteq start .. (start + (len + Line) - 1)
        BY <1>2, <1>3, <4>3
      <4>5. Caches!Of(start, i - start) \subseteq Caches!Of(start, len + Line)
        BY <4>4 DEF Caches!Of
      <4> QED
        BY <1>2, <3>1, <4>5 DEF Passing
    <3> QED
      BY <3>2, <3>3
  <2> QED
    BY <2>1, <2>2
<1>8. Passed'
  <2>1. /\ Caches!Of(start, len)' = Caches!Of(start, len)
        /\ Caches!Of(start, len + Line)' = Caches!Of(start, len + Line)
    BY <1>1 DEF Caches!LineOf, Caches!Of
  <2> QED
    BY <1>1, <1>6, <1>7, <2>1 DEF Passed
<1>9. job = "flush" => gone' = {}
  BY <1>1 DEF Caches!Drop, CacheInv
<1> QED
  BY <1>1, <1>5, <1>8, <1>9 DEF CacheInv

LEMMA CacheNext == CacheInv /\ [Next]_vars => CacheInv'
<1> SUFFICES ASSUME CacheInv, [Next]_vars PROVE CacheInv'
  OBVIOUS
<1>1. ASSUME UNCHANGED cache PROVE CacheInv'
  BY <1>1 DEF CacheInv, Passing, Passed, Hits, Caches!End, Caches!LineOf, Caches!Of, cache
<1>2. ASSUME Caches!Next PROVE CacheInv'
  <2>1. ASSUME NEW l \in 0 .. (Lines - 1), NEW store \in BOOLEAN, Caches!Touch(l, store)
        PROVE  CacheInv'
    BY <2>1, CacheTouch
  <2>2. ASSUME NEW a \in Nat, NEW n \in Nat, Caches!Flush(a, n) \/ Caches!Discard(a, n)
        PROVE  CacheInv'
    BY <2>2, CacheBegins
  <2>3. ASSUME NEW a \in 0 .. (Lines * Line - 1), NEW n \in 0 .. (Lines * Line - a),
               Caches!Flush(a, n) \/ Caches!Discard(a, n)
        PROVE  CacheInv'
    <3>1. a \in Nat /\ n \in Nat
      OBVIOUS
    <3> QED
      BY <2>2, <2>3, <3>1
  <2>4. ASSUME Caches!FlushAll PROVE CacheInv'
    <3>1. Lines * Line \in Nat /\ 0 \in Nat
      BY CacheAssumption
    <3> QED
      BY <2>2, <2>4, <3>1 DEF Caches!FlushAll
  <2>5. ASSUME Caches!Done PROVE CacheInv'
    <3>1. job' = "idle" /\ UNCHANGED <<kind, cached, start, len, i, gone>>
      BY <2>5 DEF Caches!Done, Caches!region
    <3> QED
      BY <3>1 DEF CacheInv
  <2>6. ASSUME NEW l \in 0 .. (Lines - 1), NEW n \in 1 .. (Line + 1), Caches!UncachedMalloc(l, n)
        PROVE  CacheInv'
    <3>1. /\ cached' \subseteq cached /\ job = "idle"
          /\ UNCHANGED <<kind, job, start, len, i, gone>>
      BY <2>6 DEF Caches!UncachedMalloc, Caches!region
    <3> QED
      BY <3>1 DEF CacheInv
  <2>7. ASSUME Caches!UncachedFree PROVE CacheInv'
    <3>1. /\ job = "idle" /\ UNCHANGED <<kind, cached, job, start, len, i, gone>>
      BY <2>7 DEF Caches!UncachedFree, Caches!region
    <3> QED
      BY <3>1 DEF CacheInv
  <2> QED
    BY <1>2, <2>1, <2>3, <2>4, <2>5, <2>6, <2>7, CacheLoop, CacheLast
       DEF Caches!Next, Caches!Main
<1> QED
  BY <1>1, <1>2 DEF Next, vars, NotLight, NotUart, NotPrinter, NotProfiler, NotSleeper,
                    NotStamps, NotChannels

LEMMA CacheKept == CacheInv => Caches!FlushStep
BY DEF CacheInv, Passed, Caches!FlushStep, Caches!Done

\* The bounds of the cache's sets: an instruction cache is never dirty.
CacheTypes ==
  /\ dirty \subseteq cached /\ (kind # "data" => dirty = {})
  /\ cached \cap uncached = {}
  /\ job \in {"idle", "flush", "discard"} /\ more \in BOOLEAN

LEMMA CacheTypesStart == Init => CacheTypes
<1> SUFFICES ASSUME Caches!Init PROVE CacheTypes
  BY DEF Init
<1>1. more \in BOOLEAN
  BY Zenon DEF Caches!Init
<1> QED
  BY <1>1 DEF Caches!Init, CacheTypes

LEMMA CacheTypesNext == CacheInv /\ CacheTypes /\ [Next]_vars => CacheTypes'
<1> SUFFICES ASSUME CacheInv, CacheTypes, [Next]_vars PROVE CacheTypes'
  OBVIOUS
<1> USE DEF CacheTypes, Caches!region
<1>0. CASE UNCHANGED cache
  BY <1>0 DEF cache
<1>1. ASSUME NEW l \in 0 .. Lines - 1, NEW store \in BOOLEAN, Caches!Touch(l, store)
      PROVE  CacheTypes'
  BY <1>1 DEF Caches!Touch
<1>2. ASSUME NEW a, NEW n, Caches!Flush(a, n) \/ Caches!Discard(a, n)
      PROVE  CacheTypes'
  <2>1. more' \in BOOLEAN
    BY <1>2, Zenon DEF Caches!Flush, Caches!Discard, Caches!Begin
  <2> QED
    BY <1>2, <2>1 DEF Caches!Flush, Caches!Discard, Caches!Begin
<1>3. CASE Caches!LoopStep
  BY <1>3 DEF Caches!LoopStep, Caches!Drop
<1>4. CASE Caches!LastLine
  <2>1. more' \in BOOLEAN
    BY <1>4, Zenon DEF Caches!LastLine
  <2> QED
    BY <1>4, <2>1 DEF Caches!LastLine, Caches!Drop
<1>5. CASE Caches!Done
  BY <1>5 DEF Caches!Done
<1>6. ASSUME NEW l, NEW n, Caches!UncachedMalloc(l, n)
      PROVE  CacheTypes'
  BY <1>6 DEF Caches!UncachedMalloc
<1>7. CASE Caches!UncachedFree
  BY <1>7 DEF Caches!UncachedFree
<1> QED
  BY <1>0, <1>1, <1>2, <1>3, <1>4, <1>5, <1>6, <1>7
     DEF Caches!Next, Caches!FlushAll, Caches!Main, Next, vars, NotLight, NotUart, NotPrinter, NotProfiler,
         NotSleeper, NotStamps, NotChannels

LEMMA CacheTyped == CacheInv /\ CacheTypes => Caches!CacheTypeOK
BY DEF CacheInv, CacheTypes, Caches!CacheTypeOK

-----------------------------------------------------------------------------
(* The busy sleep *)

\* The big loops of a sleep, and those made
Asked == least \div PerUs
BigLoops == Asked \div Sleeper!PerLoop
Made == BigLoops - big_loops

\* Turns of the loops before the one that runs
LastTurns == IF us = 0 THEN Sleeper!Word ELSE us * PerUs

SleepInv ==
  /\ sleeping \in {"no", "begin", "big", "rest", "short"}
  /\ us \in Nat /\ turns \in Nat /\ running \in BOOLEAN /\ least \in Nat /\ spent \in Nat
  /\ big_loops \in Nat
  /\ sleeping \in {"no", "begin"} => ~running
  /\ sleeping # "no" => least = Asked * PerUs
  /\ sleeping \in {"begin", "short"} => us = Asked /\ Asked < Sleeper!PerLoop
  /\ sleeping = "begin" => spent = 0
  /\ sleeping = "big" =>
       /\ BigLoops > 0 /\ big_loops <= BigLoops
       /\ us = Asked - Made * Sleeper!PerLoop
       /\ ~running => spent = Made * Sleeper!INT_MAX
       /\ running => /\ turns \in 1 .. Sleeper!INT_MAX
                     /\ spent + turns = Made * Sleeper!INT_MAX
  /\ sleeping = "rest" =>
       /\ BigLoops > 0 /\ us = Asked % Sleeper!PerLoop
       /\ running => /\ turns \in 0 .. (Sleeper!Word - 1)
                     /\ spent + (IF turns = 0 THEN Sleeper!Word ELSE turns)
                          = BigLoops * Sleeper!INT_MAX + LastTurns
       /\ ~running => spent = BigLoops * Sleeper!INT_MAX + LastTurns
  /\ sleeping = "short" =>
       /\ running => /\ turns \in 0 .. Sleeper!INT_MAX
                     /\ spent + turns = least
                     /\ turns = 0 => us = 0
       /\ ~running => spent = IF us = 0 THEN 1 ELSE least

LEMMA IntFacts ==
  /\ Sleeper!INT_MAX \in Nat /\ PerUs \in Nat \ {0} /\ Sleeper!Word \in Nat
  /\ Sleeper!Word = 2 * Sleeper!INT_MAX + 2
  /\ Sleeper!PerLoop \in Nat \ {0}
  /\ Sleeper!INT_MAX = Sleeper!PerLoop * PerUs + (Sleeper!INT_MAX % PerUs)
  /\ Sleeper!INT_MAX % PerUs \in Nat
<1>1. Width - 1 \in Nat /\ (Width - 1) + 1 = Width
  BY SleeperAssumption
<1>2. PerUs \in Nat \ {0} /\ PerUs <= Sleeper!INT_MAX
  BY SleeperAssumption DEF Sleeper!INT_MAX
<1>3. 2^(Width - 1) \in Nat /\ 2^(Width - 1) > 0
  BY <1>1, PositivePowers
<1>4. 2^((Width - 1) + 1) = 2 * 2^(Width - 1)
  BY <1>1, Powers
<1>5. Sleeper!Word = 2 * 2^(Width - 1)
  BY <1>1, <1>4 DEF Sleeper!Word
<1>6. Sleeper!INT_MAX \in Nat /\ Sleeper!INT_MAX = 2^(Width - 1) - 1
  BY <1>3 DEF Sleeper!INT_MAX
<1>7. Sleeper!Word \in Nat /\ Sleeper!Word = 2 * Sleeper!INT_MAX + 2
  BY <1>3, <1>5, <1>6
<1> DEFINE q == Sleeper!INT_MAX \div PerUs
           r == Sleeper!INT_MAX % PerUs
<1>8. q \in Nat /\ r \in 0 .. (PerUs - 1) /\ Sleeper!INT_MAX = PerUs * q + r
  <2>1. Sleeper!INT_MAX \in Int
    BY <1>6
  <2>2. q \in Nat
    BY <1>2, <1>6, DivModNat
  <2> QED
    BY <1>2, <2>1, <2>2, DivMod
<1> HIDE DEF r
<1>9. q # 0
  <2> HIDE DEF q
  <2>1. SUFFICES ASSUME q = 0 PROVE FALSE
    OBVIOUS
  <2>2. PerUs * q = 0
    BY <1>2, <2>1
  <2> QED
    BY <1>2, <1>6, <1>8, <2>2
<1>10. q = Sleeper!PerLoop
  BY DEF Sleeper!PerLoop
<1> HIDE DEF q
<1>11. PerUs * q = q * PerUs
  BY <1>2, <1>8
<1> QED
  BY <1>2, <1>6, <1>7, <1>8, <1>9, <1>10, <1>11 DEF r

LEMMA SleepStarts == Init => SleepInv
<1> SUFFICES ASSUME Init PROVE SleepInv
  OBVIOUS
<1>1. /\ sleeping = "no" /\ us = 0 /\ big_loops = 0 /\ turns = 0
      /\ running = FALSE /\ least = 0 /\ spent = 0
  BY DEF Init, Sleeper!Init
<1> QED
  BY <1>1 DEF SleepInv

\* A word counts down, and from 0 all the way around.
LEMMA CountsDown ==
  ASSUME NEW n \in 0 .. (Sleeper!Word - 1)
  PROVE  Sleeper!Minus1(n) = IF n = 0 THEN Sleeper!Word - 1 ELSE n - 1
<1> DEFINE w == Sleeper!Word
<1>1. w \in Nat /\ w >= 2
  BY IntFacts
<1>2. Sleeper!Minus1(n) = (n + w - 1) % w
  BY DEF Sleeper!Minus1
<1> HIDE DEF w
<1>3. n \in 0 .. (w - 1)
  BY DEF w
<1>4. CASE n = 0
  <2>1. n + w - 1 = w * 0 + (w - 1) /\ w - 1 \in 0 .. (w - 1)
    BY <1>1, <1>4
  <2>2. (w * 0 + (w - 1)) % w = w - 1
    BY <1>1, <2>1, DivModIs
  <2> QED
    BY <1>2, <1>4, <2>1, <2>2 DEF w
<1>5. CASE n # 0
  <2> DEFINE m == n - 1
  <2>1. n + w - 1 = w * 1 + m /\ m \in 0 .. (w - 1)
    BY <1>1, <1>3, <1>5
  <2> HIDE DEF m
  <2>2. (w * 1 + m) % w = m
    BY <1>1, <2>1, DivModIs
  <2> QED
    BY <1>2, <1>5, <2>1, <2>2 DEF m
<1> QED
  BY <1>4, <1>5

\* The turns of the rest fit in a word.
LEMMA RestFits ==
  ASSUME NEW n \in Nat, n < Sleeper!PerLoop
  PROVE  n * PerUs \in Nat /\ n * PerUs <= Sleeper!INT_MAX /\ (n * PerUs = 0 <=> n = 0)
<1> DEFINE p == Sleeper!PerLoop
           m == Sleeper!INT_MAX
           r == Sleeper!INT_MAX % PerUs
<1>1. /\ p \in Nat /\ m \in Nat /\ r \in Nat /\ PerUs \in Nat \ {0} /\ m = p * PerUs + r
      /\ n < p
  BY IntFacts
<1> HIDE DEF p, m, r
<1>2. n * PerUs \in Nat /\ p * PerUs \in Nat /\ n * PerUs <= p * PerUs
  BY <1>1
<1>3. n # 0 => n * PerUs # 0
  BY <1>1
<1>4. n = 0 => n * PerUs = 0
  BY <1>1
<1> QED
  BY <1>1, <1>2, <1>3, <1>4 DEF m

LEMMA SleepBegins ==
  ASSUME SleepInv, NEW n \in 0 .. (Sleeper!Word - 1), Sleeper!Sleep(n)
  PROVE  SleepInv'
<1> DEFINE p == Sleeper!PerLoop
           q == n \div p
<1>1. /\ sleeping = "no" /\ us' = n /\ big_loops' = q
      /\ least' = n * PerUs /\ spent' = 0 /\ turns' = turns /\ running' = running
      /\ sleeping' = IF q > 0 THEN "big" ELSE "begin"
  BY DEF Sleeper!Sleep
<1>2. PerUs \in Nat \ {0} /\ p \in Nat \ {0} /\ n \in Nat /\ Sleeper!INT_MAX \in Nat
  BY IntFacts
<1>3. running = FALSE /\ turns \in Nat
  BY <1>1 DEF SleepInv
<1>4. Asked' = n /\ n * PerUs \in Nat
  <2>1. n * PerUs = PerUs * n + 0 /\ n \in Int /\ 0 \in 0 .. (PerUs - 1) /\ n * PerUs \in Nat
    BY <1>2
  <2>2. (PerUs * n + 0) \div PerUs = n
    BY <1>2, <2>1, DivModIs
  <2> QED
    BY <1>1, <2>1, <2>2 DEF Asked
<1>5. q \in Nat /\ n = p * q + (n % p) /\ n % p \in 0 .. (p - 1)
  <2>1. n \in Int
    BY <1>2
  <2>2. q \in Nat
    BY <1>2, DivModNat
  <2> QED
    BY <1>2, <2>1, <2>2, DivMod
<1>6. BigLoops' = q /\ Sleeper!PerLoop' = p /\ Sleeper!INT_MAX' = Sleeper!INT_MAX
  BY <1>4 DEF BigLoops, Sleeper!PerLoop, Sleeper!INT_MAX
<1> HIDE DEF p, q
<1>7. Made' = 0
  BY <1>1, <1>5, <1>6 DEF Made
<1>8. q = 0 => n < p
  BY <1>2, <1>5
<1>9. 0 * p = 0 /\ 0 * Sleeper!INT_MAX = 0
  BY <1>2
<1>10. CASE q > 0
  <2>1. sleeping' = "big" /\ big_loops' <= BigLoops' /\ BigLoops' > 0
    BY <1>1, <1>5, <1>6, <1>10
  <2>2. us' = Asked' - Made' * Sleeper!PerLoop' /\ spent' = Made' * Sleeper!INT_MAX'
    BY <1>1, <1>2, <1>4, <1>6, <1>7, <1>9
  <2> QED
    BY <1>1, <1>2, <1>3, <1>4, <1>5, <2>1, <2>2 DEF SleepInv
<1>11. CASE ~(q > 0)
  <2>1. sleeping' = "begin" /\ n < Sleeper!PerLoop'
    BY <1>1, <1>5, <1>6, <1>8, <1>11
  <2> QED
    BY <1>1, <1>2, <1>3, <1>4, <1>5, <2>1 DEF SleepInv
<1> QED
  BY <1>10, <1>11

\* What the steps within a sleep leave alone
LEMMA SameSleep ==
  ASSUME least' = least
  PROVE  /\ Asked' = Asked /\ BigLoops' = BigLoops /\ Sleeper!PerLoop' = Sleeper!PerLoop
         /\ Sleeper!INT_MAX' = Sleeper!INT_MAX /\ Sleeper!Word' = Sleeper!Word
BY DEF Asked, BigLoops, Sleeper!PerLoop, Sleeper!INT_MAX, Sleeper!Word

LEMMA SleepNumbers ==
  ASSUME SleepInv
  PROVE  /\ Asked \in Nat /\ BigLoops \in Nat
         /\ Asked = BigLoops * Sleeper!PerLoop + (Asked % Sleeper!PerLoop)
         /\ Asked % Sleeper!PerLoop \in 0 .. (Sleeper!PerLoop - 1)
<1> DEFINE p == Sleeper!PerLoop
<1>1. PerUs \in Nat \ {0} /\ p \in Nat \ {0} /\ least \in Nat
  BY IntFacts DEF SleepInv
<1>2. Asked \in Nat
  BY <1>1, DivModNat DEF Asked
<1>3. BigLoops \in Nat
  BY <1>1, <1>2, DivModNat DEF BigLoops
<1>4. Asked = p * BigLoops + (Asked % p) /\ Asked % p \in 0 .. (p - 1)
  BY <1>1, <1>2, DivMod DEF BigLoops
<1>5. p * BigLoops = BigLoops * p
  BY <1>1, <1>3
<1> QED
  BY <1>2, <1>3, <1>4, <1>5

LEMMA SleepBig ==
  ASSUME SleepInv, Sleeper!BigLoop
  PROVE  SleepInv'
<1> DEFINE p == Sleeper!PerLoop
           m == Sleeper!INT_MAX
           d == Made
<1>1. /\ sleeping = "big" /\ ~running /\ big_loops > 0
      /\ turns' = m /\ running' = TRUE /\ big_loops' = big_loops - 1 /\ us' = us - p
      /\ sleeping' = "big" /\ least' = least /\ spent' = spent
  BY DEF Sleeper!BigLoop
<1>2. p \in Nat \ {0} /\ m \in Nat /\ m > 0
  <2>1. PerUs <= Sleeper!INT_MAX /\ PerUs \in Nat \ {0}
    BY SleeperAssumption DEF Sleeper!INT_MAX
  <2> QED
    BY <2>1, IntFacts
<1>3. /\ us = Asked - d * p /\ spent = d * m /\ big_loops \in Nat /\ big_loops <= BigLoops
      /\ BigLoops > 0 /\ least \in Nat /\ least = Asked * PerUs /\ spent \in Nat
  BY <1>1 DEF SleepInv
<1>4. Asked \in Nat /\ BigLoops \in Nat /\ Asked = BigLoops * p + (Asked % p)
      /\ Asked % p \in 0 .. (p - 1)
  BY SleepNumbers
<1>5. d = BigLoops - big_loops /\ d \in Nat
  BY <1>3, <1>4 DEF Made
<1>6. /\ Asked' = Asked /\ BigLoops' = BigLoops /\ Sleeper!PerLoop' = p
      /\ Sleeper!INT_MAX' = m
  BY <1>1, SameSleep
<1>7. Made' = d + 1
  BY <1>1, <1>3, <1>4, <1>5, <1>6 DEF Made
<1> HIDE DEF d, p, m
<1>8. (d + 1) * p = d * p + p /\ (d + 1) * m = d * m + m /\ d * p \in Nat /\ d * m \in Nat
  BY <1>2, <1>5
<1>9. (d + 1) * p <= BigLoops * p /\ BigLoops * p \in Nat
  BY <1>1, <1>2, <1>3, <1>4, <1>5
<1>10. us' \in Nat
  <2> DEFINE A == d * p
             B == BigLoops * p
             C == Asked % p
  <2>1. /\ A \in Nat /\ B \in Nat /\ A + p <= B /\ C \in Nat /\ us = Asked - A /\ Asked = B + C
        /\ us' = us - p /\ p \in Nat
    BY <1>1, <1>2, <1>3, <1>4, <1>8, <1>9
  <2> HIDE DEF A, B, C
  <2> QED
    BY <1>4, <2>1
<1>11. us' = Asked' - Made' * Sleeper!PerLoop'
  BY <1>1, <1>2, <1>3, <1>4, <1>6, <1>7, <1>8
<1>12. turns' \in 1 .. Sleeper!INT_MAX' /\ spent' + turns' = Made' * Sleeper!INT_MAX'
  BY <1>1, <1>2, <1>3, <1>6, <1>7, <1>8
<1>13. /\ sleeping' = "big" /\ running' = TRUE /\ big_loops' \in Nat /\ big_loops' <= BigLoops'
       /\ BigLoops' > 0 /\ least' \in Nat /\ spent' \in Nat /\ least' = Asked' * PerUs
  BY <1>1, <1>3, <1>4, <1>6
<1>14. turns' \in Nat
  BY <1>1, <1>2
<1> QED
  BY <1>10, <1>11, <1>12, <1>13, <1>14 DEF SleepInv

LEMMA SleepLast ==
  ASSUME SleepInv, Sleeper!LastLoop
  PROVE  SleepInv'
<1> DEFINE p == Sleeper!PerLoop
           m == Sleeper!INT_MAX
           w == Sleeper!Word
<1>1. /\ sleeping = "begin" \/ (sleeping = "big" /\ big_loops = 0 /\ ~running)
      /\ sleeping' = IF sleeping = "big" THEN "rest" ELSE "short"
      /\ turns' = us * PerUs /\ running' = TRUE
      /\ us' = us /\ big_loops' = big_loops /\ least' = least /\ spent' = spent
  BY DEF Sleeper!LastLoop
<1>2. p \in Nat \ {0} /\ m \in Nat /\ PerUs \in Nat \ {0} /\ w = 2 * m + 2 /\ w \in Nat
  BY IntFacts
<1>3. us \in Nat /\ least \in Nat /\ spent \in Nat /\ big_loops \in Nat
      /\ least = Asked * PerUs
  BY <1>1 DEF SleepInv
<1>4. Asked \in Nat /\ BigLoops \in Nat /\ Asked = BigLoops * p + (Asked % p)
      /\ Asked % p \in 0 .. (p - 1)
  BY SleepNumbers
<1>5. /\ Asked' = Asked /\ BigLoops' = BigLoops /\ Sleeper!PerLoop' = p
      /\ Sleeper!INT_MAX' = m /\ Sleeper!Word' = w
  BY <1>1, SameSleep
<1>6. LastTurns' = LastTurns
  BY <1>1, <1>5 DEF LastTurns
<1>7. CASE sleeping = "begin"
  <2>1. us = Asked /\ Asked < p /\ spent = 0 /\ sleeping' = "short"
    BY <1>1, <1>7 DEF SleepInv
  <2>2. us * PerUs \in Nat /\ us * PerUs <= m /\ (us * PerUs = 0 <=> us = 0)
    BY <1>3, <2>1, RestFits
  <2>3. turns' \in 0 .. m /\ spent' + turns' = least' /\ (turns' = 0 => us' = 0)
    BY <1>1, <1>2, <1>3, <2>1, <2>2
  <2>4. turns' \in Nat
    BY <1>1, <2>2
  <2> HIDE DEF p, m, w
  <2> QED
    BY <1>1, <1>3, <1>5, <2>1, <2>3, <2>4 DEF SleepInv
<1>8. CASE sleeping = "big"
  <2>1. /\ big_loops = 0 /\ ~running /\ BigLoops > 0 /\ us = Asked - Made * p
        /\ spent = Made * m /\ sleeping' = "rest"
    BY <1>1, <1>8 DEF SleepInv
  <2>2. Made = BigLoops
    BY <1>4, <2>1 DEF Made
  <2>3. us = Asked % p
    <3> DEFINE A == BigLoops * p
               C == Asked % p
    <3>1. A \in Nat /\ C \in Nat /\ Asked = A + C /\ us = Asked - A
      BY <1>2, <1>4, <2>1, <2>2
    <3> HIDE DEF A, C
    <3>2. us = C
      BY <1>4, <3>1
    <3> QED
      BY <3>2 DEF C
  <2>4. us < p
    BY <1>2, <1>4, <2>3
  <2>5. us * PerUs \in Nat /\ us * PerUs <= m /\ (us * PerUs = 0 <=> us = 0)
    BY <1>3, <2>4, RestFits
  <2>6. turns' \in 0 .. (w - 1) /\ turns' \in Nat
    BY <1>1, <1>2, <2>5
  <2>7. (IF turns' = 0 THEN w ELSE turns') = LastTurns
    BY <1>1, <2>5 DEF LastTurns
  <2>8. spent' + (IF turns' = 0 THEN Sleeper!Word' ELSE turns')
          = BigLoops' * Sleeper!INT_MAX' + LastTurns'
    BY <1>1, <1>5, <1>6, <2>1, <2>2, <2>7
  <2> HIDE DEF p, m, w
  <2>9. BigLoops' > 0 /\ us' = Asked' % Sleeper!PerLoop' /\ turns' \in 0 .. (Sleeper!Word' - 1)
    BY <1>1, <1>5, <2>1, <2>3, <2>6
  <2> QED
    BY <1>1, <1>3, <1>5, <2>1, <2>6, <2>8, <2>9 DEF SleepInv
<1> QED
  BY <1>1, <1>7, <1>8

LEMMA SleepTurn ==
  ASSUME SleepInv, Sleeper!Turn
  PROVE  SleepInv'
<1> DEFINE m == Sleeper!INT_MAX
           w == Sleeper!Word
           n == Sleeper!Minus1(turns)
<1>1. /\ running /\ turns' = n /\ running' = Sleeper!GoesOn(n) /\ spent' = spent + 1
      /\ sleeping' = sleeping /\ us' = us /\ big_loops' = big_loops /\ least' = least
  BY DEF Sleeper!Turn
<1>2. m \in Nat /\ w = 2 * m + 2 /\ w \in Nat
  BY IntFacts
<1>3. /\ us \in Nat /\ least \in Nat /\ spent \in Nat /\ spent + 1 \in Nat /\ big_loops \in Nat
      /\ sleeping # "no" => least = Asked * PerUs
      /\ sleeping \in {"big", "rest", "short"} /\ turns \in Nat
  BY <1>1 DEF SleepInv
<1>4. /\ Asked' = Asked /\ BigLoops' = BigLoops /\ Sleeper!PerLoop' = Sleeper!PerLoop
      /\ Sleeper!INT_MAX' = m /\ Sleeper!Word' = w
  BY <1>1, SameSleep
<1>5. LastTurns' = LastTurns /\ Made' = Made
  BY <1>1, <1>4 DEF LastTurns, Made
<1>6. turns \in 0 .. (w - 1)
  BY <1>1, <1>2, <1>3 DEF SleepInv
<1>7. n = IF turns = 0 THEN w - 1 ELSE turns - 1
  BY <1>6, CountsDown
<1>8. n \in Nat /\ n \in 0 .. (w - 1)
  BY <1>2, <1>6, <1>7
<1>9. /\ sleeping # "short" => (running' <=> n # 0)
      /\ sleeping = "short" => (running' <=> Sleeper!Signed(n) > 0)
  BY <1>1 DEF Sleeper!GoesOn
<1>10. running' \in BOOLEAN
  <2>1. CASE sleeping = "short"
    <3>1. running' = (Sleeper!Signed(n) > 0)
      BY <1>1, <2>1 DEF Sleeper!GoesOn
    <3> QED
      BY <3>1
  <2>2. CASE sleeping # "short"
    <3>1. running' = (n # 0)
      BY <1>1, <2>2 DEF Sleeper!GoesOn
    <3> QED
      BY <3>1
  <2> QED
    BY <2>1, <2>2
<1> HIDE DEF n
<1>11. CASE sleeping = "big"
  <2>1. /\ turns \in 1 .. m /\ spent + turns = Made * m /\ BigLoops > 0
        /\ big_loops <= BigLoops /\ us = Asked - Made * Sleeper!PerLoop
    BY <1>1, <1>11 DEF SleepInv
  <2>2. n = turns - 1 /\ spent' + n = spent + turns
    BY <1>1, <1>3, <1>7, <2>1
  <2>3. running' => turns' \in 1 .. m /\ spent' + turns' = Made * m
    BY <1>1, <1>2, <1>8, <1>9, <1>11, <2>1, <2>2
  <2>4. ~running' => spent' = Made * m
    BY <1>1, <1>3, <1>9, <1>11, <2>1, <2>2
  <2> HIDE DEF m, w
  <2> QED
    BY <1>1, <1>3, <1>4, <1>5, <1>8, <1>10, <1>11, <2>1, <2>3, <2>4 DEF SleepInv
<1>12. CASE sleeping = "rest"
  <2> DEFINE T == BigLoops * m + LastTurns
  <2>1. /\ BigLoops > 0 /\ us = Asked % Sleeper!PerLoop
        /\ spent + (IF turns = 0 THEN w ELSE turns) = T
    BY <1>1, <1>12 DEF SleepInv
  <2> HIDE DEF T
  <2>2. spent' + n = T
    BY <1>1, <1>2, <1>3, <1>7, <2>1
  <2>3. running' => spent' + (IF turns' = 0 THEN w ELSE turns') = T
    BY <1>1, <1>9, <1>12, <2>2
  <2>4. ~running' => spent' = T
    BY <1>1, <1>3, <1>9, <1>12, <2>2
  <2>5. T' = T
    BY <1>4, <1>5 DEF T
  <2>6. T' = BigLoops' * Sleeper!INT_MAX' + LastTurns'
    BY DEF T
  <2>7. turns' \in 0 .. (Sleeper!Word' - 1)
    BY <1>1, <1>4, <1>8
  <2> HIDE DEF m, w
  <2> QED
    BY <1>1, <1>3, <1>4, <1>8, <1>10, <1>12, <2>1, <2>3, <2>4, <2>5, <2>6, <2>7 DEF SleepInv
<1>13. CASE sleeping = "short"
  <2>1. /\ turns \in 0 .. m /\ spent + turns = least /\ (turns = 0 => us = 0)
        /\ us = Asked /\ Asked < Sleeper!PerLoop
    BY <1>1, <1>13 DEF SleepInv
  <2>2. CASE turns = 0
    <3>1. us = 0 /\ Asked = 0
      BY <2>1, <2>2
    <3>2. least = 0
      BY <1>3, <1>13, <3>1, IntFacts
    <3>3. spent' = 1
      BY <1>1, <1>3, <2>1, <2>2, <3>2
    <3>4. n = w - 1 /\ Sleeper!Signed(n) = -1
      BY <1>2, <1>7, <2>2 DEF Sleeper!Signed
    <3>5. ~running'
      BY <1>9, <1>13, <3>4
    <3> HIDE DEF m, w
    <3> QED
      BY <1>1, <1>3, <1>4, <1>8, <1>10, <1>13, <2>1, <3>1, <3>3, <3>5 DEF SleepInv
  <2>3. CASE turns # 0
    <3>1. n = turns - 1 /\ n \in 0 .. m /\ spent' + n = least
      BY <1>1, <1>2, <1>3, <1>7, <2>1, <2>3
    <3>2. Sleeper!Signed(n) = n
      BY <1>2, <3>1 DEF Sleeper!Signed
    <3>3. running' <=> n # 0
      <4>1. n > 0 <=> n # 0
        BY <1>8
      <4>2. running' <=> Sleeper!Signed(n) > 0
        BY <1>9, <1>13
      <4> QED
        BY <3>2, <4>1, <4>2
    <3>4. us # 0
      <4>1. SUFFICES ASSUME us = 0 PROVE FALSE
        OBVIOUS
      <4>2. least = 0
        BY <1>3, <1>13, <2>1, <4>1, IntFacts
      <4> QED
        BY <1>3, <2>1, <2>3, <4>2
    <3>5. running' => turns' \in 0 .. m /\ spent' + turns' = least' /\ turns' # 0
      BY <1>1, <3>1, <3>3
    <3>6. ~running' => spent' = least'
      BY <1>1, <1>3, <3>1, <3>3
    <3> HIDE DEF m, w
    <3> QED
      BY <1>1, <1>3, <1>4, <1>8, <1>10, <1>13, <2>1, <3>4, <3>5, <3>6 DEF SleepInv
  <2> QED
    BY <2>2, <2>3
<1> QED
  BY <1>3, <1>11, <1>12, <1>13

LEMMA SleepNext == SleepInv /\ [Next]_vars => SleepInv'
<1> SUFFICES ASSUME SleepInv, [Next]_vars PROVE SleepInv'
  OBVIOUS
<1>1. ASSUME UNCHANGED sleeper PROVE SleepInv'
  <2>1. UNCHANGED <<sleeping, us, big_loops, turns, running, least, spent>>
    BY <1>1 DEF sleeper
  <2>2. Made' = Made /\ LastTurns' = LastTurns
    BY <2>1, SameSleep DEF Made, LastTurns
  <2> QED
    BY <2>1, <2>2, SameSleep DEF SleepInv
<1>2. ASSUME Sleeper!Wake PROVE SleepInv'
  <2>1. sleeping' = "no" /\ ~running /\ UNCHANGED <<us, big_loops, turns, running, least, spent>>
    BY <1>2 DEF Sleeper!Wake
  <2> QED
    BY <2>1 DEF SleepInv
<1> QED
  BY <1>1, <1>2, SleepBegins, SleepBig, SleepLast, SleepTurn
     DEF Next, vars, Sleeper!Next, Sleeper!Main, NotLight, NotUart, NotPrinter, NotProfiler,
         NotCache, NotStamps, NotChannels

LEMMA SleepKept == SleepInv => Sleeper!SleepStep
<1> SUFFICES ASSUME SleepInv, Sleeper!Wake PROVE Sleeper!SleepStep
  BY DEF Sleeper!SleepStep
<1> DEFINE p == Sleeper!PerLoop
           m == Sleeper!INT_MAX
           w == Sleeper!Word
           r == m % PerUs
           rounding == BigLoops * r + (IF Asked = 0 THEN 1 ELSE 0)
           around == IF sleeping = "rest" /\ us = 0 THEN w ELSE 0
<1>1. sleeping \in {"rest", "short"} /\ ~running
  BY DEF Sleeper!Wake
<1>2. p \in Nat \ {0} /\ m \in Nat /\ PerUs \in Nat \ {0} /\ w \in Nat /\ r \in Nat
      /\ m = p * PerUs + r
  BY IntFacts
<1>3. Asked \in Nat /\ BigLoops \in Nat /\ Asked = BigLoops * p + (Asked % p)
      /\ Asked % p \in 0 .. (p - 1)
  BY SleepNumbers
<1>4. us \in Nat /\ least \in Nat /\ spent \in Nat /\ least = Asked * PerUs
  BY <1>1 DEF SleepInv
<1>5. BigLoops * r \in Nat
  BY <1>2, <1>3
<1>6. rounding \in Nat /\ around \in Nat
  BY <1>2, <1>5
<1>7. CASE sleeping = "short"
  <2>1. us = Asked /\ spent = IF us = 0 THEN 1 ELSE least
    BY <1>1, <1>7 DEF SleepInv
  <2>2. Asked = 0 => least = 0
    BY <1>2, <1>4
  <2>3. BigLoops = 0
    <3> DEFINE b == BigLoops
               e == Asked % p
    <3>1. Asked < p /\ b \in Nat /\ e \in Nat /\ Asked = b * p + e
      BY <1>1, <1>3, <1>7 DEF SleepInv
    <3> HIDE DEF p, b, e
    <3>2. CASE b >= 1
      <4>1. b * p >= 1 * p
        BY <1>2, <3>1, <3>2
      <4> QED
        BY <1>2, <1>3, <3>1, <4>1
    <3>3. CASE b = 0
      BY <3>3 DEF b
    <3> QED
      BY <3>1, <3>2, <3>3
  <2>4. rounding = (IF Asked = 0 THEN 1 ELSE 0) /\ around = 0
    BY <1>2, <1>7, <2>3
  <2> HIDE DEF rounding, around
  <2> QED
    <3>1. spent = least + rounding + around
      BY <1>4, <2>1, <2>2, <2>4
    <3> QED
      BY <3>1 DEF Sleeper!SleepStep, Asked, BigLoops, rounding, around
<1>8. CASE sleeping = "rest"
  <2>1. BigLoops > 0 /\ us = Asked % p /\ spent = BigLoops * m + LastTurns
    BY <1>1, <1>8 DEF SleepInv
  <2>2. Asked # 0
    <3>1. BigLoops * p \in Nat \ {0}
      BY <1>2, <1>3, <2>1
    <3> QED
      BY <1>3, <3>1
  <2>3. BigLoops * m = BigLoops * (p * PerUs) + BigLoops * r
    BY <1>2, <1>3
  <2>4. least = BigLoops * (p * PerUs) + us * PerUs
    <3> DEFINE A == BigLoops * p
    <3>1. A \in Nat /\ Asked = A + us /\ A * PerUs = BigLoops * (p * PerUs)
      BY <1>2, <1>3, <2>1
    <3> HIDE DEF A
    <3>2. (A + us) * PerUs = A * PerUs + us * PerUs
      BY <1>2, <1>4, <3>1
    <3> QED
      BY <1>4, <3>1, <3>2
  <2>5. spent = least + rounding + around
    <3> DEFINE A == BigLoops * (p * PerUs)
               B == BigLoops * r
               C == us * PerUs
    <3>1. A \in Nat /\ B \in Nat /\ C \in Nat /\ (us = 0 => C = 0)
      BY <1>2, <1>3, <1>4
    <3>2. spent = A + B + LastTurns /\ least = A + C
      BY <2>1, <2>3, <2>4
    <3>3. rounding = B /\ LastTurns = (IF us = 0 THEN w ELSE C)
          /\ around = (IF us = 0 THEN w ELSE 0)
      BY <1>5, <1>8, <2>2 DEF LastTurns
    <3> HIDE DEF A, B, C, rounding, around, w
    <3> QED
      BY <1>2, <3>1, <3>2, <3>3
  <2> HIDE DEF rounding, around
  <2> QED
    BY <2>5 DEF Sleeper!SleepStep, Asked, BigLoops, rounding, around
<1> QED
  BY <1>1, <1>7, <1>8

\* The widths of the busy sleep's variables: a rest is shorter than a big loop, and its
\* turns fit in the register.
SleepTypes ==
  /\ us <= Sleeper!Word - 1 /\ turns <= Sleeper!Word - 1
  /\ big_loops <= Sleeper!Word \div Sleeper!PerLoop

LEMMA SleepTypesStart == Init => SleepTypes
<1> SUFFICES ASSUME Sleeper!Init PROVE SleepTypes
  BY DEF Init
<1>1. Sleeper!Word \in Nat \ {0} /\ Sleeper!PerLoop \in Nat \ {0}
  BY IntFacts
<1>2. Sleeper!Word \div Sleeper!PerLoop \in Nat
  BY <1>1, DivModNat
<1> QED
  BY <1>1, <1>2 DEF Sleeper!Init, SleepTypes

LEMMA SleepTypesNext == SleepInv /\ SleepInv' /\ SleepTypes /\ [Next]_vars => SleepTypes'
<1> SUFFICES ASSUME SleepInv, SleepInv', SleepTypes, [Next]_vars PROVE SleepTypes'
  OBVIOUS
<1> DEFINE w == Sleeper!Word
           m == Sleeper!INT_MAX
           p == Sleeper!PerLoop
<1>1. w \in Nat /\ m \in Nat /\ p \in Nat \ {0} /\ w = 2 * m + 2
  BY IntFacts
<1>2. /\ us \in Nat /\ turns \in Nat /\ big_loops \in Nat
      /\ us' \in Nat /\ turns' \in Nat /\ big_loops' \in Nat
  BY DEF SleepInv
<1>3. us <= w - 1 /\ turns <= w - 1 /\ big_loops <= w \div p
  BY DEF SleepTypes
<1>4. SUFFICES us' <= w - 1 /\ turns' <= w - 1 /\ big_loops' <= w \div p
  BY DEF SleepTypes, Sleeper!Word, Sleeper!PerLoop, Sleeper!INT_MAX
<1>0. CASE UNCHANGED sleeper
  BY <1>0, <1>3 DEF sleeper
<1>5. ASSUME NEW n \in 0 .. w - 1, Sleeper!Sleep(n) PROVE us' <= w - 1 /\ turns' <= w - 1 /\ big_loops' <= w \div p
  <2>1. us' = n /\ turns' = turns /\ big_loops' = n \div p
    BY <1>5 DEF Sleeper!Sleep
  <2> HIDE DEF w, p
  <2>2. n \div p <= w \div p
    <3>1. n \in Nat /\ n <= w
      BY <1>1
    <3> QED
      BY <1>1, <3>1
  <2> QED
    BY <1>1, <1>3, <2>1, <2>2
<1>6. CASE Sleeper!BigLoop
  <2>1. turns' = m /\ big_loops' = big_loops - 1 /\ us' = us - p
    BY <1>6 DEF Sleeper!BigLoop
  <2> HIDE DEF w, p, m
  <2>2. w \div p \in Int
    BY <1>1
  <2> QED
    BY <1>1, <1>2, <1>3, <2>1, <2>2
<1>7. CASE Sleeper!LastLoop
  <2>1. turns' = us * PerUs /\ UNCHANGED <<us, big_loops>>
    BY <1>7 DEF Sleeper!LastLoop
  <2>2. us < p
    <3>1. CASE sleeping = "begin"
      BY <3>1 DEF SleepInv
    <3>2. CASE sleeping = "big" /\ big_loops = 0
      <4>1. /\ Asked \in Nat /\ BigLoops \in Nat /\ Asked = BigLoops * p + (Asked % p)
            /\ Asked % p \in 0 .. (p - 1)
        BY SleepNumbers
      <4>2. us = Asked - Made * p /\ Made = BigLoops - big_loops
        BY <3>2 DEF SleepInv, Made
      <4> DEFINE r == Asked % p
      <4> HIDE DEF p, r
      <4>3. Made = BigLoops
        BY <3>2, <4>1, <4>2
      <4>4. BigLoops * p \in Int
        BY <1>1, <4>1
      <4>5. us = r
        BY <4>1, <4>2, <4>3, <4>4 DEF r
      <4> QED
        BY <1>1, <4>1, <4>5 DEF r
    <3> QED
      BY <1>7, <3>1, <3>2 DEF Sleeper!LastLoop
  <2>3. us * PerUs <= m
    BY <1>2, <2>2, RestFits
  <2> HIDE DEF w, p, m
  <2> QED
    BY <1>1, <1>2, <1>3, <2>1, <2>3
<1>8. CASE Sleeper!Turn
  <2>1. turns' = (turns + w - 1) % w /\ UNCHANGED <<us, big_loops>>
    BY <1>8 DEF Sleeper!Turn, Sleeper!Minus1
  <2> HIDE DEF w, p
  <2>2. (turns + w - 1) % w \in 0 .. (w - 1)
    BY <1>1, <1>2
  <2> QED
    BY <1>1, <1>3, <2>1, <2>2
<1>9. CASE Sleeper!Wake
  BY <1>9, <1>3 DEF Sleeper!Wake
<1> QED
  BY <1>0, <1>5, <1>6, <1>7, <1>8, <1>9
     DEF Sleeper!Next, Sleeper!Main, Next, vars, NotLight, NotUart, NotPrinter, NotProfiler,
         NotCache, NotStamps, NotChannels

LEMMA SleepTyped == SleepInv /\ SleepTypes => Sleeper!DelayTypeOK
<1> SUFFICES ASSUME SleepInv, SleepTypes PROVE Sleeper!DelayTypeOK
  OBVIOUS
<1>1. Sleeper!Word \in Nat /\ Sleeper!Word \div Sleeper!PerLoop \in Int
  BY IntFacts
<1>2. /\ us \in Nat /\ turns \in Nat /\ big_loops \in Nat
      /\ sleeping \in {"no", "begin", "big", "rest", "short"}
  BY DEF SleepInv
<1> QED
  BY <1>1, <1>2 DEF SleepTypes, Sleeper!DelayTypeOK

-----------------------------------------------------------------------------
(* The timestamp *)

StampInv ==
  /\ counter \in 0 .. Stamps!Full /\ age \in Int /\ counter = Stamps!Full - age
  /\ snap \in 0 .. Stamps!Full /\ lower \in Int /\ taken \in Int
  /\ again \in BOOLEAN
  /\ reading # "idle" => again \/ snap = Stamps!Full - taken
  /\ reading = "upper" => again \/ lower = snap % Half

LEMMA FullIs == Stamps!Full \in Nat
<1>1. Half \in Nat \ {0}
  BY StampsAssumption
<1>2. Half * Half \in Nat /\ Half * Half >= 1
  BY <1>1
<1> QED
  BY <1>2 DEF Stamps!Full

LEMMA StampStarts == Init => StampInv
<1> SUFFICES ASSUME Init PROVE StampInv
  OBVIOUS
<1>1. /\ counter = Stamps!Full /\ age = 0 /\ snap = 0 /\ reading = "idle" /\ lower = 0
      /\ taken = 0 /\ again = FALSE
  BY DEF Init, Stamps!Init
<1>2. again \in BOOLEAN
  BY <1>1, Zenon
<1> QED
  BY <1>1, <1>2, FullIs DEF StampInv

LEMMA StampNext == StampInv /\ [Next]_vars => StampInv'
<1> SUFFICES ASSUME StampInv, [Next]_vars PROVE StampInv'
  OBVIOUS
<1> USE FullIs
<1>0. Stamps!Full' = Stamps!Full
  BY DEF Stamps!Full
<1>1. ASSUME UNCHANGED stamps PROVE StampInv'
  BY <1>0, <1>1 DEF StampInv, stamps
<1>2. ASSUME Stamps!Start PROVE StampInv'
  BY <1>0, <1>2 DEF StampInv, Stamps!Start
<1>3. ASSUME Stamps!Count PROVE StampInv'
  BY <1>0, <1>3 DEF StampInv, Stamps!Count
<1>4. ASSUME Stamps!Unavailable PROVE StampInv'
  BY <1>0, <1>4 DEF StampInv, Stamps!Unavailable, Stamps!timer
<1>5. ASSUME Stamps!Snapshot PROVE StampInv'
  BY <1>0, <1>5 DEF StampInv, Stamps!Snapshot, Stamps!timer
<1>6. ASSUME Stamps!ReadLower PROVE StampInv'
  <2>1. lower' = snap % Half /\ reading = "lower" /\ reading' = "upper"
        /\ UNCHANGED <<counter, run, age, snap, taken, again>>
    BY <1>6 DEF Stamps!ReadLower, Stamps!timer
  <2>2. snap % Half \in Int
    BY StampsAssumption DEF StampInv
  <2> QED
    BY <1>0, <2>1, <2>2 DEF StampInv
<1>7. ASSUME Stamps!ReadUpper PROVE StampInv'
  BY <1>0, <1>7 DEF StampInv, Stamps!ReadUpper, Stamps!timer
<1>8. ASSUME Stamps!HandlerReads PROVE StampInv'
  BY <1>0, <1>8 DEF StampInv, Stamps!HandlerReads, Stamps!timer
<1> QED
  BY <1>1, <1>2, <1>3, <1>4, <1>5, <1>6, <1>7, <1>8
     DEF Next, vars, Stamps!Next, NotLight, NotUart, NotPrinter, NotProfiler, NotCache,
         NotSleeper, NotChannels

LEMMA StampExact == StampInv /\ Stamps!ReadUpper => again \/ result' = taken
<1> SUFFICES ASSUME StampInv, Stamps!ReadUpper, ~again PROVE result' = taken
  OBVIOUS
<1>1. /\ result' = Stamps!Full - ((snap \div Half) * Half + lower)
      /\ lower = snap % Half /\ snap = Stamps!Full - taken /\ snap \in Nat /\ taken \in Int
  BY FullIs DEF StampInv, Stamps!ReadUpper
<1>2. Half \in Nat \ {0}
  BY StampsAssumption
<1>3. /\ snap \div Half \in Nat /\ snap % Half \in Int
      /\ snap = Half * (snap \div Half) + (snap % Half)
  <2>1. snap \in Nat /\ snap \in Int
    BY <1>1
  <2>2. snap \div Half \in Nat
    BY <1>2, <2>1, DivModNat
  <2>3. /\ snap % Half \in 0 .. (Half - 1)
        /\ snap = Half * (snap \div Half) + (snap % Half)
    BY <1>2, <2>1, DivMod
  <2> QED
    BY <1>2, <2>2, <2>3
<1>4. (snap \div Half) * Half = Half * (snap \div Half)
  BY <1>2, <1>3
<1> QED
  BY <1>1, <1>2, <1>3, <1>4, FullIs

\* The timestamp's halves and what it returns
StampTypes ==
  /\ result \in 0 .. Stamps!Full /\ lower \in 0 .. Half - 1 /\ age \in 0 .. Stamps!Full
  /\ reading \in {"idle", "lower", "upper"}

\* The halves of a snapshot, and the time they give
LEMMA Halves ==
  ASSUME NEW s \in 0 .. Stamps!Full, NEW l \in 0 .. Half - 1
  PROVE  /\ s % Half \in 0 .. Half - 1
         /\ Stamps!Full - ((s \div Half) * Half + l) \in 0 .. Stamps!Full
<1> DEFINE f == Stamps!Full
<1>1. Half \in Nat \ {0} /\ f \in Nat /\ f = Half * Half - 1 /\ Half * Half \in Nat
  BY StampsAssumption, FullIs DEF Stamps!Full
<1> HIDE DEF f
<1> DEFINE q == s \div Half
           r == s % Half
<1>2. s \in 0 .. f
  BY DEF f
<1>3. q \in Nat /\ r \in 0 .. Half - 1 /\ s = Half * q + r
  <2>1. s \in Int /\ s \in Nat
    BY <1>1, <1>2
  <2> QED
    BY <1>1, <2>1, DivMod, DivModNat
<1> HIDE DEF q, r
<1>4. q <= Half - 1
  <2>1. CASE q >= Half
    <3>1. Half * Half <= Half * q
      BY <1>1, <1>3, <2>1
    <3> QED
      BY <1>1, <1>2, <1>3, <3>1
  <2> QED
    BY <1>1, <1>3, <2>1
<1>5. q * Half <= Half * Half - Half /\ q * Half \in Nat
  <2>1. q * Half <= (Half - 1) * Half
    BY <1>1, <1>3, <1>4
  <2>2. (Half - 1) * Half = Half * Half - Half
    BY <1>1
  <2> QED
    BY <1>1, <1>3, <2>1, <2>2
<1>6. f - (q * Half + l) \in 0 .. f
  BY <1>1, <1>5
<1> QED
  BY <1>3, <1>6 DEF q, r, f

LEMMA StampTypesStart == Init => StampTypes
<1> SUFFICES ASSUME Stamps!Init PROVE StampTypes
  BY DEF Init
<1> QED
  BY FullIs, StampsAssumption DEF Stamps!Init, StampTypes

LEMMA StampTypesNext == StampInv /\ StampInv' /\ StampTypes /\ [Next]_vars => StampTypes'
<1> SUFFICES ASSUME StampInv, StampInv', StampTypes, [Next]_vars PROVE StampTypes'
  OBVIOUS
<1>1. Stamps!Full' = Stamps!Full /\ Stamps!Full \in Nat /\ snap \in 0 .. Stamps!Full
  BY FullIs DEF Stamps!Full, StampInv
<1>2. age' \in 0 .. Stamps!Full
  <2>1. /\ age' \in Int /\ counter' \in 0 .. Stamps!Full'
        /\ counter' = Stamps!Full' - age'
    BY DEF StampInv
  <2>2. /\ age' \in Int /\ counter' \in 0 .. Stamps!Full /\ counter' = Stamps!Full - age'
    BY <1>1, <2>1
  <2>3. ASSUME NEW f \in Nat, NEW a \in Int, NEW c \in 0 .. f, c = f - a PROVE a \in 0 .. f
    BY <2>3
  <2> QED
    BY <1>1, <2>2, <2>3
<1>3. /\ result' \in 0 .. Stamps!Full /\ lower' \in 0 .. Half - 1
      /\ reading' \in {"idle", "lower", "upper"}
  <2>0. CASE UNCHANGED stamps
    BY <2>0 DEF stamps, StampTypes
  <2>1. CASE Stamps!Start \/ Stamps!Count \/ Stamps!Snapshot \/ Stamps!HandlerReads
    BY <2>1 DEF Stamps!Start, Stamps!Count, Stamps!Snapshot, Stamps!HandlerReads, StampTypes
  <2>2. CASE Stamps!Unavailable
    BY <1>1, <2>2 DEF Stamps!Unavailable, StampTypes
  <2>3. CASE Stamps!ReadLower
    <3>1. lower' = snap % Half /\ reading' = "upper" /\ result' = result
      BY <2>3 DEF Stamps!ReadLower
    <3>2. snap % Half \in 0 .. Half - 1
      BY <1>1, Halves DEF StampTypes
    <3> QED
      BY <3>1, <3>2 DEF StampTypes
  <2>4. CASE Stamps!ReadUpper
    <3>1. /\ lower' = lower /\ reading' = "idle"
          /\ result' = Stamps!Full - ((snap \div Half) * Half + lower)
      BY <2>4 DEF Stamps!ReadUpper
    <3>2. Stamps!Full - ((snap \div Half) * Half + lower) \in 0 .. Stamps!Full
      BY <1>1, Halves DEF StampTypes
    <3> QED
      BY <3>1, <3>2 DEF StampTypes
  <2> QED
    BY <2>0, <2>1, <2>2, <2>3, <2>4
       DEF Stamps!Next, Next, vars, NotLight, NotUart, NotPrinter, NotProfiler, NotCache,
           NotSleeper, NotChannels
<1> QED
  BY <1>1, <1>2, <1>3 DEF StampTypes

LEMMA StampTyped == StampInv /\ StampTypes => Stamps!TimestampTypeOK
BY DEF StampInv, StampTypes, Stamps!TimestampTypeOK

\* While the timer runs the snapshots of one call lie between now and the call's own.
LaterInv ==
  run /\ reading # "idle" =>
    /\ counter <= snap /\ snap <= Stamps!Full - taken
    /\ reading = "upper" => (snap \div Half) * Half + lower <= Stamps!Full - taken

LEMMA LaterStarts == Init => LaterInv
  BY DEF Init, Stamps!Init, LaterInv

\* The upper half of an earlier count is not the larger.
LEMMA HalfGrows ==
  ASSUME NEW c \in Nat, NEW d \in Nat, c <= d
  PROVE  /\ (c \div Half) * Half \in Nat /\ (d \div Half) * Half \in Nat
         /\ (c \div Half) * Half <= (d \div Half) * Half
         /\ d = (d \div Half) * Half + (d % Half) /\ d % Half \in 0 .. Half - 1
<1> DEFINE h == Half
           a == c \div h
           b == d \div h
           e == c % h
           f == d % h
<1>1. h \in Nat \ {0}
  BY StampsAssumption
<1>2. a \in Nat /\ e \in 0 .. (h - 1) /\ c = h * a + e
  <2>1. c \in Int
    OBVIOUS
  <2> QED
    BY <1>1, <2>1, DivMod, DivModNat
<1>3. b \in Nat /\ f \in 0 .. (h - 1) /\ d = h * b + f
  <2>1. d \in Int
    OBVIOUS
  <2> QED
    BY <1>1, <2>1, DivMod, DivModNat
<1> HIDE DEF a, b, e, f, h
<1>4. a * h = h * a /\ b * h = h * b /\ a * h \in Nat /\ b * h \in Nat
  BY <1>1, <1>2, <1>3
<1>5. a <= b
  <2>1. CASE a >= b + 1
    <3>1. h * a >= h * (b + 1)
      BY <1>1, <1>2, <1>3, <2>1
    <3>2. h * (b + 1) = h * b + h
      BY <1>1, <1>3
    <3> QED
      BY <1>1, <1>2, <1>3, <1>4, <3>1, <3>2
  <2> QED
    BY <1>2, <1>3, <2>1
<1>6. a * h <= b * h
  BY <1>1, <1>2, <1>3, <1>5
<1> QED
  BY <1>3, <1>4, <1>6 DEF a, b, f, h

LEMMA LaterNext == StampInv /\ StampTypes /\ LaterInv /\ [Next]_vars => LaterInv'
<1> SUFFICES ASSUME StampInv, StampTypes, LaterInv, [Next]_vars PROVE LaterInv'
  OBVIOUS
<1> DEFINE full == Stamps!Full
<1>0. /\ full' = full /\ full \in Nat /\ counter \in 0 .. full /\ snap \in 0 .. full
      /\ counter = full - age /\ taken \in Int /\ age \in Int
  BY FullIs DEF StampInv, Stamps!Full
<1>1. ASSUME UNCHANGED stamps PROVE LaterInv'
  BY <1>0, <1>1 DEF LaterInv, stamps
<1>2. ASSUME Stamps!Start PROVE LaterInv'
  BY <1>2 DEF LaterInv, Stamps!Start
<1>3. ASSUME Stamps!Count PROVE LaterInv'
  <2>1. /\ run /\ snap' = snap /\ taken' = taken /\ lower' = lower /\ reading' = reading
        /\ (run' => counter # 0) /\ (counter # 0 => counter' = counter - 1)
    BY <1>3 DEF Stamps!Count
  <2> QED
    BY <1>0, <2>1 DEF LaterInv
<1>4. ASSUME Stamps!Unavailable PROVE LaterInv'
  BY <1>4 DEF LaterInv, Stamps!Unavailable
<1>5. ASSUME Stamps!Snapshot PROVE LaterInv'
  <2>1. snap' = counter /\ counter' = counter /\ taken' = age /\ reading' = "lower"
    BY <1>5 DEF Stamps!Snapshot, Stamps!timer
  <2>2. counter' <= snap' /\ snap' <= full - taken'
    BY <1>0, <2>1
  <2> QED
    BY <1>0, <2>1, <2>2 DEF LaterInv
<1>6. ASSUME Stamps!ReadLower PROVE LaterInv'
  <2>1. /\ lower' = snap % Half /\ reading = "lower"
        /\ run' = run /\ counter' = counter /\ snap' = snap /\ taken' = taken
    BY <1>6 DEF Stamps!ReadLower, Stamps!timer
  <2>2. snap = (snap \div Half) * Half + (snap % Half)
    BY <1>0, HalfGrows
  <2> QED
    BY <1>0, <2>1, <2>2 DEF LaterInv
<1>7. ASSUME Stamps!ReadUpper PROVE LaterInv'
  BY <1>7 DEF LaterInv, Stamps!ReadUpper
<1>8. ASSUME Stamps!HandlerReads PROVE LaterInv'
  <2>1. /\ snap' = counter /\ lower' = lower /\ reading' = reading
        /\ run' = run /\ counter' = counter /\ taken' = taken /\ reading # "idle"
    BY <1>8 DEF Stamps!HandlerReads, Stamps!timer
  <2> SUFFICES ASSUME run
               PROVE  /\ counter <= counter /\ counter <= full - taken
                      /\ reading = "upper"
                           => (counter \div Half) * Half + lower <= full - taken
    BY <1>0, <2>1 DEF LaterInv
  <2>2. /\ counter <= snap /\ snap <= full - taken
        /\ reading = "upper" => (snap \div Half) * Half + lower <= full - taken
    BY <2>1 DEF LaterInv
  <2>3. /\ (counter \div Half) * Half \in Nat /\ (snap \div Half) * Half \in Nat
        /\ (counter \div Half) * Half <= (snap \div Half) * Half
    BY <1>0, <2>2, HalfGrows
  <2>4. lower \in Int
    BY DEF StampInv
  <2> HIDE DEF full
  <2> QED
    BY <1>0, <2>2, <2>3, <2>4
<1> QED
  BY <1>1, <1>2, <1>3, <1>4, <1>5, <1>6, <1>7, <1>8
     DEF Next, vars, Stamps!Next, NotLight, NotUart, NotPrinter, NotProfiler, NotCache,
         NotSleeper, NotChannels

LEMMA StampKept == StampInv /\ StampTypes /\ LaterInv => Stamps!StampStep
<1> SUFFICES ASSUME StampInv, StampTypes, LaterInv, Stamps!ReadUpper, run
             PROVE  result' \in taken .. age + Half - 1
  BY StampExact DEF Stamps!StampStep
<1> DEFINE full == Stamps!Full
           u == (snap \div Half) * Half
<1>1. /\ full \in Nat /\ counter \in 0 .. full /\ snap \in 0 .. full
      /\ counter = full - age /\ taken \in Int /\ age \in Int
  BY FullIs DEF StampInv
<1>2. result' = full - (u + lower) /\ reading = "upper"
  BY DEF Stamps!ReadUpper
<1>3. counter <= snap /\ u + lower <= full - taken
  BY <1>2 DEF LaterInv
<1>4. u \in Nat /\ snap = u + (snap % Half) /\ snap % Half \in 0 .. Half - 1
  BY <1>1, HalfGrows
<1>5. lower \in 0 .. Half - 1 /\ Half \in Nat \ {0}
  BY StampsAssumption DEF StampTypes
<1> DEFINE g == snap % Half
<1> HIDE DEF full, u, g
<1>6. snap = u + g /\ g \in 0 .. Half - 1
  BY <1>4 DEF g
<1>7. result' \in Int /\ result' >= taken
  BY <1>1, <1>2, <1>3, <1>4, <1>5
<1>8. result' <= age + Half - 1
  BY <1>1, <1>2, <1>3, <1>4, <1>5, <1>6
<1> QED
  BY <1>1, <1>5, <1>7, <1>8

-----------------------------------------------------------------------------
(* The device channels *)

Registered == 1 .. Len(since)
Listed(k) == 1 .. Len(list[k])

\* Each list holds the devices of its kind, the one registered last in front.
ListsInv ==
  /\ since \in Seq(Devices) /\ list \in [Dma!Kinds -> Seq(Devices)]
  /\ \A p, q \in Registered : since[p] = since[q] => p = q
  /\ \A k \in Dma!Kinds : \A n \in Listed(k) :
        list[k][n].kind = k /\ \E p \in Registered : since[p] = list[k][n]
  /\ \A p \in Registered : \E n \in Listed(since[p].kind) : list[since[p].kind][n] = since[p]
  /\ \A k \in Dma!Kinds : \A n, m \in Listed(k) : \A p, q \in Registered :
        n < m /\ since[p] = list[k][n] /\ since[q] = list[k][m] => q < p

LEMMA KindsAre ==
  /\ Dma!Kinds = {"rx", "tx", "flash"}
  /\ \A d \in Devices : d.kind \in Dma!Kinds /\ d # NULL
  /\ \A d \in Dma!Channels : d \in Devices /\ d.depth \in Nat
  /\ \A d \in Devices : d.kind \in {"rx", "tx"} => d \in Dma!Channels
BY ChannelsAssumption DEF Dma!Kinds, Dma!Channel, Dma!Channels

LEMMA ListsStart == Init => ListsInv
<1> SUFFICES ASSUME Init PROVE ListsInv
  OBVIOUS
<1>1. list = [k \in Dma!Kinds |-> << >>] /\ since = << >>
  BY DEF Init, Dma!Init
<1>2. since \in Seq(Devices) /\ Registered = {}
  BY <1>1 DEF Registered
<1>3. list \in [Dma!Kinds -> Seq(Devices)]
  BY <1>1
<1>4. \A k \in Dma!Kinds : Listed(k) = {}
  BY <1>1 DEF Listed
<1> QED
  BY <1>2, <1>3, <1>4 DEF ListsInv

LEMMA ListsInsert ==
  ASSUME ListsInv, NEW d \in Devices, \A n \in DOMAIN since : since[n] # d,
         Dma!Insert(d), since' = Append(since, d)
  PROVE  ListsInv'
<1> DEFINE c == d.kind
           L == list[c]
           M == <<d>> \o L
           s == Len(since)
<1>1. /\ since \in Seq(Devices) /\ list \in [Dma!Kinds -> Seq(Devices)]
      /\ c \in Dma!Kinds /\ s \in Nat
  BY KindsAre DEF ListsInv
<1>2. L \in Seq(Devices) /\ Len(L) \in Nat
  BY <1>1
<1>3. /\ list' = [list EXCEPT ![c] = M]
  BY DEF Dma!Insert
<1>4. /\ M \in Seq(Devices) /\ Len(M) = Len(L) + 1 /\ M[1] = d
      /\ \A n \in 1 .. Len(L) : M[n + 1] = L[n]
  <2> HIDE DEF L
  <2>1. <<d>> \in Seq(Devices) /\ Len(<<d>>) = 1
    OBVIOUS
  <2>2. M \in Seq(Devices) /\ Len(M) = 1 + Len(L)
    BY <1>2, <2>1, ConcatProperties
  <2>3. M[1] = d
    BY <1>2
  <2>4. ASSUME NEW n \in 1 .. Len(L) PROVE M[n + 1] = L[n]
    BY <1>2
  <2> QED
    BY <1>2, <2>2, <2>3, <2>4
<1> HIDE DEF M, L, c
<1>5. /\ since' \in Seq(Devices) /\ Len(since') = s + 1 /\ since'[s + 1] = d
      /\ \A p \in 1 .. s : since'[p] = since[p]
  BY <1>1
<1>6. list' \in [Dma!Kinds -> Seq(Devices)] /\ list'[c] = M
      /\ \A k \in Dma!Kinds : k # c => list'[k] = list[k]
  BY <1>1, <1>3, <1>4
<1>7. \A p \in 1 .. s : since[p] # d
  BY <1>1
\* What was in a list is where it was, but for the place in front.
<1>8. ASSUME NEW k \in Dma!Kinds
      PROVE  /\ k # c => Listed(k)' = Listed(k) /\ \A n \in Listed(k) : list'[k][n] = list[k][n]
             /\ k = c => Listed(k)' = 1 .. (Len(L) + 1) /\ Listed(k) = 1 .. Len(L)
  BY <1>4, <1>6 DEF Listed, L
<1>9. Registered' = 1 .. (s + 1) /\ Registered = 1 .. s
  BY <1>5 DEF Registered
<1>10. ASSUME NEW k \in Dma!Kinds, NEW n \in Listed(k)
       PROVE  /\ list[k][n].kind = k /\ list[k][n] # d
              /\ \E p \in 1 .. s : since[p] = list[k][n]
  BY <1>7, <1>9 DEF ListsInv
\* Every place of a new list holds the new device or what an old place held.
<1>11. ASSUME NEW k \in Dma!Kinds, NEW n \in Listed(k)'
       PROVE  \/ k = c /\ n = 1 /\ list'[k][n] = d
              \/ k = c /\ n > 1 /\ n - 1 \in Listed(k) /\ list'[k][n] = list[k][n - 1]
              \/ k # c /\ n \in Listed(k) /\ list'[k][n] = list[k][n]
  <2>1. CASE k # c
    BY <1>8, <2>1
  <2>2. CASE k = c /\ n = 1
    BY <1>4, <1>6, <2>2
  <2>3. CASE k = c /\ n # 1
    <3>1. n \in 1 .. (Len(L) + 1) /\ n > 1
      BY <1>2, <1>8, <2>3
    <3>2. n - 1 \in 1 .. Len(L) /\ (n - 1) + 1 = n
      BY <1>2, <3>1
    <3>3. M[n] = L[n - 1]
      BY <1>4, <3>2
    <3> QED
      BY <1>6, <1>8, <2>3, <3>1, <3>2, <3>3 DEF L
  <2> QED
    BY <2>1, <2>2, <2>3
<1>12. \A p, q \in Registered' : since'[p] = since'[q] => p = q
  <2>1. \A p, q \in 1 .. s : since[p] = since[q] => p = q
    BY <1>9 DEF ListsInv
  <2> QED
    BY <1>1, <1>5, <1>7, <1>9, <2>1
<1>13. ASSUME NEW k \in Dma!Kinds, NEW n \in Listed(k)'
       PROVE  list'[k][n].kind = k /\ \E p \in Registered' : since'[p] = list'[k][n]
  <2>1. CASE list'[k][n] = d /\ k = c
    <3>1. s + 1 \in Registered' /\ since'[s + 1] = d
      BY <1>1, <1>5, <1>9
    <3> QED
      BY <2>1, <3>1 DEF c
  <2>2. ASSUME NEW m \in Listed(k), list'[k][n] = list[k][m]
        PROVE  list'[k][n].kind = k /\ \E p \in Registered' : since'[p] = list'[k][n]
    <3>1. PICK p \in 1 .. s : since[p] = list[k][m]
      BY <1>10
    <3>2. p \in Registered' /\ since'[p] = list[k][m]
      BY <1>1, <1>5, <1>9, <3>1
    <3> QED
      BY <1>10, <2>2, <3>2
  <2> QED
    BY <1>11, <2>1, <2>2
<1>14. ASSUME NEW p \in Registered'
       PROVE  \E n \in Listed(since[p].kind)' : list'[since'[p].kind][n] = since'[p]
  <2>1. CASE p = s + 1
    <3>1. since'[p] = d /\ 1 \in Listed(c)' /\ list'[c][1] = d
      BY <1>1, <1>2, <1>4, <1>5, <1>6, <1>8, <2>1
    <3>2. Listed(since[p].kind)' = Listed(c)'
      BY <3>1 DEF Listed, c
    <3> QED
      BY <3>1, <3>2 DEF c
  <2>2. CASE p # s + 1
    <3> DEFINE k == since[p].kind
    <3>1. p \in 1 .. s /\ since'[p] = since[p] /\ k \in Dma!Kinds
      BY <1>1, <1>5, <1>9, <2>2, KindsAre
    <3>2. PICK n \in Listed(k) : list[k][n] = since[p]
      BY <1>9, <3>1 DEF ListsInv
    <3>3. Listed(since[p].kind)' = Listed(k)'
      BY <3>1 DEF Listed
    <3>4. CASE k = c
      <4>1. n \in 1 .. Len(L) /\ n + 1 \in Listed(k)'
        BY <1>2, <1>8, <3>1, <3>4
      <4>2. list'[k][n + 1] = list[k][n]
        BY <1>4, <1>6, <3>4, <4>1 DEF L
      <4> QED
        BY <3>1, <3>2, <3>3, <4>1, <4>2
    <3>5. CASE k # c
      <4>1. n \in Listed(k)' /\ list'[k][n] = list[k][n]
        BY <1>8, <3>1, <3>5
      <4> QED
        BY <3>1, <3>2, <3>3, <4>1
    <3> QED
      BY <3>4, <3>5
  <2> QED
    BY <2>1, <2>2
<1>15. ASSUME NEW k \in Dma!Kinds, NEW n \in Listed(k)', NEW m \in Listed(k)',
              NEW p \in Registered', NEW q \in Registered',
              n < m, since'[p] = list'[k][n], since'[q] = list'[k][m]
       PROVE  q < p
  <2>1. ASSUME NEW x \in Listed(k), list'[k][m] = list[k][x]
        PROVE  q \in 1 .. s /\ since[q] = list[k][x]
    <3>1. since'[q] # d
      BY <1>10, <1>15, <2>1
    <3>2. q # s + 1
      BY <1>5, <3>1
    <3> QED
      BY <1>1, <1>5, <1>9, <1>15, <2>1, <3>2
  <2>2. ASSUME NEW x \in Listed(k), list'[k][n] = list[k][x]
        PROVE  p \in 1 .. s /\ since[p] = list[k][x]
    <3>1. since'[p] # d
      BY <1>10, <1>15, <2>2
    <3>2. p # s + 1
      BY <1>5, <3>1
    <3> QED
      BY <1>1, <1>5, <1>9, <1>15, <2>2, <3>2
  <2>3. ASSUME NEW x \in Listed(k), NEW y \in Listed(k), x < y,
               list'[k][n] = list[k][x], list'[k][m] = list[k][y]
        PROVE  q < p
    <3>1. p \in Registered /\ since[p] = list[k][x] /\ q \in Registered /\ since[q] = list[k][y]
      BY <1>9, <2>1, <2>2, <2>3
    <3> QED
      BY <2>3, <3>1 DEF ListsInv
  <2>4. CASE k # c
    <3>1. n \in Listed(k) /\ list'[k][n] = list[k][n] /\ m \in Listed(k) /\ list'[k][m] = list[k][m]
      BY <1>8, <2>4
    <3> QED
      BY <1>15, <2>3, <3>1
  <2>5. CASE k = c /\ n = 1
    <3>1. m - 1 \in Listed(k) /\ list'[k][m] = list[k][m - 1]
      BY <1>11, <1>15, <2>5
    <3>2. q \in 1 .. s
      BY <2>1, <3>1
    <3>3. since'[p] = d
      BY <1>4, <1>6, <1>15, <2>5
    <3>4. p = s + 1
      BY <1>1, <1>5, <1>7, <1>9, <3>3
    <3> QED
      BY <1>1, <3>2, <3>4
  <2>6. CASE k = c /\ n # 1
    <3>1. /\ n - 1 \in Listed(k) /\ list'[k][n] = list[k][n - 1]
          /\ m - 1 \in Listed(k) /\ list'[k][m] = list[k][m - 1]
      BY <1>2, <1>8, <1>11, <1>15, <2>6
    <3>2. n - 1 < m - 1
      BY <1>2, <1>8, <1>15, <2>6
    <3> QED
      BY <2>3, <3>1, <3>2
  <2> QED
    BY <2>4, <2>5, <2>6
<1>16. \A k \in Dma!Kinds : \A n \in Listed(k)' :
          list'[k][n].kind = k /\ \E p \in Registered' : since'[p] = list'[k][n]
  BY <1>13, Zenon
<1>17. \A p \in Registered' :
          \E n \in Listed(since[p].kind)' : list'[since'[p].kind][n] = since'[p]
  BY <1>14, Zenon
<1>18. \A k \in Dma!Kinds : \A n, m \in Listed(k)' : \A p, q \in Registered' :
          n < m /\ since'[p] = list'[k][n] /\ since'[q] = list'[k][m] => q < p
  BY <1>15, Zenon
<1>19. Dma!Kinds' = Dma!Kinds
  BY DEF Dma!Kinds, Dma!Channel
<1> QED
  BY <1>5, <1>6, <1>12, <1>16, <1>17, <1>18, <1>19, Zenon DEF ListsInv

\* The device that alt_find_dev finds first is the one registered last.
LEMMA FoundNewest ==
  ASSUME ListsInv, NEW k \in Dma!Kinds, NEW name
  PROVE  /\ Dma!Found(k, name) = Dma!Newest(k, name)
         /\ Dma!Found(k, name) # NULL =>
              Dma!Found(k, name) \in Devices /\ Dma!Found(k, name).kind = k
<1> DEFINE Near == {n \in DOMAIN list[k] : list[k][n].name = name}
           Late == {p \in DOMAIN since : since[p].kind = k /\ since[p].name = name}
<1>1. /\ since \in Seq(Devices) /\ list[k] \in Seq(Devices)
      /\ Len(since) \in Nat /\ Len(list[k]) \in Nat
      /\ DOMAIN since = Registered /\ DOMAIN list[k] = Listed(k)
  BY DEF ListsInv, Registered, Listed
<1>2. ASSUME NEW n \in Near
      PROVE  \E p \in Late : since[p] = list[k][n]
  <2>1. n \in Listed(k) /\ list[k][n].name = name
    BY <1>1
  <2>2. PICK p \in Registered : since[p] = list[k][n]
    BY <2>1 DEF ListsInv
  <2>3. list[k][n].kind = k
    BY <2>1 DEF ListsInv
  <2> QED
    BY <1>1, <2>1, <2>2, <2>3
<1>3. ASSUME NEW p \in Late
      PROVE  \E n \in Near : list[k][n] = since[p]
  <2>1. p \in Registered /\ since[p].kind = k /\ since[p].name = name
    BY <1>1
  <2>2. PICK n \in Listed(k) : list[k][n] = since[p]
    BY <2>1 DEF ListsInv
  <2> QED
    BY <1>1, <2>1, <2>2
<1>4. CASE Near = {}
  <2>1. Late = {}
    BY <1>3, <1>4
  <2>2. Dma!Found(k, name) = NULL
    BY <1>4 DEF Dma!Found
  <2>3. Dma!Newest(k, name) = NULL
    BY <2>1 DEF Dma!Newest
  <2> QED
    BY <2>2, <2>3
<1>5. CASE Near # {}
  <2>1. Late # {}
    <3> HIDE DEF Near, Late
    <3> QED
      BY <1>2, <1>5
  <2> DEFINE a == CHOOSE n \in Near : \A m \in Near : n <= m
             b == CHOOSE n \in Late : \A m \in Late : m <= n
  <2>2. a \in Near /\ \A m \in Near : a <= m
    <3>1. Near \in SUBSET Nat
      BY <1>1 DEF Listed
    <3> HIDE DEF Near
    <3> QED
      BY <1>5, <3>1, Least
  <2>3. b \in Late /\ \A m \in Late : m <= b
    <3>1. Late \in SUBSET (0 .. Len(since))
      BY <1>1 DEF Registered
    <3> HIDE DEF Late
    <3>2. \E n \in Late : \A m \in Late : m <= n
      BY <1>1, <2>1, <3>1, Greatest
    <3> QED
      BY <3>2
  <2>4. Dma!Found(k, name) = list[k][a]
    BY <1>5 DEF Dma!Found
  <2>5. Dma!Newest(k, name) = since[b]
    BY <2>1 DEF Dma!Newest
  <2>6. a \in Listed(k) /\ b \in Registered /\ list[k][a] \in Devices /\ list[k][a].kind = k
    <3>1. a \in Listed(k) /\ b \in Registered
      BY <1>1, <2>2, <2>3
    <3> HIDE DEF a, b
    <3> QED
      BY <1>1, <3>1 DEF ListsInv, Listed
  <2> HIDE DEF Near, Late, a, b
  <2>7. PICK p \in Late : since[p] = list[k][a]
    BY <1>2, <2>2
  <2>8. PICK n \in Near : list[k][n] = since[b]
    BY <1>3, <2>3
  <2>9. n \in Listed(k) /\ p \in Registered /\ a \in Nat /\ n \in Nat /\ p \in Nat /\ b \in Nat
        /\ a <= n /\ p <= b
    BY <1>1, <2>2, <2>3, <2>6, <2>7, <2>8 DEF Near, Late, Listed, Registered
  <2>10. list[k][a] = since[b]
    <3>1. CASE a = n
      BY <2>8, <3>1
    <3>2. CASE a < n
      <4>1. b < p
        BY <2>6, <2>7, <2>8, <2>9, <3>2 DEF ListsInv
      <4> QED
        BY <2>9, <4>1
    <3> QED
      BY <2>9, <3>1, <3>2
  <2> QED
    BY <2>4, <2>5, <2>6, <2>10
<1> QED
  BY <1>4, <1>5

\* What the program holds is a device of the kind it asked for, a driver holds no more
\* than it has room for, and the room seen is there.
HoldsInv ==
  /\ handle \in [Dma!Kinds -> Devices \cup {NULL}]
  /\ \A k \in Dma!Kinds : handle[k] # NULL => handle[k].kind = k
  /\ posted \in [Dma!Channels -> Int]
  /\ \A d \in Dma!Channels : posted[d] \in 0 .. d.depth
  /\ accepted \in Int /\ seen \in Int /\ forwarded \in Nat
  /\ Dma!RoomKept

DmaInv == ListsInv /\ HoldsInv

LEMMA DmaStarts == Init => DmaInv
<1> SUFFICES ASSUME Init PROVE HoldsInv
  BY ListsStart DEF DmaInv
<1>1. /\ handle = [k \in Dma!Kinds |-> NULL]
      /\ posted = [d \in Dma!Channels |-> 0] /\ accepted = 0 /\ seen = 0 /\ forwarded = 0
  BY DEF Init, Dma!Init
<1>2. \A k \in Dma!Kinds : handle[k] = NULL
  BY <1>1
<1>3. handle["tx"] = NULL
  BY <1>2, KindsAre
<1>4. \A d \in Dma!Channels : posted[d] \in 0 .. d.depth
  BY <1>1, KindsAre
<1> QED
  BY <1>1, <1>2, <1>3, <1>4 DEF HoldsInv, Dma!RoomKept

\* A program opens or forgets a device.
LEMMA OpenedKeeps ==
  ASSUME HoldsInv, NEW k \in Dma!Kinds, NEW d \in Devices \cup {NULL},
         d # NULL => d.kind = k,
         Dma!Opened(k, d)
  PROVE  HoldsInv'
<1>1. /\ handle' = [handle EXCEPT ![k] = d] /\ seen' = IF k = "tx" THEN 0 ELSE seen
      /\ UNCHANGED <<posted, accepted, forwarded>>
  BY DEF Dma!Opened, Dma!holds
<1>2. /\ handle' \in [Dma!Kinds -> Devices \cup {NULL}]
      /\ handle'[k] = d /\ \A c \in Dma!Kinds : c # k => handle'[c] = handle[c]
  BY <1>1 DEF HoldsInv
<1>3. \A c \in Dma!Kinds : handle'[c] # NULL => handle'[c].kind = c
  BY <1>2 DEF HoldsInv
<1>4. "tx" \in Dma!Kinds
  BY KindsAre
<1>5. Dma!RoomKept'
  <2>1. CASE k = "tx"
    <3> SUFFICES ASSUME d # NULL PROVE seen' - forwarded' <= d.depth - posted'[d]
      BY <1>2, <2>1 DEF Dma!RoomKept, Dma!Room
    <3>1. d \in Dma!Channels /\ d.depth \in Nat
      BY <2>1, KindsAre
    <3>2. posted[d] \in 0 .. d.depth /\ forwarded \in Nat
      BY <3>1 DEF HoldsInv
    <3> QED
      BY <1>1, <2>1, <3>1, <3>2
  <2>2. CASE k # "tx"
    <3>1. handle'["tx"] = handle["tx"] /\ seen' = seen
      BY <1>1, <1>2, <1>4, <2>2
    <3> QED
      BY <1>1, <3>1 DEF HoldsInv, Dma!RoomKept, Dma!Room
  <2> QED
    BY <2>1, <2>2
<1>6. seen' \in Int
  BY <1>1 DEF HoldsInv
<1>7. Dma!Channels' = Dma!Channels /\ Dma!Kinds' = Dma!Kinds
  BY DEF Dma!Channels, Dma!Kinds, Dma!Channel
<1> QED
  BY <1>1, <1>2, <1>3, <1>5, <1>6, <1>7 DEF HoldsInv

\* The room bound after a request was taken, or not: d is what the channel had.
LEMMA RoomSum ==
  ASSUME NEW a \in Int, NEW b \in Int, NEW m \in Int, NEW p \in Int,
         NEW o \in Int, NEW q \in Int, NEW w \in Int,
         a <= b - w, b <= m - p, o <= p, q = o + w
  PROVE  a <= m - q
OBVIOUS

\* A driver takes a request, or not.
LEMMA DriverKeeps ==
  ASSUME HoldsInv, NEW k \in {"rx", "tx"}, NEW held \in [Dma!Channels -> Int],
         \A d \in Dma!Channels : held[d] \in 0 .. d.depth /\ held[d] <= posted[d],
         Dma!Driver(handle[k], held), handle' = handle,
         IF k = "tx" /\ Dma!Taken THEN seen' - forwarded' <= seen - forwarded - 1
                                  ELSE seen' - forwarded' <= seen - forwarded,
         seen' \in Int, forwarded' \in Nat
  PROVE  HoldsInv'
<1> DEFINE h == handle[k]
<1>1. k \in Dma!Kinds /\ "tx" \in Dma!Kinds
  BY KindsAre
<1>2. h = NULL \/ (h \in Devices /\ h.kind = k)
  BY <1>1 DEF HoldsInv
<1>3. h # NULL => h \in Dma!Channels
  BY <1>2, KindsAre
<1>4. accepted \in Int /\ seen \in Int /\ forwarded \in Nat
      /\ \A d \in Dma!Channels : posted[d] \in Int /\ held[d] \in Int /\ d.depth \in Nat
  BY KindsAre DEF HoldsInv
<1>5. ASSUME handle["tx"] # NULL
      PROVE  /\ handle["tx"] \in Dma!Channels
             /\ seen - forwarded <= handle["tx"].depth - posted[handle["tx"]]
  BY <1>1, <1>5, KindsAre DEF HoldsInv, Dma!RoomKept, Dma!Room
<1>6. Dma!Channels' = Dma!Channels /\ Dma!Kinds' = Dma!Kinds
  BY DEF Dma!Channels, Dma!Kinds, Dma!Channel
<1> DEFINE before == seen - forwarded
           after  == seen' - forwarded'
<1>9. before \in Int /\ after \in Int
  BY <1>4
<1>7. /\ posted' \in [Dma!Channels -> Int] /\ accepted' \in Int
      /\ \A d \in Dma!Channels : posted'[d] \in 0 .. d.depth
      /\ handle["tx"] # NULL =>
           seen' - forwarded' <= handle["tx"].depth - posted'[handle["tx"]]
  <2>1. CASE h # NULL /\ h.depth > held[h]
    <3>1. posted' = [held EXCEPT ![h] = held[h] + 1] /\ accepted' = accepted + 1
      BY <2>1 DEF Dma!Driver
    <3>2. h \in Dma!Channels /\ held[h] \in Int
      BY <1>3, <1>4, <2>1
    <3>3. Dma!Taken
      BY <1>4, <3>1 DEF Dma!Taken
    <3> HIDE DEF h
    <3>4. /\ posted' \in [Dma!Channels -> Int] /\ posted'[h] = held[h] + 1
          /\ \A d \in Dma!Channels : d # h => posted'[d] = held[d]
      BY <3>1, <3>2
    <3>5. \A d \in Dma!Channels : posted'[d] \in 0 .. d.depth
      BY <1>4, <2>1, <3>2, <3>4
    <3>6. ASSUME handle["tx"] # NULL
          PROVE  seen' - forwarded' <= handle["tx"].depth - posted'[handle["tx"]]
      <4> DEFINE t == handle["tx"]
      <4>1. /\ t \in Dma!Channels /\ seen - forwarded <= t.depth - posted[t]
            /\ held[t] <= posted[t] /\ posted[t] \in Int /\ held[t] \in Int /\ t.depth \in Nat
        BY <1>4, <1>5, <3>6
      <4>2. CASE k = "tx"
        <5>1. t = h
          BY <4>2 DEF h
        <5>2. posted'[t] = held[t] + 1
          BY <3>4, <5>1
        <5>3. seen' - forwarded' <= seen - forwarded - 1
          BY <3>3, <4>2
        <5>5. after <= before - 1
          BY <1>9, <5>3
        <5> DEFINE p == posted[t]
                   o == held[t]
                   q == posted'[t]
                   m == t.depth
        <5>6. /\ p \in Int /\ o \in Int /\ m \in Int /\ o <= p /\ before <= m - p
              /\ q = o + 1 /\ q \in Int
          BY <4>1, <5>2
        <5> HIDE DEF p, o, q, m, t, before, after
        <5>4. after <= m - q
          BY <1>9, <5>5, <5>6, RoomSum
        <5> QED
          BY <5>4 DEF t, m, q, after
      <4>3. CASE k # "tx"
        <5>1. t.kind = "tx" /\ h.kind # "tx"
          BY <1>1, <1>2, <2>1, <3>6, <4>3 DEF HoldsInv, h
        <5>2. posted'[t] = held[t]
          BY <3>4, <4>1, <5>1
        <5>3. seen' - forwarded' <= seen - forwarded
          BY <4>3
        <5>5. after <= before - 0
          BY <1>9, <5>3
        <5> DEFINE p == posted[t]
                   o == held[t]
                   q == posted'[t]
                   m == t.depth
        <5>6. /\ p \in Int /\ o \in Int /\ m \in Int /\ o <= p /\ before <= m - p
              /\ q = o + 0 /\ q \in Int
          BY <4>1, <5>2
        <5> HIDE DEF p, o, q, m, t, before, after
        <5>4. after <= m - q
          BY <1>9, <5>5, <5>6, RoomSum
        <5> QED
          BY <5>4 DEF t, m, q, after
      <4> QED
        BY <4>2, <4>3
    <3>7. accepted' \in Int
      BY <1>4, <3>1
    <3> QED
      BY <3>4, <3>5, <3>6, <3>7
  <2>2. CASE ~(h # NULL /\ h.depth > held[h])
    <3>1. posted' = held /\ accepted' = accepted
      BY <2>2 DEF Dma!Driver
    <3>2. ~Dma!Taken
      BY <3>1 DEF Dma!Taken
    <3>3. seen' - forwarded' <= seen - forwarded
      BY <3>2
    <3>4. ASSUME handle["tx"] # NULL
          PROVE  seen' - forwarded' <= handle["tx"].depth - posted'[handle["tx"]]
      <4> DEFINE t == handle["tx"]
      <4>1. /\ t \in Dma!Channels /\ seen - forwarded <= t.depth - posted[t]
            /\ held[t] <= posted[t] /\ posted[t] \in Int /\ held[t] \in Int /\ t.depth \in Nat
        BY <1>4, <1>5, <3>4
      <4>5. after <= before - 0
        BY <1>9, <3>3
      <4> DEFINE p == posted[t]
                 o == held[t]
                 q == posted'[t]
                 m == t.depth
      <4>6. /\ p \in Int /\ o \in Int /\ m \in Int /\ o <= p /\ before <= m - p
            /\ q = o + 0 /\ q \in Int
        BY <4>1, <3>1
      <4> HIDE DEF p, o, q, m, t, before, after
      <4>2. after <= m - q
        BY <1>9, <4>5, <4>6, RoomSum
      <4> QED
        BY <4>2 DEF t, m, q, after
    <3> QED
      BY <1>4, <3>1, <3>4
  <2> QED
    BY <2>1, <2>2
<1>8. Dma!RoomKept'
  BY <1>7 DEF Dma!RoomKept, Dma!Room
<1> QED
  BY <1>6, <1>7, <1>8 DEF HoldsInv

LEMMA DmaNext == DmaInv /\ [Next]_vars => DmaInv'
<1> SUFFICES ASSUME DmaInv, [Next]_vars PROVE DmaInv'
  OBVIOUS
<1>0. ListsInv /\ HoldsInv
  BY DEF DmaInv
<1>1. ASSUME UNCHANGED <<list, since>> PROVE ListsInv'
  BY <1>0, <1>1 DEF ListsInv, Registered, Listed, Dma!Kinds, Dma!Channel
<1>2. ASSUME UNCHANGED <<handle, posted, accepted, seen, forwarded>> PROVE HoldsInv'
  BY <1>0, <1>2 DEF HoldsInv, Dma!RoomKept, Dma!Room, Dma!Kinds, Dma!Channels, Dma!Channel
<1>3. ASSUME NEW d \in Devices, Dma!DevInsert(d) PROVE DmaInv'
  <2>1. HoldsInv'
    BY <1>2, <1>3 DEF Dma!DevInsert, Dma!holds
  <2>2. ListsInv'
    <3>1. CASE d.name = NoName
      BY <1>1, <1>3, <3>1 DEF Dma!DevInsert
    <3>2. CASE d.name # NoName
      BY <1>0, <1>3, <3>2, ListsInsert DEF Dma!DevInsert
    <3> QED
      BY <3>1, <3>2
  <2> QED
    BY <2>1, <2>2 DEF DmaInv
<1>4. ASSUME NEW k \in Dma!Kinds, NEW d \in Devices \cup {NULL}, d # NULL => d.kind = k,
             Dma!Opened(k, d)
      PROVE  DmaInv'
  <2>1. HoldsInv'
    BY <1>0, <1>4, OpenedKeeps
  <2>2. ListsInv'
    BY <1>1, <1>4 DEF Dma!Opened
  <2> QED
    BY <2>1, <2>2 DEF DmaInv
<1>5. ASSUME NEW k \in Dma!Kinds, NEW name, Dma!Opened(k, Dma!Found(k, name)) PROVE DmaInv'
  <2>1. Dma!Found(k, name) # NULL =>
           Dma!Found(k, name) \in Devices /\ Dma!Found(k, name).kind = k
    BY <1>0, FoundNewest
  <2>2. Dma!Found(k, name) \in Devices \cup {NULL}
    BY <2>1
  <2> QED
    BY <1>4, <1>5, <2>1, <2>2
<1>6. ASSUME NEW k \in Dma!Kinds, Dma!Opened(k, NULL) PROVE DmaInv'
  BY <1>4, <1>6
<1>7. "rx" \in Dma!Kinds /\ "tx" \in Dma!Kinds /\ "flash" \in Dma!Kinds
  BY KindsAre
<1>8. ASSUME NEW name, Dma!OpenFlash(name) PROVE DmaInv'
  <2> DEFINE d == Dma!Found("flash", name)
  <2>1. Dma!Opened("flash", d) \/ Dma!Opened("flash", NULL)
    BY <1>8 DEF Dma!OpenFlash
  <2> QED
    BY <1>5, <1>6, <1>7, <2>1
<1>9. ASSUME Dma!Space PROVE DmaInv'
  <2>1. /\ seen' = IF handle["tx"] = NULL THEN 0 ELSE Dma!Room(handle["tx"])
        /\ forwarded' = 0 /\ UNCHANGED <<list, since, handle, posted, accepted>>
    BY <1>9 DEF Dma!Space, Dma!holds
  <2>2. ListsInv'
    BY <1>1, <2>1
  <2>3. handle["tx"] # NULL => handle["tx"] \in Dma!Channels
    BY <1>0, <1>7, KindsAre DEF HoldsInv
  <2>4. handle["tx"] # NULL => Dma!Room(handle["tx"]) \in Int
    BY <1>0, <2>3, KindsAre DEF HoldsInv, Dma!Room
  <2>5. seen' \in Int /\ forwarded' \in Nat
    BY <2>1, <2>4
  <2>6. Dma!RoomKept'
    <3> SUFFICES ASSUME handle["tx"] # NULL
                 PROVE  seen' - forwarded' <= Dma!Room(handle["tx"])
      BY <2>1 DEF Dma!RoomKept, Dma!Room
    <3> QED
      BY <2>1, <2>4
  <2>7. HoldsInv'
    BY <1>0, <2>1, <2>5, <2>6 DEF HoldsInv, Dma!Kinds, Dma!Channels, Dma!Channel
  <2> QED
    BY <2>2, <2>7 DEF DmaInv
<1>10. /\ posted \in [Dma!Channels -> Int] /\ seen \in Int /\ forwarded \in Nat
       /\ \A d \in Dma!Channels : posted[d] \in 0 .. d.depth /\ posted[d] <= posted[d]
  BY <1>0 DEF HoldsInv
<1>11. ASSUME Dma!Send PROVE DmaInv'
  <2>1. /\ Dma!Driver(handle["tx"], posted) /\ handle' = handle /\ forwarded' = forwarded
        /\ seen' = (IF Dma!Taken THEN seen - 1 ELSE seen) /\ UNCHANGED <<list, since>>
    BY <1>11 DEF Dma!Send
  <2>2. /\ seen' \in Int /\ forwarded' \in Nat
        /\ IF Dma!Taken THEN seen' - forwarded' <= seen - forwarded - 1
                        ELSE seen' - forwarded' <= seen - forwarded
    BY <1>10, <2>1
  <2>3. HoldsInv'
    BY <1>0, <1>10, <2>1, <2>2, DriverKeeps
  <2> QED
    BY <1>1, <2>1, <2>3 DEF DmaInv
<1>12. ASSUME Dma!Prepare PROVE DmaInv'
  <2>1. /\ Dma!Driver(handle["rx"], posted) /\ UNCHANGED <<list, since, handle, seen, forwarded>>
    BY <1>12 DEF Dma!Prepare
  <2>2. seen' - forwarded' <= seen - forwarded /\ seen' \in Int /\ forwarded' \in Nat
    BY <1>10, <2>1
  <2>3. HoldsInv'
    BY <1>0, <1>10, <2>1, <2>2, DriverKeeps
  <2> QED
    BY <1>1, <2>1, <2>3 DEF DmaInv
<1>13. ASSUME NEW d \in Dma!Channels, Dma!Done(d) PROVE DmaInv'
  <2> DEFINE left == [posted EXCEPT ![d] = posted[d] - 1]
  <2>1. /\ posted[d] > 0 /\ UNCHANGED <<list, since, handle, seen>>
        /\ \/ posted' = left /\ UNCHANGED <<accepted, forwarded>>
           \/ \E k \in {"rx", "tx"} :
                 /\ Dma!Driver(handle[k], left)
                 /\ forwarded' = IF k = "tx" /\ Dma!Taken THEN forwarded + 1 ELSE forwarded
    BY <1>13 DEF Dma!Done, Dma!Channel
  <2>2. /\ left \in [Dma!Channels -> Int] /\ left[d] = posted[d] - 1
        /\ \A c \in Dma!Channels : c # d => left[c] = posted[c]
    BY <1>10
  <2> HIDE DEF left
  <2>3. \A c \in Dma!Channels : left[c] \in 0 .. c.depth /\ left[c] <= posted[c]
    BY <1>10, <2>1, <2>2, KindsAre
  <2>4. CASE posted' = left /\ UNCHANGED <<accepted, forwarded>>
    <3>1. ASSUME handle["tx"] # NULL
          PROVE  seen' - forwarded' <= handle["tx"].depth - posted'[handle["tx"]]
      <4> DEFINE t == handle["tx"]
      <4>1. t \in Dma!Channels
        BY <1>0, <1>7, <3>1, KindsAre DEF HoldsInv
      <4>2. seen - forwarded <= t.depth - posted[t] /\ t.depth \in Nat
        BY <1>0, <3>1, <4>1, KindsAre DEF HoldsInv, Dma!RoomKept, Dma!Room
      <4>3. posted[t] \in Int /\ left[t] \in Int /\ left[t] <= posted[t]
        BY <1>10, <2>2, <2>3, <4>1
      <4> HIDE DEF t
      <4>4. seen' - forwarded' <= t.depth - posted'[t]
        BY <1>10, <2>1, <2>4, <4>2, <4>3
      <4> QED
        BY <4>4 DEF t
    <3>2. Dma!RoomKept'
      BY <2>1, <3>1 DEF Dma!RoomKept, Dma!Room
    <3>3. HoldsInv'
      BY <1>0, <2>1, <2>2, <2>3, <2>4, <3>2
         DEF HoldsInv, Dma!Kinds, Dma!Channels, Dma!Channel
    <3> QED
      BY <1>1, <2>1, <3>3 DEF DmaInv
  <2>5. ASSUME NEW k \in {"rx", "tx"}, Dma!Driver(handle[k], left),
               forwarded' = IF k = "tx" /\ Dma!Taken THEN forwarded + 1 ELSE forwarded
        PROVE  DmaInv'
    <3>1. /\ seen' \in Int /\ forwarded' \in Nat
          /\ IF k = "tx" /\ Dma!Taken THEN seen' - forwarded' <= seen - forwarded - 1
                                      ELSE seen' - forwarded' <= seen - forwarded
      BY <1>10, <2>1, <2>5
    <3>2. HoldsInv'
      BY <1>0, <2>1, <2>2, <2>3, <2>5, <3>1, DriverKeeps
    <3> QED
      BY <1>1, <2>1, <3>2 DEF DmaInv
  <2> QED
    BY <2>1, <2>4, <2>5
<1>14. ASSUME UNCHANGED channels PROVE DmaInv'
  BY <1>1, <1>2, <1>14 DEF channels, DmaInv
<1>15. ASSUME Dma!Next PROVE DmaInv'
  <2>1. Dma!RegisterChannel \/ Dma!RegisterFlash => \E d \in Devices : Dma!DevInsert(d)
    BY DEF Dma!RegisterChannel, Dma!RegisterFlash, Dma!Channels, Dma!FlashDevices
  <2>2. ASSUME NEW name, Dma!OpenRx(name) \/ Dma!OpenTx(name) \/ Dma!OpenFlash(name)
        PROVE  DmaInv'
    BY <1>5, <1>7, <1>8, <2>2 DEF Dma!OpenRx, Dma!OpenTx
  <2>3. ASSUME NEW k \in Dma!Channel, Dma!CloseChannel(k) PROVE DmaInv'
    BY <1>6, <2>3 DEF Dma!CloseChannel, Dma!Kinds
  <2>4. ASSUME Dma!CloseFlash PROVE DmaInv'
    BY <1>6, <1>7, <2>4 DEF Dma!CloseFlash
  <2> QED
    BY <1>3, <1>9, <1>11, <1>12, <1>13, <1>15, <2>1, <2>2, <2>3, <2>4 DEF Dma!Next
<1> QED
  BY <1>14, <1>15 DEF Next, vars, NotLight, NotUart, NotPrinter, NotProfiler, NotCache,
                      NotSleeper, NotStamps

LEMMA OpenKept == DmaInv => Dma!OpenStep /\ Dma!RoomKept
<1> SUFFICES ASSUME DmaInv PROVE Dma!OpenStep
  BY DEF DmaInv, HoldsInv
<1>1. ASSUME NEW k \in Dma!Kinds, NEW name, NEW d, Dma!Opened(k, d) PROVE handle'[k] = d
  BY <1>1 DEF Dma!Opened, DmaInv, HoldsInv
<1>2. \A k \in Dma!Kinds : \A name : Dma!Found(k, name) = Dma!Newest(k, name)
  BY FoundNewest DEF DmaInv
<1>3. "rx" \in Dma!Kinds /\ "tx" \in Dma!Kinds /\ "flash" \in Dma!Kinds
  BY KindsAre
<1>4. ASSUME NEW name \in Dma!Names, Dma!OpenRx(name)
      PROVE  handle'["rx"] = Dma!Newest("rx", name)
  <2>1. handle'["rx"] = Dma!Found("rx", name)
    BY <1>1, <1>3, <1>4 DEF Dma!OpenRx
  <2> QED
    BY <1>2, <1>3, <2>1
<1>5. ASSUME NEW name \in Dma!Names, Dma!OpenTx(name)
      PROVE  /\ handle'["tx"] = Dma!Newest("tx", name)
             /\ handle'["tx"] = NULL => errno' = "ENODEV"
  <2>1. handle'["tx"] = Dma!Found("tx", name)
    BY <1>1, <1>3, <1>5 DEF Dma!OpenTx
  <2> QED
    BY <1>2, <1>3, <1>5, <2>1 DEF Dma!OpenTx
<1>6. ASSUME NEW name \in Dma!Names, Dma!OpenFlash(name)
      PROVE  handle'["flash"] \in {NULL, Dma!Newest("flash", name)}
  <2>1. Dma!Opened("flash", Dma!Found("flash", name)) \/ Dma!Opened("flash", NULL)
    BY <1>6 DEF Dma!OpenFlash
  <2>2. handle'["flash"] = Dma!Found("flash", name) \/ handle'["flash"] = NULL
    BY <1>1, <1>3, <2>1
  <2> QED
    BY <1>2, <1>3, <2>2
<1> QED
  BY <1>4, <1>5, <1>6 DEF Dma!OpenStep

\* What the program may have seen of its channel's room is no more than the channel has.
DmaTypes ==
  /\ accepted \in 0 .. MaxRequests
  /\ seen <= IF handle["tx"] = NULL THEN 0 ELSE handle["tx"].depth

LEMMA DmaTypesStart == Init => DmaTypes
<1> SUFFICES ASSUME Dma!Init PROVE DmaTypes
  BY DEF Init
<1>1. handle["tx"] = NULL
  BY DEF Dma!Init, Dma!Kinds, Dma!Channel
<1> QED
  BY <1>1, ChannelsAssumption DEF Dma!Init, DmaTypes

LEMMA DmaTypesNext == DmaInv /\ DmaTypes /\ [Next]_vars => DmaTypes'
<1> SUFFICES ASSUME DmaInv, DmaTypes, [Next]_vars PROVE DmaTypes'
  OBVIOUS
<1> DEFINE Bound(h) == IF h = NULL THEN 0 ELSE h.depth
<1>1. /\ accepted \in 0 .. MaxRequests /\ seen <= Bound(handle["tx"]) /\ seen \in Int
      /\ handle \in [Dma!Kinds -> Devices \cup {NULL}] /\ "tx" \in Dma!Kinds
      /\ \A d \in Dma!Channels : posted[d] \in 0 .. d.depth
      /\ posted \in [Dma!Channels -> Int]
  BY KindsAre DEF DmaTypes, DmaInv, HoldsInv
<1>2. MaxRequests \in Nat /\ \A h \in Devices \cup {NULL} : Bound(h) \in Nat
  BY ChannelsAssumption
<1>3. SUFFICES accepted' \in 0 .. MaxRequests /\ seen' <= Bound(handle'["tx"])
  BY DEF DmaTypes
<1>4. CASE UNCHANGED <<accepted, seen, handle>>
  BY <1>1, <1>4
<1>5. ASSUME NEW k \in Dma!Kinds, NEW h, handle' \in [Dma!Kinds -> Devices \cup {NULL}], Dma!Opened(k, h)
      PROVE  accepted' \in 0 .. MaxRequests /\ seen' <= Bound(handle'["tx"])
  <2>1. handle' = [handle EXCEPT ![k] = h] /\ seen' = (IF k = "tx" THEN 0 ELSE seen) /\ accepted' = accepted
    BY <1>5 DEF Dma!Opened, Dma!holds
  <2>2. handle'["tx"] \in Devices \cup {NULL}
    BY <1>1, <1>5
  <2>3. Bound(handle'["tx"]) \in Nat
    BY <1>2, <2>2
  <2>4. k # "tx" => handle'["tx"] = handle["tx"]
    BY <1>1, <2>1
  <2> HIDE DEF Bound
  <2> QED
    BY <1>1, <2>1, <2>3, <2>4
<1>6. CASE Dma!Space
  <2>1. seen' = (IF handle["tx"] = NULL THEN 0 ELSE Dma!Room(handle["tx"])) /\ UNCHANGED <<handle, accepted>>
    BY <1>6 DEF Dma!Space, Dma!holds
  <2>2. CASE handle["tx"] = NULL
    BY <1>1, <2>1, <2>2
  <2>3. CASE handle["tx"] # NULL
    <3> DEFINE d == handle["tx"]
    <3>1. d \in Dma!Channels
      BY <1>1, <2>3, KindsAre DEF DmaInv, HoldsInv
    <3>2. posted[d] \in 0 .. d.depth /\ d.depth \in Nat
      BY <1>1, <3>1, KindsAre
    <3>3. seen' = d.depth - posted[d] /\ Bound(handle'["tx"]) = d.depth
      BY <2>1, <2>3 DEF Dma!Room
    <3> HIDE DEF d, Bound
    <3> QED
      BY <1>1, <2>1, <3>2, <3>3
  <2> QED
    BY <2>2, <2>3
<1>7. ASSUME NEW h, NEW held, Dma!Driver(h, held) PROVE accepted' \in 0 .. MaxRequests
  BY <1>1, <1>2, <1>7 DEF Dma!Driver
<1>8. CASE Dma!Send
  <2>1. seen' <= seen /\ seen' \in Int /\ handle' = handle
    BY <1>1, <1>8 DEF Dma!Send
  <2>2. Bound(handle["tx"]) \in Nat
    BY <1>1, <1>2
  <2>3. accepted' \in 0 .. MaxRequests
    BY <1>7, <1>8 DEF Dma!Send
  <2> HIDE DEF Bound
  <2> QED
    BY <1>1, <2>1, <2>2, <2>3
<1>9. CASE Dma!Prepare
  BY <1>1, <1>7, <1>9 DEF Dma!Prepare
<1>10. ASSUME NEW d \in Dma!Channels, Dma!Done(d)
       PROVE  accepted' \in 0 .. MaxRequests /\ seen' <= Bound(handle'["tx"])
  <2>1. UNCHANGED <<handle, seen>> /\ (accepted' = accepted \/ \E k, held : Dma!Driver(handle[k], held))
    BY <1>10 DEF Dma!Done
  <2> QED
    BY <1>1, <1>7, <2>1
<1>11. DmaInv'
  BY DmaNext
<1>12. handle' \in [Dma!Kinds -> Devices \cup {NULL}]
  BY <1>11 DEF DmaInv, HoldsInv, Dma!Kinds, Dma!Channel
<1>13. "rx" \in Dma!Kinds /\ "tx" \in Dma!Kinds /\ "flash" \in Dma!Kinds /\ Dma!Channel \subseteq Dma!Kinds
  BY DEF Dma!Kinds, Dma!Channel
<1>14. CASE Dma!Next
  <2>1. CASE Dma!RegisterChannel \/ Dma!RegisterFlash
    BY <1>4, <2>1 DEF Dma!RegisterChannel, Dma!RegisterFlash, Dma!DevInsert, Dma!holds
  <2>2. ASSUME NEW name, Dma!OpenRx(name) \/ Dma!OpenTx(name) \/ Dma!OpenFlash(name)
        PROVE  accepted' \in 0 .. MaxRequests /\ seen' <= Bound(handle'["tx"])
    <3>1. \E k \in Dma!Kinds : \E h : Dma!Opened(k, h)
      BY <1>13, <2>2 DEF Dma!OpenRx, Dma!OpenTx, Dma!OpenFlash
    <3> QED
      BY <1>5, <1>12, <3>1
  <2>3. ASSUME (\E k \in Dma!Channel : Dma!CloseChannel(k)) \/ Dma!CloseFlash
        PROVE  accepted' \in 0 .. MaxRequests /\ seen' <= Bound(handle'["tx"])
    <3>1. \E k \in Dma!Kinds : \E h : Dma!Opened(k, h)
      BY <1>13, <2>3 DEF Dma!CloseChannel, Dma!CloseFlash
    <3> QED
      BY <1>5, <1>12, <3>1
  <2> QED
    BY <1>6, <1>8, <1>9, <1>10, <1>14, <2>1, <2>2, <2>3 DEF Dma!Next
<1>15. CASE UNCHANGED channels
  BY <1>4, <1>15 DEF channels
<1> QED
  BY <1>14, <1>15 DEF Next, vars, NotLight, NotUart, NotPrinter, NotProfiler, NotCache, NotSleeper,
                      NotStamps

LEMMA DmaTyped == DmaInv /\ DmaTypes => Dma!ChannelsTypeOK
<1> SUFFICES ASSUME DmaInv, DmaTypes PROVE Dma!ChannelsTypeOK
  OBVIOUS
<1>1. ASSUME NEW k \in Dma!Kinds
      PROVE  /\ handle[k] \in Devices \cup {NULL}
             /\ \A n \in DOMAIN list[k] : list[k][n].kind = k
  <2>1. list[k] \in Seq(Devices) /\ \A n \in Listed(k) : list[k][n].kind = k
    BY DEF DmaInv, ListsInv
  <2>2. DOMAIN list[k] = Listed(k)
    BY <2>1 DEF Listed
  <2> QED
    BY <2>1, <2>2 DEF DmaInv, HoldsInv
<1>2. \A d \in Dma!Channels : posted[d] \in 0 .. d.depth
  BY DEF DmaInv, HoldsInv
<1> QED
  BY <1>1, <1>2 DEF DmaTypes, Dma!ChannelsTypeOK

-----------------------------------------------------------------------------
(* The theorems *)

\* Every service's variables keep their types and bounds: the light's counters, the
\* FIFOs of the UART, the printing call's state, heap and stack in their memory, what a
\* call of _mcount has found, the cache's sets, the registers of the sleep and of the
\* timestamp, and the room of every channel.
THEOREM ProgramsTyped == Spec => []ProgramsTypeOK
<1>1. Spec => [](LightInv /\ WaitInv /\ LightTypes)
  <2>1. LightInv /\ WaitInv /\ LightTypes /\ [Next]_vars => (LightInv /\ WaitInv /\ LightTypes)'
    BY LightNext, LightTypesNext
  <2> QED
    BY <2>1, LightStarts, LightTypesStart, PTL DEF Spec
<1>2. Spec => []UartInv
  BY UartStarts, UartNext, PTL DEF Spec
<1>3. Spec => []PrintInv
  BY PrintStarts, PrintNext, PTL DEF Spec
<1>4. Spec => [](ProfInv /\ RoomInv /\ WalkInv /\ StartsInv)
  <2>1. ProfInv /\ RoomInv /\ WalkInv /\ StartsInv /\ [Next]_vars
          => (ProfInv /\ RoomInv /\ WalkInv /\ StartsInv)'
    BY ProfNext, RoomNext, WalkNext, StartsNext
  <2> QED
    BY <2>1, ProfStarts, RoomStarts, WalkStarts, StartsStart, PTL DEF Spec
<1>5. Spec => [](CacheInv /\ CacheTypes)
  <2>1. CacheInv /\ CacheTypes /\ [Next]_vars => (CacheInv /\ CacheTypes)'
    BY CacheNext, CacheTypesNext
  <2> QED
    BY <2>1, CacheStarts, CacheTypesStart, PTL DEF Spec
<1>6. Spec => [](SleepInv /\ SleepTypes)
  <2>1. SleepInv /\ SleepTypes /\ [Next]_vars => (SleepInv /\ SleepTypes)'
    BY SleepNext, SleepTypesNext
  <2> QED
    BY <2>1, SleepStarts, SleepTypesStart, PTL DEF Spec
<1>7. Spec => [](StampInv /\ StampTypes)
  <2>1. StampInv /\ StampTypes /\ [Next]_vars => (StampInv /\ StampTypes)'
    BY StampNext, StampTypesNext
  <2> QED
    BY <2>1, StampStarts, StampTypesStart, PTL DEF Spec
<1>8. Spec => [](DmaInv /\ DmaTypes)
  <2>1. DmaInv /\ DmaTypes /\ [Next]_vars => (DmaInv /\ DmaTypes)'
    BY DmaNext, DmaTypesNext
  <2> QED
    BY <2>1, DmaStarts, DmaTypesStart, PTL DEF Spec
<1>9. LightInv /\ LightTypes /\ UartInv /\ PrintInv /\ ProfInv /\ RoomInv /\ WalkInv /\ StartsInv
        /\ CacheInv /\ CacheTypes /\ SleepInv /\ SleepTypes /\ StampInv /\ StampTypes
        /\ DmaInv /\ DmaTypes => ProgramsTypeOK
  BY LightTyped, PrintTyped, ProfTyped, CacheTyped, SleepTyped, StampTyped, DmaTyped
     DEF ProgramsTypeOK, UartInv
<1> QED
  BY <1>1, <1>2, <1>3, <1>4, <1>5, <1>6, <1>7, <1>8, <1>9, PTL

\* One LED is lit during every wait and between two cycles, the light moves by one
\* LED from a wait to the next, through the cycles and from any cycle to any other,
\* and a wait that saw all its time-outs saw as many periods end, but for one that
\* ended before it began (KnightRiderLight.c:85-89, 129-177).
THEOREM LightKeepsShowing == Spec => LightShows
<1>1. LightInv /\ WaitInv /\ [Next]_vars => (LightInv /\ WaitInv)'
  BY LightNext
<1>2. Spec => [](LightInv /\ WaitInv)
  BY <1>1, LightStarts, PTL DEF Spec
<1>3. LightInv /\ [Next]_vars => [Light!MoveStep]_(Light!vars)
  <2> SUFFICES ASSUME LightInv, [Next]_vars, ~UNCHANGED Light!vars PROVE Light!MoveStep
    OBVIOUS
  <2>1. ~UNCHANGED light
    BY DEF light, Light!vars, Light!waiting, Light!board
  <2>2. Light!Next
    BY <2>1 DEF Next, vars, NotUart, NotPrinter, NotProfiler, NotCache, NotSleeper,
                NotStamps, NotChannels
  <2> QED
    BY <2>2, LightStep
<1>4. WaitInv => [Light!CountedStep]_(Light!vars)
  BY WaitCounts
<1> QED
  BY <1>2, <1>3, <1>4, OneIsLit, PTL
     DEF Spec, LightShows, Light!RunsAlong, Light!TimeoutsCounted

\* The polling driver is a serial line in every state: what it reads is what the host
\* sent, and what it writes is what the host will take, byte for byte and in order.
THEOREM PollsALine == Spec => PollsLine
<1>1. Init => Uart!Wire!LineInit
  BY DEF Init, Uart!Init, Uart!HostInit, Uart!Wire!LineInit
<1>2. Spec => []UartInv
  BY UartStarts, UartNext, PTL DEF Spec
<1> QED
  BY <1>1, <1>2, LineStep, PTL DEF Spec, PollsLine, Uart!IsSerialLine, Uart!Wire!LineSpec

\* A call that prints loses a character at most for each interrupt that printed
\* meanwhile, and a handler writes only where the FIFO has room (alt_log_printf.c:94-101).
THEOREM PrintsLoseFew == Spec => [](lost <= bursts) /\ [][Printer!IsrPut => room]_vars
<1>1. Spec => []PrintInv
  BY PrintStarts, PrintNext, PTL DEF Spec
<1>2. PrintInv => lost <= bursts
  BY DEF PrintInv
<1>3. PrintInv => [Printer!IsrPut => room]_vars
  BY DEF PrintInv, Printer!IsrPut
<1> QED
  BY <1>1, <1>2, <1>3, PTL DEF Spec

\* The blocks of the heap do not overlap, nor do the structures the profiler carves from
\* its slabs, with or without a handler in between; and as long as every increment was a
\* number of words the heap does not meet the stack unreported (alt_sbrk.c:73-113,
\* alt_gmon.c:133-148).
THEOREM HeapStaysApart == Spec => []HeapIsApart
<1>1. Spec => []ProfInv
  BY ProfStarts, ProfNext, PTL DEF Spec
<1> QED
  BY <1>1, ProfApart, PTL

\* The profile counts every call, in the program and in handlers, but for at most one
\* for each handler's call between the program's load and store of a count; an arc has at
\* most one copy more, and the sampling at most one start more, for each handler's call
\* while the program was about to add an arc (alt_mcount.S:120-122, alt_gmon.c:177-180).
THEOREM CallsStayCounted == Spec => []CallsCounted
<1>1. Init => WalkInv /\ MarksInv /\ CopiesInv /\ StartsInv
  BY WalkStarts, MarksStart, CopiesStart, StartsStart
<1>2. WalkInv /\ MarksInv /\ CopiesInv /\ StartsInv /\ [Next]_vars
        => (WalkInv /\ MarksInv /\ CopiesInv /\ StartsInv)'
  BY WalkNext, MarksNext, CopiesNext, StartsNext
<1> QED
  BY <1>1, <1>2, CallsAreCounted, PTL DEF Spec

\* A flush that returns has dropped every line of its region but those a handler used
\* again, and only one without write back throws writes away, none beyond the line
\* that follows its region (alt_dcache_flush.c:46-70).
THEOREM FlushesKeep == Spec => FlushLeavesNothing
<1>1. Spec => []CacheInv
  BY CacheStarts, CacheNext, PTL DEF Spec
<1>2. CacheInv => [Caches!FlushStep]_vars
  BY CacheKept
<1> QED
  BY <1>1, <1>2, PTL DEF Spec, FlushLeavesNothing

\* A busy sleep makes the turns it was asked for and exactly so many more as its big
\* loops round, or its last one goes around; a timestamp is the time of its snapshot,
\* and when a handler took another not before it (alt_busy_sleep.c:52-133,
\* altera_avalon_timer_ts.c:100-131).
THEOREM TimesStayKept == Spec => TimesKept
<1>1. Spec => []SleepInv
  BY SleepStarts, SleepNext, PTL DEF Spec
<1>2. Spec => []StampInv
  BY StampStarts, StampNext, PTL DEF Spec
<1>3. Spec => []StampTypes
  BY <1>2, StampTypesStart, StampTypesNext, PTL DEF Spec
<1>4. Spec => []LaterInv
  BY <1>2, <1>3, LaterStarts, LaterNext, PTL DEF Spec
<1>5. SleepInv => [Sleeper!SleepStep]_vars
  BY SleepKept
<1>6. StampInv /\ StampTypes /\ LaterInv => [Stamps!StampStep]_vars
  BY StampKept
<1> QED
  BY <1>1, <1>2, <1>3, <1>4, <1>5, <1>6, PTL DEF Spec, TimesKept

\* An open gives the newest device of the name, and the room a caller saw is there
\* until it or a callback posts (alt_find_dev.c:54-86, alt_dma.h:100-110).
THEOREM ChannelsStayKept == Spec => ChannelsKeep
<1>1. Spec => []DmaInv
  BY DmaStarts, DmaNext, PTL DEF Spec
<1>2. DmaInv => [Dma!OpenStep]_vars
  BY OpenKept
<1>3. DmaInv => Dma!RoomKept
  BY OpenKept
<1> QED
  BY <1>1, <1>2, <1>3, PTL DEF Spec, ChannelsKeep
=============================================================================
