----------------------- MODULE EquiniosLogger_proofs -----------------------
(***************************************************************************)
(* Proofs about EquiniosLogger for every ring size, chunk size, buffer     *)
(* size and set of messages, and for every interleaving of the main        *)
(* program with one handler.                                               *)
(*                                                                         *)
(*   LogBase   types, where each byte of ring, chunk and out belongs, and  *)
(*             that nothing is queued before the singleton exists          *)
(*   StampInv  a timestamp taken and not yet queued is no older than what  *)
(*             its context has queued                                      *)
(*   KeptInv   each byte of a line is in one place; those that left the    *)
(*             ring are a front part of the line, and the rest is in the   *)
(*             ring or was discarded with the line's end                   *)
(*                                                                         *)
(* KeptInv and what follows from it need messages without a newline of     *)
(* their own (NoBreaks), the count of drops also that every line ends in   *)
(* its newline (Fits); the refinement of LossyLog needs one reader.        *)
(*                                                                         *)
(* The last section is about NiosLoggerDemo: main.c is a program of the    *)
(* logger, and DemoInv says which of its calls are still to come when a    *)
(* report or a reset is due.                                               *)
(***************************************************************************)
EXTENDS NiosLoggerDemo, FiniteSetTheorems, WellFoundedInduction, TLAPS

\* A set of natural numbers has a least element.
LEMMA LeastNat ==
  ASSUME NEW S \in SUBSET Nat, S # {}
  PROVE  Min(S) \in S /\ \A y \in S : Min(S) <= y
<1>1. \E x \in S : \A y \in S : ~(<<y, x>> \in OpToRel(<, Nat))
  BY NatLessThanWellFounded, WFMin
<1>2. \A x, y \in Nat : y < x => <<y, x>> \in OpToRel(<, Nat)
  BY DEF OpToRel
<1>3. \A x, y \in Nat : ~(y < x) => x <= y
  OBVIOUS
<1>4. \E x \in S : \A y \in S : x <= y
  BY <1>1, <1>2, <1>3
<1> QED
  BY <1>4 DEF Min

LEMMA MinPair ==
  ASSUME NEW a \in Nat, NEW b \in Nat
  PROVE  Min({a, b}) = IF a <= b THEN a ELSE b
BY LeastNat, {a, b} \subseteq Nat /\ {a, b} # {}

LEMMA MaxPair ==
  ASSUME NEW a \in Nat, NEW b \in Nat
  PROVE  Max({a, b}) = IF a >= b THEN a ELSE b
BY DEF Max
-----------------------------------------------------------------------------
(* Sequences *)

LEMMA ConcatFacts ==
  ASSUME NEW S, NEW a \in Seq(S), NEW b \in Seq(S)
  PROVE  /\ a \o b \in Seq(S) /\ Len(a \o b) = Len(a) + Len(b)
         /\ \A i \in 1 .. Len(a) : (a \o b)[i] = a[i]
         /\ \A i \in 1 .. Len(b) : (a \o b)[Len(a) + i] = b[i]
         /\ \A i \in (Len(a) + 1) .. (Len(a) + Len(b)) : (a \o b)[i] = b[i - Len(a)]
OBVIOUS

LEMMA EmptySeq ==
  ASSUME NEW S, NEW s \in Seq(S)
  PROVE  s = << >> <=> Len(s) = 0
OBVIOUS

LEMMA SplitFacts ==
  ASSUME NEW S, NEW s \in Seq(S), NEW n \in 0 .. Len(s)
  PROVE  /\ SubSeq(s, 1, n) \in Seq(S) /\ Len(SubSeq(s, 1, n)) = n
         /\ \A i \in 1 .. n : SubSeq(s, 1, n)[i] = s[i]
         /\ SubSeq(s, n + 1, Len(s)) \in Seq(S)
         /\ Len(SubSeq(s, n + 1, Len(s))) = Len(s) - n
         /\ \A i \in 1 .. (Len(s) - n) : SubSeq(s, n + 1, Len(s))[i] = s[n + i]
         /\ SubSeq(s, 1, n) \o SubSeq(s, n + 1, Len(s)) = s
<1> DEFINE a == SubSeq(s, 1, n)
           b == SubSeq(s, n + 1, Len(s))
<1>1. a \in Seq(S) /\ Len(a) = n /\ \A i \in 1 .. n : a[i] = s[i]
  OBVIOUS
<1>2. b \in Seq(S) /\ Len(b) = Len(s) - n /\ \A i \in 1 .. (Len(s) - n) : b[i] = s[n + i]
  OBVIOUS
<1> HIDE DEF a, b
<1>3. /\ a \o b \in Seq(S) /\ Len(a \o b) = Len(a) + Len(b)
      /\ \A i \in 1 .. Len(a) : (a \o b)[i] = a[i]
      /\ \A i \in 1 .. Len(b) : (a \o b)[Len(a) + i] = b[i]
  <2>1. a \in Seq(S) /\ b \in Seq(S)
    BY <1>1, <1>2
  <2> QED
    BY <2>1
<1> DEFINE t == a \o b
<1> HIDE DEF t
<1>4. t \in Seq(S) /\ Len(t) = Len(s)
  BY <1>1, <1>2, <1>3 DEF t
<1>5. ASSUME NEW i \in 1 .. Len(s) PROVE t[i] = s[i]
  <2>1. CASE i <= n
    <3>1. i \in 1 .. Len(a)
      BY <1>1, <2>1
    <3> QED BY <1>1, <1>3, <3>1 DEF t
  <2>2. CASE i > n
    <3>1. i - n \in 1 .. (Len(s) - n) /\ n + (i - n) = i
      BY <2>2
    <3>2. t[n + (i - n)] = b[i - n]
      BY <1>1, <1>2, <1>3, <3>1 DEF t
    <3> QED BY <1>2, <3>1, <3>2
  <2> QED BY <2>1, <2>2
<1>6. t = s
  BY <1>4, <1>5
<1> QED BY <1>1, <1>2, <1>6 DEF a, b, t

-----------------------------------------------------------------------------
(* The operators of log_vwrite and of the discard *)

AnyByte == [line : Nat, pos : Nat, nl : BOOLEAN]

LEMMA Sizes ==
  /\ Size \in Nat /\ Size > 0 /\ MsgMax \in Nat /\ MsgMax > 0
  /\ LineMax \in Nat /\ LineMax > 0 /\ ChunkSize \in Nat /\ ChunkSize > 0
  /\ DefaultEvery \in Nat /\ DefaultEvery > 0 /\ Ending \in Nat /\ Ending > 0
  /\ Prefix \in Nat /\ MaxWrites \in Nat /\ MaxSets \in Nat /\ MaxClock \in Nat
BY LoggerAssumption

\* A line as it is stored: never empty, never longer than the ring, its bytes
\* in order.  A newline stands at its end only, if the message has none; and
\* there is one, if the message and its ending fit in line[].
LEMMA StoredLine ==
  ASSUME NEW m \in Messages \cup {NoMsg}, NEW id \in Nat
  PROVE  LET line == Stored(Formatted(m, id))
         IN /\ line \in Seq(AnyByte) /\ Len(line) \in 1 .. Size
            /\ \A i \in 1 .. Len(line) : line[i].line = id /\ line[i].pos = i
            /\ m.breaks = {} => \A i \in 1 .. Len(line) : line[i].nl => i = Len(line)
            /\ Prefix + Min({m.len, MsgMax}) + Ending <= LineMax => line[Len(line)].nl
<1> DEFINE body == Min({m.len, MsgMax})
           whole == Prefix + body + Ending
           n == Min({whole, LineMax})
           NL(i) == i = whole \/ (i - Prefix \in m.breaks /\ i <= Prefix + body)
           f == Formatted(m, id)
           skip == n - Min({n, Size})
           line == Stored(f)
<1>1. m.len \in Nat
  BY LoggerAssumption DEF NoMsg
<1>2. body \in Nat
  BY <1>1, MinPair, Sizes
<1>3. whole \in Nat /\ whole > 0
  BY <1>2, Sizes
<1>4. f = [i \in 1 .. n |-> [line |-> id, pos |-> i, nl |-> NL(i)]]
  BY DEF Formatted
<1>5. \A i : NL(i) \in BOOLEAN
  OBVIOUS
<1>6. /\ NL(whole)
      /\ m.breaks = {} => \A i : NL(i) => i = whole
  OBVIOUS
<1> HIDE DEF body, whole, f, NL
<1>7. n \in 1 .. LineMax /\ n <= whole /\ (n = whole \/ n = LineMax)
  BY <1>3, MinPair, Sizes
<1> HIDE DEF n
<1>8. Min({n, Size}) \in 1 .. Size /\ Min({n, Size}) <= n
  BY <1>7, MinPair, Sizes
<1>9. Len(f) = n
  BY <1>4, <1>7
<1>10. skip \in Nat /\ skip < n /\ n - skip \in 1 .. Size
  BY <1>7, <1>8, Sizes
<1>11. line = [i \in 1 .. (n - skip) |-> [f[skip + i] EXCEPT !.pos = i]]
  BY <1>9 DEF Stored
<1> HIDE DEF skip, line
<1>12. ASSUME NEW i \in 1 .. (n - skip)
       PROVE  line[i] = [line |-> id, pos |-> i, nl |-> NL(skip + i)] /\ line[i] \in AnyByte
  <2>1. skip + i \in 1 .. n /\ i \in Nat
    BY <1>7, <1>10
  <2>2. f[skip + i] = [line |-> id, pos |-> skip + i, nl |-> NL(skip + i)]
    BY <2>1, <1>4
  <2>3. line[i] = [line |-> id, pos |-> i, nl |-> NL(skip + i)]
    BY <2>2, <1>11
  <2> QED BY <2>1, <2>3, <1>5 DEF AnyByte
<1>13. line \in Seq(AnyByte) /\ Len(line) = n - skip
  <2>1. n - skip \in Nat
    BY <1>10
  <2>2. \A i \in 1 .. (n - skip) : line[i] \in AnyByte
    BY <1>12
  <2>3. line = [i \in 1 .. (n - skip) |-> line[i]]
    BY <1>11
  <2> QED BY <2>1, <2>2, <2>3
<1>14. \A i \in 1 .. Len(line) : line[i].line = id /\ line[i].pos = i
  BY <1>12, <1>13
<1>15. ASSUME m.breaks = {}, NEW i \in 1 .. Len(line), line[i].nl PROVE i = Len(line)
  <2>1. i \in 1 .. (n - skip) /\ NL(skip + i)
    BY <1>15, <1>12, <1>13
  <2>2. skip + i = whole
    BY <2>1, <1>6, <1>15
  <2> QED BY <2>1, <2>2, <1>3, <1>7, <1>10, <1>13
<1>16. ASSUME whole <= LineMax PROVE line[Len(line)].nl
  <2>1. n = whole /\ skip + Len(line) = whole /\ Len(line) \in 1 .. (n - skip)
    BY <1>3, <1>7, <1>10, <1>13, <1>16, Sizes
  <2>2. NL(skip + Len(line))
    BY <2>1, <1>6
  <2>3. line[Len(line)] = [line |-> id, pos |-> Len(line), nl |-> NL(skip + Len(line))]
    <3> HIDE DEF line
    <3> QED BY <2>1, <1>12
  <2>4. NL(skip + Len(line)) = TRUE
    BY <2>2, <1>5
  <2>5. line[Len(line)] = [line |-> id, pos |-> Len(line), nl |-> TRUE]
    BY <2>3, <2>4
  <2> QED BY <2>5
<1> QED
  BY <1>10, <1>13, <1>14, <1>15, <1>16 DEF line, whole, f, body

\* What the discard takes ends a line or empties the ring, makes the room
\* needed, and no line fewer would have done.
LEMMA DiscardFacts ==
  ASSUME ring \in Seq(AnyByte), Len(ring) <= Size, NEW need \in 1 .. Size
  PROVE  /\ Discard(need) \in 0 .. Len(ring)
         /\ Discard(need) \in {0} \cup LineEnds
         /\ Size - (Len(ring) - Discard(need)) >= need
         /\ \A e \in {0} \cup LineEnds :
               e < Discard(need) => Size - (Len(ring) - e) < need
<1> DEFINE D == {d \in {0} \cup LineEnds : Size - (Len(ring) - d) >= need \/ d = Len(ring)}
<1>1. LineEnds \subseteq 1 .. Len(ring) /\ (Len(ring) > 0 => Len(ring) \in LineEnds)
  BY DEF LineEnds
<1>2. Len(ring) \in D
  BY <1>1
<1>3. D \subseteq 0 .. Len(ring)
  <2>1. \A e \in D : e = 0 \/ e \in 1 .. Len(ring)
    BY <1>1
  <2>2. Len(ring) \in Nat
    OBVIOUS
  <2> HIDE DEF D
  <2> QED BY <2>1, <2>2
<1>4. Discard(need) \in D /\ \A e \in D : Discard(need) <= e
  <2>1. D \subseteq Nat /\ D # {}
    BY <1>2, <1>3
  <2> HIDE DEF D
  <2>2. Min(D) \in D /\ \A e \in D : Min(D) <= e
    BY <2>1, LeastNat
  <2> QED BY <2>2 DEF Discard, D
<1>5. Size - (Len(ring) - Discard(need)) >= need
  <2>1. CASE Discard(need) = Len(ring)
    <3>1. Size - (Len(ring) - Len(ring)) = Size
      BY Sizes
    <3> QED BY <2>1, <3>1
  <2> QED BY <1>4, <2>1
<1>6. ASSUME NEW e \in {0} \cup LineEnds, e < Discard(need)
      PROVE  Size - (Len(ring) - e) < need
  <2>1. e \in 0 .. Len(ring) /\ Discard(need) \in 0 .. Len(ring)
    BY <1>1, <1>3, <1>4
  <2>2. e \notin D
    BY <1>4, <1>6, <2>1
  <2> QED BY <2>1, <2>2, Sizes
<1> QED
  BY <1>3, <1>4, <1>5, <1>6

\* Nothing of the line is refused: after the discard it fits.
LEMMA PushedAll ==
  ASSUME NEW q \in Seq(AnyByte), NEW line \in Seq(AnyByte), Len(q) + Len(line) <= Size
  PROVE  Pushed(q, line) = q \o line
<1>1. Min({Size, Len(q) + Len(line)}) = Len(q \o line)
  BY MinPair, Sizes
<1>2. SubSeq(q \o line, 1, Len(q \o line)) = q \o line
  OBVIOUS
<1> QED BY <1>1, <1>2 DEF Pushed
-----------------------------------------------------------------------------
(* Types and control *)

Stamps == [src : {"tick", "clock"}, time : Nat]

ConfigTyped ==
  /\ initialized \in BOOLEAN /\ provider \in BOOLEAN
  /\ level \in Levels
  /\ every \in Nat \ {0} /\ divider \in Nat
  /\ dropped \in Nat /\ ticks \in Nat /\ forgotten \in Nat
  /\ clock \in 0 .. MaxClock

BytesTyped ==
  /\ ring \in Seq(AnyByte) /\ Len(ring) <= Size
  /\ out \in Seq(AnyByte)
  /\ chunk \in [Contexts -> Seq(AnyByte)]
  /\ \A c \in Contexts : Len(chunk[c]) <= ChunkSize
  /\ lines \in Seq([by : Contexts, stamp : Stamps, len : 1 .. Size])
  /\ cut \subseteq 1 .. Len(lines)

CallTyped ==
  /\ active \in Contexts
  /\ todo \in [Contexts -> {"write", "process"} \cup Setting]
  /\ pc \in [Contexts -> {"idle", "instance", "write", "stamp", "enqueue", "process",
                          "pop", "put"} \cup Setting]
  /\ msg \in [Contexts -> Messages \cup {NoMsg}]
  /\ stamp \in [Contexts -> Stamps]

LogTyped == ConfigTyped /\ BytesTyped /\ CallTyped

\* A handler that is not entered is in no call; bytes popped are being written.
LogControl ==
  /\ active = "main" => pc["isr"] = "idle"
  /\ \A c \in Contexts : pc[c] = "put" <=> chunk[c] # << >>

\* Nothing has happened before the first call asked for the instance.
Fresh == ~initialized => /\ ring = << >> /\ lines = << >>
                         /\ \A c \in Contexts : pc[c] \in {"idle", "instance"}

\* Every byte belongs to a line that was queued.
OfLine(b) == b.line \in 1 .. Len(lines) /\ b.pos \in 1 .. lines[b.line].len

Placed(s) == \A i \in 1 .. Len(s) : OfLine(s[i])

AllPlaced == Placed(ring) /\ Placed(out) /\ \A c \in Contexts : Placed(chunk[c])

LogBase == LogTyped /\ LogControl /\ Fresh /\ AllPlaced /\ FlushWithinPeriod

data == <<ring, out, chunk, lines, cut>>

LEMMA BaseInit == Init => LogBase
<1> SUFFICES ASSUME Init PROVE LogBase
  OBVIOUS
<1> USE LoggerAssumption, Sizes
<1>1. NoMsg \in Messages \cup {NoMsg} /\ NoStamp \in Stamps
  BY DEF NoStamp, Stamps
<1>2. LogTyped
  <2>1. /\ ring \in Seq(AnyByte) /\ Len(ring) <= Size /\ out \in Seq(AnyByte)
        /\ chunk \in [Contexts -> Seq(AnyByte)]
        /\ \A c \in Contexts : Len(chunk[c]) <= ChunkSize
        /\ lines \in Seq([by : Contexts, stamp : Stamps, len : 1 .. Size])
        /\ cut \subseteq 1 .. Len(lines)
    BY DEF Init
  <2>2. stamp \in [Contexts -> Stamps] /\ msg \in [Contexts -> Messages \cup {NoMsg}]
    BY <1>1 DEF Init
  <2>3. /\ todo \in [Contexts -> {"write", "process"} \cup Setting] /\ active \in Contexts
        /\ pc \in [Contexts -> {"idle", "instance", "write", "stamp", "enqueue", "process",
                                "pop", "put"} \cup Setting]
    BY DEF Init, Contexts
  <2>4. initialized \in BOOLEAN /\ provider \in BOOLEAN
    BY DEF Init
  <2>5. /\ level \in Levels /\ every \in Nat \ {0} /\ divider \in Nat
        /\ dropped \in Nat /\ ticks \in Nat /\ forgotten \in Nat /\ clock \in 0 .. MaxClock
    BY DEF Init
  <2> QED BY <2>1, <2>2, <2>3, <2>4, <2>5 DEF LogTyped, ConfigTyped, BytesTyped, CallTyped
<1>3. LogControl /\ Fresh /\ AllPlaced /\ FlushWithinPeriod
  BY DEF Init, LogControl, Fresh, AllPlaced, Placed, OfLine, FlushWithinPeriod, Contexts
<1> QED BY <1>2, <1>3 DEF LogBase

\* A call that pops moves the front of the ring to its chunk.
LEMMA PopMoves ==
  ASSUME LogBase, NEW c \in Contexts, PopChunk(c)
  PROVE  \E n \in 0 .. Len(ring) :
           /\ n <= ChunkSize /\ (n = 0 => pc' = [pc EXCEPT ![c] = "idle"])
           /\ (n > 0 => pc' = [pc EXCEPT ![c] = "put"])
           /\ active = c /\ pc[c] = "pop" /\ chunk[c] = << >>
           /\ chunk' = [chunk EXCEPT ![c] = SubSeq(ring, 1, n)]
           /\ chunk'[c] \in Seq(AnyByte) /\ Len(chunk'[c]) = n
           /\ \A i \in 1 .. n : chunk'[c][i] = ring[i]
           /\ ring' = SubSeq(ring, n + 1, Len(ring))
           /\ ring' \in Seq(AnyByte) /\ Len(ring') = Len(ring) - n
           /\ \A i \in 1 .. (Len(ring) - n) : ring'[i] = ring[n + i]
           /\ ring = chunk'[c] \o ring'
           /\ UNCHANGED <<config, clock, active, todo, msg, stamp, out, history>>
<1> DEFINE n == Min({ChunkSize, Len(ring)})
<1>1. ring \in Seq(AnyByte) /\ chunk \in [Contexts -> Seq(AnyByte)] /\ Len(ring) \in Nat
  BY DEF LogBase, LogTyped, ConfigTyped, BytesTyped, CallTyped
<1>2. n \in 0 .. Len(ring) /\ n <= ChunkSize
  BY <1>1, MinPair, Sizes
<1>3. /\ active = c /\ pc[c] = "pop" /\ pc' = [pc EXCEPT ![c] = IF n = 0 THEN "idle" ELSE "put"]
      /\ chunk' = [chunk EXCEPT ![c] = SubSeq(ring, 1, n)]
      /\ ring' = SubSeq(ring, n + 1, Len(ring))
      /\ UNCHANGED <<config, clock, active, todo, msg, stamp, out, history>>
  BY DEF PopChunk, Step
<1> HIDE DEF n
<1>4. chunk[c] = << >>
  BY <1>3 DEF LogBase, LogControl
<1>5. chunk'[c] = SubSeq(ring, 1, n)
  BY <1>1, <1>3
<1>6. /\ chunk'[c] \in Seq(AnyByte) /\ Len(chunk'[c]) = n
      /\ \A i \in 1 .. n : chunk'[c][i] = ring[i]
      /\ ring' \in Seq(AnyByte) /\ Len(ring') = Len(ring) - n
      /\ \A i \in 1 .. (Len(ring) - n) : ring'[i] = ring[n + i]
      /\ ring = chunk'[c] \o ring'
  BY <1>1, <1>2, <1>3, <1>5, SplitFacts
<1>7. n = 0 => pc' = [pc EXCEPT ![c] = "idle"]
  BY <1>3
<1>8. n > 0 => n # 0
  BY <1>2
<1>9. n > 0 => pc' = [pc EXCEPT ![c] = "put"]
  BY <1>3, <1>8
<1> QED BY <1>2, <1>3, <1>4, <1>6, <1>7, <1>9

\* putchar moves the first byte of the chunk to the terminal.
LEMMA PutMoves ==
  ASSUME LogBase, NEW c \in Contexts, PutChar(c)
  PROVE  /\ active = c /\ pc[c] = "put" /\ Len(chunk[c]) > 0
         /\ pc' = [pc EXCEPT ![c] = IF Len(chunk[c]) = 1 THEN "pop" ELSE "put"]
         /\ out' = Append(out, chunk[c][1])
         /\ out' \in Seq(AnyByte) /\ Len(out') = Len(out) + 1
         /\ \A i \in 1 .. Len(out) : out'[i] = out[i]
         /\ out'[Len(out) + 1] = chunk[c][1]
         /\ chunk' = [chunk EXCEPT ![c] = Tail(chunk[c])]
         /\ chunk'[c] \in Seq(AnyByte) /\ Len(chunk'[c]) = Len(chunk[c]) - 1
         /\ \A i \in 1 .. (Len(chunk[c]) - 1) : chunk'[c][i] = chunk[c][i + 1]
         /\ chunk'[c] = << >> <=> Len(chunk[c]) = 1
         /\ UNCHANGED <<config, ring, clock, active, todo, msg, stamp, history>>
<1>1. out \in Seq(AnyByte) /\ chunk \in [Contexts -> Seq(AnyByte)]
  BY DEF LogBase, LogTyped, ConfigTyped, BytesTyped, CallTyped
<1>2. /\ active = c /\ pc[c] = "put"
      /\ pc' = [pc EXCEPT ![c] = IF Len(chunk[c]) = 1 THEN "pop" ELSE "put"]
      /\ out' = Append(out, Head(chunk[c]))
      /\ chunk' = [chunk EXCEPT ![c] = Tail(chunk[c])]
      /\ UNCHANGED <<config, ring, clock, active, todo, msg, stamp, history>>
  BY DEF PutChar, Step
<1>3. chunk[c] # << >> /\ chunk[c] \in Seq(AnyByte)
  BY <1>1, <1>2 DEF LogBase, LogControl
<1>4. Len(chunk[c]) > 0 /\ Head(chunk[c]) = chunk[c][1] /\ chunk[c][1] \in AnyByte
  BY <1>3
<1>5. chunk'[c] = Tail(chunk[c])
  BY <1>1, <1>2
<1>6. /\ chunk'[c] \in Seq(AnyByte) /\ Len(chunk'[c]) = Len(chunk[c]) - 1
      /\ \A i \in 1 .. (Len(chunk[c]) - 1) : chunk'[c][i] = chunk[c][i + 1]
  BY <1>3, <1>5
<1>7. /\ out' \in Seq(AnyByte) /\ Len(out') = Len(out) + 1
      /\ \A i \in 1 .. Len(out) : out'[i] = out[i]
      /\ out'[Len(out) + 1] = chunk[c][1]
  BY <1>1, <1>2, <1>4
<1>8. chunk'[c] = << >> <=> Len(chunk'[c]) = 0
  <2>1. chunk'[c] \in Seq(AnyByte)
    BY <1>6
  <2> QED BY <2>1, EmptySeq
<1>9. chunk'[c] = << >> <=> Len(chunk[c]) = 1
  BY <1>3, <1>6, <1>8
<1> QED BY <1>2, <1>4, <1>6, <1>7, <1>9

\* The line that Enqueue(c) stores, and how many bytes it discards first.
NewLine(c) == Stored(Formatted(msg[c], Len(lines) + 1))

Lost(c) == Discard(Len(NewLine(c)))

\* A line is queued whole behind what the discard has left of the ring.
LEMMA EnqueueMoves ==
  ASSUME LogBase, NEW c \in Contexts, Enqueue(c)
  PROVE  /\ active = c /\ pc[c] = "enqueue" /\ pc' = [pc EXCEPT ![c] = "idle"]
         /\ NewLine(c) \in Seq(AnyByte) /\ Len(NewLine(c)) \in 1 .. Size
         /\ \A i \in 1 .. Len(NewLine(c)) : /\ NewLine(c)[i].line = Len(lines) + 1
                                            /\ NewLine(c)[i].pos = i
         /\ Lost(c) \in 0 .. Len(ring) /\ Lost(c) \in {0} \cup LineEnds
         /\ Len(ring) - Lost(c) + Len(NewLine(c)) <= Size
         /\ ring' = SubSeq(ring, Lost(c) + 1, Len(ring)) \o NewLine(c)
         /\ ring' \in Seq(AnyByte)
         /\ Len(ring') = Len(ring) - Lost(c) + Len(NewLine(c))
         /\ \A i \in 1 .. (Len(ring) - Lost(c)) : ring'[i] = ring[Lost(c) + i]
         /\ \A i \in 1 .. Len(NewLine(c)) : ring'[Len(ring) - Lost(c) + i] = NewLine(c)[i]
         /\ lines' = Append(lines, [by |-> c, stamp |-> stamp[c], len |-> Len(NewLine(c))])
         /\ dropped' = dropped + CountDrop(Lost(c))
         /\ cut' = cut \cup {ring[i].line : i \in 1 .. Lost(c)}
         /\ msg' = [msg EXCEPT ![c] = NoMsg]
         /\ stamp' = [stamp EXCEPT ![c] = NoStamp]
         /\ UNCHANGED <<initialized, level, divider, every, provider, ticks, clock,
                        active, todo, chunk, out, forgotten, budget>>
<1> DEFINE line == NewLine(c)
           d == Lost(c)
           rest == SubSeq(ring, d + 1, Len(ring))
<1>1. /\ active = c /\ pc[c] = "enqueue" /\ pc' = [pc EXCEPT ![c] = "idle"]
      /\ ring' = Pushed(rest, line)
      /\ lines' = Append(lines, [by |-> c, stamp |-> stamp[c], len |-> Len(line)])
      /\ dropped' = dropped + CountDrop(d)
      /\ cut' = cut \cup {ring[i].line : i \in 1 .. d}
      /\ msg' = [msg EXCEPT ![c] = NoMsg]
      /\ stamp' = [stamp EXCEPT ![c] = NoStamp]
      /\ UNCHANGED <<initialized, level, divider, every, provider, ticks, clock,
                     active, todo, chunk, out, forgotten, budget>>
  BY DEF Enqueue, Step, NewLine, Lost
<1>2. /\ ring \in Seq(AnyByte) /\ Len(ring) \in 0 .. Size /\ Len(lines) + 1 \in Nat
      /\ msg[c] \in Messages \cup {NoMsg}
  BY DEF LogBase, LogTyped, ConfigTyped, BytesTyped, CallTyped
<1>3. /\ line \in Seq(AnyByte) /\ Len(line) \in 1 .. Size
      /\ \A i \in 1 .. Len(line) : line[i].line = Len(lines) + 1 /\ line[i].pos = i
  BY <1>2, StoredLine DEF NewLine
<1>4. /\ d \in 0 .. Len(ring) /\ d \in {0} \cup LineEnds
      /\ Size - (Len(ring) - d) >= Len(line)
  BY <1>2, <1>3, DiscardFacts DEF Lost
<1> HIDE DEF line, d
<1>5. /\ rest \in Seq(AnyByte) /\ Len(rest) = Len(ring) - d
      /\ \A i \in 1 .. (Len(ring) - d) : rest[i] = ring[d + i]
  BY <1>2, <1>4
<1>6. Len(ring) - d + Len(line) <= Size
  BY <1>2, <1>3, <1>4, Sizes
<1> HIDE DEF rest
<1>7. ring' = rest \o line
  BY <1>1, <1>3, <1>5, <1>6, PushedAll
<1>8. /\ ring' \in Seq(AnyByte) /\ Len(ring') = Len(ring) - d + Len(line)
      /\ \A i \in 1 .. (Len(ring) - d) : ring'[i] = rest[i]
      /\ \A i \in 1 .. Len(line) : ring'[Len(ring) - d + i] = line[i]
  <2>1. /\ rest \o line \in Seq(AnyByte) /\ Len(rest \o line) = Len(rest) + Len(line)
        /\ \A i \in 1 .. Len(rest) : (rest \o line)[i] = rest[i]
        /\ \A i \in 1 .. Len(line) : (rest \o line)[Len(rest) + i] = line[i]
    <3>1. rest \in Seq(AnyByte) /\ line \in Seq(AnyByte)
      BY <1>3, <1>5
    <3> QED BY <3>1, ConcatFacts
  <2> QED BY <1>5, <1>7, <2>1
<1> QED BY <1>1, <1>3, <1>4, <1>5, <1>6, <1>7, <1>8 DEF line, d, rest

\* Every other step leaves the bytes and the lines alone.
LEMMA OtherSteps ==
  ASSUME LogBase, [Next]_vars
  PROVE  UNCHANGED data \/ \E c \in Contexts : Enqueue(c) \/ PopChunk(c) \/ PutChar(c)
<1> USE DEF data, config, locals, history
<1>1. CASE UNCHANGED vars
  BY <1>1 DEF vars
<1>2. CASE \E f \in {"write", "process"} \cup Setting : Call(f) \/ Interrupt(f)
  BY <1>2 DEF Call, Interrupt
<1>3. CASE Eret \/ Tick
  BY <1>3 DEF Eret, Tick
<1>4. ASSUME NEW c \in Contexts, Instance(c) PROVE UNCHANGED data
  BY <1>4 DEF Instance, LogBase, Fresh
<1>5. ASSUME NEW c \in Contexts,
             \/ CheckLevel(c) \/ GetTimestamp(c) \/ ShouldProcess(c)
             \/ SetLevel(c) \/ SetEvery(c) \/ SetProvider(c) \/ ResetDropped(c)
      PROVE  UNCHANGED data
  BY <1>5 DEF CheckLevel, GetTimestamp, ShouldProcess, SetLevel, SetEvery, SetProvider,
              ResetDropped
<1> QED BY <1>1, <1>2, <1>3, <1>4, <1>5 DEF Next, Section

LEMMA ConfigStep ==
  ASSUME LogBase, [Next]_vars
  PROVE  ConfigTyped' /\ FlushWithinPeriod'
<1> USE DEF ConfigTyped, FlushWithinPeriod, LogBase, LogTyped, config
<1>1. CASE UNCHANGED vars
  BY <1>1 DEF vars, history
<1>2. CASE \E f \in {"write", "process"} \cup Setting : Call(f) \/ Interrupt(f)
  BY <1>2 DEF Call, Interrupt
<1>3. CASE Eret
  BY <1>3 DEF Eret, history
<1>4. CASE Tick
  BY <1>4, Sizes DEF Tick, history
<1>5. ASSUME NEW c \in Contexts, Section(c) PROVE ConfigTyped' /\ FlushWithinPeriod'
  <2>1. CASE Instance(c)
    <3>1. /\ initialized' = initialized \/ initialized' = TRUE
          /\ provider' = provider \/ provider' = FALSE
      BY <2>1 DEF Instance
    <3>2. ticks' = ticks \/ ticks' = 0
      BY <2>1 DEF Instance
    <3>3. UNCHANGED <<level, divider, every, dropped, clock, forgotten>>
      BY <2>1 DEF Instance, history
    <3>4. initialized' \in BOOLEAN /\ provider' \in BOOLEAN
      BY <3>1
    <3> QED BY <3>2, <3>3, <3>4
  <2>2. CASE CheckLevel(c)
    BY <2>2 DEF CheckLevel, history
  <2>3. CASE GetTimestamp(c)
    <3>1. ticks' = ticks \/ ticks' = ticks + 1
      BY <2>3 DEF GetTimestamp
    <3>2. UNCHANGED <<initialized, level, divider, every, dropped, provider, clock, forgotten>>
      BY <2>3 DEF GetTimestamp, history
    <3> QED BY <3>1, <3>2
  <2>4. CASE Enqueue(c)
    <3>1. CountDrop(Lost(c)) \in Nat
      <4>1. {i \in LineEnds : i <= Lost(c)} \subseteq 1 .. Len(ring) /\ Len(ring) \in Nat
        BY DEF LineEnds, BytesTyped
      <4>2. IsFiniteSet(1 .. Len(ring))
        BY <4>1, FS_Interval
      <4>3. IsFiniteSet({i \in LineEnds : i <= Lost(c)})
        BY <4>1, <4>2, FS_Subset
      <4> QED BY <4>3, FS_CardinalityType DEF CountDrop
    <3>2. /\ dropped' = dropped + CountDrop(Lost(c))
          /\ UNCHANGED <<initialized, level, divider, every, provider, ticks, clock, forgotten>>
      BY <2>4, EnqueueMoves
    <3> QED BY <3>1, <3>2
  <2>5. CASE ShouldProcess(c)
    BY <2>5 DEF ShouldProcess, history
  <2>6. CASE PopChunk(c) \/ PutChar(c)
    BY <2>6 DEF PopChunk, PutChar, history
  <2>7. CASE SetLevel(c) \/ SetProvider(c)
    BY <2>7 DEF SetLevel, SetProvider, history
  <2>8. CASE SetEvery(c)
    <3>1. \A n \in EveryArgs : Max({n, 1}) \in Nat \ {0}
      BY MaxPair, LoggerAssumption
    <3> QED BY <2>8, <3>1 DEF SetEvery, history
  <2>9. CASE ResetDropped(c)
    BY <2>9 DEF ResetDropped
  <2> QED BY <1>5, <2>1, <2>2, <2>3, <2>4, <2>5, <2>6, <2>7, <2>8, <2>9 DEF Section
<1> QED BY <1>1, <1>2, <1>3, <1>4, <1>5 DEF Next

LEMMA CallStep ==
  ASSUME LogBase, [Next]_vars
  PROVE  CallTyped' /\ LogControl'
<1> USE DEF CallTyped, LogControl, LogBase, LogTyped, locals, Contexts, Setting
<1>1. CASE UNCHANGED vars
  BY <1>1 DEF vars
<1>2. ASSUME NEW f \in {"write", "process"} \cup Setting, Call(f) PROVE CallTyped' /\ LogControl'
  BY <1>2 DEF Call, Step
<1>3. ASSUME NEW f \in {"write", "process"} \cup Setting, Interrupt(f)
      PROVE  CallTyped' /\ LogControl'
  BY <1>3 DEF Interrupt
<1>4. CASE Eret \/ Tick
  BY <1>4 DEF Eret, Tick
<1>5. ASSUME NEW c \in Contexts, Section(c) PROVE CallTyped' /\ LogControl'
  <2>1. CASE Instance(c)
    BY <2>1 DEF Instance, Step
  <2>2. CASE CheckLevel(c)
    BY <2>2 DEF CheckLevel, Step
  <2>3. CASE GetTimestamp(c)
    BY <2>3 DEF GetTimestamp, Step, Stamps, ConfigTyped
  <2>4. CASE Enqueue(c)
    <3>1. NoStamp \in Stamps
      BY DEF NoStamp, Stamps
    <3>2. /\ pc[c] = "enqueue" /\ pc' = [pc EXCEPT ![c] = "idle"]
          /\ msg' = [msg EXCEPT ![c] = NoMsg] /\ stamp' = [stamp EXCEPT ![c] = NoStamp]
          /\ UNCHANGED <<active, todo, chunk>>
      BY <2>4, EnqueueMoves
    <3> QED BY <3>1, <3>2
  <2>5. CASE ShouldProcess(c)
    BY <2>5 DEF ShouldProcess, Step
  <2>6. CASE PopChunk(c)
    <3>1. /\ active = c /\ pc[c] = "pop" /\ chunk[c] = << >>
          /\ UNCHANGED <<active, todo, msg, stamp>>
          /\ \A b \in Contexts \ {c} : chunk'[b] = chunk[b]
          /\ \/ pc' = [pc EXCEPT ![c] = "idle"] /\ chunk'[c] = << >>
             \/ pc' = [pc EXCEPT ![c] = "put"] /\ chunk'[c] # << >>
      <4>1. PICK n \in 0 .. Len(ring) :
              /\ (n = 0 => pc' = [pc EXCEPT ![c] = "idle"])
              /\ (n > 0 => pc' = [pc EXCEPT ![c] = "put"])
              /\ active = c /\ pc[c] = "pop" /\ chunk[c] = << >>
              /\ chunk' = [chunk EXCEPT ![c] = SubSeq(ring, 1, n)]
              /\ chunk'[c] \in Seq(AnyByte) /\ Len(chunk'[c]) = n
              /\ UNCHANGED <<active, todo, msg, stamp>>
        BY <2>6, PopMoves
      <4>2. n = 0 \/ n > 0
        BY <4>1 DEF BytesTyped
      <4>3. n = 0 => chunk'[c] = << >>
        BY <4>1
      <4>4. n > 0 => chunk'[c] # << >>
        BY <4>1
      <4> QED BY <4>1, <4>2, <4>3, <4>4 DEF BytesTyped
    <3> QED BY <3>1
  <2>7. CASE PutChar(c)
    <3>1. /\ active = c /\ pc[c] = "put" /\ Len(chunk[c]) > 0
          /\ pc' = [pc EXCEPT ![c] = IF Len(chunk[c]) = 1 THEN "pop" ELSE "put"]
          /\ chunk'[c] \in Seq(AnyByte) /\ Len(chunk'[c]) = Len(chunk[c]) - 1
          /\ \A b \in Contexts \ {c} : chunk'[b] = chunk[b]
          /\ UNCHANGED <<active, todo, msg, stamp>>
      BY <2>7, PutMoves DEF BytesTyped
    <3>2. chunk'[c] = << >> <=> Len(chunk[c]) = 1
      BY <2>7, PutMoves
    <3> QED BY <3>1, <3>2
  <2>8. CASE SetLevel(c) \/ SetProvider(c) \/ SetEvery(c) \/ ResetDropped(c)
    BY <2>8 DEF SetLevel, SetProvider, SetEvery, ResetDropped, Step
  <2> QED BY <1>5, <2>1, <2>2, <2>3, <2>4, <2>5, <2>6, <2>7, <2>8 DEF Section
<1> QED BY <1>1, <1>2, <1>3, <1>4, <1>5 DEF Next

\* A queued line stays what it is.
LEMMA LinesGrow ==
  ASSUME LogBase, NEW c \in Contexts, Enqueue(c)
  PROVE  /\ lines' \in Seq([by : Contexts, stamp : Stamps, len : 1 .. Size])
         /\ Len(lines') = Len(lines) + 1 /\ Len(lines) \in Nat
         /\ \A id \in 1 .. Len(lines) : lines'[id] = lines[id]
         /\ lines'[Len(lines) + 1] = [by |-> c, stamp |-> stamp[c], len |-> Len(NewLine(c))]
<1> DEFINE L == [by : Contexts, stamp : Stamps, len : 1 .. Size]
           l == [by |-> c, stamp |-> stamp[c], len |-> Len(NewLine(c))]
<1>1. lines \in Seq(L) /\ stamp[c] \in Stamps
  BY DEF LogBase, LogTyped, BytesTyped, CallTyped
<1>2. lines' = Append(lines, l) /\ Len(NewLine(c)) \in 1 .. Size
  BY EnqueueMoves
<1>3. l \in L
  BY <1>1, <1>2
<1> HIDE DEF L, l
<1>4. /\ Append(lines, l) \in Seq(L) /\ Len(Append(lines, l)) = Len(lines) + 1
      /\ Len(lines) \in Nat
      /\ \A id \in 1 .. Len(lines) : Append(lines, l)[id] = lines[id]
      /\ Append(lines, l)[Len(lines) + 1] = l
  BY <1>1, <1>3
<1> QED BY <1>2, <1>4 DEF L, l

LEMMA BytesStep ==
  ASSUME LogBase, [Next]_vars
  PROVE  BytesTyped' /\ AllPlaced'
<1>0. /\ BytesTyped /\ Placed(ring) /\ Placed(out) /\ \A c \in Contexts : Placed(chunk[c])
      /\ Len(ring) \in Nat
  BY DEF LogBase, LogTyped, AllPlaced, BytesTyped
<1>1. CASE UNCHANGED data
  BY <1>0, <1>1 DEF data, BytesTyped, AllPlaced, Placed, OfLine
<1>2. ASSUME NEW c \in Contexts, Enqueue(c) PROVE BytesTyped' /\ AllPlaced'
  <2>1. /\ lines' \in Seq([by : Contexts, stamp : Stamps, len : 1 .. Size])
        /\ Len(lines') = Len(lines) + 1 /\ Len(lines) \in Nat
        /\ \A id \in 1 .. Len(lines) : lines'[id] = lines[id]
    BY <1>2, LinesGrow
  <2>0. lines'[Len(lines) + 1].len = Len(NewLine(c))
    <3>1. lines'[Len(lines) + 1] = [by |-> c, stamp |-> stamp[c], len |-> Len(NewLine(c))]
      BY <1>2, LinesGrow
    <3> QED BY <3>1
  <2>2. ASSUME NEW b, OfLine(b) PROVE OfLine(b)'
    <3>1. b.line \in 1 .. Len(lines) /\ b.pos \in 1 .. lines[b.line].len
      BY <2>2 DEF OfLine
    <3>2. lines'[b.line] = lines[b.line] /\ b.line \in 1 .. Len(lines')
      BY <2>1, <3>1
    <3> QED BY <3>1, <3>2 DEF OfLine
  <2>3. UNCHANGED <<out, chunk>>
    BY <1>2, EnqueueMoves
  <2>4. /\ Lost(c) \in 0 .. Len(ring)
        /\ ring' \in Seq(AnyByte) /\ Len(ring') = Len(ring) - Lost(c) + Len(NewLine(c))
        /\ Len(ring') <= Size
        /\ \A i \in 1 .. (Len(ring) - Lost(c)) : ring'[i] = ring[Lost(c) + i]
        /\ \A i \in 1 .. Len(NewLine(c)) : /\ ring'[Len(ring) - Lost(c) + i] = NewLine(c)[i]
                                           /\ NewLine(c)[i].line = Len(lines) + 1
                                           /\ NewLine(c)[i].pos = i
        /\ Len(NewLine(c)) \in 1 .. Size
    BY <1>2, EnqueueMoves
  <2>5. Placed(out)' /\ \A b \in Contexts : Placed(chunk[b])'
    BY <1>0, <2>2, <2>3 DEF Placed
  <2>6. ASSUME NEW i \in 1 .. Len(ring') PROVE OfLine(ring[i])'
    <3>1. CASE i <= Len(ring) - Lost(c)
      <4>1. Lost(c) + i \in 1 .. Len(ring) /\ ring'[i] = ring[Lost(c) + i]
        BY <1>0, <2>4, <3>1
      <4>2. OfLine(ring'[i])
        BY <4>1, <1>0 DEF Placed
      <4>3. ring'[i].line \in 1 .. Len(lines) /\ ring'[i].pos \in 1 .. lines[ring'[i].line].len
        BY <4>2 DEF OfLine
      <4>4. lines'[ring'[i].line] = lines[ring'[i].line] /\ ring'[i].line \in 1 .. Len(lines')
        BY <2>1, <4>3
      <4> QED BY <4>3, <4>4 DEF OfLine
    <3>2. CASE i > Len(ring) - Lost(c)
      <4>1. PICK j \in 1 .. Len(NewLine(c)) : i = Len(ring) - Lost(c) + j
        <5>1. i - (Len(ring) - Lost(c)) \in 1 .. Len(NewLine(c))
          BY <1>0, <2>4, <3>2
        <5>2. i = Len(ring) - Lost(c) + (i - (Len(ring) - Lost(c)))
          BY <1>0, <2>4
        <5> QED BY <5>1, <5>2
      <4>2. ring'[i].line = Len(lines) + 1 /\ ring'[i].pos = j
        BY <2>4, <4>1
      <4>3. ring'[i].line \in 1 .. Len(lines') /\ lines'[ring'[i].line].len = Len(NewLine(c))
        BY <4>2, <2>1, <2>0
      <4> QED BY <4>2, <4>3 DEF OfLine
    <3> QED BY <3>1, <3>2, <1>0, <2>4
  <2>7. cut' \subseteq 1 .. Len(lines')
    <3>1. cut' = cut \cup {ring[i].line : i \in 1 .. Lost(c)}
      BY <1>2, EnqueueMoves
    <3>2. ASSUME NEW i \in 1 .. Lost(c) PROVE ring[i].line \in 1 .. Len(lines)
      <4>1. i \in 1 .. Len(ring)
        BY <1>0, <2>4
      <4> QED BY <4>1, <1>0 DEF Placed, OfLine
    <3>3. 1 .. Len(lines) \subseteq 1 .. Len(lines')
      BY <2>1
    <3>4. cut \subseteq 1 .. Len(lines)
      BY <1>0 DEF BytesTyped
    <3> QED BY <3>1, <3>2, <3>3, <3>4
  <2>8. Placed(ring)'
    BY <2>6 DEF Placed
  <2>9. BytesTyped'
    BY <1>0, <2>1, <2>3, <2>4, <2>7 DEF BytesTyped
  <2> QED BY <2>5, <2>8, <2>9 DEF AllPlaced
<1>3. ASSUME NEW c \in Contexts, PopChunk(c) PROVE BytesTyped' /\ AllPlaced'
  <2>1. PICK n \in 0 .. Len(ring) :
           /\ n <= ChunkSize
           /\ chunk' = [chunk EXCEPT ![c] = SubSeq(ring, 1, n)]
           /\ chunk'[c] \in Seq(AnyByte) /\ Len(chunk'[c]) = n
           /\ \A i \in 1 .. n : chunk'[c][i] = ring[i]
           /\ ring' \in Seq(AnyByte) /\ Len(ring') = Len(ring) - n
           /\ \A i \in 1 .. (Len(ring) - n) : ring'[i] = ring[n + i]
           /\ UNCHANGED <<out, lines, cut>>
    BY <1>3, PopMoves DEF history
  <2>2. /\ \A b \in Contexts \ {c} : chunk'[b] = chunk[b]
        /\ chunk' = [b \in Contexts |-> chunk'[b]]
    BY <1>0, <2>1 DEF BytesTyped
  <2>3. chunk' \in [Contexts -> Seq(AnyByte)] /\ \A b \in Contexts : Len(chunk'[b]) <= ChunkSize
    BY <1>0, <2>1, <2>2 DEF BytesTyped
  <2>4. \A b : OfLine(b) => OfLine(b)'
    BY <2>1 DEF OfLine
  <2>5. \A i \in 1 .. n : i \in 1 .. Len(ring)
    BY <1>0
  <2>6. \A i \in 1 .. n : OfLine(chunk'[c][i])
    BY <1>0, <2>1, <2>5 DEF Placed
  <2>7. ASSUME NEW i \in 1 .. (Len(ring) - n) PROVE OfLine(ring'[i])
    <3>1. n + i \in 1 .. Len(ring) /\ ring'[i] = ring[n + i]
      BY <1>0, <2>1
    <3> QED BY <1>0, <3>1 DEF Placed
  <2>8. Placed(chunk[c])' /\ Placed(ring)' /\ Placed(out)'
    <3>1. Placed(chunk[c])' <=> \A i \in 1 .. n : OfLine(chunk'[c][i])
      BY <2>1 DEF Placed, OfLine
    <3>2. Placed(ring)' <=> \A i \in 1 .. (Len(ring) - n) : OfLine(ring'[i])
      BY <2>1 DEF Placed, OfLine
    <3>3. Placed(out)' <=> Placed(out)
      BY <2>1 DEF Placed, OfLine
    <3> QED BY <1>0, <2>6, <2>7, <3>1, <3>2, <3>3
  <2>9. \A b \in Contexts \ {c} : Placed(chunk[b])'
    BY <1>0, <2>1, <2>2 DEF Placed, OfLine
  <2>0. Len(ring) - n <= Size
    BY <1>0, Sizes DEF BytesTyped
  <2>10. BytesTyped'
    <3>1. ring' \in Seq(AnyByte) /\ Len(ring') <= Size
      BY <2>1, <2>0
    <3>2. /\ out' \in Seq(AnyByte) /\ cut' \subseteq 1 .. Len(lines')
          /\ lines' \in Seq([by : Contexts, stamp : Stamps, len : 1 .. Size])
      BY <1>0, <2>1 DEF BytesTyped
    <3> QED BY <2>3, <3>1, <3>2 DEF BytesTyped
  <2> QED BY <2>8, <2>9, <2>10 DEF AllPlaced
<1>4. ASSUME NEW c \in Contexts, PutChar(c) PROVE BytesTyped' /\ AllPlaced'
  <2>1. /\ out' \in Seq(AnyByte) /\ Len(out') = Len(out) + 1 /\ Len(chunk[c]) > 0
        /\ \A i \in 1 .. Len(out) : out'[i] = out[i]
        /\ out'[Len(out) + 1] = chunk[c][1]
        /\ chunk' = [chunk EXCEPT ![c] = Tail(chunk[c])]
        /\ chunk'[c] \in Seq(AnyByte) /\ Len(chunk'[c]) = Len(chunk[c]) - 1
        /\ \A i \in 1 .. (Len(chunk[c]) - 1) : chunk'[c][i] = chunk[c][i + 1]
        /\ UNCHANGED <<ring, lines, cut>>
    BY <1>4, PutMoves DEF history
  <2>2. /\ \A b \in Contexts \ {c} : chunk'[b] = chunk[b]
        /\ chunk' = [b \in Contexts |-> chunk'[b]]
    BY <1>0, <2>1 DEF BytesTyped
  <2>0. Len(chunk[c]) \in Nat /\ Len(out) \in Nat /\ \A b \in Contexts : Len(chunk[b]) <= ChunkSize
    <3>1. chunk[c] \in Seq(AnyByte) /\ out \in Seq(AnyByte)
      BY <1>0 DEF BytesTyped
    <3>2. \A b \in Contexts : Len(chunk[b]) <= ChunkSize
      BY <1>0 DEF BytesTyped
    <3> QED BY <3>1, <3>2
  <2>3. chunk' \in [Contexts -> Seq(AnyByte)]
    BY <1>0, <2>1, <2>2 DEF BytesTyped
  <2>4. \A b \in Contexts : Len(chunk'[b]) <= ChunkSize
    <3>1. Len(chunk'[c]) <= ChunkSize
      BY <2>1, <2>0, Sizes
    <3> QED BY <2>2, <2>0, <3>1
  <2>5. \A i \in 1 .. Len(chunk[c]) : OfLine(chunk[c][i])
    BY <1>0 DEF Placed
  <2>6. OfLine(chunk[c][1])
    <3>1. 1 \in 1 .. Len(chunk[c])
      BY <2>1, <2>0
    <3> QED BY <2>5, <3>1
  <2>7. ASSUME NEW i \in 1 .. (Len(chunk[c]) - 1) PROVE OfLine(chunk'[c][i])
    <3>1. i + 1 \in 1 .. Len(chunk[c]) /\ chunk'[c][i] = chunk[c][i + 1]
      BY <2>1, <2>0
    <3> QED BY <2>5, <3>1
  <2>8. ASSUME NEW i \in 1 .. (Len(out) + 1) PROVE OfLine(out'[i])
    <3>1. CASE i \in 1 .. Len(out)
      BY <1>0, <2>1, <3>1 DEF Placed
    <3>2. CASE i = Len(out) + 1
      BY <2>1, <2>6, <3>2
    <3> QED BY <2>0, <3>1, <3>2
  <2>9. Placed(chunk[c])' /\ Placed(ring)' /\ Placed(out)'
    <3>1. Placed(chunk[c])' <=> \A i \in 1 .. (Len(chunk[c]) - 1) : OfLine(chunk'[c][i])
      BY <2>1 DEF Placed, OfLine
    <3>2. Placed(ring)' <=> Placed(ring)
      BY <2>1 DEF Placed, OfLine
    <3>3. Placed(out)' <=> \A i \in 1 .. (Len(out) + 1) : OfLine(out'[i])
      BY <2>1 DEF Placed, OfLine
    <3> QED BY <1>0, <2>7, <2>8, <3>1, <3>2, <3>3
  <2>10. \A b \in Contexts \ {c} : Placed(chunk[b])'
    BY <1>0, <2>1, <2>2 DEF Placed, OfLine
  <2>11. BytesTyped'
    BY <1>0, <2>1, <2>3, <2>4 DEF BytesTyped
  <2> QED BY <2>9, <2>10, <2>11 DEF AllPlaced
<1> QED BY <1>1, <1>2, <1>3, <1>4, OtherSteps

LEMMA FreshStep == ASSUME LogBase, [Next]_vars PROVE Fresh'
<1> USE DEF Fresh, LogBase, config, locals, history, Contexts
<1>1. CASE UNCHANGED vars
  BY <1>1 DEF vars
<1>2. ASSUME NEW f \in {"write", "process"} \cup Setting, Call(f) \/ Interrupt(f) PROVE Fresh'
  BY <1>2 DEF Call, Interrupt, Step, LogTyped, CallTyped
<1>3. CASE Eret \/ Tick
  BY <1>3 DEF Eret, Tick
<1>4. ASSUME NEW c \in Contexts, Instance(c) PROVE Fresh'
  BY <1>4 DEF Instance
<1>5. ASSUME NEW c \in Contexts, Section(c), ~Instance(c) PROVE Fresh'
  <2>1. pc[c] \notin {"idle", "instance"}
    BY <1>5 DEF Section, Step, CheckLevel, GetTimestamp, Enqueue, ShouldProcess, PopChunk,
                PutChar, SetLevel, SetEvery, SetProvider, ResetDropped
  <2>2. initialized
    BY <2>1
  <2>3. initialized' = initialized
    BY <1>5 DEF Section, CheckLevel, GetTimestamp, Enqueue, ShouldProcess, PopChunk,
                PutChar, SetLevel, SetEvery, SetProvider, ResetDropped
  <2> QED BY <2>2, <2>3
<1> QED BY <1>1, <1>2, <1>3, <1>4, <1>5 DEF Next

LEMMA BaseStep == LogBase /\ [Next]_vars => LogBase'
<1> SUFFICES ASSUME LogBase, [Next]_vars PROVE LogBase'
  OBVIOUS
<1> QED BY ConfigStep, CallStep, BytesStep, FreshStep DEF LogBase, LogTyped

\* The types, with the places of the bytes: of a line as long as it was stored.
THEOREM LoggerTyped == Spec => []LoggerTypeOK
<1>1. LogBase => LoggerTypeOK
  <2> SUFFICES ASSUME LogBase PROVE LoggerTypeOK
    OBVIOUS
  <2>1. /\ \A c \in Contexts : chunk[c] \in Seq(AnyByte) /\ Placed(chunk[c])
        /\ ring \in Seq(AnyByte) /\ Placed(ring) /\ out \in Seq(AnyByte) /\ Placed(out)
        /\ DOMAIN lines = 1 .. Len(lines)
    BY DEF LogBase, LogTyped, BytesTyped, AllPlaced
  <2>2. ASSUME NEW s \in Seq(AnyByte), Placed(s), NEW i \in DOMAIN s
        PROVE  s[i].line \in DOMAIN lines /\ s[i] \in Bytes(s[i].line)
    <3>1. i \in 1 .. Len(s) /\ s[i] \in AnyByte
      OBVIOUS
    <3>2. OfLine(s[i])
      BY <2>2, <3>1 DEF Placed
    <3> QED BY <2>1, <3>1, <3>2 DEF OfLine, Bytes, AnyByte
  <2>3. \A s \in {ring, out, chunk["main"], chunk["isr"]} :
          \A i \in DOMAIN s : s[i].line \in DOMAIN lines /\ s[i] \in Bytes(s[i].line)
    BY <2>1, <2>2 DEF Contexts
  <2>4. FlushWithinPeriod
    BY DEF LogBase
  <2> QED
    BY <2>1, <2>3, <2>4 DEF LoggerTypeOK, LogBase, LogTyped, ConfigTyped, BytesTyped, CallTyped
<1> QED BY <1>1, BaseInit, BaseStep, PTL DEF Spec

\* A flush is never more than a period of calls away.
THEOREM FlushesWithinPeriod == Spec => []FlushWithinPeriod
<1>1. LogBase => FlushWithinPeriod
  BY DEF LogBase
<1> QED BY <1>1, BaseInit, BaseStep, PTL DEF Spec
-----------------------------------------------------------------------------
(* Timestamps *)

\* c has its timestamp and has not queued its line yet.
Pending(c) == pc[c] = "enqueue"

\* The stamp comes from the counter, which has moved on, or from the clock.
Taken(s) == IF s.src = "tick" THEN s.time < ticks ELSE s.time <= clock

Later(s, t) == s.src = t.src => s.time <= t.time

Apart(s, t) == s.src = "tick" /\ t.src = "tick" => s.time # t.time

AllTaken == /\ \A c \in Contexts : Pending(c) => Taken(stamp[c])
            /\ \A i \in 1 .. Len(lines) : Taken(lines[i].stamp)

\* A stamp that is held back is no older than its context's queued lines, a handler's
\* no older than any.
PendingLast ==
  \A c \in Contexts : Pending(c) =>
     /\ \A i \in 1 .. Len(lines) : /\ c \in {lines[i].by, "isr"} => Later(lines[i].stamp, stamp[c])
                                   /\ Apart(lines[i].stamp, stamp[c])
     /\ \A b \in Contexts \ {c} : Pending(b) => Apart(stamp[b], stamp[c])

LinesInOrder ==
  \A i, j \in 1 .. Len(lines) :
     i < j => /\ lines[j].by \in {lines[i].by, "isr"} => Later(lines[i].stamp, lines[j].stamp)
              /\ Apart(lines[i].stamp, lines[j].stamp)

StampInv == AllTaken /\ PendingLast /\ LinesInOrder

LEMMA StampSteps ==
  ASSUME LogBase, [Next]_vars
  PROVE  \/ \E c \in Contexts : GetTimestamp(c) \/ Enqueue(c)
         \/ /\ UNCHANGED <<lines, stamp, ticks>> /\ clock <= clock'
            /\ \A c \in Contexts : pc'[c] = "enqueue" => pc[c] = "enqueue"
         \/ /\ lines = << >> /\ UNCHANGED <<lines, stamp>>
            /\ \A c \in Contexts : pc'[c] # "enqueue"
<1> USE DEF config, locals, history, Setting
<1>0. clock \in Nat /\ pc \in [Contexts -> {"idle", "instance", "write", "stamp", "enqueue",
                                            "process", "pop", "put"} \cup Setting]
  BY Sizes DEF LogBase, LogTyped, ConfigTyped, CallTyped
<1>1. CASE UNCHANGED vars
  BY <1>0, <1>1 DEF vars
<1>2. ASSUME NEW f \in {"write", "process"} \cup Setting, Call(f) \/ Interrupt(f)
      PROVE  /\ UNCHANGED <<lines, stamp, ticks, clock>>
             /\ \A c \in Contexts : pc'[c] = "enqueue" => pc[c] = "enqueue"
  BY <1>0, <1>2 DEF Call, Interrupt, Step
<1>3. CASE Eret
  BY <1>0, <1>3 DEF Eret
<1>4. CASE Tick
  BY <1>0, <1>4 DEF Tick
<1>5. ASSUME NEW c \in Contexts, Instance(c), ~initialized
      PROVE  /\ lines = << >> /\ UNCHANGED <<lines, stamp>>
             /\ \A b \in Contexts : pc'[b] # "enqueue"
  <2>1. /\ lines = << >> /\ \A b \in Contexts : pc[b] \in {"idle", "instance"}
        /\ todo[c] \in {"write", "process"} \cup Setting
    BY <1>5 DEF LogBase, LogTyped, CallTyped, Fresh
  <2> QED BY <1>0, <1>5, <2>1 DEF Instance, Step
<1>6. ASSUME NEW c \in Contexts, Instance(c), initialized
      PROVE  /\ UNCHANGED <<lines, stamp, ticks, clock>>
             /\ \A b \in Contexts : pc'[b] = "enqueue" => pc[b] = "enqueue"
  <2>1. todo[c] \in {"write", "process"} \cup Setting
    BY DEF LogBase, LogTyped, CallTyped
  <2>2. ticks' = ticks
    BY <1>6 DEF Instance
  <2> QED BY <1>0, <1>6, <2>1, <2>2 DEF Instance, Step
<1>7. ASSUME NEW c \in Contexts,
             \/ CheckLevel(c) \/ ShouldProcess(c) \/ PopChunk(c) \/ PutChar(c)
             \/ SetLevel(c) \/ SetEvery(c) \/ SetProvider(c) \/ ResetDropped(c)
      PROVE  /\ UNCHANGED <<lines, stamp, ticks, clock>>
             /\ \A b \in Contexts : pc'[b] = "enqueue" => pc[b] = "enqueue"
  BY <1>0, <1>7 DEF CheckLevel, ShouldProcess, PopChunk, PutChar, SetLevel, SetEvery,
                    SetProvider, ResetDropped, Step
<1>8. clock <= clock
  BY <1>0
<1> QED BY <1>0, <1>1, <1>2, <1>3, <1>4, <1>5, <1>6, <1>7, <1>8 DEF Next, Section

LEMMA StampInit == Init => StampInv
BY DEF Init, StampInv, AllTaken, PendingLast, LinesInOrder, Pending

LEMMA LineStamps ==
  ASSUME LogBase
  PROVE  /\ DOMAIN lines = 1 .. Len(lines) /\ Len(lines) \in Nat
         /\ \A i \in 1 .. Len(lines) : lines[i].stamp \in Stamps
<1> DEFINE L == [by : Contexts, stamp : Stamps, len : 1 .. Size]
<1>1. lines \in Seq(L)
  BY DEF LogBase, LogTyped, BytesTyped
<1>2. \A l \in L : l.stamp \in Stamps
  OBVIOUS
<1> HIDE DEF L
<1>3. DOMAIN lines = 1 .. Len(lines) /\ Len(lines) \in Nat /\ \A i \in 1 .. Len(lines) : lines[i] \in L
  BY <1>1
<1> QED BY <1>2, <1>3

LEMMA StampStep ==
  ASSUME LogBase, StampInv, [Next]_vars
  PROVE  StampInv'
<1>0. /\ ticks \in Nat /\ clock \in Nat /\ clock' \in Nat /\ Len(lines) \in Nat
      /\ \A c \in Contexts : stamp[c] \in Stamps
      /\ \A i \in 1 .. Len(lines) : lines[i].stamp \in Stamps
      /\ pc \in [Contexts -> {"idle", "instance", "write", "stamp", "enqueue",
                              "process", "pop", "put"} \cup Setting]
      /\ stamp \in [Contexts -> Stamps]
  <2>1. ticks \in Nat /\ clock \in Nat
    BY Sizes DEF LogBase, LogTyped, ConfigTyped
  <2>2. clock' \in Nat
    BY ConfigStep, Sizes DEF ConfigTyped
  <2>3. /\ pc \in [Contexts -> {"idle", "instance", "write", "stamp", "enqueue",
                                "process", "pop", "put"} \cup Setting]
        /\ stamp \in [Contexts -> Stamps] /\ \A c \in Contexts : stamp[c] \in Stamps
    BY DEF LogBase, LogTyped, CallTyped
  <2>4. Len(lines) \in Nat /\ \A i \in 1 .. Len(lines) : lines[i].stamp \in Stamps
    BY LineStamps
  <2> QED BY <2>1, <2>2, <2>3, <2>4
<1>1. ASSUME UNCHANGED <<lines, stamp, ticks>>, clock <= clock',
             \A c \in Contexts : pc'[c] = "enqueue" => pc[c] = "enqueue"
      PROVE  StampInv'
  <2>1. \A s \in Stamps : Taken(s) => Taken(s)'
    BY <1>0, <1>1 DEF Taken, Stamps
  <2>2. \A c \in Contexts : Pending(c)' => Pending(c)
    BY <1>1 DEF Pending
  <2>3. AllTaken'
    BY <1>0, <1>1, <2>1, <2>2 DEF StampInv, AllTaken, Taken
  <2>4. PendingLast'
    BY <1>1, <2>2 DEF StampInv, PendingLast
  <2> QED BY <1>1, <2>3, <2>4 DEF StampInv, LinesInOrder
<1>2. ASSUME lines = << >>, UNCHANGED <<lines, stamp>>,
             \A c \in Contexts : pc'[c] # "enqueue"
      PROVE  StampInv'
  BY <1>2 DEF StampInv, AllTaken, PendingLast, LinesInOrder, Pending
<1>3. ASSUME NEW c \in Contexts, GetTimestamp(c) PROVE StampInv'
  <2>1. /\ UNCHANGED <<lines, clock>> /\ stamp' = [stamp EXCEPT ![c] = stamp'[c]]
        /\ pc' = [pc EXCEPT ![c] = "enqueue"] /\ pc[c] = "stamp"
        /\ \/ stamp'[c] = [src |-> "clock", time |-> clock] /\ ticks' = ticks
           \/ stamp'[c] = [src |-> "tick", time |-> ticks] /\ ticks' = ticks + 1
    BY <1>0, <1>3 DEF GetTimestamp, Step, history
  <2>2. \A b \in Contexts \ {c} : stamp'[b] = stamp[b] /\ (Pending(b)' <=> Pending(b))
    BY <1>0, <2>1 DEF Pending
  <2>3. \A s \in Stamps : Taken(s) => Taken(s)'
    BY <1>0, <2>1 DEF Taken, Stamps
  <2>4. \A s \in Stamps : Taken(s) => Later(s, stamp'[c]) /\ Apart(s, stamp'[c]) /\ Apart(stamp'[c], s)
    BY <1>0, <2>1 DEF Taken, Later, Apart, Stamps
  <2>5. Taken(stamp[c])'
    BY <1>0, <2>1 DEF Taken
  <2>6. AllTaken'
    BY <1>0, <2>1, <2>2, <2>3, <2>5 DEF StampInv, AllTaken, Taken
  <2>7. PendingLast'
    BY <1>0, <2>1, <2>2, <2>4 DEF StampInv, AllTaken, PendingLast
  <2> QED BY <2>1, <2>6, <2>7 DEF StampInv, LinesInOrder
<1>4. ASSUME NEW c \in Contexts, Enqueue(c) PROVE StampInv'
  <2>1. /\ Len(lines') = Len(lines) + 1
        /\ \A id \in 1 .. Len(lines) : lines'[id] = lines[id]
        /\ lines'[Len(lines) + 1] = [by |-> c, stamp |-> stamp[c], len |-> Len(NewLine(c))]
    BY <1>4, LinesGrow
  <2>2. lines'[Len(lines) + 1].by = c /\ lines'[Len(lines) + 1].stamp = stamp[c]
    BY <2>1
  <2>3. /\ pc[c] = "enqueue" /\ pc' = [pc EXCEPT ![c] = "idle"]
        /\ stamp' = [stamp EXCEPT ![c] = NoStamp] /\ UNCHANGED <<ticks, clock>>
    BY <1>4, EnqueueMoves
  <2>4. /\ Pending(c) /\ ~Pending(c)'
        /\ \A b \in Contexts \ {c} : stamp'[b] = stamp[b] /\ (Pending(b)' <=> Pending(b))
    BY <1>0, <2>3 DEF Pending
  <2>5. \A i \in 1 .. Len(lines') : i \in 1 .. Len(lines) \/ i = Len(lines) + 1
    BY <1>0, <2>1
  <2>6. \A s : Taken(s)' <=> Taken(s)
    BY <2>3 DEF Taken
  <2>7. AllTaken'
    BY <2>1, <2>2, <2>3, <2>4, <2>5, <2>6 DEF StampInv, AllTaken, Taken
  <2>8. PendingLast'
    <3>1. c = "main" => ~Pending("isr")'
      BY <1>0, <1>4, <2>3 DEF LogBase, LogControl, Enqueue, Step, Pending, Contexts
    <3> QED
      BY <2>1, <2>2, <2>4, <2>5, <3>1 DEF StampInv, PendingLast, Contexts
  <2>9. LinesInOrder'
    <3> SUFFICES ASSUME NEW i \in 1 .. Len(lines'), NEW j \in 1 .. Len(lines'), i < j
                 PROVE  /\ lines'[j].by \in {lines'[i].by, "isr"}
                             => Later(lines'[i].stamp, lines'[j].stamp)
                        /\ Apart(lines'[i].stamp, lines'[j].stamp)
      BY DEF LinesInOrder
    <3>1. i \in 1 .. Len(lines)
      BY <1>0, <2>1
    <3>2. CASE j \in 1 .. Len(lines)
      BY <2>1, <3>1, <3>2 DEF StampInv, LinesInOrder
    <3>3. CASE j = Len(lines) + 1
      BY <2>1, <2>2, <2>4, <3>1, <3>3 DEF StampInv, PendingLast
    <3> QED BY <2>5, <3>2, <3>3
  <2> QED BY <2>7, <2>8, <2>9 DEF StampInv
<1> QED BY <1>1, <1>2, <1>3, <1>4, StampSteps

\* Tick stamps are never shared, and lines keep the order of their stamps unless a
\* handler came between a stamp of the main program and its line: the counter and the clock only go forward, and the counter is reset
\* before the first stamp only.
THEOREM StampsInOrder == Spec => []StampsOrdered
<1>1. LogBase /\ StampInv => StampsOrdered
  <2> SUFFICES ASSUME LogBase, StampInv PROVE StampsOrdered
    OBVIOUS
  <2> SUFFICES ASSUME NEW i \in DOMAIN lines, NEW j \in DOMAIN lines, i < j,
                      lines[i].stamp.src = lines[j].stamp.src
               PROVE  /\ lines[j].by \in {lines[i].by, "isr"}
                           => lines[i].stamp.time <= lines[j].stamp.time
                      /\ lines[i].stamp.src = "tick" => lines[i].stamp.time # lines[j].stamp.time
    BY DEF StampsOrdered
  <2>1. i \in 1 .. Len(lines) /\ j \in 1 .. Len(lines)
    BY LineStamps
  <2>2. /\ lines[j].by \in {lines[i].by, "isr"} => Later(lines[i].stamp, lines[j].stamp)
        /\ Apart(lines[i].stamp, lines[j].stamp)
    BY <2>1 DEF StampInv, LinesInOrder
  <2> QED BY <2>2 DEF Later, Apart
<1>2. LogBase /\ StampInv /\ [Next]_vars => StampInv'
  BY StampStep
<1> QED BY <1>1, <1>2, BaseInit, BaseStep, StampInit, PTL DEF Spec
-----------------------------------------------------------------------------
(* What becomes of the bytes *)

\* No message has a newline of its own: a discard then ends at the end of a line.
NoBreaks == \A m \in Messages : m.breaks = {}

Is(b, id, p) == b.line = id /\ b.pos = p

Same(a, b) == a.line = b.line /\ a.pos = b.pos

Before(a, b) == a.line < b.line \/ (a.line = b.line /\ a.pos < b.pos)

\* The places a byte can be in.
Where == {"out", "ring"} \cup Contexts

At(w) == IF w = "out" THEN out ELSE IF w = "ring" THEN ring ELSE chunk[w]

Popped(id, p) == \E w \in Where \ {"ring"} : \E i \in 1 .. Len(At(w)) : Is(At(w)[i], id, p)

Queued(id, p) == \E i \in 1 .. Len(ring) : Is(ring[i], id, p)

\* A byte is in one place, once.
Distinct ==
  \A v, w \in Where : \A i \in 1 .. Len(At(v)), j \in 1 .. Len(At(w)) :
     Same(At(v)[i], At(w)[j]) => v = w /\ i = j

Sorted == \A i, j \in 1 .. Len(ring) : i < j => Before(ring[i], ring[j])

NewlineLast == \A i \in 1 .. Len(ring) : ring[i].nl => ring[i].pos = lines[ring[i].line].len

\* The bytes of a line leave the ring in order; all of them do or will, unless
\* the line was cut: then its last one is gone, and nothing of it is in the ring.
LineKept(id) ==
  /\ \A p \in 1 .. lines[id].len : Popped(id, p) => \A q \in 1 .. p : Popped(id, q)
  /\ id \notin cut => \A p \in 1 .. lines[id].len : Popped(id, p) \/ Queued(id, p)
  /\ id \in cut => \A p \in 1 .. lines[id].len : /\ ~Queued(id, p)
                                                 /\ Popped(id, p) => p < lines[id].len

KeptInv == Distinct /\ Sorted /\ NewlineLast /\ \A id \in 1 .. Len(lines) : LineKept(id)

LEMMA PlacesTyped ==
  ASSUME LogBase
  PROVE  /\ \A w \in Where : At(w) \in Seq(AnyByte) /\ Len(At(w)) \in Nat
         /\ \A w \in Where : \A i \in 1 .. Len(At(w)) : OfLine(At(w)[i]) /\ At(w)[i] \in AnyByte
         /\ Len(lines) \in Nat
<1>1. /\ ring \in Seq(AnyByte) /\ out \in Seq(AnyByte) /\ \A c \in Contexts : chunk[c] \in Seq(AnyByte)
      /\ Len(lines) \in Nat
  BY LineStamps DEF LogBase, LogTyped, BytesTyped
<1>2. Placed(ring) /\ Placed(out) /\ \A c \in Contexts : Placed(chunk[c])
  BY DEF LogBase, AllPlaced
<1>3. \A w \in Where : At(w) \in Seq(AnyByte) /\ Placed(At(w))
  BY <1>1, <1>2 DEF At, Where, Contexts
<1>4. \A s \in Seq(AnyByte) : Len(s) \in Nat /\ \A i \in 1 .. Len(s) : s[i] \in AnyByte
  OBVIOUS
<1>5. ASSUME NEW w \in Where, NEW i \in 1 .. Len(At(w)) PROVE OfLine(At(w)[i]) /\ At(w)[i] \in AnyByte
  <2>1. OfLine(At(w)[i])
    BY <1>3 DEF Placed
  <2>2. At(w)[i] \in AnyByte
    BY <1>3, <1>4
  <2> QED BY <2>1, <2>2
<1>6. \A w \in Where : Len(At(w)) \in Nat
  BY <1>3, <1>4
<1> QED BY <1>1, <1>3, <1>5, <1>6

\* The bytes popped leave the front of the ring for an empty chunk.
LEMMA PopPlaces ==
  ASSUME LogBase, NEW c \in Contexts, PopChunk(c)
  PROVE  \E n \in 0 .. Len(ring) :
           /\ Len(At(c)) = 0 /\ Len(At(c)') = n
           /\ \A i \in 1 .. n : At(c)'[i] = ring[i]
           /\ ring' \in Seq(AnyByte) /\ Len(ring') = Len(ring) - n
           /\ \A i \in 1 .. (Len(ring) - n) : ring'[i] = ring[n + i]
           /\ \A w \in Where \ {c, "ring"} : At(w)' = At(w)
           /\ UNCHANGED <<lines, cut, dropped, forgotten>>
<1>1. PICK n \in 0 .. Len(ring) :
        /\ chunk[c] = << >>
        /\ chunk' = [chunk EXCEPT ![c] = SubSeq(ring, 1, n)]
        /\ chunk'[c] \in Seq(AnyByte) /\ Len(chunk'[c]) = n
        /\ \A i \in 1 .. n : chunk'[c][i] = ring[i]
        /\ ring' \in Seq(AnyByte) /\ Len(ring') = Len(ring) - n
        /\ \A i \in 1 .. (Len(ring) - n) : ring'[i] = ring[n + i]
        /\ UNCHANGED <<out, lines, cut, dropped, forgotten>>
  BY PopMoves DEF history, config
<1>2. chunk \in [Contexts -> Seq(AnyByte)]
  BY DEF LogBase, LogTyped, BytesTyped
<1>3. \A b \in Contexts \ {c} : chunk'[b] = chunk[b]
  BY <1>1, <1>2
<1>4. At(c) = chunk[c] /\ At(c)' = chunk'[c]
  BY DEF At, Contexts
<1>5. \A w \in Where \ {c, "ring"} : At(w)' = At(w)
  BY <1>1, <1>3 DEF At, Where
<1>6. Len(At(c)) = 0
  BY <1>1, <1>4
<1> QED BY <1>1, <1>4, <1>5, <1>6

LEMMA PutPlaces ==
  ASSUME LogBase, NEW c \in Contexts, PutChar(c)
  PROVE  /\ Len(out') = Len(out) + 1 /\ Len(At(c)) > 0
         /\ \A i \in 1 .. Len(out) : out'[i] = out[i]
         /\ out'[Len(out) + 1] = At(c)[1]
         /\ Len(At(c)') = Len(At(c)) - 1
         /\ \A i \in 1 .. (Len(At(c)) - 1) : At(c)'[i] = At(c)[i + 1]
         /\ \A w \in Where \ {c, "out"} : At(w)' = At(w)
         /\ UNCHANGED <<ring, lines, cut, dropped, forgotten>>
<1>1. /\ Len(out') = Len(out) + 1 /\ Len(chunk[c]) > 0
      /\ \A i \in 1 .. Len(out) : out'[i] = out[i]
      /\ out'[Len(out) + 1] = chunk[c][1]
      /\ chunk' = [chunk EXCEPT ![c] = Tail(chunk[c])]
      /\ Len(chunk'[c]) = Len(chunk[c]) - 1
      /\ \A i \in 1 .. (Len(chunk[c]) - 1) : chunk'[c][i] = chunk[c][i + 1]
      /\ UNCHANGED <<ring, lines, cut, dropped, forgotten>>
  BY PutMoves DEF history, config
<1>2. chunk \in [Contexts -> Seq(AnyByte)]
  BY DEF LogBase, LogTyped, BytesTyped
<1>3. \A b \in Contexts \ {c} : chunk'[b] = chunk[b]
  BY <1>1, <1>2
<1>4. At(c) = chunk[c] /\ At(c)' = chunk'[c]
  BY DEF At, Contexts
<1>5. \A w \in Where \ {c, "out"} : At(w)' = At(w)
  BY <1>1, <1>3 DEF At, Where
<1> QED BY <1>1, <1>4, <1>5

LEMMA EnqueuePlaces ==
  ASSUME LogBase, NEW c \in Contexts, Enqueue(c)
  PROVE  /\ Len(NewLine(c)) \in 1 .. Size /\ Lost(c) \in 0 .. Len(ring)
         /\ Len(ring') = Len(ring) - Lost(c) + Len(NewLine(c))
         /\ \A i \in 1 .. (Len(ring) - Lost(c)) : ring'[i] = ring[Lost(c) + i]
         /\ \A j \in 1 .. Len(NewLine(c)) :
              /\ ring'[Len(ring) - Lost(c) + j] = NewLine(c)[j]
              /\ NewLine(c)[j].line = Len(lines) + 1 /\ NewLine(c)[j].pos = j
         /\ \A w \in Where \ {"ring"} : At(w)' = At(w)
         /\ cut' = cut \cup {ring[i].line : i \in 1 .. Lost(c)}
<1>1. UNCHANGED <<out, chunk>>
  BY EnqueueMoves
<1>2. \A w \in Where \ {"ring"} : At(w)' = At(w)
  BY <1>1 DEF At, Where
<1> QED BY <1>2, EnqueueMoves

LEMMA DistinctStep ==
  ASSUME LogBase, Distinct, [Next]_vars
  PROVE  Distinct'
<1>0. /\ \A w \in Where : Len(At(w)) \in Nat
      /\ At("ring") = ring /\ At("out") = out /\ At("ring")' = ring' /\ At("out")' = out'
      /\ "ring" \in Where /\ "out" \in Where /\ Contexts \subseteq Where
      /\ Contexts \cap {"ring", "out"} = {}
  BY PlacesTyped DEF At, Where, Contexts
<1>1. CASE UNCHANGED data
  BY <1>1 DEF data, Distinct, At, Same
<1>2. ASSUME NEW c \in Contexts, PopChunk(c) PROVE Distinct'
  <2>1. PICK n \in 0 .. Len(ring) :
           /\ Len(At(c)) = 0 /\ Len(At(c)') = n
           /\ \A i \in 1 .. n : At(c)'[i] = ring[i]
           /\ Len(ring') = Len(ring) - n
           /\ \A i \in 1 .. (Len(ring) - n) : ring'[i] = ring[n + i]
           /\ \A w \in Where \ {c, "ring"} : At(w)' = At(w)
    BY <1>2, PopPlaces
  <2>2. ASSUME NEW w \in Where, NEW i \in 1 .. Len(At(w)')
        PROVE  \E v \in Where : \E j \in 1 .. Len(At(v)) :
                  /\ At(w)'[i] = At(v)[j]
                  /\ w = c => v = "ring" /\ j = i /\ j <= n
                  /\ w = "ring" => v = "ring" /\ j = n + i /\ j > n
                  /\ w \notin {c, "ring"} => v = w /\ j = i
    <3>1. CASE w = c
      <4>1. i \in 1 .. Len(At("ring")) /\ i <= n /\ At(w)'[i] = At("ring")[i]
        BY <1>0, <2>1, <3>1
      <4> QED BY <1>0, <3>1, <4>1
    <3>2. CASE w = "ring"
      <4>1. n + i \in 1 .. Len(At("ring")) /\ n + i > n /\ At(w)'[i] = At("ring")[n + i]
        BY <1>0, <2>1, <3>2
      <4> QED BY <1>0, <3>2, <4>1
    <3>3. CASE w \notin {c, "ring"}
      BY <2>1, <3>3
    <3> QED BY <3>1, <3>2, <3>3
  <2> SUFFICES ASSUME NEW v \in Where, NEW w \in Where,
                      NEW i \in 1 .. Len(At(v)'), NEW j \in 1 .. Len(At(w)'),
                      Same(At(v)'[i], At(w)'[j])
               PROVE  v = w /\ i = j
    BY DEF Distinct
  <2>3. PICK v0 \in Where : \E i0 \in 1 .. Len(At(v0)) :
           /\ At(v)'[i] = At(v0)[i0]
           /\ v = c => v0 = "ring" /\ i0 = i /\ i0 <= n
           /\ v = "ring" => v0 = "ring" /\ i0 = n + i /\ i0 > n
           /\ v \notin {c, "ring"} => v0 = v /\ i0 = i
    BY <2>2
  <2>3i. PICK i0 \in 1 .. Len(At(v0)) :
           /\ At(v)'[i] = At(v0)[i0]
           /\ v = c => v0 = "ring" /\ i0 = i /\ i0 <= n
           /\ v = "ring" => v0 = "ring" /\ i0 = n + i /\ i0 > n
           /\ v \notin {c, "ring"} => v0 = v /\ i0 = i
    BY <2>3
  <2>4. PICK w0 \in Where : \E j0 \in 1 .. Len(At(w0)) :
           /\ At(w)'[j] = At(w0)[j0]
           /\ w = c => w0 = "ring" /\ j0 = j /\ j0 <= n
           /\ w = "ring" => w0 = "ring" /\ j0 = n + j /\ j0 > n
           /\ w \notin {c, "ring"} => w0 = w /\ j0 = j
    BY <2>2
  <2>4j. PICK j0 \in 1 .. Len(At(w0)) :
           /\ At(w)'[j] = At(w0)[j0]
           /\ w = c => w0 = "ring" /\ j0 = j /\ j0 <= n
           /\ w = "ring" => w0 = "ring" /\ j0 = n + j /\ j0 > n
           /\ w \notin {c, "ring"} => w0 = w /\ j0 = j
    BY <2>4
  <2>5. v0 = w0 /\ i0 = j0
    BY <2>3i, <2>4j DEF Distinct
  <2>6. v = w
    BY <1>0, <2>3i, <2>4j, <2>5
  <2>7. i = j
    BY <1>0, <2>3i, <2>4j, <2>5, <2>6
  <2> QED BY <2>6, <2>7
<1>3. ASSUME NEW c \in Contexts, PutChar(c) PROVE Distinct'
  <2>1. /\ Len(out') = Len(out) + 1 /\ Len(At(c)) > 0
        /\ \A i \in 1 .. Len(out) : out'[i] = out[i]
        /\ out'[Len(out) + 1] = At(c)[1]
        /\ Len(At(c)') = Len(At(c)) - 1
        /\ \A i \in 1 .. (Len(At(c)) - 1) : At(c)'[i] = At(c)[i + 1]
        /\ \A w \in Where \ {c, "out"} : At(w)' = At(w)
    BY <1>3, PutPlaces
  <2>2. ASSUME NEW w \in Where, NEW i \in 1 .. Len(At(w)')
        PROVE  \E v \in Where : \E j \in 1 .. Len(At(v)) :
                  /\ At(w)'[i] = At(v)[j]
                  /\ w = c => v = c /\ j = i + 1
                  /\ w = "out" => \/ v = "out" /\ j = i
                                  \/ v = c /\ j = 1 /\ i = Len(out) + 1
                  /\ w \notin {c, "out"} => v = w /\ j = i
    <3>1. CASE w = c
      <4>1. i + 1 \in 1 .. Len(At(c)) /\ At(w)'[i] = At(c)[i + 1]
        BY <1>0, <2>1, <3>1
      <4> QED BY <1>0, <3>1, <4>1
    <3>2. CASE w = "out" /\ i \in 1 .. Len(out)
      <4>1. i \in 1 .. Len(At("out")) /\ At(w)'[i] = At("out")[i]
        BY <1>0, <2>1, <3>2
      <4> QED BY <1>0, <3>2, <4>1
    <3>3. CASE w = "out" /\ i = Len(out) + 1
      <4>1. 1 \in 1 .. Len(At(c)) /\ At(w)'[i] = At(c)[1]
        BY <1>0, <2>1, <3>3
      <4> QED BY <1>0, <3>3, <4>1
    <3>4. CASE w \notin {c, "out"}
      BY <2>1, <3>4
    <3>5. w = "out" => i \in 1 .. Len(out) \/ i = Len(out) + 1
      BY <1>0, <2>1
    <3> QED BY <3>1, <3>2, <3>3, <3>4, <3>5
  <2> SUFFICES ASSUME NEW v \in Where, NEW w \in Where,
                      NEW i \in 1 .. Len(At(v)'), NEW j \in 1 .. Len(At(w)'),
                      Same(At(v)'[i], At(w)'[j])
               PROVE  v = w /\ i = j
    BY DEF Distinct
  <2>3. PICK v0 \in Where : \E i0 \in 1 .. Len(At(v0)) :
           /\ At(v)'[i] = At(v0)[i0]
           /\ v = c => v0 = c /\ i0 = i + 1
           /\ v = "out" => \/ v0 = "out" /\ i0 = i
                           \/ v0 = c /\ i0 = 1 /\ i = Len(out) + 1
           /\ v \notin {c, "out"} => v0 = v /\ i0 = i
    BY <2>2
  <2>3i. PICK i0 \in 1 .. Len(At(v0)) :
           /\ At(v)'[i] = At(v0)[i0]
           /\ v = c => v0 = c /\ i0 = i + 1
           /\ v = "out" => \/ v0 = "out" /\ i0 = i
                           \/ v0 = c /\ i0 = 1 /\ i = Len(out) + 1
           /\ v \notin {c, "out"} => v0 = v /\ i0 = i
    BY <2>3
  <2>4. PICK w0 \in Where : \E j0 \in 1 .. Len(At(w0)) :
           /\ At(w)'[j] = At(w0)[j0]
           /\ w = c => w0 = c /\ j0 = j + 1
           /\ w = "out" => \/ w0 = "out" /\ j0 = j
                           \/ w0 = c /\ j0 = 1 /\ j = Len(out) + 1
           /\ w \notin {c, "out"} => w0 = w /\ j0 = j
    BY <2>2
  <2>4j. PICK j0 \in 1 .. Len(At(w0)) :
           /\ At(w)'[j] = At(w0)[j0]
           /\ w = c => w0 = c /\ j0 = j + 1
           /\ w = "out" => \/ w0 = "out" /\ j0 = j
                           \/ w0 = c /\ j0 = 1 /\ j = Len(out) + 1
           /\ w \notin {c, "out"} => w0 = w /\ j0 = j
    BY <2>4
  <2>5. v0 = w0 /\ i0 = j0
    BY <2>3i, <2>4j DEF Distinct
  <2>6. i \in 1 .. Len(At(v)') /\ j \in 1 .. Len(At(w)') /\ \A u \in Where : Len(At(u)') \in Nat
    BY <1>0, <2>1
  <2>7. v = w
    BY <1>0, <2>3i, <2>4j, <2>5, <2>6
  <2>8. i = j
    BY <1>0, <2>3i, <2>4j, <2>5, <2>6, <2>7
  <2> QED BY <2>7, <2>8
<1>4. ASSUME NEW c \in Contexts, Enqueue(c) PROVE Distinct'
  <2>1. /\ Len(NewLine(c)) \in 1 .. Size /\ Lost(c) \in 0 .. Len(ring)
        /\ Len(ring') = Len(ring) - Lost(c) + Len(NewLine(c))
        /\ \A i \in 1 .. (Len(ring) - Lost(c)) : ring'[i] = ring[Lost(c) + i]
        /\ \A j \in 1 .. Len(NewLine(c)) :
             /\ ring'[Len(ring) - Lost(c) + j] = NewLine(c)[j]
             /\ NewLine(c)[j].line = Len(lines) + 1 /\ NewLine(c)[j].pos = j
        /\ \A w \in Where \ {"ring"} : At(w)' = At(w)
    BY <1>4, EnqueuePlaces
  <2>2. /\ \A w \in Where : \A i \in 1 .. Len(At(w)) : At(w)[i].line <= Len(lines)
        /\ \A w \in Where : \A i \in 1 .. Len(At(w)) : At(w)[i].line \in Nat
        /\ Len(lines) \in Nat
    BY PlacesTyped DEF OfLine
  \* An old byte keeps its order; a new one is of the new line.
  <2>3. ASSUME NEW w \in Where, NEW i \in 1 .. Len(At(w)')
        PROVE  \/ /\ w = "ring" /\ At(w)'[i].line = Len(lines) + 1
                  /\ At(w)'[i].pos = i - (Len(ring) - Lost(c))
               \/ \E j \in 1 .. Len(At(w)) : /\ At(w)'[i] = At(w)[j]
                                             /\ w = "ring" => j = Lost(c) + i
                                             /\ w # "ring" => j = i
    <3>1. CASE w # "ring"
      BY <2>1, <3>1
    <3>2. CASE w = "ring" /\ i <= Len(ring) - Lost(c)
      <4>1. Lost(c) + i \in 1 .. Len(At("ring")) /\ At(w)'[i] = At("ring")[Lost(c) + i]
        <5>1. At("ring") = ring /\ At("ring")' = ring'
          BY DEF At
        <5>2. i \in 1 .. (Len(ring) - Lost(c)) /\ Lost(c) + i \in 1 .. Len(ring)
          BY <1>0, <2>1, <3>2, <5>1
        <5>3. ring'[i] = ring[Lost(c) + i]
          BY <2>1, <5>2
        <5> QED BY <3>2, <5>1, <5>2, <5>3
      <4> QED BY <3>2, <4>1
    <3>3. CASE w = "ring" /\ i > Len(ring) - Lost(c)
      <4>1. PICK j \in 1 .. Len(NewLine(c)) : /\ i = Len(ring) - Lost(c) + j
                                              /\ j = i - (Len(ring) - Lost(c))
        <5>1. i \in Nat /\ i <= Len(ring) - Lost(c) + Len(NewLine(c)) /\ Len(ring) \in Nat
          BY <1>0, <2>1, <3>3
        <5>2. /\ i - (Len(ring) - Lost(c)) \in 1 .. Len(NewLine(c))
              /\ i = Len(ring) - Lost(c) + (i - (Len(ring) - Lost(c)))
          BY <2>1, <3>3, <5>1
        <5> QED BY <5>2
      <4>2. ring'[i].line = Len(lines) + 1 /\ ring'[i].pos = j
        BY <2>1, <4>1
      <4> QED BY <1>0, <3>3, <4>1, <4>2
    <3>4. i \in Nat /\ (w = "ring" => Len(ring) - Lost(c) \in Nat)
      BY <1>0, <2>1
    <3> QED BY <3>1, <3>2, <3>3, <3>4
  <2> SUFFICES ASSUME NEW v \in Where, NEW w \in Where,
                      NEW i \in 1 .. Len(At(v)'), NEW j \in 1 .. Len(At(w)'),
                      Same(At(v)'[i], At(w)'[j])
               PROVE  v = w /\ i = j
    BY DEF Distinct
  <2>4. At(v)'[i].line = At(w)'[j].line /\ At(v)'[i].pos = At(w)'[j].pos
    BY DEF Same
  <2>5. CASE At(v)'[i].line = Len(lines) + 1
    <3>1. \A u \in Where : \A k \in 1 .. Len(At(u)) : At(u)[k].line # Len(lines) + 1
      BY <2>2
    <3>2. At(w)'[j].line = Len(lines) + 1
      BY <2>4, <2>5
    <3>3. v = "ring" /\ At(v)'[i].pos = i - (Len(ring) - Lost(c))
      BY <3>1, <2>3, <2>5
    <3>4. w = "ring" /\ At(w)'[j].pos = j - (Len(ring) - Lost(c))
      BY <3>1, <2>3, <3>2
    <3>5. Len(ring) - Lost(c) \in Nat /\ i \in Nat /\ j \in Nat
      BY <1>0, <2>1, SMTT(30)
    <3> QED BY <2>4, <3>3, <3>4, <3>5
  <2>6. CASE At(v)'[i].line # Len(lines) + 1
    <3>1. PICK i0 \in 1 .. Len(At(v)) : /\ At(v)'[i] = At(v)[i0]
                                        /\ v = "ring" => i0 = Lost(c) + i
                                        /\ v # "ring" => i0 = i
      BY <2>3, <2>6
    <3>2. PICK j0 \in 1 .. Len(At(w)) : /\ At(w)'[j] = At(w)[j0]
                                        /\ w = "ring" => j0 = Lost(c) + j
                                        /\ w # "ring" => j0 = j
      BY <2>3, <2>4, <2>6
    <3>3. v = w /\ i0 = j0
      BY <3>1, <3>2 DEF Distinct
    <3>4. i \in Int /\ j \in Int /\ Lost(c) \in Int
      BY <2>1
    <3> QED BY <3>1, <3>2, <3>3, <3>4
  <2> QED BY <2>5, <2>6
<1> QED BY <1>1, <1>2, <1>3, <1>4, OtherSteps

LEMMA RingBytes ==
  ASSUME LogBase
  PROVE  /\ Len(ring) \in Nat /\ Len(lines) \in Nat /\ cut \subseteq 1 .. Len(lines)
         /\ \A i \in 1 .. Len(ring) : /\ ring[i].line \in 1 .. Len(lines)
                                      /\ ring[i].pos \in 1 .. lines[ring[i].line].len
         /\ \A id \in 1 .. Len(lines) : lines[id].len \in Nat /\ lines[id].len > 0
<1> DEFINE L == [by : Contexts, stamp : Stamps, len : 1 .. Size]
<1>1. lines \in Seq(L) /\ cut \subseteq 1 .. Len(lines)
  BY DEF LogBase, LogTyped, BytesTyped
<1>2. \A l \in L : l.len \in Nat /\ l.len > 0
  BY Sizes
<1> HIDE DEF L
<1>3. \A id \in 1 .. Len(lines) : lines[id] \in L
  BY <1>1
<1>4. \A i \in 1 .. Len(ring) : OfLine(ring[i])
  BY DEF LogBase, AllPlaced, Placed
<1>5. Len(ring) \in Nat /\ Len(lines) \in Nat
  BY <1>1 DEF LogBase, LogTyped, BytesTyped
<1>6. \A id \in 1 .. Len(lines) : lines[id].len \in Nat /\ lines[id].len > 0
  BY <1>2, <1>3
<1> QED BY <1>1, <1>4, <1>5, <1>6 DEF OfLine

\* Where the bytes of the ring come from when a line is queued.
LEMMA EnqueueRing ==
  ASSUME LogBase, NEW c \in Contexts, Enqueue(c)
  PROVE  /\ \A i \in 1 .. Len(ring') :
              \/ /\ i <= Len(ring) - Lost(c) /\ Lost(c) + i \in 1 .. Len(ring)
                 /\ ring'[i] = ring[Lost(c) + i]
              \/ \E j \in 1 .. Len(NewLine(c)) :
                   /\ i = Len(ring) - Lost(c) + j /\ ring'[i] = NewLine(c)[j]
                   /\ ring'[i].line = Len(lines) + 1 /\ ring'[i].pos = j
         /\ \A i \in 1 .. Len(ring) : i > Lost(c) =>
              i - Lost(c) \in 1 .. Len(ring') /\ ring'[i - Lost(c)] = ring[i]
         /\ \A j \in 1 .. Len(NewLine(c)) :
              /\ Len(ring) - Lost(c) + j \in 1 .. Len(ring')
              /\ Is(ring'[Len(ring) - Lost(c) + j], Len(lines) + 1, j)
<1>1. /\ Len(NewLine(c)) \in 1 .. Size /\ Lost(c) \in 0 .. Len(ring) /\ Len(ring) \in Nat
      /\ Len(ring') = Len(ring) - Lost(c) + Len(NewLine(c))
      /\ \A i \in 1 .. (Len(ring) - Lost(c)) : ring'[i] = ring[Lost(c) + i]
      /\ \A j \in 1 .. Len(NewLine(c)) :
           /\ ring'[Len(ring) - Lost(c) + j] = NewLine(c)[j]
           /\ NewLine(c)[j].line = Len(lines) + 1 /\ NewLine(c)[j].pos = j
  BY EnqueuePlaces, RingBytes
<1>2. ASSUME NEW i \in 1 .. Len(ring'), i <= Len(ring) - Lost(c)
      PROVE  Lost(c) + i \in 1 .. Len(ring) /\ ring'[i] = ring[Lost(c) + i]
  BY <1>1, <1>2
<1>3. ASSUME NEW i \in 1 .. Len(ring'), i > Len(ring) - Lost(c)
      PROVE  \E j \in 1 .. Len(NewLine(c)) :
               /\ i = Len(ring) - Lost(c) + j /\ ring'[i] = NewLine(c)[j]
               /\ ring'[i].line = Len(lines) + 1 /\ ring'[i].pos = j
  <2>1. /\ i - (Len(ring) - Lost(c)) \in 1 .. Len(NewLine(c))
        /\ i = Len(ring) - Lost(c) + (i - (Len(ring) - Lost(c)))
    BY <1>1, <1>3
  <2>2. PICK j \in 1 .. Len(NewLine(c)) : i = Len(ring) - Lost(c) + j
    BY <2>1
  <2>3. ring'[i] = NewLine(c)[j] /\ ring'[i].line = Len(lines) + 1 /\ ring'[i].pos = j
    BY <1>1, <2>2
  <2> QED BY <2>2, <2>3
<1>4. ASSUME NEW i \in 1 .. Len(ring), i > Lost(c)
      PROVE  i - Lost(c) \in 1 .. Len(ring') /\ ring'[i - Lost(c)] = ring[i]
  <2>1. i - Lost(c) \in 1 .. (Len(ring) - Lost(c)) /\ Lost(c) + (i - Lost(c)) = i
    BY <1>1, <1>4
  <2>2. i - Lost(c) \in 1 .. Len(ring')
    BY <1>1, <2>1
  <2>3. ring'[i - Lost(c)] = ring[Lost(c) + (i - Lost(c))]
    BY <1>1, <2>1
  <2> QED BY <2>1, <2>2, <2>3
<1>5. ASSUME NEW j \in 1 .. Len(NewLine(c))
      PROVE  /\ Len(ring) - Lost(c) + j \in 1 .. Len(ring')
             /\ Is(ring'[Len(ring) - Lost(c) + j], Len(lines) + 1, j)
  BY <1>1, SMTT(30) DEF Is
<1>6. \A i \in 1 .. Len(ring') : i <= Len(ring) - Lost(c) \/ i > Len(ring) - Lost(c)
  BY <1>1
<1> QED BY <1>2, <1>3, <1>4, <1>5, <1>6

LEMMA LineLengths ==
  ASSUME LogBase, NEW c \in Contexts, Enqueue(c)
  PROVE  /\ Len(lines') = Len(lines) + 1
         /\ \A id \in 1 .. Len(lines) : lines'[id].len = lines[id].len
         /\ lines'[Len(lines) + 1].len = Len(NewLine(c))
<1>1. /\ Len(lines') = Len(lines) + 1
      /\ \A id \in 1 .. Len(lines) : lines'[id] = lines[id]
      /\ lines'[Len(lines) + 1] = [by |-> c, stamp |-> stamp[c], len |-> Len(NewLine(c))]
  BY LinesGrow
<1> QED BY <1>1

LEMMA SortedStep ==
  ASSUME LogBase, Sorted, [Next]_vars
  PROVE  Sorted'
<1>1. CASE UNCHANGED ring
  BY <1>1 DEF Sorted
<1>2. ASSUME NEW c \in Contexts, PopChunk(c) PROVE Sorted'
  <2>1. PICK n \in 0 .. Len(ring) :
           /\ Len(ring') = Len(ring) - n
           /\ \A i \in 1 .. (Len(ring) - n) : ring'[i] = ring[n + i]
    BY <1>2, PopPlaces
  <2> SUFFICES ASSUME NEW i \in 1 .. Len(ring'), NEW j \in 1 .. Len(ring'), i < j
               PROVE  Before(ring'[i], ring'[j])
    BY DEF Sorted
  <2>2. /\ n + i \in 1 .. Len(ring) /\ n + j \in 1 .. Len(ring) /\ n + i < n + j
        /\ ring'[i] = ring[n + i] /\ ring'[j] = ring[n + j]
    BY <2>1, RingBytes
  <2> QED BY <2>2 DEF Sorted
<1>3. ASSUME NEW c \in Contexts, PutChar(c) PROVE UNCHANGED ring
  BY <1>3, PutPlaces
<1>4. ASSUME NEW c \in Contexts, Enqueue(c) PROVE Sorted'
  <2> DEFINE Old(i) == /\ i <= Len(ring) - Lost(c) /\ Lost(c) + i \in 1 .. Len(ring)
                       /\ ring'[i] = ring[Lost(c) + i]
             New(i) == \E j \in 1 .. Len(NewLine(c)) :
                         /\ i = Len(ring) - Lost(c) + j /\ ring'[i] = NewLine(c)[j]
                         /\ ring'[i].line = Len(lines) + 1 /\ ring'[i].pos = j
  <2>1. \A i \in 1 .. Len(ring') : Old(i) \/ New(i)
    BY <1>4, EnqueueRing
  <2>2. Lost(c) \in 0 .. Len(ring) /\ Len(NewLine(c)) \in Nat /\ Len(ring) \in Nat
    BY <1>4, EnqueuePlaces, RingBytes
  <2> SUFFICES ASSUME NEW i \in 1 .. Len(ring'), NEW j \in 1 .. Len(ring'), i < j
               PROVE  Before(ring'[i], ring'[j])
    BY DEF Sorted
  <2>3. CASE Old(i) /\ Old(j)
    <3>1. Lost(c) + i < Lost(c) + j
      BY <2>2
    <3> QED BY <2>3, <3>1 DEF Sorted
  <2>4. CASE Old(i) /\ New(j)
    <3>1. ring'[i].line \in 1 .. Len(lines) /\ ring'[j].line = Len(lines) + 1
      BY <2>4, RingBytes
    <3> QED BY <3>1, RingBytes DEF Before
  <2>5. CASE New(i) /\ Old(j)
    BY <2>2, <2>5
  <2>6. CASE New(i) /\ New(j)
    <3>1. ring'[i].line = ring'[j].line /\ ring'[i].pos < ring'[j].pos
      BY <2>2, <2>6
    <3> QED BY <3>1 DEF Before
  <2> QED BY <2>1, <2>3, <2>4, <2>5, <2>6
<1> QED BY <1>1, <1>2, <1>3, <1>4, OtherSteps DEF data

LEMMA NewlineStep ==
  ASSUME LogBase, NewlineLast, NoBreaks, [Next]_vars
  PROVE  NewlineLast'
<1>1. CASE UNCHANGED <<ring, lines>>
  BY <1>1 DEF NewlineLast
<1>2. ASSUME NEW c \in Contexts, PopChunk(c) PROVE NewlineLast'
  <2>1. PICK n \in 0 .. Len(ring) :
           /\ Len(ring') = Len(ring) - n /\ lines' = lines
           /\ \A i \in 1 .. (Len(ring) - n) : ring'[i] = ring[n + i]
    BY <1>2, PopPlaces
  <2>2. ASSUME NEW i \in 1 .. Len(ring') PROVE n + i \in 1 .. Len(ring) /\ ring'[i] = ring[n + i]
    BY <2>1, RingBytes
  <2> QED BY <2>1, <2>2 DEF NewlineLast
<1>3. ASSUME NEW c \in Contexts, PutChar(c) PROVE UNCHANGED <<ring, lines>>
  BY <1>3, PutPlaces
<1>4. ASSUME NEW c \in Contexts, Enqueue(c) PROVE NewlineLast'
  <2> SUFFICES ASSUME NEW i \in 1 .. Len(ring'), ring'[i].nl
               PROVE  ring'[i].pos = lines'[ring'[i].line].len
    BY DEF NewlineLast
  <2>1. CASE Lost(c) + i \in 1 .. Len(ring) /\ ring'[i] = ring[Lost(c) + i]
    <3>1. ring'[i].pos = lines[ring'[i].line].len /\ ring'[i].line \in 1 .. Len(lines)
      BY <2>1, RingBytes DEF NewlineLast
    <3> QED BY <1>4, <3>1, LineLengths
  <2>2. CASE \E j \in 1 .. Len(NewLine(c)) :
                /\ ring'[i] = NewLine(c)[j]
                /\ ring'[i].line = Len(lines) + 1 /\ ring'[i].pos = j
    <3>1. PICK j \in 1 .. Len(NewLine(c)) :
                /\ ring'[i] = NewLine(c)[j]
                /\ ring'[i].line = Len(lines) + 1 /\ ring'[i].pos = j
      BY <2>2
    <3>2. msg[c] \in Messages \cup {NoMsg} /\ Len(lines) + 1 \in Nat /\ msg[c].breaks = {}
      BY RingBytes DEF LogBase, LogTyped, CallTyped, NoBreaks, NoMsg
    <3>3. \A k \in 1 .. Len(NewLine(c)) : NewLine(c)[k].nl => k = Len(NewLine(c))
      BY <3>2, StoredLine DEF NewLine
    <3>4. j = Len(NewLine(c))
      BY <3>1, <3>3
    <3> QED BY <1>4, <3>1, <3>4, LineLengths
  <2> QED BY <1>4, <2>1, <2>2, EnqueueRing
<1> QED BY <1>1, <1>2, <1>3, <1>4, OtherSteps DEF data

LEMMA NotBoth ==
  ASSUME Distinct, NEW id, NEW p, Popped(id, p)
  PROVE  ~Queued(id, p)
<1>1. PICK w \in Where \ {"ring"} : \E i \in 1 .. Len(At(w)) : Is(At(w)[i], id, p)
  BY DEF Popped
<1>2. PICK i \in 1 .. Len(At(w)) : Is(At(w)[i], id, p)
  BY <1>1
<1>3. "ring" \in Where /\ At("ring") = ring
  BY DEF Where, At
<1>4. ASSUME NEW j \in 1 .. Len(ring), Is(ring[j], id, p) PROVE FALSE
  <2>1. Same(At(w)[i], At("ring")[j])
    BY <1>2, <1>3, <1>4 DEF Is, Same
  <2> QED BY <1>1, <1>2, <1>3, <2>1 DEF Distinct
<1> QED BY <1>4 DEF Queued

LEMMA PoppedOfLine ==
  ASSUME LogBase, NEW id, NEW p, Popped(id, p)
  PROVE  id \in 1 .. Len(lines) /\ p \in 1 .. lines[id].len
<1>1. PICK w \in Where : \E i \in 1 .. Len(At(w)) : Is(At(w)[i], id, p)
  BY DEF Popped
<1>2. PICK i \in 1 .. Len(At(w)) : Is(At(w)[i], id, p)
  BY <1>1
<1>3. OfLine(At(w)[i])
  BY PlacesTyped
<1> QED BY <1>2, <1>3 DEF OfLine, Is

LEMMA QueuedOfLine ==
  ASSUME LogBase, NEW id, NEW p, Queued(id, p)
  PROVE  id \in 1 .. Len(lines) /\ p \in 1 .. lines[id].len
BY RingBytes DEF Queued, Is

\* What popping n bytes does to the places of a byte.
LEMMA PopFates ==
  ASSUME LogBase, NEW c \in Contexts, PopChunk(c)
  PROVE  \E n \in 0 .. Len(ring) : \A id, p :
           /\ Queued(id, p)' <=> \E i \in 1 .. Len(ring) : i > n /\ Is(ring[i], id, p)
           /\ Popped(id, p)' <=> Popped(id, p) \/ \E i \in 1 .. n : Is(ring[i], id, p)
<1>1. PICK n \in 0 .. Len(ring) :
         /\ Len(At(c)) = 0 /\ Len(At(c)') = n
         /\ \A i \in 1 .. n : At(c)'[i] = ring[i]
         /\ Len(ring') = Len(ring) - n
         /\ \A i \in 1 .. (Len(ring) - n) : ring'[i] = ring[n + i]
         /\ \A w \in Where \ {c, "ring"} : At(w)' = At(w)
  BY PopPlaces
<1>2. Len(ring) \in Nat /\ c \in Where \ {"ring"}
  BY RingBytes DEF Where, Contexts
<1>3. ASSUME NEW id, NEW p
      PROVE  Queued(id, p)' <=> \E i \in 1 .. Len(ring) : i > n /\ Is(ring[i], id, p)
  <2>1. ASSUME NEW i \in 1 .. Len(ring'), Is(ring'[i], id, p)
        PROVE  \E j \in 1 .. Len(ring) : j > n /\ Is(ring[j], id, p)
    <3>1. n + i \in 1 .. Len(ring) /\ n + i > n /\ ring'[i] = ring[n + i]
      BY <1>1, <1>2
    <3> QED BY <2>1, <3>1
  <2>2. ASSUME NEW i \in 1 .. Len(ring), i > n, Is(ring[i], id, p)
        PROVE  \E j \in 1 .. Len(ring') : Is(ring'[j], id, p)
    <3>1. i - n \in 1 .. Len(ring') /\ i - n \in 1 .. (Len(ring) - n) /\ n + (i - n) = i
      BY <1>1, <1>2, <2>2
    <3>2. ring'[i - n] = ring[n + (i - n)]
      BY <1>1, <3>1
    <3> QED BY <2>2, <3>1, <3>2
  <2> QED BY <2>1, <2>2 DEF Queued
<1>4. ASSUME NEW id, NEW p
      PROVE  Popped(id, p)' <=> Popped(id, p) \/ \E i \in 1 .. n : Is(ring[i], id, p)
  <2>1. ASSUME NEW w \in Where \ {"ring"}, NEW i \in 1 .. Len(At(w)'), Is(At(w)'[i], id, p)
        PROVE  Popped(id, p) \/ \E j \in 1 .. n : Is(ring[j], id, p)
    <3>1. CASE w = c
      BY <1>1, <2>1, <3>1
    <3>2. CASE w # c
      BY <1>1, <2>1, <3>2 DEF Popped
    <3> QED BY <3>1, <3>2
  <2>2. ASSUME NEW w \in Where \ {"ring"}, NEW i \in 1 .. Len(At(w)), Is(At(w)[i], id, p)
        PROVE  \E v \in Where \ {"ring"} : \E j \in 1 .. Len(At(v)') : Is(At(v)'[j], id, p)
    <3>1. w # c
      BY <1>1
    <3> QED BY <1>1, <2>2, <3>1
  <2>3. ASSUME NEW i \in 1 .. n, Is(ring[i], id, p)
        PROVE  \E v \in Where \ {"ring"} : \E j \in 1 .. Len(At(v)') : Is(At(v)'[j], id, p)
    <3>1. i \in 1 .. Len(At(c)') /\ Is(At(c)'[i], id, p)
      BY <1>1, <2>3
    <3> QED BY <1>2, <3>1
  <2> QED BY <2>1, <2>2, <2>3 DEF Popped
<1> QED BY <1>3, <1>4

LEMMA PutFates ==
  ASSUME LogBase, NEW c \in Contexts, PutChar(c), NEW id, NEW p
  PROVE  (Queued(id, p)' <=> Queued(id, p)) /\ (Popped(id, p)' <=> Popped(id, p))
<1>1. /\ Len(out') = Len(out) + 1 /\ Len(At(c)) > 0
      /\ \A i \in 1 .. Len(out) : out'[i] = out[i]
      /\ out'[Len(out) + 1] = At(c)[1]
      /\ Len(At(c)') = Len(At(c)) - 1
      /\ \A i \in 1 .. (Len(At(c)) - 1) : At(c)'[i] = At(c)[i + 1]
      /\ \A w \in Where \ {c, "out"} : At(w)' = At(w)
      /\ ring' = ring
  BY PutPlaces
<1>2. /\ Len(At(c)) \in Nat /\ Len(out) \in Nat /\ c \in Where \ {"ring"} /\ c # "out"
      /\ "out" \in Where \ {"ring"} /\ At("out") = out /\ At("out")' = out'
  <2>1. c \in Where \ {"ring"} /\ c # "out" /\ "out" \in Where \ {"ring"}
    BY DEF Where, Contexts
  <2>2. At("out") = out /\ At("out")' = out'
    BY DEF At
  <2> QED BY <2>1, <2>2, PlacesTyped
<1>3. ASSUME NEW w \in Where \ {"ring"}, NEW i \in 1 .. Len(At(w)'), Is(At(w)'[i], id, p)
      PROVE  \E v \in Where \ {"ring"} : \E j \in 1 .. Len(At(v)) : Is(At(v)[j], id, p)
  <2>1. CASE w = c
    <3>1. i + 1 \in 1 .. Len(At(c)) /\ At(c)'[i] = At(c)[i + 1]
      BY <1>1, <1>2, <2>1
    <3> QED BY <1>2, <1>3, <2>1, <3>1
  <2>2. CASE w = "out" /\ i \in 1 .. Len(out)
    <3>1. At("out")'[i] = At("out")[i]
      BY <1>1, <1>2, <2>2
    <3> QED BY <1>2, <1>3, <2>2, <3>1
  <2>3. CASE w = "out" /\ i = Len(out) + 1
    <3>1. 1 \in 1 .. Len(At(c)) /\ At("out")'[i] = At(c)[1]
      BY <1>1, <1>2, <2>3
    <3> QED BY <1>2, <1>3, <2>3, <3>1
  <2>4. CASE w \notin {c, "out"}
    BY <1>1, <1>3, <2>4
  <2>5. w = "out" => i \in 1 .. Len(out) \/ i = Len(out) + 1
    BY <1>1, <1>2
  <2> QED BY <2>1, <2>2, <2>3, <2>4, <2>5
<1>4. ASSUME NEW w \in Where \ {"ring"}, NEW i \in 1 .. Len(At(w)), Is(At(w)[i], id, p)
      PROVE  \E v \in Where \ {"ring"} : \E j \in 1 .. Len(At(v)') : Is(At(v)'[j], id, p)
  <2>1. CASE w = c /\ i = 1
    <3>1. Len(out) + 1 \in 1 .. Len(At("out")') /\ At("out")'[Len(out) + 1] = At(c)[1]
      BY <1>1, <1>2
    <3> QED BY <1>2, <1>4, <2>1, <3>1
  <2>2. CASE w = c /\ i # 1
    <3>1. i - 1 \in 1 .. (Len(At(c)) - 1) /\ (i - 1) + 1 = i
      BY <1>1, <1>2, <2>2
    <3>2. At(c)'[i - 1] = At(c)[i] /\ i - 1 \in 1 .. Len(At(c)')
      BY <1>1, <3>1
    <3> QED BY <1>2, <1>4, <2>2, <3>2
  <2>3. CASE w = "out"
    <3>1. i \in 1 .. Len(At("out")') /\ At("out")'[i] = At("out")[i]
      BY <1>1, <1>2, <2>3
    <3> QED BY <1>2, <1>4, <2>3, <3>1
  <2>4. CASE w \notin {c, "out"}
    BY <1>1, <1>4, <2>4
  <2> QED BY <2>1, <2>2, <2>3, <2>4
<1>5. Popped(id, p)' <=> Popped(id, p)
  BY <1>3, <1>4 DEF Popped
<1>6. Queued(id, p)' <=> Queued(id, p)
  BY <1>1 DEF Queued
<1> QED BY <1>5, <1>6

LEMMA EnqueueFates ==
  ASSUME LogBase, NEW c \in Contexts, Enqueue(c), NEW id, NEW p
  PROVE  /\ Queued(id, p)' <=> \/ \E i \in 1 .. Len(ring) : i > Lost(c) /\ Is(ring[i], id, p)
                               \/ id = Len(lines) + 1 /\ p \in 1 .. Len(NewLine(c))
         /\ Popped(id, p)' <=> Popped(id, p)
<1>1. \A w \in Where \ {"ring"} : At(w)' = At(w)
  BY EnqueuePlaces
<1>2. Popped(id, p)' <=> Popped(id, p)
  BY <1>1 DEF Popped
<1>3. Len(ring) \in Nat /\ Lost(c) \in 0 .. Len(ring)
  BY RingBytes, EnqueuePlaces
<1>4. ASSUME NEW i \in 1 .. Len(ring'), Is(ring'[i], id, p)
      PROVE  \/ \E j \in 1 .. Len(ring) : j > Lost(c) /\ Is(ring[j], id, p)
             \/ id = Len(lines) + 1 /\ p \in 1 .. Len(NewLine(c))
  <2>1. CASE Lost(c) + i \in 1 .. Len(ring) /\ ring'[i] = ring[Lost(c) + i]
    <3>1. Lost(c) + i > Lost(c)
      BY <1>3
    <3> QED BY <1>4, <2>1, <3>1
  <2>2. CASE \E j \in 1 .. Len(NewLine(c)) : ring'[i].line = Len(lines) + 1 /\ ring'[i].pos = j
    BY <1>4, <2>2 DEF Is
  <2> QED BY <2>1, <2>2, EnqueueRing
<1>5. ASSUME NEW i \in 1 .. Len(ring), i > Lost(c), Is(ring[i], id, p)
      PROVE  \E j \in 1 .. Len(ring') : Is(ring'[j], id, p)
  <2>1. i - Lost(c) \in 1 .. Len(ring') /\ ring'[i - Lost(c)] = ring[i]
    BY <1>5, EnqueueRing
  <2> QED BY <1>5, <2>1
<1>6. ASSUME id = Len(lines) + 1, p \in 1 .. Len(NewLine(c))
      PROVE  \E j \in 1 .. Len(ring') : Is(ring'[j], id, p)
  BY <1>6, EnqueueRing
<1>7. (\E i \in 1 .. Len(ring') : Is(ring'[i], id, p)) <=> Queued(id, p)'
  BY DEF Queued
<1> QED BY <1>2, <1>4, <1>5, <1>6, <1>7

\* What is discarded ends a line; of the lines cut nothing is left behind it.
LEMMA DiscardEndsLines ==
  ASSUME LogBase, Sorted, NewlineLast, NEW c \in Contexts, Enqueue(c),
         NEW i \in 1 .. Lost(c), NEW j \in 1 .. Len(ring), j > Lost(c)
  PROVE  ring[i].line # ring[j].line
<1> DEFINE d == Lost(c)
<1>1. d \in {0} \cup LineEnds /\ d \in 0 .. Len(ring)
  BY EnqueueMoves
<1>2. d \in 1 .. Len(ring) /\ i \in 1 .. Len(ring) /\ d # Len(ring)
  BY <1>1, RingBytes
<1>3. ring[d].nl
  BY <1>1, <1>2 DEF LineEnds
<1> HIDE DEF d
<1>4. ring[d].pos = lines[ring[d].line].len
  BY <1>2, <1>3 DEF NewlineLast
<1>5. Before(ring[d], ring[j])
  BY <1>2 DEF Sorted, d
<1>6. i = d \/ Before(ring[i], ring[d])
  BY <1>2 DEF Sorted, d
<1>7. /\ ring[i].line \in Nat /\ ring[d].line \in Nat /\ ring[j].line \in Nat
      /\ ring[j].pos \in 1 .. lines[ring[j].line].len
  <2>1. \A k \in 1 .. Len(ring) : /\ ring[k].line \in Nat
                                   /\ ring[k].pos \in 1 .. lines[ring[k].line].len
    BY RingBytes
  <2> QED BY <1>2, <2>1
<1>8. lines[ring[j].line].len \in Nat
  BY <1>2, RingBytes
<1> SUFFICES ASSUME ring[i].line = ring[j].line PROVE FALSE
  OBVIOUS
<1>9. ring[d].line = ring[j].line
  BY <1>5, <1>6, <1>7 DEF Before
<1>10. ring[d].pos < ring[j].pos
  BY <1>5, <1>7, <1>9 DEF Before
<1> QED BY <1>4, <1>7, <1>8, <1>9, <1>10

LEMMA LineKeptStep ==
  ASSUME LogBase, KeptInv, NoBreaks, [Next]_vars, NEW id \in 1 .. Len(lines')
  PROVE  LineKept(id)'
<1>0. /\ Distinct /\ Sorted /\ NewlineLast
      /\ \A l \in 1 .. Len(lines) :
           /\ \A p \in 1 .. lines[l].len : Popped(l, p) => \A q \in 1 .. p : Popped(l, q)
           /\ l \notin cut => \A p \in 1 .. lines[l].len : Popped(l, p) \/ Queued(l, p)
           /\ l \in cut => \A p \in 1 .. lines[l].len : /\ ~Queued(l, p)
                                                        /\ Popped(l, p) => p < lines[l].len
  <2>1. Distinct /\ Sorted /\ NewlineLast /\ \A l \in 1 .. Len(lines) : LineKept(l)
    BY DEF KeptInv
  <2> QED BY <2>1 DEF LineKept
<1>1. CASE UNCHANGED data
  <2>1. \A p : (Popped(id, p)' <=> Popped(id, p)) /\ (Queued(id, p)' <=> Queued(id, p))
    BY <1>1 DEF data, Popped, Queued, At
  <2> QED BY <1>0, <1>1, <2>1 DEF data, LineKept
<1>2. ASSUME NEW c \in Contexts, PopChunk(c) PROVE LineKept(id)'
  <2>1. UNCHANGED <<lines, cut>>
    BY <1>2, PopPlaces
  <2>2. PICK n \in 0 .. Len(ring) : \A l, p :
           /\ Queued(l, p)' <=> \E i \in 1 .. Len(ring) : i > n /\ Is(ring[i], l, p)
           /\ Popped(l, p)' <=> Popped(l, p) \/ \E i \in 1 .. n : Is(ring[i], l, p)
    BY <1>2, PopFates
  <2>3. \A i \in 1 .. n : i \in 1 .. Len(ring)
    BY RingBytes
  <2>4. id \in 1 .. Len(lines) /\ lines[id].len \in Nat /\ lines[id].len > 0
    BY <2>1, RingBytes
  <2>5. ASSUME NEW p \in 1 .. lines[id].len, Popped(id, p)', NEW q \in 1 .. p
        PROVE  Popped(id, q)'
    <3>0. q \in 1 .. lines[id].len
      BY <2>4
    <3>1. CASE Popped(id, p)
      BY <1>0, <2>2, <2>4, <3>1
    <3>2. ASSUME NEW i \in 1 .. n, Is(ring[i], id, p) PROVE Popped(id, q)'
      <4>1. Queued(id, p)
        BY <2>3, <3>2 DEF Queued
      <4>2. Popped(id, q) \/ Queued(id, q)
        BY <1>0, <2>4, <3>0, <4>1
      <4>3. ASSUME NEW j \in 1 .. Len(ring), Is(ring[j], id, q) PROVE j \in 1 .. n
        <5>1. ~Before(ring[i], ring[j])
          BY <3>2, <4>3, <2>4 DEF Is, Before
        <5>2. ~(i < j)
          BY <1>0, <2>3, <5>1 DEF Sorted
        <5> QED BY <5>2
      <4> QED BY <2>2, <4>2, <4>3 DEF Queued
    <3> QED BY <2>2, <2>5, <3>1, <3>2
  <2>6. ASSUME id \notin cut, NEW p \in 1 .. lines[id].len PROVE Popped(id, p)' \/ Queued(id, p)'
    <3>1. Popped(id, p) \/ Queued(id, p)
      BY <1>0, <2>4, <2>6
    <3>2. \A i \in 1 .. Len(ring) : i > n \/ i \in 1 .. n
      BY <2>4
    <3> QED BY <2>2, <3>1, <3>2 DEF Queued
  <2>7. ASSUME id \in cut, NEW p \in 1 .. lines[id].len
        PROVE  ~Queued(id, p)' /\ (Popped(id, p)' => p < lines[id].len)
    <3>1. ~Queued(id, p) /\ (Popped(id, p) => p < lines[id].len)
      BY <1>0, <2>4, <2>7
    <3>2. ~\E i \in 1 .. Len(ring) : Is(ring[i], id, p)
      BY <3>1 DEF Queued
    <3> QED BY <2>2, <2>3, <3>1, <3>2
  <2> QED BY <2>1, <2>5, <2>6, <2>7 DEF LineKept
<1>3. ASSUME NEW c \in Contexts, PutChar(c) PROVE LineKept(id)'
  <2>1. UNCHANGED <<lines, cut>>
    BY <1>3, PutPlaces
  <2>2. \A p : (Popped(id, p)' <=> Popped(id, p)) /\ (Queued(id, p)' <=> Queued(id, p))
    BY <1>3, PutFates
  <2> QED BY <1>0, <2>1, <2>2 DEF LineKept
<1>4. ASSUME NEW c \in Contexts, Enqueue(c) PROVE LineKept(id)'
  <2>1. /\ Len(lines') = Len(lines) + 1
        /\ \A l \in 1 .. Len(lines) : lines'[l].len = lines[l].len
        /\ lines'[Len(lines) + 1].len = Len(NewLine(c))
        /\ cut' = cut \cup {ring[i].line : i \in 1 .. Lost(c)}
    BY <1>4, LineLengths, EnqueuePlaces
  <2>2. \A l, p :
           /\ Queued(l, p)' <=> \/ \E i \in 1 .. Len(ring) : i > Lost(c) /\ Is(ring[i], l, p)
                                \/ l = Len(lines) + 1 /\ p \in 1 .. Len(NewLine(c))
           /\ Popped(l, p)' <=> Popped(l, p)
    BY <1>4, EnqueueFates
  <2>3. /\ Lost(c) \in 0 .. Len(ring) /\ Len(ring) \in Nat /\ Len(lines) \in Nat
        /\ cut \subseteq 1 .. Len(lines)
        /\ \A i \in 1 .. Lost(c) : i \in 1 .. Len(ring)
        /\ \A i \in 1 .. Len(ring) : /\ ring[i].line \in 1 .. Len(lines)
                                     /\ ring[i].pos \in 1 .. lines[ring[i].line].len
    <3>1. Lost(c) \in 0 .. Len(ring) /\ Len(ring) \in Nat
      BY <1>4, EnqueuePlaces, RingBytes
    <3>2. \A i \in 1 .. Lost(c) : i \in 1 .. Len(ring)
      BY <3>1
    <3> QED BY <3>1, <3>2, RingBytes
  <2>4. CASE id = Len(lines) + 1
    <3>1. \A p : ~Popped(id, p)
      BY <2>3, <2>4, PoppedOfLine
    <3>2. id \notin cut'
      BY <2>1, <2>3, <2>4
    <3>3. \A p \in 1 .. lines'[id].len : Queued(id, p)'
      BY <2>1, <2>2, <2>4
    <3> QED BY <2>2, <3>1, <3>2, <3>3 DEF LineKept
  <2>5. CASE id \in 1 .. Len(lines)
    <3>1. lines'[id].len = lines[id].len /\ id # Len(lines) + 1
      BY <2>1, <2>3, <2>5
    <3>2. \A p \in 1 .. lines[id].len : Popped(id, p)' => \A q \in 1 .. p : Popped(id, q)'
      BY <1>0, <2>2, <2>5
    <3>3. ASSUME id \notin cut', NEW p \in 1 .. lines[id].len PROVE Popped(id, p)' \/ Queued(id, p)'
      <4>1. id \notin cut /\ \A i \in 1 .. Lost(c) : ring[i].line # id
        BY <2>1, <3>3
      <4>2. Popped(id, p) \/ Queued(id, p)
        BY <1>0, <2>5, <4>1
      <4>3. \A i \in 1 .. Len(ring) : Is(ring[i], id, p) => i > Lost(c)
        <5>1. \A i \in 1 .. Len(ring) : i \in 1 .. Lost(c) \/ i > Lost(c)
          BY <2>3
        <5> QED BY <4>1, <5>1 DEF Is
      <4> QED BY <2>2, <4>2, <4>3 DEF Queued
    <3>4. ASSUME id \in cut, NEW p \in 1 .. lines[id].len
          PROVE  ~Queued(id, p)' /\ (Popped(id, p)' => p < lines[id].len)
      BY <1>0, <2>2, <2>5, <3>1, <3>4 DEF Queued
    <3>5. ASSUME NEW i \in 1 .. Lost(c), ring[i].line = id, NEW p \in 1 .. lines[id].len
          PROVE  ~Queued(id, p)' /\ (Popped(id, p)' => p < lines[id].len)
      <4>1. ASSUME NEW j \in 1 .. Len(ring), j > Lost(c) PROVE ring[j].line # id
        BY <1>0, <1>4, <3>5, <4>1, DiscardEndsLines
      <4>2. ~Queued(id, p)'
        BY <2>2, <3>1, <4>1 DEF Is
      <4>3. ASSUME Popped(id, p) PROVE p < lines[id].len
        <5>1. i \in 1 .. Len(ring) /\ Is(ring[i], id, ring[i].pos) /\ ring[i].pos \in 1 .. lines[id].len
          BY <2>3, <3>5 DEF Is
        <5>2. Queued(id, ring[i].pos)
          BY <5>1 DEF Queued
        <5>3. ~Popped(id, ring[i].pos)
          BY <1>0, <5>2, NotBoth
        <5>4. ring[i].pos \notin 1 .. p
          BY <1>0, <2>5, <4>3, <5>3
        <5>5. lines[id].len \in Nat
          BY <2>5, RingBytes
        <5> QED BY <5>1, <5>4, <5>5
      <4> QED BY <2>2, <4>2, <4>3
    <3>6. ASSUME id \in cut', NEW p \in 1 .. lines[id].len
          PROVE  ~Queued(id, p)' /\ (Popped(id, p)' => p < lines[id].len)
      <4>1. id \in cut \/ \E i \in 1 .. Lost(c) : ring[i].line = id
        BY <2>1, <3>6
      <4> QED BY <3>4, <3>5, <4>1
    <3> QED BY <3>1, <3>2, <3>3, <3>6 DEF LineKept
  <2> QED BY <2>1, <2>3, <2>4, <2>5
<1> QED BY <1>1, <1>2, <1>3, <1>4, OtherSteps

LEMMA KeptInit == Init => KeptInv
BY DEF Init, KeptInv, Distinct, Sorted, NewlineLast, At, Where, Contexts

LEMMA KeptStep ==
  ASSUME LogBase, KeptInv, NoBreaks, [Next]_vars
  PROVE  KeptInv'
<1>1. Distinct /\ Sorted /\ NewlineLast
  BY DEF KeptInv
<1>2. Distinct' /\ Sorted' /\ NewlineLast'
  BY <1>1, DistinctStep, SortedStep, NewlineStep
<1>3. \A id \in 1 .. Len(lines') : LineKept(id)'
  BY LineKeptStep
<1> QED BY <1>2, <1>3 DEF KeptInv

LEMMA PlacesOnTheWay ==
  ASSUME LogBase, NEW id
  PROVE  Reached(id) \cup Coming(id) = {p \in Nat : Popped(id, p) \/ Queued(id, p)}
<1>1. \A w \in Where : At(w) \in Seq(AnyByte)
  BY PlacesTyped
<1>2. \A w \in Where : ToSet(At(w)) = {At(w)[i] : i \in 1 .. Len(At(w))}
  BY <1>1 DEF ToSet
<1>3. /\ At("out") = out /\ At("ring") = ring /\ At("main") = chunk["main"]
      /\ At("isr") = chunk["isr"]
      /\ Where = {"out", "ring", "main", "isr"}
  BY DEF At, Where, Contexts
<1>4. ASSUME NEW p \in Reached(id) \cup Coming(id)
      PROVE  p \in Nat /\ (Popped(id, p) \/ Queued(id, p))
  <2>1. PICK w \in Where : \E b \in ToSet(At(w)) : b.line = id /\ p = b.pos
    BY <1>3 DEF Reached, Coming
  <2>2. PICK i \in 1 .. Len(At(w)) : Is(At(w)[i], id, p)
    BY <1>2, <2>1 DEF Is
  <2>3. Popped(id, p) \/ Queued(id, p)
    BY <1>3, <2>2 DEF Popped, Queued
  <2>4. At(w)[i] \in AnyByte
    BY PlacesTyped
  <2> QED BY <2>2, <2>3, <2>4 DEF Is, AnyByte
<1>5. ASSUME NEW w \in Where, NEW i \in 1 .. Len(At(w)), NEW p, Is(At(w)[i], id, p)
      PROVE  p \in Reached(id) \cup Coming(id)
  <2>1. At(w)[i] \in ToSet(At(w)) /\ At(w)[i].line = id /\ At(w)[i].pos = p
    BY <1>2, <1>5 DEF Is
  <2>2. CASE w = "out"
    BY <1>3, <2>1, <2>2 DEF Reached
  <2>3. CASE w # "out"
    BY <1>3, <2>1, <2>3 DEF Coming
  <2> QED BY <2>2, <2>3
<1>6. ASSUME NEW p \in Nat, Popped(id, p) \/ Queued(id, p)
      PROVE  p \in Reached(id) \cup Coming(id)
  <2>1. \E w \in Where : \E i \in 1 .. Len(At(w)) : Is(At(w)[i], id, p)
    BY <1>3, <1>6 DEF Popped, Queued
  <2> QED BY <2>1, <1>5
<1> QED BY <1>4, <1>6

LEMMA KeptEnds == LogBase /\ KeptInv => OnlyEndsAreCut
<1> SUFFICES ASSUME LogBase, KeptInv, NEW id \in DOMAIN lines
             PROVE  \E k \in 0 .. lines[id].len :
                       /\ Reached(id) \cup Coming(id) = 1 .. k
                       /\ id \in cut <=> k < lines[id].len
                       /\ id \in cut => \A b \in ToSet(ring) : b.line # id
  BY DEF OnlyEndsAreCut
<1> DEFINE P == {p \in Nat : Popped(id, p) \/ Queued(id, p)}
           n == lines[id].len
<1>1. id \in 1 .. Len(lines) /\ n \in Nat /\ n > 0
  BY LineStamps, RingBytes
<1>2. LineKept(id)
  BY <1>1 DEF KeptInv
<1>3. Reached(id) \cup Coming(id) = P /\ P \subseteq 1 .. n
  <2>1. Reached(id) \cup Coming(id) = P
    BY PlacesOnTheWay
  <2>2. P \subseteq 1 .. n
    BY PoppedOfLine, QueuedOfLine
  <2> QED BY <2>1, <2>2
<1>4. CASE id \notin cut
  <2>1. 1 .. n \subseteq P
    BY <1>1, <1>2, <1>4 DEF LineKept
  <2>2. n \in 0 .. n /\ ~(n < n)
    BY <1>1
  <2> QED BY <1>3, <1>4, <2>1, <2>2
<1>5. CASE id \in cut
  <2>1. P = {p \in 1 .. n : Popped(id, p)}
    BY <1>2, <1>3, <1>5 DEF LineKept
  <2>2. n \notin P
    BY <1>1, <1>2, <1>5, <2>1 DEF LineKept
  <2>3. \A p \in P : \A q \in 1 .. p : q \in P
    <3>1. \A p \in P : \A q \in 1 .. p : q \in 1 .. n
      BY <1>1, <1>3
    <3> QED BY <1>2, <2>1, <3>1 DEF LineKept
  <2> DEFINE M == {p \in 1 .. n : p \notin P}
             k == Min(M) - 1
  <2>4. Min(M) \in M /\ \A p \in M : Min(M) <= p
    <3>1. M \in SUBSET Nat /\ M # {}
      BY <1>1, <2>2
    <3> HIDE DEF M
    <3> QED BY <3>1, LeastNat
  <2>5. Min(M) \in 1 .. n /\ Min(M) \notin P
    BY <2>4
  <2>6. k \in 0 .. n /\ k < n
    BY <1>1, <2>5
  <2>7. 1 .. k \subseteq P
    <3>1. ASSUME NEW q \in 1 .. k, q \notin P PROVE FALSE
      <4>1. q \in M /\ q < Min(M)
        BY <1>1, <2>5, <3>1
      <4> QED BY <2>4, <2>5, <4>1
    <3> QED BY <3>1
  <2>8. P \subseteq 1 .. k
    <3>1. ASSUME NEW q \in P, q \notin 1 .. k PROVE FALSE
      <4>1. Min(M) \in 1 .. q
        BY <1>1, <1>3, <2>5, <3>1
      <4> QED BY <2>3, <2>5, <4>1
    <3> QED BY <3>1
  <2>9. \A b \in ToSet(ring) : b.line # id
    <3>1. ASSUME NEW i \in 1 .. Len(ring), ring[i].line = id PROVE FALSE
      <4>1. ring[i].pos \in 1 .. n
        BY <3>1, RingBytes
      <4>2. Queued(id, ring[i].pos)
        BY <3>1 DEF Queued, Is
      <4> QED BY <1>2, <1>5, <4>1, <4>2 DEF LineKept
    <3>2. DOMAIN ring = 1 .. Len(ring)
      BY DEF LogBase, LogTyped, BytesTyped
    <3> QED BY <3>1, <3>2 DEF ToSet
  <2> HIDE DEF P, k, M, n
  <2> QED BY <1>3, <1>5, <2>6, <2>7, <2>8, <2>9 DEF n
<1> QED BY <1>4, <1>5

LEMMA SeqSet ==
  ASSUME NEW s \in Seq(AnyByte), \A i, j \in 1 .. Len(s) : Same(s[i], s[j]) => i = j
  PROVE  IsFiniteSet(ToSet(s)) /\ Cardinality(ToSet(s)) = Len(s)
<1>1. Len(s) \in Nat /\ DOMAIN s = 1 .. Len(s) /\ s \in [1 .. Len(s) -> ToSet(s)]
  BY DEF ToSet
<1>2. \A i, j \in 1 .. Len(s) : s[i] = s[j] => i = j
  BY DEF Same
<1>3. \A x \in ToSet(s) : \E i \in 1 .. Len(s) : s[i] = x
  BY <1>1 DEF ToSet
<1>4. ExistsBijection(1 .. Len(s), ToSet(s))
  BY <1>1, <1>2, <1>3 DEF ExistsBijection, Bijection, Injection, Surjection, IsInjective
<1> QED BY <1>1, <1>4, FS_CountingElements, FS_NatBijection

LEMMA TwoParts ==
  ASSUME NEW A, NEW B, IsFiniteSet(A), IsFiniteSet(B), A \cap B = {}
  PROVE  IsFiniteSet(A \cup B) /\ Cardinality(A \cup B) = Cardinality(A) + Cardinality(B)
<1>1. /\ IsFiniteSet(A \cup B)
      /\ Cardinality(A \cup B) = Cardinality(A) + Cardinality(B) - Cardinality(A \cap B)
  BY FS_Union
<1>2. Cardinality(A \cap B) = 0 /\ Cardinality(A) \in Nat /\ Cardinality(B) \in Nat
  BY FS_EmptySet, FS_CardinalityType
<1> QED BY <1>1, <1>2

LEMMA FourParts ==
  ASSUME NEW A, NEW B, NEW C, NEW D,
         IsFiniteSet(A), IsFiniteSet(B), IsFiniteSet(C), IsFiniteSet(D),
         A \cap B = {}, A \cap C = {}, A \cap D = {}, B \cap C = {}, B \cap D = {}, C \cap D = {}
  PROVE  Cardinality(A \cup B \cup C \cup D)
           = Cardinality(A) + Cardinality(B) + Cardinality(C) + Cardinality(D)
<1>1. IsFiniteSet(A \cup B) /\ Cardinality(A \cup B) = Cardinality(A) + Cardinality(B)
  BY TwoParts
<1>2. (A \cup B) \cap C = {} /\ (A \cup B \cup C) \cap D = {}
  OBVIOUS
<1>3. /\ IsFiniteSet(A \cup B \cup C)
      /\ Cardinality(A \cup B \cup C) = Cardinality(A \cup B) + Cardinality(C)
  BY <1>1, <1>2, TwoParts
<1>4. Cardinality(A \cup B \cup C \cup D) = Cardinality(A \cup B \cup C) + Cardinality(D)
  BY <1>2, <1>3, TwoParts
<1> QED BY <1>1, <1>3, <1>4

LEMMA KeptOnce == LogBase /\ Distinct => NoByteTwice
<1> SUFFICES ASSUME LogBase, Distinct PROVE NoByteTwice
  OBVIOUS
<1> DEFINE S(w) == ToSet(At(w))
<1>1. /\ At("out") = out /\ At("ring") = ring /\ At("main") = chunk["main"]
      /\ At("isr") = chunk["isr"]
      /\ Where = {"out", "ring", "main", "isr"}
  BY DEF At, Where, Contexts
<1>2. \A w \in Where : At(w) \in Seq(AnyByte) /\ Len(At(w)) \in Nat
  BY PlacesTyped
<1>3. \A w \in Where : IsFiniteSet(S(w)) /\ Cardinality(S(w)) = Len(At(w))
  BY <1>2, SeqSet DEF Distinct
<1>4. ASSUME NEW v \in Where, NEW w \in Where, v # w PROVE S(v) \cap S(w) = {}
  <2>1. ASSUME NEW b \in S(v), b \in S(w) PROVE FALSE
    <3>1. PICK i \in 1 .. Len(At(v)) : b = At(v)[i]
      BY <1>2 DEF ToSet
    <3>2. PICK j \in 1 .. Len(At(w)) : b = At(w)[j]
      BY <1>2, <2>1 DEF ToSet
    <3>3. Same(At(v)[i], At(w)[j])
      BY <3>1, <3>2 DEF Same
    <3> QED BY <1>4, <3>3 DEF Distinct
  <2> QED BY <2>1
<1> HIDE DEF S
<1>5. /\ \A w \in Where : IsFiniteSet(S(w))
      /\ \A v, w \in Where : v # w => S(v) \cap S(w) = {}
  BY <1>3, <1>4
<1>6. Cardinality(S("out") \cup S("main") \cup S("isr") \cup S("ring"))
        = Cardinality(S("out")) + Cardinality(S("main")) + Cardinality(S("isr")) + Cardinality(S("ring"))
  <2>1. "out" \in Where /\ "main" \in Where /\ "isr" \in Where /\ "ring" \in Where
    BY DEF Where, Contexts
  <2>2. /\ IsFiniteSet(S("out")) /\ IsFiniteSet(S("main"))
        /\ IsFiniteSet(S("isr")) /\ IsFiniteSet(S("ring"))
    BY <1>5, <2>1
  <2>3. /\ S("out") \cap S("main") = {} /\ S("out") \cap S("isr") = {}
        /\ S("out") \cap S("ring") = {} /\ S("main") \cap S("isr") = {}
        /\ S("main") \cap S("ring") = {} /\ S("isr") \cap S("ring") = {}
    BY <1>5, <2>1
  <2> QED BY <2>2, <2>3, FourParts
<1>7. /\ Cardinality(S("out")) = Len(At("out")) /\ Cardinality(S("main")) = Len(At("main"))
      /\ Cardinality(S("isr")) = Len(At("isr")) /\ Cardinality(S("ring")) = Len(At("ring"))
  BY <1>1, <1>3
<1> QED BY <1>1, <1>6, <1>7 DEF NoByteTwice, S

\* Whatever the two contexts interleave, no byte is lost from the middle of a
\* line, and none is written twice, if no message brings a newline of its own:
\* behind one, a discard would end inside the line and leave its second half.
THEOREM BytesAreKept == NoBreaks => (Spec => []BytesKept)
<1> SUFFICES ASSUME NoBreaks PROVE Spec => []BytesKept
  OBVIOUS
<1>1. LogBase /\ KeptInv => BytesKept
  BY KeptEnds, KeptOnce DEF KeptInv, BytesKept
<1>2. LogBase /\ KeptInv /\ [Next]_vars => KeptInv'
  BY KeptStep
<1> QED BY <1>1, <1>2, BaseInit, BaseStep, KeptInit, PTL DEF Spec
-----------------------------------------------------------------------------
(* Counting the drops *)

\* Every message, with its timestamp and its ending, fits in line[].
Fits == \A len \in {0} \cup {m.len : m \in Messages} :
           Prefix + Min({len, MsgMax}) + Ending <= LineMax

\* Every line then ends in a newline, where a discard may stop.
EndIsNewline ==
  \A i \in 1 .. Len(ring) : ring[i].pos = lines[ring[i].line].len => ring[i].nl

LEMMA EndNewlineStep ==
  ASSUME LogBase, EndIsNewline, Fits, [Next]_vars
  PROVE  EndIsNewline'
<1>1. CASE UNCHANGED <<ring, lines>>
  BY <1>1 DEF EndIsNewline
<1>2. ASSUME NEW c \in Contexts, PopChunk(c) PROVE EndIsNewline'
  <2>1. PICK n \in 0 .. Len(ring) :
           /\ Len(ring') = Len(ring) - n /\ lines' = lines
           /\ \A i \in 1 .. (Len(ring) - n) : ring'[i] = ring[n + i]
    BY <1>2, PopPlaces
  <2>2. ASSUME NEW i \in 1 .. Len(ring') PROVE n + i \in 1 .. Len(ring) /\ ring'[i] = ring[n + i]
    BY <2>1, RingBytes
  <2> QED BY <2>1, <2>2 DEF EndIsNewline
<1>3. ASSUME NEW c \in Contexts, PutChar(c) PROVE UNCHANGED <<ring, lines>>
  BY <1>3, PutPlaces
<1>4. ASSUME NEW c \in Contexts, Enqueue(c) PROVE EndIsNewline'
  <2> SUFFICES ASSUME NEW i \in 1 .. Len(ring'), ring'[i].pos = lines'[ring'[i].line].len
               PROVE  ring'[i].nl
    BY DEF EndIsNewline
  <2>1. CASE Lost(c) + i \in 1 .. Len(ring) /\ ring'[i] = ring[Lost(c) + i]
    <3>1. ring'[i].line \in 1 .. Len(lines)
      BY <2>1, RingBytes
    <3>2. ring[Lost(c) + i].pos = lines[ring[Lost(c) + i].line].len
      BY <1>4, <2>1, <3>1, LineLengths
    <3>3. ring[Lost(c) + i].nl
      BY <2>1, <3>2 DEF EndIsNewline
    <3> QED BY <2>1, <3>3
  <2>2. CASE \E j \in 1 .. Len(NewLine(c)) :
                /\ ring'[i] = NewLine(c)[j]
                /\ ring'[i].line = Len(lines) + 1 /\ ring'[i].pos = j
    <3>1. PICK j \in 1 .. Len(NewLine(c)) :
                /\ ring'[i] = NewLine(c)[j]
                /\ ring'[i].line = Len(lines) + 1 /\ ring'[i].pos = j
      BY <2>2
    <3>2. /\ msg[c] \in Messages \cup {NoMsg} /\ Len(lines) + 1 \in Nat
          /\ Prefix + Min({msg[c].len, MsgMax}) + Ending <= LineMax
      <4>1. msg[c] \in Messages \cup {NoMsg} /\ Len(lines) + 1 \in Nat
        BY RingBytes DEF LogBase, LogTyped, CallTyped
      <4>2. msg[c].len \in {0} \cup {m.len : m \in Messages}
        BY <4>1 DEF NoMsg
      <4> QED BY <4>1, <4>2 DEF Fits
    <3>3. NewLine(c)[Len(NewLine(c))].nl
      BY <3>2, StoredLine DEF NewLine
    <3>4. j = Len(NewLine(c))
      BY <1>4, <3>1, LineLengths
    <3> QED BY <3>1, <3>3, <3>4
  <2> QED BY <1>4, <2>1, <2>2, EnqueueRing
<1> QED BY <1>1, <1>2, <1>3, <1>4, OtherSteps DEF data

\* A line that has bytes in the ring has its last byte there.
LEMMA EndIsQueued ==
  ASSUME LogBase, KeptInv, NEW i \in 1 .. Len(ring)
  PROVE  Queued(ring[i].line, lines[ring[i].line].len)
<1> DEFINE id == ring[i].line
           n == lines[id].len
<1>1. id \in 1 .. Len(lines) /\ ring[i].pos \in 1 .. n /\ n \in 1 .. n
  BY RingBytes
<1>2. Queued(id, ring[i].pos)
  BY DEF Queued, Is
<1>3. LineKept(id)
  BY <1>1 DEF KeptInv
<1> HIDE DEF id, n
<1>4. ~Popped(id, ring[i].pos)
  BY <1>2, NotBoth DEF KeptInv
<1>5. id \notin cut
  BY <1>1, <1>2, <1>3 DEF LineKept, n
<1>6. Popped(id, n) \/ Queued(id, n)
  BY <1>1, <1>3, <1>5 DEF LineKept, n
<1>7. ~Popped(id, n)
  BY <1>1, <1>3, <1>4 DEF LineKept, n
<1> QED BY <1>6, <1>7 DEF id, n

\* A discard may stop only behind the last byte of a line.
LEMMA LineEndsAreEnds ==
  ASSUME LogBase, KeptInv, NEW i \in LineEnds
  PROVE  i \in 1 .. Len(ring) /\ ring[i].pos = lines[ring[i].line].len
<1>1. i \in 1 .. Len(ring) /\ (ring[i].nl \/ i = Len(ring))
  BY DEF LineEnds
<1>2. CASE ring[i].nl
  BY <1>1, <1>2 DEF KeptInv, NewlineLast
<1>3. CASE i = Len(ring)
  <2>1. PICK j \in 1 .. Len(ring) : Is(ring[j], ring[i].line, lines[ring[i].line].len)
    BY <1>1, EndIsQueued DEF Queued
  <2>2. CASE j = i
    BY <1>1, <2>1, <2>2 DEF Is
  <2>3. CASE j < i
    <3>1. Before(ring[j], ring[i])
      BY <1>1, <2>3 DEF KeptInv, Sorted
    <3>2. ring[i].line \in 1 .. Len(lines) /\ ring[i].pos \in 1 .. lines[ring[i].line].len
      BY <1>1, RingBytes
    <3>3. lines[ring[i].line].len \in Nat /\ Len(lines) \in Nat
      BY <3>2, RingBytes
    <3> QED BY <2>1, <3>1, <3>2, <3>3 DEF Is, Before
  <2> QED BY <1>3, <2>2, <2>3, RingBytes
<1> QED BY <1>1, <1>2, <1>3

\* As many line ends are discarded as lines.
LEMMA CutIsCounted ==
  ASSUME LogBase, KeptInv, EndIsNewline, NEW c \in Contexts, Enqueue(c)
  PROVE  LET C == {ring[i].line : i \in 1 .. Lost(c)}
         IN  IsFiniteSet(C) /\ Cardinality(C) = CountDrop(Lost(c)) /\ cut \cap C = {}
<1> DEFINE d == Lost(c)
           C == {ring[i].line : i \in 1 .. d}
           E == {i \in LineEnds : i <= d}
           f == [i \in E |-> ring[i].line]
<1>1. d \in 0 .. Len(ring) /\ Len(ring) \in Nat /\ \A i \in 1 .. d : i \in 1 .. Len(ring)
  <2>1. d \in 0 .. Len(ring) /\ Len(ring) \in Nat
    BY EnqueuePlaces, RingBytes
  <2> QED BY <2>1
<1>2. \A i \in E : i \in 1 .. Len(ring) /\ i \in 1 .. d /\ ring[i].pos = lines[ring[i].line].len
  <2>1. \A i \in E : i \in 1 .. Len(ring) /\ ring[i].pos = lines[ring[i].line].len /\ i <= d
    BY LineEndsAreEnds
  <2> QED BY <1>1, <2>1
<1>3. IsFiniteSet(E)
  <2>1. E \subseteq 1 .. Len(ring)
    BY <1>2
  <2>2. IsFiniteSet(1 .. Len(ring))
    BY <1>1, FS_Interval
  <2> HIDE DEF E
  <2> QED BY <2>1, <2>2, FS_Subset
<1>4. f \in [E -> C]
  BY <1>2
<1>5. ASSUME NEW i \in E, NEW j \in E, ring[i].line = ring[j].line PROVE i = j
  <2>1. Same(ring[i], ring[j])
    BY <1>2, <1>5 DEF Same
  <2>2. "ring" \in Where /\ At("ring") = ring
    BY DEF Where, At
  <2> QED BY <1>2, <2>1, <2>2 DEF KeptInv, Distinct
<1>6. ASSUME NEW i \in 1 .. d PROVE \E j \in E : ring[j].line = ring[i].line
  <2>1. PICK j \in 1 .. Len(ring) : Is(ring[j], ring[i].line, lines[ring[i].line].len)
    BY <1>1, EndIsQueued DEF Queued
  <2>2. ring[j].line = ring[i].line /\ ring[j].pos = lines[ring[j].line].len
    BY <2>1 DEF Is
  <2>3. j \in LineEnds
    BY <2>2 DEF EndIsNewline, LineEnds
  <2>4. ~(j > d)
    BY <2>2, DiscardEndsLines DEF KeptInv
  <2>5. j <= d
    BY <1>1, <2>4
  <2> QED BY <2>2, <2>3, <2>5
<1>7. ExistsBijection(E, C)
  <2>1. \A x \in C : \E i \in E : f[i] = x
    BY <1>6
  <2>2. \A i, j \in E : f[i] = f[j] => i = j
    BY <1>5
  <2> HIDE DEF E, C, f
  <2> QED BY <1>4, <2>1, <2>2 DEF ExistsBijection, Bijection, Injection, Surjection, IsInjective
<1>8. IsFiniteSet(C) /\ Cardinality(C) = Cardinality(E)
  BY <1>3, <1>7, FS_Bijection
<1>9. cut \cap C = {}
  <2>1. ASSUME NEW i \in 1 .. d, ring[i].line \in cut PROVE FALSE
    <3>1. /\ ring[i].line \in 1 .. Len(lines)
          /\ ring[i].pos \in 1 .. lines[ring[i].line].len /\ i \in 1 .. Len(ring)
      BY <1>1, RingBytes
    <3>2. Queued(ring[i].line, ring[i].pos)
      BY <3>1 DEF Queued, Is
    <3>3. LineKept(ring[i].line)
      BY <3>1 DEF KeptInv
    <3> QED BY <2>1, <3>1, <3>2, <3>3 DEF LineKept
  <2> QED BY <2>1
<1> QED BY <1>8, <1>9 DEF CountDrop

LEMMA DropSteps ==
  ASSUME LogBase, [Next]_vars
  PROVE  \/ \E c \in Contexts : Enqueue(c)
         \/ cut' = cut /\ dropped' + forgotten' = dropped + forgotten
<1> USE DEF config, locals, history
<1>0. dropped \in Nat /\ forgotten \in Nat
  BY DEF LogBase, LogTyped, ConfigTyped
<1>1. CASE UNCHANGED vars
  BY <1>1 DEF vars
<1>2. CASE \E f \in {"write", "process"} \cup Setting : Call(f) \/ Interrupt(f)
  BY <1>2 DEF Call, Interrupt
<1>3. CASE Eret \/ Tick
  BY <1>3 DEF Eret, Tick
<1>4. ASSUME NEW c \in Contexts,
             \/ Instance(c) \/ CheckLevel(c) \/ GetTimestamp(c) \/ ShouldProcess(c)
             \/ PopChunk(c) \/ PutChar(c) \/ SetLevel(c) \/ SetEvery(c) \/ SetProvider(c)
      PROVE  UNCHANGED <<cut, dropped, forgotten>>
  BY <1>4 DEF Instance, CheckLevel, GetTimestamp, ShouldProcess, PopChunk, PutChar,
              SetLevel, SetEvery, SetProvider
<1>5. ASSUME NEW c \in Contexts, ResetDropped(c)
      PROVE  cut' = cut /\ dropped' + forgotten' = dropped + forgotten
  <2>1. cut' = cut /\ dropped' = 0 /\ forgotten' = forgotten + dropped
    BY <1>5 DEF ResetDropped
  <2> QED BY <1>0, <2>1
<1> QED BY <1>0, <1>1, <1>2, <1>3, <1>4, <1>5 DEF Next, Section

LEMMA DropsStep ==
  ASSUME LogBase, KeptInv, EndIsNewline, DropsCounted, [Next]_vars
  PROVE  DropsCounted'
<1>1. CASE cut' = cut /\ dropped' + forgotten' = dropped + forgotten
  BY <1>1 DEF DropsCounted
<1>2. ASSUME NEW c \in Contexts, Enqueue(c) PROVE DropsCounted'
  <2> DEFINE C == {ring[i].line : i \in 1 .. Lost(c)}
  <2>1. IsFiniteSet(C) /\ Cardinality(C) = CountDrop(Lost(c)) /\ cut \cap C = {}
    BY <1>2, CutIsCounted
  <2>2. cut' = cut \cup C /\ dropped' = dropped + CountDrop(Lost(c)) /\ forgotten' = forgotten
    BY <1>2, EnqueueMoves
  <2> HIDE DEF C
  <2>3. IsFiniteSet(cut)
    <3>1. cut \subseteq 1 .. Len(lines) /\ Len(lines) \in Nat
      BY RingBytes
    <3>2. IsFiniteSet(1 .. Len(lines))
      BY <3>1, FS_Interval
    <3> QED BY <3>1, <3>2, FS_Subset
  <2>4. Cardinality(cut') = Cardinality(cut) + Cardinality(C)
    BY <2>1, <2>2, <2>3, TwoParts
  <2>5. dropped \in Nat /\ forgotten \in Nat /\ Cardinality(C) \in Nat /\ Cardinality(cut) \in Nat
    BY <2>1, <2>3, FS_CardinalityType DEF LogBase, LogTyped, ConfigTyped
  <2> QED BY <2>1, <2>2, <2>4, <2>5 DEF DropsCounted
<1> QED BY <1>1, <1>2, DropSteps

LEMMA DropsInit == Init => EndIsNewline /\ DropsCounted
<1> SUFFICES ASSUME Init PROVE EndIsNewline /\ DropsCounted
  OBVIOUS
<1>1. EndIsNewline
  BY DEF Init, EndIsNewline
<1>2. dropped = 0 /\ forgotten = 0 /\ cut = {}
  BY DEF Init
<1> QED BY <1>1, <1>2, FS_EmptySet DEF DropsCounted

\* get_dropped_lines counts every line that lost bytes, once, if every message
\* fits in line[] and has no newline of its own: a line without its newline is
\* discarded with the next one, and only one of them is counted.
THEOREM DropsAreCounted == NoBreaks /\ Fits => (Spec => []DropsCounted)
<1> SUFFICES ASSUME NoBreaks, Fits PROVE Spec => []DropsCounted
  OBVIOUS
<1>1. LogBase /\ KeptInv /\ [Next]_vars => KeptInv'
  BY KeptStep
<1>2. LogBase /\ EndIsNewline /\ [Next]_vars => EndIsNewline'
  BY EndNewlineStep
<1>3. LogBase /\ KeptInv /\ EndIsNewline /\ DropsCounted /\ [Next]_vars => DropsCounted'
  BY DropsStep
<1>4. Init => EndIsNewline
  BY DropsInit
<1>5. Init => DropsCounted
  BY DropsInit
<1> QED BY <1>1, <1>2, <1>3, <1>4, <1>5, BaseInit, BaseStep, KeptInit, PTL DEF Spec
-----------------------------------------------------------------------------
(* What the reader of the terminal is promised *)

\* Two sequences of one length with the same elements are one.
LEMMA SameSeq ==
  ASSUME NEW S, NEW s \in Seq(S), NEW t \in Seq(S), Len(s) = Len(t),
         \A i \in 1 .. Len(s) : s[i] = t[i]
  PROVE  s = t
OBVIOUS

LEMMA CatSub ==
  ASSUME NEW S, NEW a \in Seq(S), NEW b \in Seq(S), NEW d \in 0 .. Len(b)
  PROVE  /\ SubSeq(a \o b, 1, Len(a)) = a
         /\ SubSeq(a \o b, Len(a) + d + 1, Len(a \o b)) = SubSeq(b, d + 1, Len(b))
<1> DEFINE t == a \o b
<1>1. /\ t \in Seq(S) /\ Len(t) = Len(a) + Len(b)
      /\ \A i \in 1 .. Len(a) : t[i] = a[i]
      /\ \A i \in 1 .. Len(b) : t[Len(a) + i] = b[i]
  BY ConcatFacts
<1>2. Len(a) \in Nat /\ Len(b) \in Nat
  OBVIOUS
<1> HIDE DEF t
<1>3. /\ SubSeq(t, 1, Len(a)) \in Seq(S) /\ Len(SubSeq(t, 1, Len(a))) = Len(a)
      /\ \A i \in 1 .. Len(a) : SubSeq(t, 1, Len(a))[i] = t[i]
  <2>1. Len(a) \in 0 .. Len(t)
    BY <1>1, <1>2
  <2> QED BY <1>1, <2>1, SplitFacts
<1>4. SubSeq(t, 1, Len(a)) = a
  BY <1>1, <1>3, SameSeq
<1>5. /\ SubSeq(b, d + 1, Len(b)) \in Seq(S) /\ Len(SubSeq(b, d + 1, Len(b))) = Len(b) - d
      /\ \A i \in 1 .. (Len(b) - d) : SubSeq(b, d + 1, Len(b))[i] = b[d + i]
  BY SplitFacts
<1>6. /\ SubSeq(t, Len(a) + d + 1, Len(t)) \in Seq(S)
      /\ Len(SubSeq(t, Len(a) + d + 1, Len(t))) = Len(t) - (Len(a) + d)
      /\ \A i \in 1 .. (Len(t) - (Len(a) + d)) :
            SubSeq(t, Len(a) + d + 1, Len(t))[i] = t[Len(a) + d + i]
  <2>1. Len(a) + d \in 0 .. Len(t)
    BY <1>1, <1>2
  <2> QED BY <1>1, <2>1, SplitFacts
<1>7. Len(t) - (Len(a) + d) = Len(b) - d
  BY <1>1, <1>2
<1>8. ASSUME NEW i \in 1 .. (Len(b) - d)
      PROVE  SubSeq(t, Len(a) + d + 1, Len(t))[i] = SubSeq(b, d + 1, Len(b))[i]
  <2>1. d + i \in 1 .. Len(b) /\ Len(a) + d + i = Len(a) + (d + i)
    BY <1>2
  <2>2. t[Len(a) + d + i] = b[d + i]
    BY <1>1, <2>1
  <2> QED BY <1>5, <1>6, <1>7, <2>2
<1>9. SubSeq(t, Len(a) + d + 1, Len(t)) = SubSeq(b, d + 1, Len(b))
  BY <1>5, <1>6, <1>7, <1>8, SameSeq
<1> QED BY <1>4, <1>9 DEF t

LEMMA CatAssoc ==
  ASSUME NEW S, NEW a \in Seq(S), NEW b \in Seq(S), NEW c \in Seq(S)
  PROVE  a \o (b \o c) = (a \o b) \o c
OBVIOUS

LEMMA CatFront ==
  ASSUME NEW S, NEW a \in Seq(S), NEW b \in Seq(S), Len(a) > 0
  PROVE  /\ a \o b # << >> /\ Head(a \o b) = a[1]
         /\ Tail(a \o b) = Tail(a) \o b
<1> DEFINE t == a \o b
<1>1. /\ t \in Seq(S) /\ Len(t) = Len(a) + Len(b)
      /\ \A i \in 1 .. Len(a) : t[i] = a[i]
      /\ \A i \in 1 .. Len(b) : t[Len(a) + i] = b[i]
      /\ \A i \in (Len(a) + 1) .. (Len(a) + Len(b)) : t[i] = b[i - Len(a)]
  BY ConcatFacts
<1>2. /\ Tail(a) \in Seq(S) /\ Len(Tail(a)) = Len(a) - 1 /\ Len(a) \in Nat /\ Len(b) \in Nat
      /\ \A i \in 1 .. (Len(a) - 1) : Tail(a)[i] = a[i + 1]
  OBVIOUS
<1>3. /\ Tail(a) \o b \in Seq(S) /\ Len(Tail(a) \o b) = Len(a) - 1 + Len(b)
      /\ \A i \in 1 .. (Len(a) - 1) : (Tail(a) \o b)[i] = Tail(a)[i]
      /\ \A i \in 1 .. Len(b) : (Tail(a) \o b)[Len(a) - 1 + i] = b[i]
  <2>1. PICK u \in Seq(S) : u = Tail(a) /\ Len(u) = Len(a) - 1
    BY <1>2
  <2>2. /\ u \o b \in Seq(S) /\ Len(u \o b) = Len(u) + Len(b)
        /\ \A i \in 1 .. Len(u) : (u \o b)[i] = u[i]
        /\ \A i \in 1 .. Len(b) : (u \o b)[Len(u) + i] = b[i]
    BY ConcatFacts
  <2> HIDE DEF t
  <2> QED BY <2>1, <2>2
<1> HIDE DEF t
<1>4. /\ t # << >> /\ Head(t) = t[1]
      /\ Tail(t) \in Seq(S) /\ Len(Tail(t)) = Len(t) - 1
      /\ \A i \in 1 .. (Len(t) - 1) : Tail(t)[i] = t[i + 1]
  <2>1. Len(t) > 0 /\ t \in Seq(S)
    BY <1>1, <1>2
  <2>2. Tail(t) \in Seq(S) /\ Len(Tail(t)) = Len(t) - 1
    BY <2>1
  <2>3. \A i \in 1 .. (Len(t) - 1) : Tail(t)[i] = t[i + 1]
    BY <2>1
  <2>4. t # << >> /\ Head(t) = t[1]
    BY <2>1
  <2> QED BY <2>2, <2>3, <2>4
<1>5. t[1] = a[1]
  BY <1>1, <1>2
<1>6. ASSUME NEW i \in 1 .. (Len(t) - 1) PROVE Tail(t)[i] = (Tail(a) \o b)[i]
  <2>1. CASE i \in 1 .. (Len(a) - 1)
    <3>1. i + 1 \in 1 .. Len(a)
      BY <1>2, <2>1
    <3>2. Tail(t)[i] = t[i + 1] /\ t[i + 1] = a[i + 1]
      BY <1>1, <1>4, <3>1
    <3>3. (Tail(a) \o b)[i] = a[i + 1]
      BY <1>2, <1>3, <2>1
    <3> QED BY <3>2, <3>3
  <2>2. CASE i \notin 1 .. (Len(a) - 1)
    <3>1. /\ i - (Len(a) - 1) \in 1 .. Len(b)
          /\ Len(a) + (i - (Len(a) - 1)) = i + 1 /\ Len(a) - 1 + (i - (Len(a) - 1)) = i
      BY <1>1, <1>2, <2>2
    <3>2. t[i + 1] = b[i - (Len(a) - 1)]
      BY <1>1, <3>1
    <3>3. (Tail(a) \o b)[i] = b[i - (Len(a) - 1)]
      BY <1>3, <3>1, SMTT(30)
    <3> QED BY <1>4, <3>2, <3>3
  <2> QED BY <2>1, <2>2
<1>7. Tail(t) = Tail(a) \o b
  <2>1. Len(Tail(t)) = Len(Tail(a) \o b)
    BY <1>1, <1>2, <1>3, <1>4
  <2> HIDE DEF t
  <2> QED BY <1>3, <1>4, <1>6, <2>1, SameSeq
<1> QED BY <1>4, <1>5, <1>7, SMTT(30) DEF t

\* Only the main program drains the logger.
OneReader == "isr" \notin Processors

IsrNeverReads == /\ pc["isr"] \notin {"process", "pop", "put"}
                 /\ pc["isr"] = "instance" => todo["isr"] # "process"

LEMMA OneReaderStep ==
  ASSUME LogBase, OneReader, IsrNeverReads, [Next]_vars
  PROVE  IsrNeverReads'
<1> USE DEF IsrNeverReads, locals, Contexts, Setting
<1>0. /\ pc \in [Contexts -> {"idle", "instance", "write", "stamp", "enqueue", "process",
                              "pop", "put"} \cup Setting]
      /\ todo \in [Contexts -> {"write", "process"} \cup Setting]
  BY DEF LogBase, LogTyped, CallTyped
<1>1. CASE UNCHANGED vars
  BY <1>1 DEF vars
<1>2. ASSUME NEW f \in {"write", "process"} \cup Setting, Call(f) PROVE IsrNeverReads'
  BY <1>0, <1>2 DEF Call, Step
<1>3. ASSUME NEW f \in {"write", "process"} \cup Setting, Interrupt(f) PROVE IsrNeverReads'
  <2>1. f # "process"
    BY <1>3 DEF Interrupt, MayCall, OneReader
  <2> QED BY <1>0, <1>3, <2>1 DEF Interrupt
<1>4. CASE Eret \/ Tick
  BY <1>4 DEF Eret, Tick
<1>5. ASSUME NEW c \in Contexts, Section(c) PROVE IsrNeverReads'
  <2>1. todo' = todo
    BY <1>5 DEF Section, Instance, CheckLevel, GetTimestamp, Enqueue, ShouldProcess, PopChunk,
                PutChar, SetLevel, SetEvery, SetProvider, ResetDropped
  <2>2. CASE Instance(c)
    BY <1>0, <2>1, <2>2 DEF Instance, Step
  <2>3. CASE CheckLevel(c) \/ GetTimestamp(c) \/ Enqueue(c)
    BY <1>0, <2>1, <2>3 DEF CheckLevel, GetTimestamp, Enqueue, Step
  <2>4. CASE ShouldProcess(c) \/ PopChunk(c) \/ PutChar(c)
    <3>1. pc[c] \in {"process", "pop", "put"} /\ \A b \in Contexts \ {c} : pc'[b] = pc[b]
      BY <1>0, <2>4 DEF ShouldProcess, PopChunk, PutChar, Step
    <3> QED BY <2>1, <3>1
  <2>5. CASE SetLevel(c) \/ SetEvery(c) \/ SetProvider(c) \/ ResetDropped(c)
    BY <1>0, <2>1, <2>5 DEF SetLevel, SetEvery, SetProvider, ResetDropped, Step
  <2> QED BY <1>5, <2>2, <2>3, <2>4, <2>5 DEF Section
<1> QED BY <1>1, <1>2, <1>3, <1>4, <1>5 DEF Next

LEMMA CatLine ==
  ASSUME NEW S, NEW a \in Seq(S), NEW r \in Seq(S), NEW l \in Seq(S)
  PROVE  /\ a \o r \in Seq(S) /\ Len(a \o r) = Len(a) + Len(r)
         /\ a \o (r \o l) = (a \o r) \o l
         /\ SubSeq(a \o (r \o l), Len(a \o r) + 1, Len(a \o (r \o l))) = l
<1>1. a \o r \in Seq(S) /\ Len(a \o r) = Len(a) + Len(r)
  BY ConcatFacts
<1>2. a \o (r \o l) = (a \o r) \o l
  BY CatAssoc
<1>3. PICK k \in Seq(S) : k = a \o r
  BY <1>1
<1>4. SubSeq(k \o l, Len(k) + 0 + 1, Len(k \o l)) = SubSeq(l, 0 + 1, Len(l))
  <2>1. 0 \in 0 .. Len(l)
    OBVIOUS
  <2> QED BY <2>1, CatSub
<1>5. SubSeq(l, 0 + 1, Len(l)) = l
  OBVIOUS
<1>6. Len(k) + 0 + 1 = Len(k) + 1
  OBVIOUS
<1>7. SubSeq(k \o l, Len(k) + 1, Len(k \o l)) = l
  BY <1>4, <1>5, <1>6
<1> QED BY <1>1, <1>2, <1>3, <1>7

\* A line queued is the abstract log's Accept: the bytes popped stay in front,
\* what is discarded is whole lines of the ring and no more than the new line needs.
LEMMA EnqueueAccepts ==
  ASSUME LogBase, NEW c \in Contexts, Enqueue(c)
  PROVE  Log!Accept
<1> DEFINE a == chunk["main"]
           d == Lost(c)
           line == NewLine(c)
           rest == SubSeq(ring, d + 1, Len(ring))
           back == a \o ring
           back1 == a \o (rest \o line)
           kept == a \o rest
<1>1. /\ a \in Seq(AnyByte) /\ Len(a) \in 0 .. ChunkSize /\ ring \in Seq(AnyByte)
      /\ Len(ring) \in 0 .. Size
  <2>1. chunk["main"] \in Seq(AnyByte) /\ Len(chunk["main"]) <= ChunkSize
    BY DEF LogBase, LogTyped, BytesTyped, Contexts
  <2>2. ring \in Seq(AnyByte) /\ Len(ring) <= Size
    BY DEF LogBase, LogTyped, BytesTyped
  <2> QED BY <2>1, <2>2, Sizes
<1>2. /\ line \in Seq(AnyByte) /\ Len(line) \in 1 .. Size
      /\ \A i \in 1 .. Len(line) : line[i].line = Len(lines) + 1 /\ line[i].pos = i
      /\ d \in 0 .. Len(ring) /\ d \in {0} \cup LineEnds
      /\ ring' = rest \o line /\ chunk' = chunk /\ out' = out
      /\ Len(lines') = Len(lines) + 1
  BY EnqueueMoves, LineLengths
<1>3. /\ Size - (Len(ring) - d) >= Len(line)
      /\ \A e \in {0} \cup LineEnds : e < d => Size - (Len(ring) - e) < Len(line)
  BY <1>1, <1>2, DiscardFacts DEF Lost
<1>4. rest \in Seq(AnyByte) /\ Len(rest) = Len(ring) - d
  BY <1>1, <1>2, SplitFacts
<1> HIDE DEF line, d, a
<1>5. SubSeq(back, 1, Len(a)) = a /\ SubSeq(back, Len(a) + d + 1, Len(back)) = rest
  BY <1>1, <1>2, CatSub, SMTT(30)
<1>6. Log!Without(Len(a), d) = kept
  BY <1>5 DEF Log!Without, a
<1> HIDE DEF rest
<1>7. /\ back \in Seq(AnyByte) /\ Len(back) = Len(a) + Len(ring)
      /\ \A i \in 1 .. Len(ring) : back[Len(a) + i] = ring[i]
  BY <1>1, ConcatFacts
<1>8. /\ kept \in Seq(AnyByte) /\ back1 = kept \o line
      /\ SubSeq(back1, Len(kept) + 1, Len(back1)) = line
  <2>1. a \in Seq(AnyByte) /\ rest \in Seq(AnyByte) /\ line \in Seq(AnyByte)
    BY <1>1, <1>2, <1>4
  <2> QED BY <2>1, CatLine
<1> HIDE DEF kept
<1>10. chunk'["main"] \o ring' = back1
  BY <1>2 DEF a
<1> HIDE DEF back, back1
<1>9. \A e \in 0 .. Len(ring) :
        Log!WholeLines(Len(a), e) <=> e = 0 \/ e = Len(ring) \/ ring[e].nl
  <2> SUFFICES ASSUME NEW e \in 0 .. Len(ring)
               PROVE  Log!WholeLines(Len(a), e) <=> e = 0 \/ e = Len(ring) \/ ring[e].nl
    OBVIOUS
  <2>1. Log!WholeLines(Len(a), e) <=> e = 0 \/ Len(a) + e = Len(back) \/ back[Len(a) + e].nl
    BY DEF Log!WholeLines, back, a
  <2>2. Len(a) + e = Len(back) <=> e = Len(ring)
    <3>1. /\ Len(a) \in Nat /\ Len(ring) \in Nat /\ e \in Nat
          /\ Len(back) = Len(a) + Len(ring)
      BY <1>1, <1>7
    <3> QED BY <3>1
  <2>3. CASE e = 0
    BY <2>1, <2>3
  <2>4. CASE e # 0
    <3>1. back[Len(a) + e] = ring[e]
      BY <1>1, <1>7, <2>4
    <3> QED BY <2>1, <2>2, <2>4, <3>1
  <2> QED BY <2>3, <2>4
<1>11. Log!WholeLines(Len(a), d)
  <2>1. d = 0 \/ d = Len(ring) \/ ring[d].nl
    BY <1>2 DEF LineEnds
  <2> QED BY <1>2, <1>9, <2>1
<1>12. Len(a) + d <= Len(back)
  BY <1>1, <1>2, <1>7
<1>13. \A e \in 0 .. Len(ring) : Len(back) - Len(a) - e + Len(line) > Size
                                 <=> Size - (Len(ring) - e) < Len(line)
  BY <1>1, <1>2, <1>7, Sizes
<1>14. ~(Len(back) - Len(a) - d + Len(line) > Size)
  BY <1>1, <1>2, <1>3, <1>13, Sizes
<1>15. ASSUME NEW e \in 0 .. (d - 1), Log!WholeLines(Len(a), e)
       PROVE  Len(back) - Len(a) - e + Len(line) > Size
  <2>1. e \in 0 .. Len(ring) /\ e < d /\ e # Len(ring)
    BY <1>1, <1>2
  <2>2. e = 0 \/ ring[e].nl
    BY <1>15, <1>9, <2>1
  <2>3. e \in {0} \cup LineEnds
    BY <1>1, <2>1, <2>2 DEF LineEnds
  <2> QED BY <1>3, <1>13, <2>1, <2>3
<1>16. Log!IsLine(line)
  <2>1. line # << >>
    BY <1>2
  <2> QED BY <1>2, <2>1 DEF Log!IsLine
<1>17. Len(a) \in 0 .. ChunkSize /\ d \in 0 .. Size
  BY <1>1, <1>2, Sizes
<1> DEFINE Fit(f, e, new) ==
             /\ f + e <= Len(back)
             /\ Log!WholeLines(f, e)
             /\ chunk'["main"] \o ring' = Log!Without(f, e) \o new
             /\ Log!IsLine(new)
             /\ ~(Len(back) - f - e + Len(new) > Size)
             /\ \A g \in 0 .. (e - 1) : Log!WholeLines(f, g) => Len(back) - f - g + Len(new) > Size
             /\ Len(lines') = Len(lines) + 1
             /\ UNCHANGED out
<1>18. Fit(Len(a), d, line)
  BY <1>2, <1>6, <1>8, <1>10, <1>11, <1>12, <1>14, <1>15, <1>16
<1>19. line = SubSeq(chunk'["main"] \o ring', Len(Log!Without(Len(a), d)) + 1,
                     Len(chunk'["main"] \o ring'))
  BY <1>6, <1>8, <1>10
<1>20. Log!Accept <=>
         \E f \in 0 .. ChunkSize, e \in 0 .. Size :
            Fit(f, e, SubSeq(chunk'["main"] \o ring', Len(Log!Without(f, e)) + 1,
                             Len(chunk'["main"] \o ring')))
  BY DEF Log!Accept, back, a
<1> HIDE DEF Fit
<1> QED BY <1>17, <1>18, <1>19, <1>20

LEMMA LogSteps ==
  ASSUME LogBase, IsrNeverReads, [Next]_vars
  PROVE  Log!Accept \/ Log!Show \/ UNCHANGED <<chunk["main"] \o ring, Len(lines), out>>
<1>0. /\ ring \in Seq(AnyByte) /\ chunk \in [Contexts -> Seq(AnyByte)]
      /\ chunk["main"] \in Seq(AnyByte)
  BY DEF LogBase, LogTyped, BytesTyped, Contexts
<1>1. CASE UNCHANGED data
  BY <1>1 DEF data
<1>2. ASSUME NEW c \in Contexts, PopChunk(c)
      PROVE  UNCHANGED <<chunk["main"] \o ring, Len(lines), out>>
  <2>1. PICK n \in 0 .. Len(ring) :
           /\ pc[c] = "pop" /\ chunk[c] = << >>
           /\ ring = chunk'[c] \o ring'
           /\ UNCHANGED <<out, lines>>
    BY <1>2, PopMoves DEF history
  <2>2. c = "main"
    BY <2>1 DEF IsrNeverReads, Contexts
  <2>3. << >> \o ring = ring
    BY <1>0
  <2> QED BY <2>1, <2>2, <2>3
<1>3. ASSUME NEW c \in Contexts, PutChar(c) PROVE Log!Show
  <2>1. /\ pc[c] = "put" /\ Len(chunk[c]) > 0 /\ out' = Append(out, chunk[c][1])
        /\ chunk' = [chunk EXCEPT ![c] = Tail(chunk[c])]
        /\ UNCHANGED <<ring, lines>>
    BY <1>3, PutMoves DEF history
  <2>2. c = "main"
    BY <2>1 DEF IsrNeverReads, Contexts
  <2>3. chunk'["main"] = Tail(chunk["main"])
    BY <1>0, <2>1, <2>2
  <2>4. /\ chunk["main"] \o ring # << >> /\ Head(chunk["main"] \o ring) = chunk["main"][1]
        /\ Tail(chunk["main"] \o ring) = Tail(chunk["main"]) \o ring
    BY <1>0, <2>1, <2>2, CatFront
  <2> QED BY <2>1, <2>2, <2>3, <2>4 DEF Log!Show
<1>4. ASSUME NEW c \in Contexts, Enqueue(c) PROVE Log!Accept
  BY <1>4, EnqueueAccepts
<1> QED BY <1>1, <1>2, <1>3, <1>4, OtherSteps

LEMMA LogStart == Init => Log!LogInit /\ IsrNeverReads
<1> SUFFICES ASSUME Init PROVE Log!LogInit /\ IsrNeverReads
  OBVIOUS
<1>1. chunk["main"] = << >> /\ ring = << >> /\ out = << >> /\ lines = << >>
  BY DEF Init, Contexts
<1>2. << >> \o << >> = << >>
  OBVIOUS
<1>3. IsrNeverReads
  BY DEF Init, IsrNeverReads, Contexts
<1> QED BY <1>1, <1>2, <1>3 DEF Log!LogInit

\* With one reader the logger is the lossy log: log_process shows the queued
\* bytes in order, and every log_write that finds no room discards the oldest
\* whole lines and no more than it needs.
THEOREM LoggerIsLossyLog == OneReader => (Spec => IsLossyLog)
<1> SUFFICES ASSUME OneReader PROVE Spec => IsLossyLog
  OBVIOUS
<1>1. Init => Log!LogInit
  BY LogStart
<1>2. Init => IsrNeverReads
  BY LogStart
<1>3. LogBase /\ IsrNeverReads /\ [Next]_vars => IsrNeverReads'
  BY OneReaderStep
<1>4. LogBase /\ IsrNeverReads /\ [Next]_vars => [Log!LogNext]_(Log!logVars)
  BY LogSteps DEF Log!LogNext, Log!logVars
<1> QED BY <1>1, <1>2, <1>3, <1>4, BaseInit, BaseStep, PTL DEF Spec, IsLossyLog, Log!LogSpec
-----------------------------------------------------------------------------
\* The demo's own messages are messages, and none of them is the report.
OwnMessages == /\ Hello \in Seq(Messages \ {Report})
               /\ {Heartbeat, Warning, Error} \subseteq Messages \ {Report}

\* The calls main() makes, but for a report and the reset behind it
Plain == {Log1(m) : m \in Messages \ {Report}}
         \cup {Do(f) : f \in {"get", "process", "level", "every", "provider"}}

\* A call of log_reset_dropped_lines is under way.
Resets == todo["main"] = "reset" /\ pc["main"] \in {"instance", "reset"}

\* A reset is the next call; a report and then a reset are.
ResetNext(w) == \E rest \in Seq(Plain) : w = <<Do("reset")>> \o rest
ReportNext(w) == \E rest \in Seq(Plain) : w = <<Log1(Report), Do("reset")>> \o rest

\* What is still to be called: no report, a reset behind a report, or both
DemoInv ==
  /\ seen \in Nat /\ reported \in Nat
  /\ pc["main"] = "reset" => todo["main"] = "reset"
  /\ \/ /\ work \in Seq(Plain)
        /\ Resets => seen <= dropped /\ reported <= forgotten + seen
        /\ ~Resets => reported <= forgotten
     \/ /\ ResetNext(work)
        /\ todo["main"] = "write" /\ seen <= dropped /\ reported <= forgotten + seen
     \/ /\ ReportNext(work)
        /\ pc["main"] = "idle" /\ seen <= dropped /\ reported <= forgotten

LEMMA PlainIs ==
  /\ \A t \in Plain : /\ t.call \in {"write", "process", "get", "level", "every", "provider"}
                        /\ t # Log1(Report)
  /\ \A f \in {"get", "process", "level", "every", "provider"} : Do(f) \in Plain
  /\ Log1(Report).call = "write"
  /\ Do("reset").call = "reset" /\ Do("reset") # Log1(Report)
  /\ \A m \in Messages \ {Report} : Log1(m) \in Plain
BY DEF Plain, Log1, Do

\* One call, or two, in front of others
LEMMA InFront ==
  ASSUME NEW S, NEW r \in Seq(S), NEW a, NEW b
  PROVE  /\ Head(<<a>> \o r) = a /\ Tail(<<a>> \o r) = r /\ <<a>> \o r # <<>>
         /\ Head(<<a, b>> \o r) = a /\ Tail(<<a, b>> \o r) = <<b>> \o r /\ <<a, b>> \o r # <<>>
<1> DEFINE T == S \cup {a, b}
<1>1. r \in Seq(T) /\ a \in T /\ b \in T
  OBVIOUS
<1> HIDE DEF T
<1>2. /\ <<a>> \in Seq(T) /\ Len(<<a>>) = 1 /\ <<a>>[1] = a
      /\ <<a, b>> \in Seq(T) /\ Len(<<a, b>>) = 2 /\ <<a, b>>[1] = a /\ <<a, b>>[2] = b
      /\ <<b>> \in Seq(T) /\ Len(<<b>>) = 1 /\ <<b>>[1] = b
  BY <1>1
<1> DEFINE p == <<a>>
           q == <<a, b>>
           z == <<b>>
<1>3. p \in Seq(T) /\ Len(p) = 1 /\ p[1] = a /\ q \in Seq(T) /\ Len(q) = 2 /\ q[1] = a /\ q[2] = b
      /\ z \in Seq(T) /\ Len(z) = 1 /\ z[1] = b
  BY <1>2
<1> HIDE DEF p, q, z
<1>4. Head(p \o r) = a /\ Tail(p \o r) = r /\ p \o r # <<>>
  <2>1. /\ p \o r \in Seq(T) /\ Len(p \o r) = 1 + Len(r) /\ (p \o r)[1] = a
        /\ \A i \in 1 .. Len(r) : (p \o r)[1 + i] = r[i]
    <3>1. p \in Seq(T) /\ r \in Seq(T)
      BY <1>1, <1>3
    <3>2. /\ p \o r \in Seq(T) /\ Len(p \o r) = Len(p) + Len(r)
          /\ \A i \in 1 .. Len(p) : (p \o r)[i] = p[i]
          /\ \A i \in 1 .. Len(r) : (p \o r)[Len(p) + i] = r[i]
      BY <3>1, ConcatFacts
    <3> QED
      BY <1>3, <3>2
  <2> DEFINE s == p \o r
  <2> HIDE DEF s
  <2>2. s # <<>> /\ Head(s) = a /\ Tail(s) \in Seq(T) /\ Len(Tail(s)) = Len(r)
        /\ \A i \in 1 .. Len(r) : Tail(s)[i] = r[i]
    BY <1>1, <2>1 DEF s
  <2>3. Tail(s) = r
    BY <1>1, <2>2
  <2> QED
    BY <2>2, <2>3 DEF s
<1>5. Head(q \o r) = a /\ Tail(q \o r) = z \o r /\ q \o r # <<>>
  <2>1. /\ q \o r \in Seq(T) /\ Len(q \o r) = 2 + Len(r) /\ (q \o r)[1] = a /\ (q \o r)[2] = b
        /\ \A i \in 1 .. Len(r) : (q \o r)[2 + i] = r[i]
    <3>1. q \in Seq(T) /\ r \in Seq(T)
      BY <1>1, <1>3
    <3>2. /\ q \o r \in Seq(T) /\ Len(q \o r) = Len(q) + Len(r)
          /\ \A i \in 1 .. Len(q) : (q \o r)[i] = q[i]
          /\ \A i \in 1 .. Len(r) : (q \o r)[Len(q) + i] = r[i]
      BY <3>1, ConcatFacts
    <3> QED
      BY <1>3, <3>2
  <2>2. /\ z \o r \in Seq(T) /\ Len(z \o r) = 1 + Len(r) /\ (z \o r)[1] = b
        /\ \A i \in 1 .. Len(r) : (z \o r)[1 + i] = r[i]
    <3>1. z \in Seq(T) /\ r \in Seq(T)
      BY <1>1, <1>3
    <3>2. /\ z \o r \in Seq(T) /\ Len(z \o r) = Len(z) + Len(r)
          /\ \A i \in 1 .. Len(z) : (z \o r)[i] = z[i]
          /\ \A i \in 1 .. Len(r) : (z \o r)[Len(z) + i] = r[i]
      BY <3>1, ConcatFacts
    <3> QED
      BY <1>3, <3>2
  <2> DEFINE s == q \o r
             u == z \o r
  <2> HIDE DEF s, u
  <2>3. s # <<>> /\ Head(s) = a /\ Tail(s) \in Seq(T) /\ Len(Tail(s)) = 1 + Len(r)
        /\ \A i \in 1 .. 1 + Len(r) : Tail(s)[i] = s[i + 1]
    BY <1>1, <2>1 DEF s
  <2>4. \A i \in 1 .. 1 + Len(r) : Tail(s)[i] = u[i]
    <3> TAKE i \in 1 .. 1 + Len(r)
    <3>1. CASE i = 1
      BY <2>1, <2>2, <2>3, <3>1 DEF s, u
    <3>2. CASE i # 1
      <4>1. i - 1 \in 1 .. Len(r) /\ i + 1 = 2 + (i - 1) /\ i = 1 + (i - 1)
        BY <1>1, <3>2
      <4>2. s[2 + (i - 1)] = r[i - 1] /\ u[1 + (i - 1)] = r[i - 1]
        BY <2>1, <2>2, <4>1 DEF s, u
      <4> QED
        BY <2>3, <4>1, <4>2
    <3> QED
      BY <3>1, <3>2
  <2>5. u \in Seq(T) /\ Len(u) = 1 + Len(r)
    BY <2>2 DEF u
  <2>6. Tail(s) = u
    BY <2>3, <2>4, <2>5
  <2> QED
    BY <2>3, <2>6 DEF s, u
<1> QED
  BY <1>4, <1>5 DEF p, q, z

LEMMA IterationIs == ASSUME OwnMessages, NEW k PROVE Iteration(k) \in Seq(Plain)
<1>1. ASSUME NEW b, NEW s \in Seq(Plain) PROVE If(b, s) \in Seq(Plain)
  BY <1>1 DEF If
<1>2. \A t \in Plain : <<t>> \in Seq(Plain)
  OBVIOUS
<1>3. Log1(Heartbeat) \in Plain /\ Log1(Warning) \in Plain /\ Log1(Error) \in Plain
      /\ Do("get") \in Plain /\ Do("process") \in Plain
  BY PlainIs DEF OwnMessages
<1> DEFINE a == <<Log1(Heartbeat)>>
           b == If(k % 5 = 0, <<Log1(Warning)>>)
           c == If(k = 0, <<Log1(Error)>>)
           d == If(k % 10 = 0, <<Do("get")>>)
           e == <<Do("process")>>
<1>4. /\ a \in Seq(Plain) /\ b \in Seq(Plain) /\ c \in Seq(Plain)
      /\ d \in Seq(Plain) /\ e \in Seq(Plain)
  BY <1>1, <1>2, <1>3
<1>5. Iteration(k) = a \o b \o c \o d \o e
  BY DEF Iteration
<1> HIDE DEF a, b, c, d, e
<1> QED
  BY <1>4, <1>5

LEMMA DemoStarts == OwnMessages /\ DemoInit => DemoInv
<1> SUFFICES ASSUME OwnMessages, DemoInit PROVE DemoInv
  OBVIOUS
<1> DEFINE h == [i \in 1 .. Len(Hello) |-> Log1(Hello[i])]
<1>1. h \in Seq(Plain)
  <2>1. Len(Hello) \in Nat /\ \A i \in 1 .. Len(Hello) : Hello[i] \in Messages \ {Report}
    BY DEF OwnMessages
  <2>2. \A i \in 1 .. Len(Hello) : Log1(Hello[i]) \in Plain
    BY <2>1, PlainIs
  <2> QED
    BY <2>1, <2>2
<1>2. work = Settings \o h \o Iteration(0)
  BY DEF DemoInit
<1> HIDE DEF h
<1>3. work \in Seq(Plain)
  <2>1. Settings \in Seq(Plain)
    <3>1. Do("level") \in Plain /\ Do("every") \in Plain /\ Do("provider") \in Plain
      BY PlainIs
    <3> QED
      BY <3>1 DEF Settings
  <2>2. Settings \o h \in Seq(Plain) /\ Iteration(0) \in Seq(Plain)
    BY <1>1, <2>1, IterationIs
  <2> QED
    BY <1>2, <2>2
<1>4. /\ seen = 0 /\ reported = 0 /\ forgotten = 0 /\ pc = [c \in Contexts |-> "idle"]
  BY DEF DemoInit, Init
<1> QED
  BY <1>3, <1>4 DEF DemoInv, Resets, Contexts

LEMMA DemoSteps == DemoInv /\ [DemoNext]_<<vars, demoVars>> => [Next]_vars
<1> SUFFICES ASSUME DemoInv, [DemoNext]_<<vars, demoVars>> PROVE [Next]_vars
  OBVIOUS
<1> DEFINE Called == {"write", "process", "reset", "level", "every", "provider"}
<1>1. CASE Enter
  <2>1. Head(work).call \in Called
    <3>1. work # <<>> /\ Head(work).call # "get"
      BY <1>1 DEF Enter
    <3>2. CASE work \in Seq(Plain)
      <4>1. Head(work) \in Plain
        BY <3>1, <3>2
      <4> QED
        BY <3>1, <4>1, PlainIs
    <3>3. ASSUME NEW rest \in Seq(Plain), work = <<Do("reset")>> \o rest
          PROVE  Head(work).call \in Called
      BY <3>3, InFront, PlainIs
    <3>4. ASSUME NEW rest \in Seq(Plain), work = <<Log1(Report), Do("reset")>> \o rest
          PROVE  Head(work).call \in Called
      BY <3>4, InFront, PlainIs
    <3> QED
      BY <3>2, <3>3, <3>4 DEF DemoInv, ResetNext, ReportNext
  <2>2. Call(Head(work).call)
    BY <1>1 DEF Enter
  <2> DEFINE f == Head(work).call
  <2>3. f \in {"write", "process"} \cup Setting /\ Call(f)
    BY <2>1, <2>2 DEF Setting
  <2> HIDE DEF f
  <2> QED
    BY <2>3 DEF Next
<1>2. CASE Logger
  BY <1>2 DEF Logger, Next, Contexts
<1>3. CASE GetDropped \/ NextIteration \/ UNCHANGED <<vars, demoVars>>
  BY <1>3 DEF GetDropped, NextIteration
<1> QED
  BY <1>1, <1>2, <1>3 DEF DemoNext

\* What a critical section of the logger does to what the demo relies on
LEMMA SectionKeeps ==
  ASSUME LogBase, Section("main")
  PROVE  /\ todo'["main"] = todo["main"]
         /\ pc'["main"] = "reset" => pc["main"] = "instance" /\ todo["main"] = "reset"
         /\ pc'["main"] # "instance"
         /\ \/ /\ pc["main"] = "reset" /\ pc'["main"] = "idle"
               /\ dropped' = 0 /\ forgotten' = forgotten + dropped
            \/ /\ pc["main"] # "reset" /\ dropped <= dropped' /\ forgotten' = forgotten
               /\ pc["main"] = "instance" => pc'["main"] = todo["main"]
<1> DEFINE p == pc["main"]
           t == todo["main"]
<1>1. /\ pc \in [Contexts -> {"idle", "instance", "write", "stamp", "enqueue", "process",
                              "pop", "put"} \cup Setting]
      /\ t \in {"write", "process"} \cup Setting /\ "main" \in Contexts
      /\ dropped \in Nat /\ forgotten \in Nat
  BY DEF LogBase, LogTyped, CallTyped, ConfigTyped, Contexts
<1>2. ASSUME NEW from, NEW to, Step("main", from, to)
      PROVE  pc["main"] = from /\ pc'["main"] = to
  BY <1>1, <1>2 DEF Step
<1> USE DEF config, locals, history
<1>3. CASE Instance("main")
  <2>1. Step("main", "instance", t) /\ UNCHANGED <<todo, dropped, forgotten>>
    BY <1>3 DEF Instance
  <2> QED
    BY <1>1, <1>2, <2>1 DEF Setting
<1>4. CASE CheckLevel("main")
  <2>1. \E to \in {"idle", "stamp"} : Step("main", "write", to)
    BY <1>4 DEF CheckLevel
  <2>2. UNCHANGED <<todo, dropped, forgotten>>
    BY <1>4 DEF CheckLevel
  <2> QED
    BY <1>1, <1>2, <2>1, <2>2
<1>5. CASE GetTimestamp("main")
  BY <1>1, <1>2, <1>5 DEF GetTimestamp
<1>6. CASE Enqueue("main")
  <2> DEFINE d == Discard(Len(NewLine("main")))
  <2>1. Step("main", "enqueue", "idle") /\ UNCHANGED <<todo, forgotten>>
        /\ dropped' = dropped + CountDrop(d)
    BY <1>6 DEF Enqueue, NewLine
  <2>2. CountDrop(d) \in Nat
    <3>1. Len(ring) \in Nat
      BY DEF LogBase, LogTyped, BytesTyped
    <3>2. IsFiniteSet(1 .. Len(ring))
      BY <3>1, FS_Interval
    <3> DEFINE C == {i \in LineEnds : i <= d}
    <3>3. C \subseteq 1 .. Len(ring)
      BY DEF LineEnds
    <3>4. Cardinality(C) \in Nat
      BY <3>2, <3>3, FS_Subset, FS_CardinalityType
    <3> QED
      BY <3>4 DEF CountDrop
  <2> HIDE DEF d
  <2> QED
    BY <1>1, <1>2, <2>1, <2>2
<1>7. CASE ShouldProcess("main")
  <2>1. \E to \in {"idle", "pop"} : Step("main", "process", to)
    BY <1>7 DEF ShouldProcess
  <2>2. UNCHANGED <<todo, dropped, forgotten>>
    BY <1>7 DEF ShouldProcess
  <2> QED
    BY <1>1, <1>2, <2>1, <2>2
<1>8. CASE PopChunk("main")
  <2>1. \E to \in {"idle", "put"} : Step("main", "pop", to)
    BY <1>8 DEF PopChunk
  <2>2. UNCHANGED <<todo, dropped, forgotten>>
    BY <1>8 DEF PopChunk
  <2> QED
    BY <1>1, <1>2, <2>1, <2>2
<1>9. CASE PutChar("main")
  <2>1. \E to \in {"pop", "put"} : Step("main", "put", to)
    BY <1>9 DEF PutChar
  <2>2. UNCHANGED <<todo, dropped, forgotten>>
    BY <1>9 DEF PutChar
  <2> QED
    BY <1>1, <1>2, <2>1, <2>2
<1>10. CASE SetLevel("main")
  BY <1>1, <1>2, <1>10 DEF SetLevel
<1>11. CASE SetEvery("main")
  BY <1>1, <1>2, <1>11 DEF SetEvery
<1>12. CASE SetProvider("main")
  BY <1>1, <1>2, <1>12 DEF SetProvider
<1>13. CASE ResetDropped("main")
  BY <1>1, <1>2, <1>13 DEF ResetDropped
<1> QED
  BY <1>3, <1>4, <1>5, <1>6, <1>7, <1>8, <1>9, <1>10, <1>11, <1>12, <1>13 DEF Section

LEMMA CallBegins ==
  ASSUME LogBase, NEW f, Call(f)
  PROVE  /\ pc["main"] = "idle" /\ pc'["main"] = "instance" /\ todo'["main"] = f
         /\ UNCHANGED <<dropped, forgotten>>
<1>1. pc \in [Contexts -> {"idle", "instance", "write", "stamp", "enqueue", "process",
                           "pop", "put"} \cup Setting]
      /\ todo \in [Contexts -> {"write", "process"} \cup Setting] /\ "main" \in Contexts
  BY DEF LogBase, LogTyped, CallTyped, Contexts
<1> QED
  BY <1>1 DEF Call, Step, config, history

LEMMA DemoKeeps ==
  OwnMessages /\ LogBase /\ DemoInv /\ [DemoNext]_<<vars, demoVars>> => DemoInv'
<1> SUFFICES ASSUME OwnMessages, LogBase, DemoInv, [DemoNext]_<<vars, demoVars>> PROVE DemoInv'
  OBVIOUS
<1>0. /\ dropped \in Nat /\ forgotten \in Nat /\ seen \in Nat /\ reported \in Nat
      /\ pc["main"] = "reset" => todo["main"] = "reset"
  BY DEF DemoInv, LogBase, LogTyped, ConfigTyped
<1> USE DEF config, history
<1>1. CASE Logger
  <2>1. Section("main") /\ UNCHANGED demoVars
    BY <1>1 DEF Logger
  <2>2. UNCHANGED <<work, seen, reported>>
    BY <2>1 DEF demoVars
  <2>3. /\ todo'["main"] = todo["main"]
        /\ pc'["main"] = "reset" => pc["main"] = "instance" /\ todo["main"] = "reset"
        /\ pc'["main"] # "instance"
        /\ \/ /\ pc["main"] = "reset" /\ pc'["main"] = "idle"
              /\ dropped' = 0 /\ forgotten' = forgotten + dropped
           \/ /\ pc["main"] # "reset" /\ dropped <= dropped' /\ forgotten' = forgotten
              /\ pc["main"] = "instance" => pc'["main"] = todo["main"]
    BY <2>1, SectionKeeps
  <2>4. dropped' \in Nat
    BY <1>0, BaseStep, DemoSteps DEF LogBase, LogTyped, ConfigTyped
  <2>5. pc["main"] # "idle"
    BY <2>1 DEF Section, Instance, CheckLevel, GetTimestamp, Enqueue, ShouldProcess, PopChunk,
       PutChar, SetLevel, SetEvery, SetProvider, ResetDropped, Step, LogBase, LogTyped,
       CallTyped, Setting
  <2>6. CASE /\ work \in Seq(Plain)
             /\ Resets => seen <= dropped /\ reported <= forgotten + seen
             /\ ~Resets => reported <= forgotten
    <3>1. Resets' => Resets /\ pc["main"] # "reset"
      BY <2>3 DEF Resets
    <3>2. Resets /\ ~Resets' => pc["main"] = "reset"
      BY <2>3 DEF Resets
    <3> QED
      BY <1>0, <2>2, <2>3, <2>4, <2>6, <3>1, <3>2 DEF DemoInv
  <2>7. CASE /\ ResetNext(work)
             /\ todo["main"] = "write" /\ seen <= dropped /\ reported <= forgotten + seen
    BY <1>0, <2>2, <2>3, <2>4, <2>7 DEF DemoInv, Resets
  <2> QED
    BY <2>5, <2>6, <2>7 DEF DemoInv
<1>2. CASE Enter
  <2> DEFINE f == Head(work).call
  <2>1. /\ work # <<>> /\ f # "get" /\ work' = Tail(work) /\ seen' = seen
        /\ reported' = IF Head(work) = Log1(Report) THEN reported + seen ELSE reported
    BY <1>2 DEF Enter
  <2>2. /\ pc["main"] = "idle" /\ pc'["main"] = "instance" /\ todo'["main"] = f
        /\ UNCHANGED <<dropped, forgotten>>
    BY <1>2, CallBegins DEF Enter
  <2> HIDE DEF f
  <2>3. CASE work \in Seq(Plain) /\ (~Resets => reported <= forgotten)
    <3>1. Head(work) \in Plain /\ Tail(work) \in Seq(Plain)
      BY <2>1, <2>3
    <3>2. f # "reset" /\ Head(work) # Log1(Report)
      BY <3>1, PlainIs DEF f
    <3>3. ~Resets /\ ~Resets'
      BY <2>2, <3>2 DEF Resets
    <3> QED
      BY <1>0, <2>1, <2>2, <2>3, <3>1, <3>2, <3>3 DEF DemoInv
  <2>4. ASSUME NEW rest \in Seq(Plain), work = <<Do("reset")>> \o rest,
               seen <= dropped, reported <= forgotten + seen
        PROVE  DemoInv'
    <3>1. Head(work) = Do("reset") /\ Tail(work) = rest
      BY <2>4, InFront
    <3>2. f = "reset" /\ Head(work) # Log1(Report)
      BY <3>1, PlainIs DEF f
    <3>3. Resets'
      BY <2>2, <3>2 DEF Resets
    <3> QED
      BY <1>0, <2>1, <2>2, <2>4, <3>1, <3>2, <3>3 DEF DemoInv
  <2>5. ASSUME NEW rest \in Seq(Plain), work = <<Log1(Report), Do("reset")>> \o rest,
               seen <= dropped, reported <= forgotten
        PROVE  DemoInv'
    <3>1. Head(work) = Log1(Report) /\ Tail(work) = <<Do("reset")>> \o rest
      BY <2>5, InFront
    <3>2. f = "write"
      BY <3>1, PlainIs DEF f
    <3>3. ResetNext(work')
      BY <2>1, <3>1 DEF ResetNext
    <3>4. reported' = reported + seen
      BY <2>1, <3>1
    <3> QED
      BY <1>0, <2>1, <2>2, <2>5, <3>2, <3>3, <3>4 DEF DemoInv
  <2> QED
    BY <2>2, <2>3, <2>4, <2>5 DEF DemoInv, ResetNext, ReportNext
<1>3. CASE GetDropped
  <2>1. /\ work # <<>> /\ Head(work).call = "get" /\ pc["main"] = "idle" /\ seen' = dropped
        /\ work' = If(dropped > 0, <<Log1(Report), Do("reset")>>) \o Tail(work)
        /\ UNCHANGED <<pc, todo, dropped, forgotten, reported>>
    BY <1>3 DEF GetDropped, vars, locals
  <2>2. work \in Seq(Plain) /\ ~Resets /\ reported <= forgotten
    <3>1. ASSUME NEW rest \in Seq(Plain), work = <<Do("reset")>> \o rest PROVE FALSE
      BY <2>1, <3>1, InFront, PlainIs
    <3>2. ASSUME NEW rest \in Seq(Plain), work = <<Log1(Report), Do("reset")>> \o rest PROVE FALSE
      BY <2>1, <3>2, InFront, PlainIs
    <3>3. ~Resets
      BY <2>1 DEF Resets
    <3> QED
      BY <3>1, <3>2, <3>3 DEF DemoInv, ResetNext, ReportNext
  <2>3. Tail(work) \in Seq(Plain) /\ ~Resets'
    BY <2>1, <2>2 DEF Resets
  <2>4. CASE dropped > 0
    <3>1. work' = <<Log1(Report), Do("reset")>> \o Tail(work)
      BY <2>1, <2>4 DEF If
    <3>2. ReportNext(work')
      BY <2>3, <3>1 DEF ReportNext
    <3> QED
      BY <1>0, <2>1, <2>2, <3>2 DEF DemoInv
  <2>5. CASE ~(dropped > 0)
    <3>1. work' = Tail(work)
      <4>1. work' = <<>> \o Tail(work)
        BY <2>1, <2>5 DEF If
      <4> QED
        BY <2>3, <4>1
    <3> QED
      BY <1>0, <2>1, <2>2, <2>3, <3>1 DEF DemoInv
  <2> QED
    BY <2>4, <2>5
<1>4. CASE NextIteration
  <2>1. /\ work = <<>> /\ pc["main"] = "idle" /\ work' = Iteration(loop')
        /\ UNCHANGED <<pc, todo, dropped, forgotten, seen, reported>>
    BY <1>4 DEF NextIteration, vars, locals
  <2>2. work' \in Seq(Plain)
    BY <2>1, IterationIs
  <2>3. ~Resets /\ ~Resets'
    BY <2>1 DEF Resets
  <2>4. reported <= forgotten
    <3>1. ASSUME NEW rest \in Seq(Plain), work = <<Do("reset")>> \o rest PROVE FALSE
      BY <2>1, <3>1, InFront
    <3>2. ASSUME NEW rest \in Seq(Plain), work = <<Log1(Report), Do("reset")>> \o rest PROVE FALSE
      BY <2>1, <3>2, InFront
    <3> QED
      BY <2>3, <3>1, <3>2 DEF DemoInv, ResetNext, ReportNext
  <2> QED
    BY <1>0, <2>1, <2>2, <2>3, <2>4 DEF DemoInv
<1>5. CASE UNCHANGED <<vars, demoVars>>
  BY <1>5 DEF DemoInv, Resets, vars, demoVars, locals
<1> QED
  BY <1>1, <1>2, <1>3, <1>4, <1>5 DEF DemoNext

\* The demo is a program of the logger: whatever holds of every program holds of it.
THEOREM DemoIsLogger == OwnMessages => (DemoSpec => Spec)
<1> SUFFICES ASSUME OwnMessages PROVE DemoSpec => Spec
  OBVIOUS
<1>1. DemoInit => Init /\ DemoInv
  BY DemoStarts DEF DemoInit
<1>2. DemoInit => LogBase
  BY <1>1, BaseInit
<1>3. LogBase /\ DemoInv /\ [DemoNext]_<<vars, demoVars>> => (LogBase /\ DemoInv)'
  BY DemoSteps, DemoKeeps, BaseStep
<1>4. DemoInv /\ [DemoNext]_<<vars, demoVars>> => [Next]_vars
  BY DemoSteps
<1> QED
  BY <1>1, <1>2, <1>3, <1>4, PTL DEF DemoSpec, Spec

\* No drop is reported twice: what was reported is no more than what resets cleared and
\* what is counted now (main.c:46-50).  That some are never reported is finding 1.
THEOREM DemoReportsOnce == OwnMessages => (DemoSpec => [](reported <= forgotten + dropped))
<1> SUFFICES ASSUME OwnMessages PROVE DemoSpec => [](reported <= forgotten + dropped)
  OBVIOUS
<1>1. DemoInit => LogBase /\ DemoInv
  BY DemoStarts, BaseInit DEF DemoInit
<1>2. LogBase /\ DemoInv /\ [DemoNext]_<<vars, demoVars>> => (LogBase /\ DemoInv)'
  BY DemoSteps, DemoKeeps, BaseStep
<1>3. LogBase /\ DemoInv => reported <= forgotten + dropped
  BY DEF DemoInv, LogBase, LogTyped, ConfigTyped
<1> QED
  BY <1>1, <1>2, <1>3, PTL DEF DemoSpec
=============================================================================
