---------------------------- MODULE Clock_proofs ----------------------------
(***************************************************************************)
(* The list of alarms keeps its links for every set of alarms and every    *)
(* width of the counter, and so does alt_tick's place in it; with its      *)
(* flags and times that wrap it is a queue of timers; the system clock     *)
(* counts every period of its timer, and the time of day is what was set   *)
(* and the ticks since, for every rate.                                    *)
(***************************************************************************)
EXTENDS Clock, TLAPS

\* A structure has both links or neither; what alt_tick holds has them.
LinksInv == /\ \A x \in Nodes : next[x] = Null <=> prev[x] = Null
            /\ next[Head] # Null
            /\ next[alarm] # Null /\ next[saved] # Null
            /\ calling => alarm # Head

ListInv == AlarmTypeOK /\ LinksInv /\ ListLinked

\* Tick counts stay below the modulus.
LEMMA PlusType == ASSUME NEW x \in Nat, NEW y \in Nat
                  PROVE  Plus(x, y) \in 0 .. (Modulus - 1)
  BY AlarmAssumption DEF Plus

LEMMA NullNotNode == Null \notin Nodes /\ Head \in Nodes /\ Alarms \subseteq Nodes
  BY AlarmAssumption DEF Nodes

\* alt_llist_insert of an entry that no other points to keeps the links.
LEMMA InsertKeeps == ASSUME ListInv, NEW e \in Alarms, ~Linked(e), Insert(e),
                            alarm' = alarm, saved' = saved, calling' = calling
                     PROVE  /\ next' \in [Nodes -> Nodes \cup {Null}]
                            /\ prev' \in [Nodes -> Nodes \cup {Null}]
                            /\ LinksInv' /\ ListLinked'
<1>1. e \in Nodes /\ e # Head /\ Head \in Nodes /\ Null \notin Nodes
  BY AlarmAssumption DEF Nodes
<1> DEFINE first == next[Head]
<1>2. first \in Nodes /\ prev[first] = Head
  BY <1>1 DEF ListInv, AlarmTypeOK, LinksInv, ListLinked
<1>3. \A x \in Nodes : x # e /\ next[x] # Null => next[x] # e /\ prev[x] # e
  BY <1>1 DEF ListInv, AlarmTypeOK, LinksInv, ListLinked, Linked
<1>4. next' = [next EXCEPT ![e] = first, ![Head] = e]
  BY DEF Insert
<1>5. prev' = [prev EXCEPT ![e] = Head, ![first] = e]
  BY DEF Insert
<1> HIDE DEF first
<1>6. first # e
  BY <1>1, <1>3 DEF first, ListInv, LinksInv
<1>7. /\ next'[e] = first /\ next'[Head] = e
      /\ \A x \in Nodes \ {e, Head} : next'[x] = next[x]
  BY <1>1, <1>4 DEF ListInv, AlarmTypeOK
<1>8. /\ prev'[e] = Head /\ prev'[first] = e
      /\ \A x \in Nodes \ {e, first} : prev'[x] = prev[x]
  BY <1>1, <1>2, <1>5, <1>6 DEF ListInv, AlarmTypeOK
<1>9. /\ next' \in [Nodes -> Nodes \cup {Null}]
      /\ prev' \in [Nodes -> Nodes \cup {Null}]
  BY <1>1, <1>2, <1>4, <1>5 DEF ListInv, AlarmTypeOK
<1>10. LinksInv'
  BY <1>1, <1>2, <1>7, <1>8 DEF ListInv, AlarmTypeOK, LinksInv
<1>11. ListLinked'
  <2> SUFFICES ASSUME NEW x \in Nodes, next'[x] # Null
               PROVE  prev'[next'[x]] = x /\ next'[prev'[x]] = x
    BY DEF ListLinked
  <2>1. CASE x = e
    BY <2>1, <1>1, <1>7, <1>8
  <2>2. CASE x = Head
    <3>1. prev'[next'[Head]] = Head
      BY <1>7, <1>8
    <3>2. next'[prev'[Head]] = Head
      <4>1. CASE first = Head
        BY <4>1, <1>7, <1>8
      <4>2. CASE first # Head
        <5>1. prev'[Head] = prev[Head] /\ prev[Head] \in Nodes /\ next[prev[Head]] = Head
          BY <4>2, <1>1, <1>8 DEF ListInv, AlarmTypeOK, LinksInv, ListLinked
        <5>2. prev[Head] # Head /\ prev[Head] # e
          BY <5>1, <4>2, <1>1, <1>3 DEF first, ListInv, LinksInv
        <5> QED BY <5>1, <5>2, <1>7
      <4> QED BY <4>1, <4>2
    <3> QED BY <2>2, <3>1, <3>2
  <2>3. CASE x # e /\ x # Head
    <3>1. next'[x] = next[x] /\ next[x] # Null /\ next[x] \in Nodes
      BY <2>3, <1>7 DEF ListInv, AlarmTypeOK
    <3>2. /\ prev[next[x]] = x /\ next[prev[x]] = x
          /\ next[x] # e /\ prev[x] # e /\ prev[x] \in Nodes
      BY <2>3, <3>1, <1>3 DEF ListInv, AlarmTypeOK, LinksInv, ListLinked
    <3>3. next[x] # first
      BY <3>2, <2>3, <1>2
    <3>4. prev'[next'[x]] = x
      BY <3>1, <3>2, <3>3, <1>8
    <3>5. next'[prev'[x]] = x
      <4>1. CASE x = first
        BY <4>1, <1>7, <1>8
      <4>2. CASE x # first
        <5>1. prev'[x] = prev[x] /\ prev[x] # Head
          BY <4>2, <2>3, <3>2, <1>8 DEF first
        <5> QED BY <5>1, <3>2, <1>7
      <4> QED BY <4>1, <4>2
    <3> QED BY <3>4, <3>5
  <2> QED BY <2>1, <2>2, <2>3
<1> QED BY <1>9, <1>10, <1>11

\* alt_llist_remove keeps the links, of an entry that was removed before too.
LEMMA RemoveKeeps == ASSUME ListInv, NEW e \in Alarms, next[e] # Null, Remove(e)
                     PROVE  /\ next' \in [Nodes -> Nodes \cup {Null}]
                            /\ prev' \in [Nodes -> Nodes \cup {Null}]
                            /\ \A x \in Nodes : /\ next'[x] = Null <=> next[x] = Null
                                                /\ prev'[x] = Null <=> prev[x] = Null
                            /\ ListLinked'
<1> DEFINE n == next[e]  p == prev[e]
<1>1. /\ e \in Nodes /\ e # Head /\ Null \notin Nodes
      /\ n \in Nodes /\ p \in Nodes /\ prev[n] = e /\ next[p] = e
  BY AlarmAssumption DEF Nodes, ListInv, AlarmTypeOK, LinksInv, ListLinked
<1>2. next' = [next EXCEPT ![p] = n, ![e] = e]
  BY DEF Remove
<1>3. prev' = [prev EXCEPT ![n] = p, ![e] = e]
  BY DEF Remove
<1>4. n = e <=> p = e
  BY <1>1
<1>5. /\ next' \in [Nodes -> Nodes \cup {Null}]
      /\ prev' \in [Nodes -> Nodes \cup {Null}]
  BY <1>1, <1>2, <1>3 DEF ListInv, AlarmTypeOK
<1> HIDE DEF n, p
<1>6. /\ next'[e] = e /\ (p # e => next'[p] = n)
      /\ \A x \in Nodes \ {e, p} : next'[x] = next[x]
  BY <1>1, <1>2 DEF ListInv, AlarmTypeOK
<1>7. /\ prev'[e] = e /\ (n # e => prev'[n] = p)
      /\ \A x \in Nodes \ {e, n} : prev'[x] = prev[x]
  BY <1>1, <1>3 DEF ListInv, AlarmTypeOK
<1>8. next[p] # Null /\ prev[n] # Null /\ next[e] # Null /\ prev[e] # Null
  BY <1>1 DEF p
<1>9. \A x \in Nodes : /\ next'[x] = Null <=> next[x] = Null
                       /\ prev'[x] = Null <=> prev[x] = Null
  BY <1>1, <1>4, <1>6, <1>7, <1>8
<1>10. ListLinked'
  <2> SUFFICES ASSUME NEW x \in Nodes, next'[x] # Null
               PROVE  prev'[next'[x]] = x /\ next'[prev'[x]] = x
    BY DEF ListLinked
  <2>1. CASE x = e
    BY <2>1, <1>6, <1>7
  <2>2. CASE x # e
    <3>1. /\ next[x] # Null /\ next[x] \in Nodes /\ prev[x] \in Nodes
          /\ prev[next[x]] = x /\ next[prev[x]] = x
      BY <1>9 DEF ListInv, AlarmTypeOK, LinksInv, ListLinked
    <3>2. prev'[next'[x]] = x
      <4>1. CASE x = p
        BY <4>1, <2>2, <1>4, <1>6, <1>7
      <4>2. CASE x # p
        <5>1. next'[x] = next[x]
          BY <4>2, <2>2, <1>6
        <5>2. next[x] # e
          BY <3>1, <4>2 DEF p
        <5>3. next[x] # n
          BY <3>1, <2>2, <1>1
        <5> QED BY <5>1, <5>2, <5>3, <3>1, <1>7
      <4> QED BY <4>1, <4>2
    <3>3. next'[prev'[x]] = x
      <4>1. CASE x = n
        BY <4>1, <2>2, <1>4, <1>6, <1>7
      <4>2. CASE x # n
        <5>1. prev'[x] = prev[x]
          BY <4>2, <2>2, <1>7
        <5>2. prev[x] # e
          BY <3>1, <4>2 DEF n
        <5>3. prev[x] # p
          BY <3>1, <2>2, <1>1
        <5> QED BY <5>1, <5>2, <5>3, <3>1, <1>6
      <4> QED BY <4>1, <4>2
    <3> QED BY <3>2, <3>3
  <2> QED BY <2>1, <2>2
<1> QED BY <1>5, <1>9, <1>10

\* The list is empty and nothing is linked when the program starts.
LEMMA InitList == Init => ListInv
<1> SUFFICES ASSUME Init PROVE ListInv
  OBVIOUS
<1>1. /\ next \in [Nodes -> Nodes \cup {Null}] /\ prev \in [Nodes -> Nodes \cup {Null}]
      /\ next[Head] = Head /\ prev[Head] = Head
      /\ \A x \in Nodes \ {Head} : next[x] = Null /\ prev[x] = Null
  BY NullNotNode DEF Init
<1>2. Head \in Nodes /\ Head # Null /\ alarm = Head /\ saved = Head /\ calling = FALSE
  BY NullNotNode, AlarmAssumption DEF Init
<1>3. LinksInv /\ ListLinked
  BY <1>1, <1>2 DEF LinksInv, ListLinked
<1>4. 0 \in 0 .. (Modulus - 1)
  BY AlarmAssumption
<1>5. /\ nticks \in 0 .. (Modulus - 1) /\ running \in BOOLEAN
      /\ time \in [Alarms -> 0 .. (Modulus - 1)] /\ rollover \in [Alarms -> BOOLEAN]
  BY <1>4 DEF Init
<1> QED BY <1>1, <1>2, <1>3, <1>5 DEF ListInv, AlarmTypeOK

\* Every step of the program, of alt_tick and of a callback keeps the list.
LEMMA NextList == ListInv /\ [Next]_vars => ListInv'
<1> SUFFICES ASSUME ListInv, [Next]_vars PROVE ListInv'
  OBVIOUS
<1> USE NullNotNode
<1>1. CASE SysclkInit
  BY <1>1 DEF SysclkInit, links, locals, ListInv, AlarmTypeOK, LinksInv, ListLinked
<1>2. ASSUME NEW a \in Alarms, NEW n \in Delays, Start(a, n) PROVE ListInv'
  <2>1. /\ nticks' = nticks /\ running' = running
        /\ alarm' = alarm /\ saved' = saved /\ calling' = calling
        /\ ~Linked(a) /\ Insert(a)
    BY <1>2 DEF Start, locals
  <2>2. LinksInv' /\ ListLinked' /\ next' \in [Nodes -> Nodes \cup {Null}]
                                /\ prev' \in [Nodes -> Nodes \cup {Null}]
    BY <2>1, InsertKeeps
  <2> n \in Nat /\ nticks + 1 \in Nat
    BY AlarmAssumption DEF ListInv, AlarmTypeOK
  <2>3. Plus(n, nticks + 1) \in 0 .. (Modulus - 1)
    BY PlusType
  <2>4. time' \in [Alarms -> 0 .. (Modulus - 1)]
    BY <1>2, <2>3 DEF Start, ListInv, AlarmTypeOK
  <2>5. rollover' \in [Alarms -> BOOLEAN]
    BY <1>2 DEF Start, ListInv, AlarmTypeOK
  <2> QED BY <2>1, <2>2, <2>4, <2>5 DEF ListInv, AlarmTypeOK
<1>3. ASSUME NEW a \in Alarms, Stop(a) PROVE ListInv'
  <2>1. /\ nticks' = nticks /\ running' = running /\ time' = time /\ rollover' = rollover
        /\ alarm' = alarm /\ saved' = saved /\ calling' = calling
        /\ next[a] # Null /\ Remove(a)
    BY <1>3 DEF Stop, locals
  <2>2. /\ ListLinked' /\ next' \in [Nodes -> Nodes \cup {Null}]
                       /\ prev' \in [Nodes -> Nodes \cup {Null}]
        /\ \A x \in Nodes : /\ next'[x] = Null <=> next[x] = Null
                            /\ prev'[x] = Null <=> prev[x] = Null
    BY <2>1, RemoveKeeps
  <2>3. LinksInv'
    BY <2>1, <2>2 DEF ListInv, LinksInv, AlarmTypeOK
  <2> QED BY <2>1, <2>2, <2>3 DEF ListInv, AlarmTypeOK
<1>4. CASE TickStart
  <2>1. Plus(nticks, 1) \in 0 .. (Modulus - 1)
    BY PlusType DEF ListInv, AlarmTypeOK
  <2>2. next[Head] \in Nodes /\ next[next[Head]] # Null /\ next[Head] # Head
    BY <1>4 DEF TickStart, ListInv, AlarmTypeOK, LinksInv, ListLinked
  <2> QED BY <1>4, <2>1, <2>2 DEF TickStart, links, ListInv, AlarmTypeOK, LinksInv, ListLinked
<1>5. CASE TickNothing
  <2>1. Plus(nticks, 1) \in 0 .. (Modulus - 1)
    BY PlusType DEF ListInv, AlarmTypeOK
  <2> QED BY <1>5, <2>1 DEF TickNothing, links, locals, ListInv, AlarmTypeOK, LinksInv, ListLinked
<1>6. CASE Visit
  <2>1. alarm \in Nodes /\ alarm # Head /\ alarm \in Alarms
    BY <1>6 DEF Visit, ListInv, AlarmTypeOK, Nodes
  <2>2. next[alarm] \in Nodes /\ next[next[alarm]] # Null
    BY <2>1 DEF ListInv, AlarmTypeOK, LinksInv, ListLinked
  <2>3. Flag \in BOOLEAN
    BY <2>1 DEF Flag, ListInv, AlarmTypeOK
  <2>4. rollover' \in [Alarms -> BOOLEAN]
    BY <1>6, <2>3 DEF Visit, ListInv, AlarmTypeOK
  <2>5. /\ alarm' \in Nodes /\ saved' \in Nodes /\ calling' \in BOOLEAN
        /\ next[alarm'] # Null /\ next[saved'] # Null /\ (calling' => alarm' # Head)
    <3>1. CASE Due
      <4>1. alarm' = alarm /\ saved' = next[alarm] /\ calling' = TRUE
        BY <1>6, <3>1 DEF Visit
      <4> QED BY <4>1, <2>1, <2>2 DEF ListInv, LinksInv
    <3>2. CASE ~Due
      <4>1. alarm' = next[alarm] /\ saved' = Head /\ calling' = FALSE
        BY <1>6, <3>2 DEF Visit, ListInv, AlarmTypeOK
      <4> QED BY <4>1, <2>1, <2>2 DEF ListInv, LinksInv
    <3> QED BY <3>1, <3>2
  <2>6. /\ nticks' = nticks /\ running' = running /\ time' = time
        /\ next' = next /\ prev' = prev
    BY <1>6 DEF Visit, links
  <2> QED BY <2>4, <2>5, <2>6 DEF ListInv, AlarmTypeOK, LinksInv, ListLinked
<1>7. ASSUME NEW p \in Periods, Return(p) PROVE ListInv'
  <2>1. /\ alarm \in Alarms /\ next[alarm] # Null
        /\ nticks' = nticks /\ running' = running
        /\ alarm' = saved /\ saved' = Head /\ calling' = FALSE
    BY <1>7 DEF Return, ListInv, AlarmTypeOK, LinksInv, Nodes
  <2>2. CASE p = 0
    <3>1. Remove(alarm) /\ time' = time /\ rollover' = rollover
      BY <1>7, <2>2 DEF Return
    <3>2. /\ ListLinked' /\ next' \in [Nodes -> Nodes \cup {Null}]
                         /\ prev' \in [Nodes -> Nodes \cup {Null}]
          /\ \A x \in Nodes : /\ next'[x] = Null <=> next[x] = Null
                              /\ prev'[x] = Null <=> prev[x] = Null
      BY <2>1, <3>1, RemoveKeeps
    <3> QED BY <2>1, <3>1, <3>2 DEF ListInv, LinksInv, AlarmTypeOK
  <2>3. CASE p # 0
    <3>1. Plus(time[alarm], p) \in 0 .. (Modulus - 1)
      BY <2>1, PlusType, AlarmAssumption DEF ListInv, AlarmTypeOK
    <3>2. time' \in [Alarms -> 0 .. (Modulus - 1)]
      BY <1>7, <2>1, <2>3, <3>1 DEF Return, ListInv, AlarmTypeOK
    <3>3. (rollover[alarm] \/ Plus(time[alarm], p) < nticks) \in BOOLEAN
      BY <2>1 DEF ListInv, AlarmTypeOK
    <3>4. rollover' \in [Alarms -> BOOLEAN]
      BY <1>7, <2>1, <2>3, <3>3 DEF Return, ListInv, AlarmTypeOK
    <3>5. next' = next /\ prev' = prev
      BY <1>7, <2>3 DEF Return, links
    <3> QED BY <2>1, <3>2, <3>4, <3>5 DEF ListInv, LinksInv, AlarmTypeOK, ListLinked
  <2> QED BY <2>2, <2>3
<1>8. CASE UNCHANGED vars
  BY <1>8 DEF vars, links, locals, ListInv, AlarmTypeOK, LinksInv, ListLinked
<1> QED BY <1>1, <1>2, <1>3, <1>4, <1>5, <1>6, <1>7, <1>8 DEF Next

\* The counter and every due time stay within the counter's width.
THEOREM AlarmTyped == Spec => []AlarmTypeOK
<1>1. ListInv => AlarmTypeOK
  BY DEF ListInv
<1> QED BY InitList, NextList, <1>1, PTL DEF Spec

\* No order of starting and stopping alarms, in callbacks or between ticks,
\* breaks the doubly linked list: not even stopping the alarm that alt_tick
\* has saved as its next (StopsNext).
THEOREM AlarmsLinked == Spec => []ListLinked
<1>1. ListInv => ListLinked
  BY DEF ListInv
<1> QED BY InitList, NextList, <1>1, PTL DEF Spec
-----------------------------------------------------------------------------
(* Alarms are called when they are due *)

\* From where alt_tick goes on, after the callback when one is running.
Current == IF calling THEN saved ELSE alarm

\* What is reached from x along next, up to the head of the list, without
\* recursion: the nodes that every set closed under next, with x in it, contains.
Closed(S) == \A y \in S \ {Head} : next[y] \in S
Reaches(x, P) == \A S \in SUBSET Nodes : x \in S /\ Closed(S) => P \subseteq S

\* The alarms alt_tick has not done with: due, or with a flag that the counter's
\* wrap has made out of date.
Pending == {a \in Registered : /\ ~(calling /\ a = alarm)
                               /\ time[a] = nticks \/ (nticks = 0 /\ rollover[a])}

\* The flag tells that the time has wrapped and the counter not yet.
FlagInv == \A a \in Registered : (rollover[a] /\ nticks # 0) <=> time[a] < nticks

CallInv == /\ calling => /\ saved # alarm /\ saved \in Registered \cup {Head}
                         /\ alarm \in Registered => time[alarm] = nticks /\ ~rollover[alarm]
           /\ ~calling => alarm \in Registered \cup {Head}

\* The whole list hangs on its head, and what is still to be called is ahead.
TimerInv == /\ ListInv
            /\ Reaches(next[Head], Registered)
            /\ Reaches(Current, Pending)
            /\ FlagInv /\ CallInv

LEMMA NextLinked ==
  ASSUME ListInv, NEW x \in Nodes, next[x] # Null
  PROVE  next[x] \in Nodes /\ prev[next[x]] = x /\ next[next[x]] # Null
<1>1. next[x] \in Nodes /\ prev[next[x]] = x
  BY DEF ListInv, AlarmTypeOK, ListLinked
<1>2. prev[next[x]] # Null
  BY <1>1, NullNotNode
<1> QED
  BY <1>1, <1>2 DEF ListInv, LinksInv

LEMMA RegisteredIs ==
  ASSUME ListInv
  PROVE  /\ Registered = {a \in Alarms : next[a] # a /\ next[a] # Null}
         /\ Registered \subseteq Nodes /\ Head \notin Registered /\ Null \notin Nodes
         /\ \A a \in Registered : next[a] \in Registered \cup {Head} /\ next[a] # a
<1>1. /\ Registered = {a \in Alarms : next[a] # a /\ next[a] # Null}
      /\ Registered \subseteq Nodes /\ Head \notin Registered /\ Null \notin Nodes
  BY AlarmAssumption DEF Registered, Linked, Nodes
<1>2. ASSUME NEW a \in Registered
      PROVE  next[a] \in Registered \cup {Head} /\ next[a] # a
  <2> DEFINE y == next[a]
  <2>1. a \in Nodes /\ y # a /\ y # Null /\ y \in Nodes
    BY <1>1 DEF ListInv, AlarmTypeOK
  <2>2. prev[y] = a /\ next[y] # Null
    BY <2>1, NextLinked
  <2>3. next[y] # y
    BY <2>1, <2>2 DEF ListInv, ListLinked
  <2> QED
    BY <1>1, <2>1, <2>2, <2>3 DEF Nodes
<1> QED
  BY <1>1, <1>2

\* alt_llist_insert: what was ahead of a node still is, and the new entry is
\* between the head and the rest.
LEMMA InsertReaches ==
  ASSUME ListInv, Reaches(next[Head], Registered), NEW e \in Alarms, ~Linked(e), Insert(e)
  PROVE  /\ Registered' = Registered \cup {e}
         /\ Reaches(next[Head], Registered)'
         /\ \A x \in Nodes \ {e}, P \in SUBSET Nodes : Reaches(x, P) => Reaches(x, P)'
<1>1. e \in Nodes /\ e # Head /\ Head \in Nodes /\ Null \notin Nodes /\ next[Head] \in Nodes
  BY NullNotNode, AlarmAssumption DEF ListInv, AlarmTypeOK, LinksInv
<1>2. \A y \in Nodes : y # e /\ next[y] # Null => next[y] # e
  BY <1>1 DEF ListInv, AlarmTypeOK, LinksInv, ListLinked, Linked
<1>3. /\ next'[e] = next[Head] /\ next'[Head] = e
      /\ \A y \in Nodes \ {e, Head} : next'[y] = next[y]
  BY <1>1 DEF Insert, ListInv, AlarmTypeOK
<1>4. Registered' = Registered \cup {e}
  <2>1. next[Head] # e /\ next[Head] # Null
    BY <1>1, <1>2 DEF ListInv, LinksInv
  <2>2. \A a \in Alarms \ {e} : a \in Nodes \ {e, Head}
    BY NullNotNode, AlarmAssumption
  <2> QED
    BY <1>3, <2>1, <2>2 DEF Registered, Linked
<1>5. ASSUME NEW S \in SUBSET Nodes, Closed(S)'
      PROVE  Closed(S \ {e})
  <2> SUFFICES ASSUME NEW y \in S \ {e, Head} PROVE next[y] \in S \ {e}
    BY DEF Closed
  <2>1. next'[y] \in S /\ next'[y] = next[y]
    BY <1>3, <1>5 DEF Closed
  <2> QED
    BY <1>1, <1>2, <2>1
<1>6. ASSUME NEW x \in Nodes \ {e}, NEW P \in SUBSET Nodes, Reaches(x, P),
             NEW S \in SUBSET Nodes, x \in S, Closed(S)'
      PROVE  P \subseteq S
  <2>1. Closed(S \ {e}) /\ x \in S \ {e} /\ S \ {e} \in SUBSET Nodes
    BY <1>5, <1>6
  <2> QED
    BY <1>6, <2>1 DEF Reaches
<1>7. ASSUME NEW S \in SUBSET Nodes, next'[Head] \in S, Closed(S)'
      PROVE  Registered' \subseteq S
  <2>1. e \in S /\ next[Head] \in S /\ next[Head] # e
    BY <1>1, <1>2, <1>3, <1>7 DEF Closed, ListInv, LinksInv
  <2>2. Closed(S \ {e}) /\ next[Head] \in S \ {e} /\ S \ {e} \in SUBSET Nodes
    BY <1>5, <1>7, <2>1
  <2>3. Registered \subseteq S \ {e}
    BY <2>2 DEF Reaches
  <2> QED
    BY <1>4, <2>1, <2>3
<1>8. Reaches(next[Head], Registered)'
  BY <1>7 DEF Reaches, Nodes
<1>9. \A x \in Nodes \ {e}, P \in SUBSET Nodes : Reaches(x, P) => Reaches(x, P)'
  BY <1>6 DEF Reaches, Nodes
<1> QED
  BY <1>4, <1>8, <1>9

\* alt_llist_remove: only the entry itself is no longer registered, nor reached.
LEMMA RemoveReaches ==
  ASSUME ListInv, Reaches(next[Head], Registered), NEW e \in Alarms, next[e] # Null, Remove(e)
  PROVE  /\ Registered' = Registered \ {e}
         /\ Reaches(next[Head], Registered)'
         /\ \A x \in Nodes \ {e}, P \in SUBSET Nodes : Reaches(x, P) => Reaches(x, P \ {e})'
<1> DEFINE n == next[e]  p == prev[e]
<1>1. /\ e \in Nodes /\ e # Head /\ Head \in Nodes /\ Null \notin Nodes
      /\ n \in Nodes /\ p \in Nodes /\ prev[n] = e /\ next[p] = e
      /\ next[Head] \in Nodes /\ next[n] # Null
  BY NullNotNode, AlarmAssumption DEF ListInv, AlarmTypeOK, LinksInv, ListLinked
<1>2. \A y \in Nodes : next[y] = e => y = p
  BY <1>1 DEF ListInv, ListLinked
<1>3. /\ next'[e] = e /\ (p # e => next'[p] = n)
      /\ \A y \in Nodes \ {e, p} : next'[y] = next[y]
  BY <1>1 DEF Remove, ListInv, AlarmTypeOK
<1>4. n = e <=> p = e
  BY <1>1 DEF ListInv, ListLinked
<1> HIDE DEF n, p
\* A ring of an entry and another would not hang on the head.
<1>5. p # e /\ p # Head => n # p
  <2> SUFFICES ASSUME p # e, p # Head, n = p PROVE FALSE
    OBVIOUS
  <2> DEFINE S == {y \in Nodes : next[y] # Null} \ {e, p}
  <2>1. e \in Registered
    BY <1>1, <1>4, RegisteredIs DEF n
  <2>2. \A y \in Nodes : next[y] = p => y = e
    BY <1>1 DEF ListInv, ListLinked, n
  <2>3. Head \in S /\ next[Head] \in S
    BY <1>1, <1>2, <2>2 DEF ListInv, LinksInv, ListLinked, AlarmTypeOK
  <2>4. ASSUME NEW y \in S PROVE next[y] \in S
    <3>1. y \in Nodes /\ next[y] # Null /\ next[y] \in Nodes /\ y # e /\ y # p
      BY DEF ListInv, AlarmTypeOK
    <3>2. next[next[y]] # Null
      BY <3>1, NextLinked
    <3> QED
      BY <1>2, <2>2, <3>1, <3>2
  <2>5. Closed(S) /\ S \in SUBSET Nodes
    BY <2>4 DEF Closed
  <2>6. e \notin S
    OBVIOUS
  <2> HIDE DEF S
  <2>7. Registered \subseteq S
    BY <2>3, <2>5 DEF Reaches
  <2> QED
    BY <2>1, <2>6, <2>7
<1>6. Registered' = Registered \ {e}
  <2>1. ASSUME NEW a \in Alarms PROVE a \in Registered' <=> a \in Registered \ {e}
    <3>1. a \in Nodes /\ a # Head
      BY NullNotNode, AlarmAssumption
    <3>2. a \in Registered' <=> next'[a] # a /\ next'[a] # Null
      BY DEF Registered, Linked
    <3>3. a \in Registered <=> next[a] # a /\ next[a] # Null
      BY DEF Registered, Linked
    <3>4. CASE a = e
      BY <1>3, <3>2, <3>4
    <3>5. CASE a = p /\ a # e
      BY <1>1, <1>3, <1>5, <3>1, <3>2, <3>3, <3>5
    <3>6. CASE a # p /\ a # e
      BY <1>3, <3>1, <3>2, <3>3, <3>6
    <3> QED
      BY <3>4, <3>5, <3>6
  <2> QED
    BY <2>1 DEF Registered
<1>7. ASSUME NEW x \in Nodes \ {e}, NEW S \in SUBSET Nodes, x \in S, Closed(S)'
      PROVE  \E T \in SUBSET Nodes : x \in T /\ Closed(T) /\ T \subseteq S \cup {e}
  <2>1. ASSUME NEW y \in S, y # Head PROVE next'[y] \in S
    BY <1>7, <2>1 DEF Closed
  <2>2. CASE p \in S \ {Head}
    <3>1. ASSUME NEW y \in S \cup {e}, y # Head PROVE next[y] \in S \cup {e}
      <4>1. CASE y = e
        BY <1>1, <1>3, <1>4, <2>1, <2>2, <4>1 DEF n
      <4>2. CASE y = p /\ y # e
        BY <1>1, <4>2
      <4>3. CASE y # e /\ y # p
        BY <1>3, <2>1, <3>1, <4>3
      <4> QED
        BY <4>1, <4>2, <4>3
    <3>2. Closed(S \cup {e}) /\ S \cup {e} \in SUBSET Nodes
      BY <1>1, <3>1 DEF Closed
    <3> QED
      BY <1>7, <3>2
  <2>3. CASE p \notin S \ {Head}
    <3>1. ASSUME NEW y \in S \ {e}, y # Head PROVE next[y] \in S \ {e}
      <4>1. y # p /\ y \in Nodes
        BY <2>3, <3>1
      <4> QED
        BY <1>2, <1>3, <2>1, <3>1, <4>1
    <3>2. Closed(S \ {e}) /\ S \ {e} \in SUBSET Nodes
      BY <3>1 DEF Closed
    <3> QED
      BY <1>7, <3>2
  <2> QED
    BY <2>2, <2>3
<1>8. ASSUME NEW x \in Nodes \ {e}, NEW P \in SUBSET Nodes, Reaches(x, P),
             NEW S \in SUBSET Nodes, x \in S, Closed(S)'
      PROVE  P \ {e} \subseteq S
  <2>1. PICK T \in SUBSET Nodes : x \in T /\ Closed(T) /\ T \subseteq S \cup {e}
    BY <1>7, <1>8
  <2>2. P \subseteq T
    BY <1>8, <2>1 DEF Reaches
  <2> QED
    BY <2>1, <2>2
<1>9. \A x \in Nodes \ {e}, P \in SUBSET Nodes : Reaches(x, P) => Reaches(x, P \ {e})'
  BY <1>8 DEF Reaches, Nodes
<1>10. ASSUME NEW S \in SUBSET Nodes, next'[Head] \in S, Closed(S)'
       PROVE  Registered \ {e} \subseteq S
  <2>1. Registered \in SUBSET Nodes
    BY RegisteredIs
  <2>2. CASE next[Head] # e
    <3>1. next'[Head] = next[Head]
      BY <1>1, <1>3, <2>2
    <3> QED
      BY <1>1, <1>8, <1>10, <2>1, <2>2, <3>1
  <2>3. CASE next[Head] = e
    <3>1. p = Head /\ next'[Head] = n
      BY <1>1, <1>2, <1>3, <2>3
    <3>2. ASSUME NEW y \in S \cup {e}, y # Head PROVE next[y] \in S \cup {e}
      <4>1. CASE y = e
        BY <1>10, <3>1, <4>1 DEF n
      <4>2. CASE y # e
        <5>1. next'[y] = next[y] /\ next'[y] \in S
          BY <1>3, <1>10, <3>1, <3>2, <4>2 DEF Closed
        <5> QED
          BY <5>1
      <4> QED
        BY <4>1, <4>2
    <3>3. Closed(S \cup {e}) /\ S \cup {e} \in SUBSET Nodes /\ next[Head] \in S \cup {e}
      BY <1>1, <2>3, <3>2 DEF Closed
    <3>4. Registered \subseteq S \cup {e}
      BY <3>3 DEF Reaches
    <3> QED
      BY <3>4
  <2> QED
    BY <2>2, <2>3
<1>11. Reaches(next[Head], Registered)'
  BY <1>6, <1>10 DEF Reaches, Nodes
<1> QED
  BY <1>6, <1>9, <1>11

\* The time an alarm has left, and what the next tick makes of it.
LEMMA LeftTyped ==
  ASSUME NEW t \in 0 .. (Modulus - 1), NEW n \in 0 .. (Modulus - 1)
  PROVE  LET l == (t + Modulus - n) % Modulus
         IN /\ l = IF t < n THEN t + Modulus - n ELSE t - n
            /\ l \in 0 .. (Modulus - 1) /\ (l = 0 <=> t = n)
<1>1. Modulus \in Nat \ {0, 1} /\ t \in Nat /\ n \in Nat /\ t < Modulus /\ n < Modulus
  BY AlarmAssumption
<1>2. CASE t < n
  <2>1. t + Modulus - n \in 0 .. (Modulus - 1) /\ t + Modulus - n # 0
    BY <1>1, <1>2
  <2>2. (t + Modulus - n) % Modulus = t + Modulus - n
    BY <1>1, <2>1
  <2> QED
    BY <1>1, <1>2, <2>1, <2>2
<1>3. CASE ~(t < n)
  <2>1. t + Modulus - n = Modulus + (t - n) /\ t - n \in 0 .. (Modulus - 1)
    BY <1>1, <1>3
  <2>2. (t + Modulus - n) % Modulus = t - n
    BY <1>1, <2>1
  <2> QED
    BY <1>1, <1>3, <2>1, <2>2
<1> QED
  BY <1>2, <1>3

LEMMA PlusIs ==
  ASSUME NEW x \in 0 .. (Modulus - 1), NEW y \in 0 .. Modulus
  PROVE  /\ Plus(x, y) = IF x + y < Modulus THEN x + y ELSE x + y - Modulus
         /\ Plus(x, y) \in 0 .. (Modulus - 1)
<1>1. Modulus \in Nat \ {0, 1} /\ x \in Nat /\ y \in Nat /\ x < Modulus /\ y <= Modulus
  BY AlarmAssumption
<1>2. CASE x + y < Modulus
  BY <1>1, <1>2 DEF Plus
<1>3. CASE ~(x + y < Modulus)
  <2>1. x + y = Modulus + (x + y - Modulus) /\ x + y - Modulus \in 0 .. (Modulus - 1)
    BY <1>1, <1>3
  <2>2. (x + y) % Modulus = x + y - Modulus
    BY <1>1, <2>1
  <2> QED
    BY <1>1, <1>3, <2>1, <2>2 DEF Plus
<1> QED
  BY <1>2, <1>3

\* What the runs check under: callbacks stop no alarm that alt_tick has saved, and
\* no alarm is started for the longest time, which with the tick under way is none.
Moderate == ~StopsNext /\ Modulus - 1 \notin Delays

LEMMA TimerTypes ==
  ASSUME ListInv
  PROVE  /\ Modulus \in Nat \ {0, 1} /\ nticks \in 0 .. (Modulus - 1)
         /\ \A a \in Alarms : time[a] \in 0 .. (Modulus - 1) /\ rollover[a] \in BOOLEAN
         /\ \A a \in Alarms : a \in Nodes /\ a # Head
         /\ alarm \in Nodes /\ saved \in Nodes /\ calling \in BOOLEAN /\ Head \in Nodes
BY NullNotNode, AlarmAssumption DEF ListInv, AlarmTypeOK

LEMMA TimerInitially == Init => TimerInv
<1> SUFFICES ASSUME Init PROVE TimerInv
  OBVIOUS
<1>1. ListInv
  BY InitList
<1>2. Registered = {}
  BY NullNotNode, AlarmAssumption DEF Init, Registered, Linked, Nodes
<1>3. Pending = {} /\ alarm = Head /\ calling = FALSE
  BY <1>2 DEF Pending, Init
<1> QED
  BY <1>1, <1>2, <1>3 DEF TimerInv, Reaches, FlagInv, CallInv

\* Outside a tick nothing is left to be called.
LEMMA NothingPending ==
  ASSUME TimerInv, alarm = Head
  PROVE  Pending = {} /\ ~calling
<1>1. ~calling /\ Current = Head
  BY DEF TimerInv, ListInv, LinksInv, Current
<1>2. Closed({Head}) /\ {Head} \in SUBSET Nodes
  BY NullNotNode DEF Closed
<1>3. Pending \subseteq {Head}
  BY <1>1, <1>2 DEF TimerInv, Reaches
<1>4. Head \notin Pending
  BY RegisteredIs DEF TimerInv, Pending
<1> QED
  BY <1>1, <1>3, <1>4

LEMMA TimerStart ==
  ASSUME TimerInv, ListInv', Moderate, NEW a \in Alarms, NEW n \in Delays, Start(a, n)
  PROVE  /\ TimerInv'
         /\ Registered' = Registered \cup {a} /\ a \notin Registered
         /\ time'[a] = Plus(n, nticks + 1) /\ \A b \in Alarms \ {a} : time'[b] = time[b]
<1>1. /\ nticks' = nticks /\ alarm' = alarm /\ saved' = saved /\ calling' = calling
      /\ ~Linked(a) /\ Insert(a) /\ a # alarm
      /\ time' = [time EXCEPT ![a] = Plus(n, nticks + 1)]
      /\ rollover' = [rollover EXCEPT ![a] = Plus(n, nticks + 1) < nticks]
  BY DEF Start, locals
<1>2. /\ Registered' = Registered \cup {a}
      /\ Reaches(next[Head], Registered)'
      /\ \A x \in Nodes \ {a}, P \in SUBSET Nodes : Reaches(x, P) => Reaches(x, P)'
  BY <1>1, InsertReaches DEF TimerInv
<1>3. /\ Modulus \in Nat \ {0, 1} /\ nticks \in 0 .. (Modulus - 1)
      /\ \A b \in Alarms : time[b] \in 0 .. (Modulus - 1) /\ rollover[b] \in BOOLEAN
      /\ \A b \in Alarms : b \in Nodes /\ b # Head
      /\ alarm \in Nodes /\ saved \in Nodes /\ calling \in BOOLEAN /\ Head \in Nodes
  BY TimerTypes DEF TimerInv
<1>4. /\ time'[a] = Plus(n, nticks + 1) /\ rollover'[a] = (Plus(n, nticks + 1) < nticks)
      /\ \A b \in Alarms \ {a} : time'[b] = time[b] /\ rollover'[b] = rollover[b]
  BY <1>1 DEF TimerInv, ListInv, AlarmTypeOK
<1>5. a \notin Registered
  BY <1>1 DEF Registered
<1>6. n \in 0 .. (Modulus - 1) /\ n # Modulus - 1
  BY AlarmAssumption DEF Moderate
<1>7. Plus(n, nticks + 1) \in 0 .. (Modulus - 1) /\ Plus(n, nticks + 1) # nticks
  <2> DEFINE m == nticks + 1
  <2>1. m \in 0 .. Modulus /\ m \in Nat /\ m = nticks + 1 /\ n \in Nat /\ nticks \in Nat
    BY <1>3, <1>6
  <2> HIDE DEF m
  <2>2. /\ Plus(n, m) = IF n + m < Modulus THEN n + m ELSE n + m - Modulus
        /\ Plus(n, m) \in 0 .. (Modulus - 1)
    BY <1>6, <2>1, PlusIs
  <2>3. Plus(n, m) # nticks
    BY <1>3, <1>6, <2>1, <2>2
  <2> QED
    BY <2>2, <2>3 DEF m
<1> DEFINE t == Plus(n, nticks + 1)
<1>8. t \in Nat /\ nticks \in Nat /\ time'[a] = t /\ t # nticks
  BY <1>3, <1>4, <1>7
<1>9. rollover'[a] <=> t < nticks
  BY <1>4
<1> HIDE DEF t
<1>10. FlagInv'
  <2> SUFFICES ASSUME NEW b \in Registered'
               PROVE  (rollover'[b] /\ nticks' # 0) <=> time'[b] < nticks'
    BY DEF FlagInv
  <2>1. CASE b = a
    BY <1>1, <1>8, <1>9, <2>1
  <2>2. CASE b # a
    BY <1>1, <1>2, <1>4, <2>2 DEF TimerInv, FlagInv, Registered
  <2> QED
    BY <2>1, <2>2
<1>11. CallInv'
  <2>1. CASE calling
    BY <1>1, <1>2, <1>4, <2>1 DEF TimerInv, CallInv, Registered
  <2>2. CASE ~calling
    BY <1>1, <1>2, <2>2 DEF TimerInv, CallInv
  <2> QED
    BY <2>1, <2>2
<1>12. Reaches(Current, Pending)'
  <2>1. Current \in Nodes \ {a} /\ Current' = Current
    <3>1. CASE calling
      BY <1>1, <1>3, <1>5, <3>1 DEF TimerInv, CallInv, Current
    <3>2. CASE ~calling
      BY <1>1, <1>3, <1>5, <3>2 DEF TimerInv, CallInv, Current
    <3> QED
      BY <3>1, <3>2
  <2>2. Pending' \subseteq Pending
    <3> SUFFICES ASSUME NEW b \in Pending' PROVE b \in Pending
      OBVIOUS
    <3>1. /\ b \in Registered' /\ ~(calling' /\ b = alarm')
          /\ time'[b] = nticks' \/ (nticks' = 0 /\ rollover'[b])
      BY DEF Pending
    <3>2. ASSUME b = a PROVE FALSE
      BY <1>1, <1>8, <1>9, <3>1, <3>2
    <3>3. b \in Registered /\ b \in Alarms \ {a}
      BY <1>2, <3>1, <3>2 DEF Registered
    <3> QED
      BY <1>1, <1>4, <3>1, <3>3 DEF Pending
  <2>3. Pending \in SUBSET Nodes
    BY <1>3 DEF Pending, Registered
  <2>4. Reaches(Current, Pending)
    BY DEF TimerInv
  <2>5. \A S \in SUBSET Nodes : Current \in S /\ Closed(S)' => Pending \subseteq S
    BY <1>2, <2>1, <2>3, <2>4 DEF Reaches, Nodes
  <2> QED
    BY <2>1, <2>2, <2>5 DEF Reaches, Nodes
<1> QED
  BY <1>2, <1>4, <1>5, <1>10, <1>11, <1>12 DEF TimerInv

\* Removing an alarm that alt_tick does not go on with leaves the rest to come.
LEMMA TimerRemove ==
  ASSUME TimerInv, NEW e \in Alarms, next[e] # Null, Remove(e), Current # e
  PROVE  /\ Registered' = Registered \ {e}
         /\ Reaches(next[Head], Registered)'
         /\ \A S \in SUBSET Nodes : Current \in S /\ Closed(S)' => Pending \ {e} \subseteq S
<1>1. /\ Registered' = Registered \ {e}
      /\ Reaches(next[Head], Registered)'
      /\ \A x \in Nodes \ {e}, P \in SUBSET Nodes : Reaches(x, P) => Reaches(x, P \ {e})'
  BY RemoveReaches DEF TimerInv
<1>2. Current \in Nodes \ {e} /\ Pending \in SUBSET Nodes
  BY TimerTypes DEF TimerInv, Current, Pending, Registered
<1>3. Reaches(Current, Pending)
  BY DEF TimerInv
<1>4. ASSUME NEW x \in Nodes \ {e}, NEW P \in SUBSET Nodes, Reaches(x, P),
             NEW S \in SUBSET Nodes, x \in S, Closed(S)'
      PROVE  P \ {e} \subseteq S
  BY <1>1, <1>4 DEF Reaches, Nodes
<1> QED
  BY <1>1, <1>2, <1>3, <1>4

LEMMA TimerStop ==
  ASSUME TimerInv, ListInv', Moderate, NEW a \in Alarms, Stop(a)
  PROVE  TimerInv' /\ Registered' = Registered \ {a}
<1>1. /\ nticks' = nticks /\ alarm' = alarm /\ saved' = saved /\ calling' = calling
      /\ time' = time /\ rollover' = rollover /\ next[a] # Null /\ Remove(a)
      /\ (alarm = Head \/ calling) /\ (calling => a # saved)
  BY DEF Stop, locals, CanCall, Moderate
<1>2. Current # a /\ Current' = Current
  BY <1>1, TimerTypes DEF TimerInv, Current
<1>3. /\ Registered' = Registered \ {a}
      /\ Reaches(next[Head], Registered)'
      /\ \A S \in SUBSET Nodes : Current \in S /\ Closed(S)' => Pending \ {a} \subseteq S
  BY <1>1, <1>2, TimerRemove
<1>4. Pending' = Pending \ {a}
  BY <1>1, <1>3 DEF Pending
<1>5. Reaches(Current, Pending)'
  BY <1>2, <1>3, <1>4 DEF Reaches, Nodes
<1>6. FlagInv' /\ CallInv'
  <2>1. FlagInv'
    BY <1>1, <1>3 DEF TimerInv, FlagInv
  <2>2. CallInv'
    BY <1>1, <1>3, TimerTypes DEF TimerInv, CallInv
  <2> QED
    BY <2>1, <2>2
<1> QED
  BY <1>3, <1>5, <1>6 DEF TimerInv

LEMMA TimerTick ==
  ASSUME TimerInv, ListInv', TickStart \/ TickNothing
  PROVE  /\ TimerInv'
         /\ ~calling /\ ~calling' /\ alarm = Head
         /\ Registered' = Registered /\ time' = time /\ nticks' = Plus(nticks, 1)
         /\ \A a \in Registered : time[a] # nticks
<1>1. /\ alarm = Head /\ nticks' = Plus(nticks, 1) /\ alarm' = next[Head]
      /\ next' = next /\ prev' = prev /\ time' = time /\ rollover' = rollover
      /\ calling' = calling /\ saved' = saved
  BY DEF TickStart, TickNothing, links, locals
<1>2. Pending = {} /\ ~calling
  BY <1>1, NothingPending
<1>3. Registered' = Registered
  BY <1>1 DEF Registered, Linked
<1>4. /\ Modulus \in Nat \ {0, 1} /\ nticks \in 0 .. (Modulus - 1)
      /\ \A b \in Alarms : time[b] \in 0 .. (Modulus - 1) /\ rollover[b] \in BOOLEAN
      /\ Head \in Nodes /\ Registered \subseteq Alarms
  BY TimerTypes DEF TimerInv, Registered
<1>5. \A a \in Registered : time[a] # nticks /\ ~(nticks = 0 /\ rollover[a])
  BY <1>2 DEF Pending
<1>6. FlagInv'
  <2> SUFFICES ASSUME NEW a \in Registered
               PROVE  (rollover[a] /\ Plus(nticks, 1) # 0) <=> time[a] < Plus(nticks, 1)
    BY <1>1, <1>3 DEF FlagInv
  <2>1. /\ time[a] \in Nat /\ time[a] < Modulus /\ nticks \in Nat /\ nticks < Modulus
        /\ Modulus \in Nat /\ time[a] # nticks /\ ~(nticks = 0 /\ rollover[a])
        /\ ((rollover[a] /\ nticks # 0) <=> time[a] < nticks)
    BY <1>4, <1>5 DEF TimerInv, FlagInv
  <2>2. Plus(nticks, 1) = IF nticks + 1 < Modulus THEN nticks + 1 ELSE 0
    <3>1. nticks + 1 <= Modulus /\ 1 \in 0 .. Modulus
      BY <2>1, <1>4
    <3>2. Plus(nticks, 1) = IF nticks + 1 < Modulus THEN nticks + 1 ELSE nticks + 1 - Modulus
      BY <1>4, <3>1, PlusIs
    <3> QED
      BY <2>1, <3>1, <3>2
  <2> QED
    BY <2>1, <2>2
<1>7. CallInv'
  <2>1. next[Head] \in Registered \cup {Head}
    <3>1. next[Head] \in Nodes /\ next[next[Head]] # Null /\ prev[next[Head]] = Head
      BY <1>4, NextLinked DEF TimerInv, ListInv, LinksInv
    <3>2. next[Head] # Head => next[next[Head]] # next[Head]
      BY <3>1 DEF TimerInv, ListInv, ListLinked
    <3> QED
      BY <3>1, <3>2, RegisteredIs DEF TimerInv, Nodes
  <2> QED
    BY <1>1, <1>2, <1>3, <2>1 DEF CallInv
<1>8. Reaches(next[Head], Registered)'
  BY <1>1, <1>3 DEF TimerInv, Reaches, Closed, Nodes
<1>9. Reaches(Current, Pending)'
  <2>1. Current' = next'[Head] /\ Pending' \subseteq Registered'
    BY <1>1, <1>2 DEF Current, Pending
  <2> QED
    BY <1>8, <2>1 DEF Reaches
<1> QED
  BY <1>1, <1>2, <1>3, <1>5, <1>6, <1>7, <1>8, <1>9 DEF TimerInv

LEMMA TimerVisit ==
  ASSUME TimerInv, ListInv', Visit
  PROVE  /\ TimerInv'
         /\ Registered' = Registered /\ time' = time /\ nticks' = nticks
         /\ ~calling /\ alarm \in Registered
         /\ calling' => alarm' = alarm /\ time[alarm] = nticks
<1>1. /\ alarm # Head /\ ~calling /\ nticks' = nticks /\ time' = time
      /\ next' = next /\ prev' = prev /\ Registered' = Registered
      /\ rollover' = [rollover EXCEPT ![alarm] = Flag]
  BY DEF Visit, links, Registered, Linked
<1>2. /\ Modulus \in Nat \ {0, 1} /\ nticks \in 0 .. (Modulus - 1)
      /\ \A b \in Alarms : time[b] \in 0 .. (Modulus - 1) /\ rollover[b] \in BOOLEAN
      /\ Head \in Nodes /\ Registered \subseteq Alarms
  BY TimerTypes DEF TimerInv, Registered
<1>3. alarm \in Registered
  BY <1>1 DEF TimerInv, CallInv
<1>4. /\ rollover'[alarm] = Flag /\ \A b \in Alarms \ {alarm} : rollover'[b] = rollover[b]
  BY <1>1, <1>2, <1>3 DEF TimerInv, ListInv, AlarmTypeOK
<1>5. Flag <=> time[alarm] < nticks
  BY <1>3 DEF TimerInv, FlagInv, Flag
<1>6. Due <=> time[alarm] = nticks
  <2>1. time[alarm] \in Nat /\ nticks \in Nat
    BY <1>2, <1>3
  <2> QED
    BY <1>5, <2>1 DEF Due
<1>7. FlagInv'
  <2> SUFFICES ASSUME NEW b \in Registered
               PROVE  (rollover'[b] /\ nticks # 0) <=> time[b] < nticks
    BY <1>1 DEF FlagInv
  <2>1. CASE b = alarm
    BY <1>4, <1>5, <2>1 DEF Flag
  <2>2. CASE b # alarm
    BY <1>2, <1>4, <2>2 DEF TimerInv, FlagInv
  <2> QED
    BY <2>1, <2>2
<1>8. next[alarm] \in Registered \cup {Head} /\ next[alarm] # alarm
  BY <1>3, RegisteredIs DEF TimerInv
<1>9. Current' = next[alarm] /\ (calling' => Due /\ alarm' = alarm /\ saved' = next[alarm])
      /\ (~calling' => ~Due /\ alarm' = next[alarm])
  BY <1>1 DEF Visit, Current
<1>10. CallInv'
  <2>1. CASE calling'
    BY <1>1, <1>4, <1>5, <1>6, <1>8, <1>9, <2>1, <1>2 DEF CallInv, Due
  <2>2. CASE ~calling'
    BY <1>1, <1>8, <1>9, <2>2 DEF CallInv
  <2> QED
    BY <2>1, <2>2
<1>11. Pending' \subseteq Pending \ {alarm}
  <2> SUFFICES ASSUME NEW b \in Pending' PROVE b \in Pending \ {alarm}
    OBVIOUS
  <2>1. /\ b \in Registered /\ ~(calling' /\ b = alarm')
        /\ time[b] = nticks \/ (nticks = 0 /\ rollover'[b])
    BY <1>1 DEF Pending
  <2>2. b # alarm
    BY <1>4, <1>6, <1>9, <2>1 DEF Flag
  <2> QED
    BY <1>1, <1>2, <1>4, <2>1, <2>2 DEF Pending
<1>12. Reaches(next[Head], Registered)'
  BY <1>1 DEF TimerInv, Reaches, Closed, Nodes
<1>13. Reaches(Current, Pending)'
  <2> SUFFICES ASSUME NEW S \in SUBSET Nodes, next[alarm] \in S, Closed(S)'
               PROVE  Pending' \subseteq S
    BY <1>9 DEF Reaches, Nodes
  <2>1. Closed(S \cup {alarm})
    BY <1>1 DEF Closed
  <2>2. S \cup {alarm} \in SUBSET Nodes /\ Current = alarm
    BY <1>1, TimerTypes DEF TimerInv, Current
  <2>3. Pending \subseteq S \cup {alarm}
    BY <2>1, <2>2 DEF TimerInv, Reaches
  <2> QED
    BY <1>11, <2>3
<1> QED
  BY <1>1, <1>3, <1>6, <1>7, <1>9, <1>10, <1>12, <1>13 DEF TimerInv

LEMMA TimerReturn ==
  ASSUME TimerInv, ListInv', NEW p \in Periods, Return(p)
  PROVE  /\ TimerInv'
         /\ calling /\ ~calling' /\ nticks' = nticks
         /\ Registered' = IF p = 0 THEN Registered \ {alarm} ELSE Registered
         /\ \A b \in Registered \ {alarm} : time'[b] = time[b]
         /\ p # 0 /\ alarm \in Registered => time'[alarm] = Plus(nticks, p)
<1>1. /\ calling /\ calling' = FALSE /\ nticks' = nticks /\ alarm' = saved
      /\ alarm \in Alarms /\ next[alarm] # Null
  BY TimerTypes DEF Return, TimerInv, ListInv, LinksInv, AlarmTypeOK, Nodes
<1>2. /\ Modulus \in Nat \ {0, 1} /\ nticks \in 0 .. (Modulus - 1)
      /\ \A b \in Alarms : time[b] \in 0 .. (Modulus - 1) /\ rollover[b] \in BOOLEAN
      /\ Registered \subseteq Alarms
  BY TimerTypes DEF TimerInv, Registered
<1>3. /\ Current = saved /\ Current' = saved /\ saved # alarm
      /\ saved \in Registered \cup {Head}
      /\ alarm \in Registered => time[alarm] = nticks /\ ~rollover[alarm]
  BY <1>1 DEF TimerInv, CallInv, Current
<1>4. CASE p = 0
  <2>1. Remove(alarm) /\ time' = time /\ rollover' = rollover
    BY <1>4 DEF Return
  <2>2. /\ Registered' = Registered \ {alarm}
        /\ Reaches(next[Head], Registered)'
        /\ \A S \in SUBSET Nodes : Current \in S /\ Closed(S)' => Pending \ {alarm} \subseteq S
    BY <1>1, <1>3, <2>1, TimerRemove
  <2>3. Pending' = Pending \ {alarm}
    BY <1>1, <2>1, <2>2 DEF Pending
  <2>4. Reaches(Current, Pending)'
    BY <1>3, <2>2, <2>3 DEF Reaches, Nodes
  <2>5. FlagInv' /\ CallInv'
    BY <1>1, <1>3, <2>1, <2>2 DEF TimerInv, FlagInv, CallInv
  <2> QED
    BY <1>1, <1>4, <2>1, <2>2, <2>4, <2>5 DEF TimerInv
<1>5. CASE p # 0
  <2> DEFINE t == Plus(time[alarm], p)
  <2>1. /\ next' = next /\ prev' = prev
        /\ time' = [time EXCEPT ![alarm] = t]
        /\ rollover' = [rollover EXCEPT ![alarm] = @ \/ t < nticks]
    BY <1>5 DEF Return, links
  <2>2. Registered' = Registered
    BY <2>1 DEF Registered, Linked
  <2>3. /\ time'[alarm] = t
        /\ \A b \in Alarms \ {alarm} : time'[b] = time[b] /\ rollover'[b] = rollover[b]
    BY <1>1, <2>1 DEF TimerInv, ListInv, AlarmTypeOK
  <2>4. rollover'[alarm] <=> rollover[alarm] \/ t < nticks
    <3>1. rollover'[alarm] = (rollover[alarm] \/ t < nticks)
      BY <1>1, <2>1 DEF TimerInv, ListInv, AlarmTypeOK
    <3> QED
      BY <3>1
  <2>5. ASSUME alarm \in Registered
        PROVE  t = Plus(nticks, p) /\ t \in Nat /\ t # nticks
    <3>1. p \in 0 .. (Modulus - 1)
      BY AlarmAssumption
    <3>2. p \in 0 .. Modulus
      BY <1>2, <3>1
    <3>3. /\ Plus(nticks, p) = IF nticks + p < Modulus THEN nticks + p ELSE nticks + p - Modulus
          /\ Plus(nticks, p) \in 0 .. (Modulus - 1)
      BY <1>2, <3>2, PlusIs
    <3>4. Plus(nticks, p) # nticks
      BY <1>2, <1>5, <3>1, <3>3
    <3> QED
      BY <1>2, <1>3, <2>5, <3>3, <3>4
  <2> HIDE DEF t
  <2>6. FlagInv'
    <3> SUFFICES ASSUME NEW b \in Registered
                 PROVE  (rollover'[b] /\ nticks # 0) <=> time'[b] < nticks
      BY <1>1, <2>2 DEF FlagInv
    <3>1. CASE b = alarm
      BY <1>2, <1>3, <2>3, <2>4, <2>5, <3>1
    <3>2. CASE b # alarm
      BY <1>2, <2>3, <3>2 DEF TimerInv, FlagInv
    <3> QED
      BY <3>1, <3>2
  <2>7. CallInv'
    BY <1>1, <1>3, <2>2 DEF CallInv
  <2>8. Pending' \subseteq Pending
    <3> SUFFICES ASSUME NEW b \in Pending' PROVE b \in Pending
      OBVIOUS
    <3>1. b \in Registered /\ (time'[b] = nticks \/ (nticks = 0 /\ rollover'[b]))
      BY <1>1, <2>2 DEF Pending
    <3>2. b # alarm
      BY <1>2, <1>3, <2>3, <2>4, <2>5, <3>1
    <3> QED
      BY <1>1, <1>2, <2>3, <3>1, <3>2 DEF Pending
  <2>9. Reaches(next[Head], Registered)'
    BY <2>1, <2>2 DEF TimerInv, Reaches, Closed, Nodes
  <2>10. Reaches(Current, Pending)'
    BY <1>3, <2>1, <2>8 DEF TimerInv, Reaches, Closed, Nodes
  <2> QED
    BY <1>1, <1>2, <1>5, <2>2, <2>3, <2>5, <2>6, <2>7, <2>9, <2>10 DEF TimerInv
<1> QED
  BY <1>4, <1>5

LEMMA TimerNext ==
  ASSUME TimerInv, Moderate, [Next]_vars
  PROVE  TimerInv' /\ [Timers!TimerNext]_(Timers!vars)
<1>1. ListInv'
  BY NextList DEF TimerInv
<1>2. /\ Modulus \in Nat \ {0, 1} /\ nticks \in 0 .. (Modulus - 1)
      /\ \A b \in Alarms : time[b] \in 0 .. (Modulus - 1)
      /\ Registered \subseteq Alarms
      /\ calling => alarm # Head
  BY TimerTypes DEF TimerInv, ListInv, LinksInv, Registered
<1>3. ASSUME NEW a \in Alarms, NEW n \in Delays, Start(a, n)
      PROVE  TimerInv' /\ Timers!Start(a, n)
  <2>1. /\ TimerInv' /\ Registered' = Registered \cup {a} /\ a \notin Registered
        /\ time'[a] = Plus(n, nticks + 1) /\ \A b \in Alarms \ {a} : time'[b] = time[b]
    BY <1>1, <1>3, TimerStart
  <2>2. nticks' = nticks /\ UNCHANGED (IF calling THEN alarm ELSE Head)
    BY <1>3 DEF Start, locals
  <2>3. (Plus(n, nticks + 1) + Modulus - nticks) % Modulus = n + 1
    <3> DEFINE m == nticks + 1
               t == Plus(n, m)
    <3>1. /\ m \in 0 .. Modulus /\ m = nticks + 1
          /\ n \in 0 .. (Modulus - 1) /\ n # Modulus - 1
      BY <1>2, AlarmAssumption DEF Moderate
    <3> HIDE DEF m
    <3>2. /\ t = IF n + m < Modulus THEN n + m ELSE n + m - Modulus
          /\ t \in 0 .. (Modulus - 1)
      BY <3>1, PlusIs
    <3> HIDE DEF t
    <3>3. (t + Modulus - nticks) % Modulus
            = IF t < nticks THEN t + Modulus - nticks ELSE t - nticks
      BY <1>2, <3>2, LeftTyped
    <3>4. (t + Modulus - nticks) % Modulus = n + 1
      BY <1>2, <3>1, <3>2, <3>3
    <3> QED
      BY <3>4 DEF t, m
  <2>4. Left' = [b \in Registered \cup {a} |-> IF b = a THEN n + 1 ELSE Left[b]]
    <3>1. Left' = [b \in Registered \cup {a} |-> (time'[b] + Modulus - nticks) % Modulus]
      BY <2>1, <2>2 DEF Left
    <3>2. ASSUME NEW b \in Registered \cup {a}
          PROVE  (time'[b] + Modulus - nticks) % Modulus = IF b = a THEN n + 1 ELSE Left[b]
      <4>1. CASE b = a
        BY <2>1, <2>3, <4>1
      <4>2. CASE b # a
        BY <1>2, <2>1, <4>2 DEF Left
      <4> QED
        BY <4>1, <4>2
    <3> QED
      BY <3>1, <3>2
  <2>5. DOMAIN Left = Registered
    BY DEF Left
  <2> QED
    BY <2>1, <2>2, <2>4, <2>5 DEF Timers!Start, Timers!Registered
<1>4. ASSUME NEW a \in Alarms, Stop(a)
      PROVE  TimerInv' /\ Timers!Stop(a)
  <2>1. TimerInv' /\ Registered' = Registered \ {a}
    BY <1>1, <1>4, TimerStop
  <2>2. nticks' = nticks /\ time' = time /\ UNCHANGED (IF calling THEN alarm ELSE Head)
    BY <1>4 DEF Stop, locals
  <2>3. Left' = [b \in Registered \ {a} |-> Left[b]]
    BY <2>1, <2>2 DEF Left
  <2>4. DOMAIN Left = Registered
    BY DEF Left
  <2> QED
    BY <2>1, <2>2, <2>3, <2>4 DEF Timers!Stop, Timers!Registered
<1>5. ASSUME TickStart \/ TickNothing
      PROVE  TimerInv' /\ Timers!Tick
  <2>1. /\ TimerInv' /\ ~calling /\ ~calling'
        /\ Registered' = Registered /\ time' = time /\ nticks' = Plus(nticks, 1)
        /\ \A a \in Registered : time[a] # nticks
    BY <1>1, <1>5, TimerTick
  <2>2. ASSUME NEW a \in Registered
        PROVE  /\ (time[a] + Modulus - Plus(nticks, 1)) % Modulus
                     = ((time[a] + Modulus - nticks) % Modulus) - 1
               /\ (time[a] + Modulus - nticks) % Modulus > 0
    <3> DEFINE n == Plus(nticks, 1)
               t == time[a]
    <3>1. t \in 0 .. (Modulus - 1) /\ t # nticks /\ 1 \in 0 .. Modulus
      BY <1>2, <2>1
    <3>2. n = (IF nticks + 1 < Modulus THEN nticks + 1 ELSE nticks + 1 - Modulus)
          /\ n \in 0 .. (Modulus - 1)
      BY <1>2, <3>1, PlusIs
    <3> HIDE DEF n, t
    <3>3. (t + Modulus - nticks) % Modulus
            = IF t < nticks THEN t + Modulus - nticks ELSE t - nticks
      BY <1>2, <3>1, LeftTyped
    <3>4. (t + Modulus - n) % Modulus = IF t < n THEN t + Modulus - n ELSE t - n
      <4>1. t \in 0 .. (Modulus - 1) /\ n \in 0 .. (Modulus - 1)
        BY <3>1, <3>2
      <4> QED
        BY <4>1, LeftTyped
    <3>5. /\ (t + Modulus - n) % Modulus = ((t + Modulus - nticks) % Modulus) - 1
          /\ (t + Modulus - nticks) % Modulus > 0
      BY <1>2, <3>1, <3>2, <3>3, <3>4
    <3> QED
      BY <3>5 DEF n, t
  <2>3. DOMAIN Left = Registered /\ \A a \in Registered : Left[a] > 0
    BY <2>2 DEF Left
  <2>4. Left' = [a \in Registered |-> Left[a] - 1]
    BY <2>1, <2>2 DEF Left
  <2> QED
    BY <2>1, <2>3, <2>4 DEF Timers!Tick, Timers!Registered
<1>6. CASE Visit
  <2>1. /\ TimerInv' /\ Registered' = Registered /\ time' = time /\ nticks' = nticks
        /\ ~calling /\ alarm \in Registered
        /\ (calling' => alarm' = alarm /\ time[alarm] = nticks)
    BY <1>1, <1>6, TimerVisit
  <2>2. Left' = Left /\ DOMAIN Left = Registered
    BY <2>1 DEF Left
  <2>3. CASE calling'
    <3>1. (time[alarm] + Modulus - nticks) % Modulus = 0
      BY <1>2, <2>1, <2>3, LeftTyped
    <3>2. Timers!Call(alarm)
      BY <2>1, <2>2, <2>3, <3>1 DEF Left, Timers!Call, Timers!Registered
    <3> QED
      BY <1>2, <2>1, <3>2 DEF Timers!TimerNext
  <2>4. CASE ~calling'
    BY <2>1, <2>2, <2>4 DEF Timers!vars
  <2> QED
    BY <2>3, <2>4
<1>7. ASSUME NEW p \in Periods, Return(p)
      PROVE  TimerInv' /\ Timers!Return(p)
  <2>1. /\ TimerInv' /\ calling /\ ~calling' /\ nticks' = nticks
        /\ Registered' = IF p = 0 THEN Registered \ {alarm} ELSE Registered
        /\ \A b \in Registered \ {alarm} : time'[b] = time[b]
        /\ (p # 0 /\ alarm \in Registered => time'[alarm] = Plus(nticks, p))
    BY <1>1, <1>7, TimerReturn
  <2>2. p # 0 => (Plus(nticks, p) + Modulus - nticks) % Modulus = p
    <3> DEFINE t == Plus(nticks, p)
    <3>1. p \in 0 .. (Modulus - 1) /\ p \in 0 .. Modulus
      BY <1>2, AlarmAssumption
    <3>2. t = (IF nticks + p < Modulus THEN nticks + p ELSE nticks + p - Modulus)
          /\ t \in 0 .. (Modulus - 1)
      BY <1>2, <3>1, PlusIs
    <3> HIDE DEF t
    <3>3. (t + Modulus - nticks) % Modulus
            = IF t < nticks THEN t + Modulus - nticks ELSE t - nticks
      BY <1>2, <3>2, LeftTyped
    <3>4. p # 0 => (t + Modulus - nticks) % Modulus = p
      BY <1>2, <3>1, <3>2, <3>3
    <3> QED
      BY <3>4 DEF t
  <2> DEFINE R == Registered \ (IF p = 0 THEN {alarm} ELSE {})
  <2>3. Registered' = R /\ R \subseteq Registered /\ (p = 0 => alarm \notin R)
    BY <2>1
  <2>4. Left' = [b \in R |-> (time'[b] + Modulus - nticks) % Modulus]
    BY <2>1, <2>3 DEF Left
  <2>5. ASSUME NEW b \in R
        PROVE  (time'[b] + Modulus - nticks) % Modulus = IF b = alarm THEN p ELSE Left[b]
    <3>1. CASE b = alarm
      BY <2>1, <2>2, <2>3, <2>5, <3>1
    <3>2. CASE b # alarm
      BY <2>1, <2>3, <2>5, <3>2 DEF Left
    <3> QED
      BY <3>1, <3>2
  <2>6. Left' = [b \in R |-> IF b = alarm THEN p ELSE Left[b]]
    BY <2>4, <2>5
  <2>7. DOMAIN Left = Registered
    BY DEF Left
  <2> QED
    BY <1>2, <2>1, <2>6, <2>7 DEF Timers!Return, Timers!Registered
<1>8. CASE SysclkInit \/ UNCHANGED vars
  <2>1. UNCHANGED <<nticks, next, prev, time, rollover, alarm, saved, calling>>
    BY <1>8 DEF SysclkInit, vars, links, locals
  <2>2. Registered' = Registered
    BY <2>1 DEF Registered, Linked
  <2>3. Pending' = Pending /\ Current' = Current
    BY <2>1, <2>2 DEF Pending, Current
  <2>4. TimerInv'
    BY <1>1, <2>1, <2>2, <2>3 DEF TimerInv, Reaches, Closed, Nodes, FlagInv, CallInv
  <2>5. UNCHANGED Timers!vars
    BY <2>1, <2>2 DEF Timers!vars, Left
  <2> QED
    BY <2>4, <2>5
<1> QED
  BY <1>3, <1>4, <1>5, <1>6, <1>7, <1>8 DEF Next, Timers!TimerNext

\* For every set of alarms and every width of the counter the list, the flags and
\* the wrapping times implement a queue of timers: whatever order alarms are
\* started and stopped in, by the program or by callbacks, alt_tick calls each in
\* the tick it is due in, once, and lets no tick pass while one is due
\* (alt_tick.c:97-150, alt_alarm_start.c:66-118).
THEOREM AlarmsAreTimers == Moderate /\ Spec => IsTimerQueue
<1>1. Init => Timers!TimerInit
  <2> SUFFICES ASSUME Init PROVE Timers!TimerInit
    OBVIOUS
  <2>1. Registered = {}
    BY NullNotNode, AlarmAssumption DEF Init, Registered, Linked, Nodes
  <2>2. Left = [a \in {} |-> 0] /\ calling = FALSE
    BY <2>1 DEF Left, Init
  <2> QED
    BY <2>2 DEF Timers!TimerInit
<1>2. Moderate /\ TimerInv /\ [Next]_vars => TimerInv' /\ [Timers!TimerNext]_(Timers!vars)
  BY TimerNext
<1>3. Moderate => []Moderate
  <2>1. Moderate /\ [TRUE]_Moderate => Moderate'
    BY DEF Moderate
  <2> QED
    BY <2>1, PTL
<1> QED
  BY <1>1, <1>2, <1>3, TimerInitially, PTL DEF Spec, IsTimerQueue, Timers!TimerSpec
-----------------------------------------------------------------------------
(* The clock *)

\* Division with remainder, stated once for the solvers: quotient and
\* remainder are the only ones that fit.
LEMMA Division == ASSUME NEW d \in Nat \ {0}, NEW q \in Int, NEW r \in 0 .. (d - 1)
                  PROVE  (q * d + r) % d = r /\ (q * d + r) \div d = q
  OBVIOUS

LEMMA Divided == ASSUME NEW d \in Nat \ {0}, NEW n \in Nat
                 PROVE  /\ n \div d \in Nat /\ n % d \in 0 .. (d - 1)
                        /\ n = (n \div d) * d + (n % d)
<1>1. n \div d \in Int /\ n % d \in 0 .. (d - 1)
  OBVIOUS
<1>2. n = d * (n \div d) + (n % d)
  OBVIOUS
<1>3. n \div d >= 0
  <2>1. SUFFICES ASSUME n \div d <= -1 PROVE FALSE
    BY <1>1
  <2>2. d * (n \div d) <= -d
    BY <2>1, <1>1
  <2> QED BY <2>2, <1>1, <1>2
<1> QED BY <1>1, <1>2, <1>3

LEMMA PlusPlus == ASSUME NEW x \in 0 .. (Modulus - 1), NEW k \in 0 .. 1
                  PROVE  Plus(Plus(x, 1), k) = Plus(x, k + 1)
<1>0. Modulus \in Nat \ {0, 1}
  BY AlarmAssumption
<1>1. \A n \in 0 .. (Modulus - 1) : n % Modulus = n
  BY <1>0
<1>2. \A n \in Modulus .. (2 * Modulus - 1) : n % Modulus = n - Modulus
  BY <1>0
<1>3. CASE x + 1 < Modulus
  <2>1. (x + 1) % Modulus = x + 1
    BY <1>0, <1>1, <1>3
  <2> QED BY <2>1, <1>0 DEF Plus
<1>4. CASE x + 1 = Modulus
  <2>1. (x + 1) % Modulus = 0
    BY <1>0, <1>2, <1>4
  <2>2. (0 + k) % Modulus = k
    BY <1>0, <1>1
  <2>3. (x + (k + 1)) % Modulus = k
    BY <1>0, <1>2, <1>4
  <2> QED BY <2>1, <2>2, <2>3 DEF Plus
<1> QED BY <1>0, <1>3, <1>4

\* The microseconds of n ticks are those of its seconds and of the rest.
LEMMA TicksSplit == ASSUME NEW n \in Nat
                    PROVE  /\ (n * PerTick) % ALT_US \in 0 .. (ALT_US - 1)
                           /\ n \div TickRate \in Nat
                           /\ n * PerTick = (n \div TickRate) * ALT_US + ((n * PerTick) % ALT_US)
<1>0. ALT_US \in Nat \ {0} /\ TickRate \in Nat \ {0} /\ ALT_US % TickRate = 0
  BY ClockAssumption
<1> DEFINE q == n \div TickRate
           r == n % TickRate
           p == PerTick
<1>1. q \in Nat /\ r \in 0 .. (TickRate - 1) /\ n = q * TickRate + r
  BY <1>0, Divided
<1>2. p \in Nat /\ ALT_US = p * TickRate
  BY <1>0, Divided DEF PerTick
<1>3. p # 0
  BY <1>0, <1>2
<1> HIDE DEF q, r, p
<1>4. n * p = q * ALT_US + r * p
  BY <1>0, <1>1, <1>2
<1>5. r * p \in Nat /\ (TickRate - 1 - r) * p \in Nat
  BY <1>0, <1>1, <1>2
<1>6. (TickRate - 1 - r) * p = ALT_US - p - r * p
  BY <1>0, <1>1, <1>2
<1>7. r * p \in 0 .. (ALT_US - 1)
  BY <1>0, <1>2, <1>3, <1>5, <1>6
<1>8. (q * ALT_US + r * p) % ALT_US = r * p
  <2>1. q \in Int /\ r * p \in 0 .. (ALT_US - 1)
    BY <1>1, <1>7
  <2> QED BY <1>0, <2>1, Division
<1>9. (n * p) % ALT_US = r * p
  BY <1>4, <1>8
<1>10. q \in Nat /\ (n * p) % ALT_US \in 0 .. (ALT_US - 1)
       /\ n * p = q * ALT_US + ((n * p) % ALT_US)
  BY <1>1, <1>4, <1>7, <1>9
<1> QED BY <1>10 DEF q, p
-----------------------------------------------------------------------------
(* The alarms under the clock *)

LEMMA ClockStep == ASSUME [ClockNext]_clockVars
                   PROVE  [Next]_vars
<1>1. CASE SetRate
  BY <1>1 DEF SetRate, Next
<1>2. CASE StartTimer \/ RegisterTimer \/ Period \/ TimerIrq \/ IrqReturn
  BY <1>2 DEF StartTimer, RegisterTimer, Period, TimerIrq, IrqReturn
<1>3. CASE Tick
  BY <1>3 DEF Tick, Next
<1>4. CASE InTick
  BY <1>4 DEF InTick, Next
<1>5. CASE UseAlarm
  BY <1>5 DEF UseAlarm, Next
<1>6. CASE \E t \in Times : SetTime(t)
  BY <1>6 DEF SetTime
<1>7. CASE UNCHANGED clockVars
  BY <1>7 DEF clockVars
<1> QED BY <1>1, <1>2, <1>3, <1>4, <1>5, <1>6, <1>7 DEF ClockNext, Handler

\* Everything proved of the alarms holds under the clock: its handler calls
\* alt_tick as they expect.
THEOREM ClockIsAlarmList == ClockSpec => Spec
<1>1. ClockInit => Init
  BY DEF ClockInit
<1>2. [ClockNext]_clockVars => [Next]_vars
  BY ClockStep
<1> QED BY <1>1, <1>2, PTL DEF ClockSpec, Spec

\* Under the timer's handler too, every alarm is called when it is due.
THEOREM ClockIsTimerQueue == Moderate /\ ClockSpec => IsTimerQueue
BY ClockIsAlarmList, AlarmsAreTimers, PTL
-----------------------------------------------------------------------------
(* No tick is lost *)

\* What is stored with the ticks of the counter is what was set with those since.
Kept == /\ settime \in Nat /\ since \in {Lost} \cup 0 .. (Modulus - 1)
        /\ since # Lost =>
             /\ since <= nticks
             /\ Microseconds(resettime) + nticks * PerTick = settime + since * PerTick

ClockInv == ClockTypeOK /\ TicksCounted /\ Kept

LEMMA ResetTyped == ASSUME NEW t \in Times, NEW n \in Nat
                    PROVE  /\ t.tv_sec - n \div TickRate \in Int
                           /\ t.tv_usec - (((n * PerTick) % Modulus) % ALT_US)
                              \in (1 - ALT_US) .. (ALT_US - 1)
<1>1. ALT_US \in Nat \ {0} /\ t.tv_sec \in Nat /\ t.tv_usec \in 0 .. (ALT_US - 1)
  BY ClockAssumption DEF Seconds
<1>2. n \div TickRate \in Nat
  BY TicksSplit
<1>3. PerTick \in Nat
  BY ClockAssumption, Divided DEF PerTick
<1>4. n * PerTick \in Nat
  BY <1>3
<1>5. (n * PerTick) % Modulus \in Nat
  BY <1>4, AlarmAssumption
<1>6. ((n * PerTick) % Modulus) % ALT_US \in 0 .. (ALT_US - 1)
  BY <1>1, <1>5
<1> QED BY <1>1, <1>2, <1>6

LEMMA InitClock == ClockInit => ClockInv
<1> SUFFICES ASSUME ClockInit PROVE ClockInv
  OBVIOUS
<1>1. AlarmTypeOK
  BY InitList DEF ClockInit, ListInv
<1>2. Modulus \in Nat \ {0, 1} /\ ALT_US \in Nat \ {0}
  BY AlarmAssumption, ClockAssumption
<1>3. nticks = 0 /\ Plus(0, 0) = 0
  BY <1>2 DEF ClockInit, Init, Plus
<1>4. TicksCounted
  BY <1>3 DEF ClockInit, TicksCounted, One
<1>5. resettime \in [tv_sec : Int, tv_usec : (1 - ALT_US) .. (ALT_US - 1)]
  BY <1>2 DEF ClockInit
<1>6. /\ started \in BOOLEAN /\ timeout \in BOOLEAN /\ registered \in BOOLEAN
      /\ isr \in {"none", "tick", "ticking"}
      /\ elapsed \in 0 .. (Modulus - 1)
  <2>1. /\ started \in BOOLEAN /\ timeout \in BOOLEAN /\ registered \in BOOLEAN
        /\ isr \in {"none", "tick", "ticking"}
    BY Zenon DEF ClockInit
  <2>2. elapsed \in 0 .. (Modulus - 1)
    BY <1>2 DEF ClockInit
  <2> QED BY <2>1, <2>2
<1>7. Kept
  <2>1. PerTick \in Nat
    BY ClockAssumption, Divided DEF PerTick
  <2>2. settime = 0 /\ since = 0 /\ nticks = 0
    BY <1>3 DEF ClockInit
  <2>3. Microseconds(resettime) = 0
    BY <1>2 DEF ClockInit, Microseconds
  <2> QED BY <1>2, <2>1, <2>2, <2>3 DEF Kept, Lost
<1> QED BY <1>1, <1>4, <1>5, <1>6, <1>7 DEF ClockInv, ClockTypeOK, Kept

\* A tick that does not wrap the counter adds to both sums; a time that is set
\* while Exact takes off what the counter shows.
LEMMA TickKeeps == ASSUME ClockInv, Tick PROVE Kept'
<1>1. nticks \in 0 .. (Modulus - 1) /\ Modulus \in Nat \ {0, 1} /\ Kept
  BY AlarmAssumption DEF ClockInv, ClockTypeOK, AlarmTypeOK
<1>2. nticks' = Plus(nticks, 1) /\ resettime' = resettime
  BY DEF Tick, TickStart, TickNothing
<1>3. PerTick \in Nat
  BY ClockAssumption, Divided DEF PerTick
<1>4. Microseconds(resettime) \in Int
  BY ClockAssumption DEF ClockInv, ClockTypeOK, Microseconds
<1>5. CASE since # Lost /\ nticks + 1 < Modulus
  <2>1. since' = since + 1 /\ settime' = settime
    BY <1>5 DEF Tick
  <2>2. nticks' = nticks + 1
    BY <1>1, <1>2, <1>5 DEF Plus
  <2>3. /\ settime \in Nat /\ since \in 0 .. (Modulus - 1) /\ since <= nticks
        /\ Microseconds(resettime) + nticks * PerTick = settime + since * PerTick
    BY <1>1, <1>5 DEF Kept
  <2>4. Microseconds(resettime') = Microseconds(resettime)
    BY <1>2
  <2>5. (nticks + 1) * PerTick = nticks * PerTick + PerTick
        /\ (since + 1) * PerTick = since * PerTick + PerTick
    BY <1>1, <1>3, <2>3
  <2>6. nticks * PerTick \in Nat /\ since * PerTick \in Nat
    BY <1>1, <1>3, <2>3
  <2>7. Microseconds(resettime) + (nticks + 1) * PerTick = settime + (since + 1) * PerTick
    <3> DEFINE x == Microseconds(resettime)
               y == nticks * PerTick
               z == since * PerTick
    <3>1. x \in Int /\ y \in Nat /\ z \in Nat /\ settime \in Nat /\ x + y = settime + z
      BY <1>4, <2>3, <2>6
    <3> HIDE DEF x, y, z
    <3>2. x + (y + PerTick) = settime + (z + PerTick)
      BY <1>3, <3>1
    <3> QED BY <2>5, <3>2 DEF x, y, z
  <2>8. since + 1 \in 0 .. (Modulus - 1) /\ since + 1 <= nticks + 1
    BY <1>1, <1>5, <2>3
  <2>9. Microseconds(resettime)' + nticks' * PerTick = settime' + since' * PerTick
    BY <2>1, <2>2, <2>4, <2>7 DEF Microseconds
  <2> QED BY <2>1, <2>2, <2>3, <2>8, <2>9 DEF Kept
<1>6. CASE ~(since # Lost /\ nticks + 1 < Modulus)
  <2>1. since' = Lost /\ settime' = 0
    BY <1>6 DEF Tick
  <2> QED BY <2>1 DEF Kept
<1> QED BY <1>5, <1>6

LEMMA SetKeeps == ASSUME ClockInv, NEW t \in Times, SetTime(t) PROVE Kept'
<1>1. nticks \in Nat /\ nticks' = nticks /\ Modulus \in Nat \ {0, 1}
  BY AlarmAssumption DEF ClockInv, ClockTypeOK, AlarmTypeOK, SetTime, vars
<1>2. CASE Exact
  <2> DEFINE q == nticks \div TickRate
             m == (nticks * PerTick) % ALT_US
  <2>1. /\ q \in Nat /\ m \in 0 .. (ALT_US - 1)
        /\ nticks * PerTick = q * ALT_US + m
    BY <1>1, TicksSplit
  <2>2. (nticks * PerTick) % Modulus = nticks * PerTick
    <3>1. PerTick \in Nat
      BY ClockAssumption, Divided DEF PerTick
    <3>2. nticks * PerTick \in 0 .. (Modulus - 1)
      BY <1>1, <1>2, <3>1 DEF Exact
    <3> QED BY <1>1, <3>2
  <2>3. resettime' = [tv_sec |-> t.tv_sec - q, tv_usec |-> t.tv_usec - m]
    BY <2>2 DEF SetTime
  <2>4. settime' = Microseconds(t) /\ since' = 0
    BY <1>2 DEF SetTime, Remember
  <2> HIDE DEF q, m
  <2>5. ALT_US \in Nat \ {0} /\ t.tv_sec \in Nat /\ t.tv_usec \in 0 .. (ALT_US - 1)
    BY ClockAssumption DEF Seconds
  <2>6. Microseconds(resettime)' = (t.tv_sec - q) * ALT_US + (t.tv_usec - m)
    BY <2>3 DEF Microseconds
  <2>7. (t.tv_sec - q) * ALT_US + (t.tv_usec - m) + (q * ALT_US + m)
        = t.tv_sec * ALT_US + t.tv_usec
    BY <2>1, <2>5
  <2>8. Microseconds(t) \in Nat
    BY <2>5 DEF Microseconds
  <2>9. 0 * PerTick = 0
    BY ClockAssumption, Divided DEF PerTick
  <2>10. Microseconds(resettime)' + nticks' * PerTick = settime' + since' * PerTick
    <3>1. Microseconds(resettime)' + nticks * PerTick = Microseconds(t)
      BY <2>1, <2>6, <2>7 DEF Microseconds
    <3>2. settime' + since' * PerTick = Microseconds(t)
      BY <2>4, <2>8, <2>9
    <3> QED BY <1>1, <3>1, <3>2
  <2> QED BY <1>1, <2>4, <2>8, <2>10 DEF Kept
<1>3. CASE ~Exact
  <2>1. settime' = 0 /\ since' = Lost
    BY <1>3 DEF SetTime, Remember
  <2> QED BY <2>1 DEF Kept
<1> QED BY <1>2, <1>3

LEMMA StillKept == ASSUME ClockInv, UNCHANGED <<nticks, today>> PROVE Kept'
<1>1. nticks' = nticks /\ resettime' = resettime /\ settime' = settime /\ since' = since
  BY DEF today
<1> QED BY <1>1 DEF ClockInv, Kept, Microseconds

LEMMA NextKept == ASSUME ClockInv, [ClockNext]_clockVars PROVE Kept'
<1>1. CASE SetRate \/ InTick \/ UseAlarm
  <2>1. nticks' = nticks
    BY <1>1 DEF SetRate, SysclkInit, InTick, Visit, Return, UseAlarm, Start, Stop
  <2>2. UNCHANGED today
    BY <1>1 DEF SetRate, InTick, UseAlarm
  <2> QED BY <2>1, <2>2, StillKept
<1>2. CASE StartTimer \/ RegisterTimer \/ Period \/ TimerIrq \/ IrqReturn
           \/ UNCHANGED clockVars
  <2>1. UNCHANGED vars /\ UNCHANGED today
    BY <1>2 DEF StartTimer, RegisterTimer, Period, TimerIrq, IrqReturn, clockVars
  <2> QED BY <2>1, StillKept DEF vars
<1>3. CASE Tick
  BY <1>3, TickKeeps
<1>4. CASE \E t \in Times : SetTime(t)
  BY <1>4, SetKeeps
<1> QED BY <1>1, <1>2, <1>3, <1>4 DEF ClockNext, Handler

LEMMA NextClock == ASSUME ClockInv, AlarmTypeOK', [ClockNext]_clockVars
                   PROVE  ClockInv'
<1> DEFINE T == /\ started \in BOOLEAN /\ timeout \in BOOLEAN /\ registered \in BOOLEAN
                /\ isr \in {"none", "tick", "ticking"}
                /\ elapsed \in 0 .. (Modulus - 1)
           R == resettime \in [tv_sec : Int, tv_usec : (1 - ALT_US) .. (ALT_US - 1)]
<1>0. T /\ R /\ TicksCounted /\ nticks \in 0 .. (Modulus - 1)
  BY DEF ClockInv, ClockTypeOK, AlarmTypeOK
<1>1. SUFFICES T' /\ R' /\ TicksCounted'
  BY NextKept DEF ClockInv, ClockTypeOK, Kept
<1>2. CASE SetRate
  BY <1>0, <1>2 DEF SetRate, SysclkInit, timer, today, TicksCounted
<1>3. CASE StartTimer
  BY <1>0, <1>3 DEF StartTimer, vars, today, TicksCounted
<1>4. CASE RegisterTimer
  BY <1>0, <1>4 DEF RegisterTimer, vars, today, TicksCounted
<1>5. CASE Period
  <2>1. elapsed = Plus(nticks, One(isr = "tick"))
    BY <1>0, <1>5, AlarmAssumption DEF Period, TicksCounted, One
  <2>2. One(isr = "tick") \in 0 .. 1
    BY DEF One
  <2>3. elapsed' = Plus(nticks, 1 + One(isr = "tick"))
    <3>1. CASE isr = "tick"
      BY <2>1, <3>1, <1>0, <1>5, PlusPlus DEF Period, One
    <3>2. CASE isr # "tick"
      <4>1. elapsed = nticks
        BY <2>1, <3>2, <1>0, AlarmAssumption DEF One, Plus
      <4> QED BY <4>1, <3>2, <1>5 DEF Period, One
    <3> QED BY <3>1, <3>2
  <2>4. T'
    BY <1>0, <1>5, PlusType DEF Period
  <2> QED BY <1>0, <1>5, <2>3, <2>4 DEF Period, vars, today, TicksCounted, One
<1>6. CASE TimerIrq
  <2>1. One(timeout) = 1 /\ One(isr = "tick") = 0
    BY <1>6 DEF TimerIrq, One
  <2>2. One(timeout') = 0 /\ One(isr' = "tick") = 1
    BY <1>6 DEF TimerIrq, One
  <2>3. elapsed' = elapsed /\ nticks' = nticks
    BY <1>6 DEF TimerIrq, vars
  <2>4. TicksCounted'
    BY <1>0, <2>1, <2>2, <2>3 DEF TicksCounted
  <2> QED BY <1>0, <1>6, <2>4 DEF TimerIrq, vars, today
<1>7. CASE Tick
  <2>1. nticks' = Plus(nticks, 1)
    BY <1>7 DEF Tick, TickStart, TickNothing
  <2>2. elapsed = Plus(nticks, One(timeout) + 1)
    BY <1>0, <1>7 DEF Tick, TicksCounted, One
  <2>3. One(timeout) \in 0 .. 1
    BY DEF One
  <2>4. Plus(Plus(nticks, 1), One(timeout)) = Plus(nticks, One(timeout) + 1)
    BY <1>0, <2>3, PlusPlus
  <2>5. elapsed' = Plus(nticks', One(timeout'))
    BY <1>7, <2>1, <2>2, <2>4 DEF Tick
  <2>6. One(timeout') + One(isr' = "tick") = One(timeout')
    BY <1>7 DEF Tick, One
  <2> QED BY <1>0, <1>7, <2>5, <2>6 DEF Tick, TicksCounted
<1>8. CASE InTick
  <2>1. nticks' = nticks
    BY <1>8 DEF InTick, Visit, Return
  <2> QED BY <1>0, <1>8, <2>1 DEF InTick, timer, today, TicksCounted
<1>9. CASE IrqReturn
  BY <1>0, <1>9 DEF IrqReturn, vars, today, TicksCounted, One
<1>10. CASE UseAlarm
  <2>1. nticks' = nticks
    BY <1>10 DEF UseAlarm, Start, Stop
  <2> QED BY <1>0, <1>10, <2>1 DEF UseAlarm, timer, today, TicksCounted
<1>11. CASE \E t \in Times : SetTime(t)
  <2>1. PICK t \in Times : SetTime(t)
    BY <1>11
  <2>2. nticks \in Nat
    BY <1>0, AlarmAssumption
  <2>3. R'
    BY <2>1, <2>2, ResetTyped DEF SetTime, vars
  <2> QED BY <1>0, <2>1, <2>3 DEF SetTime, timer, vars, TicksCounted
<1>12. CASE UNCHANGED clockVars
  BY <1>0, <1>12 DEF clockVars, timer, vars, today, TicksCounted
<1> QED BY <1>2, <1>3, <1>4, <1>5, <1>6, <1>7, <1>8, <1>9, <1>10, <1>11, <1>12
        DEF ClockNext, Handler

LEMMA ClockAlways == ClockSpec => []ClockInv
<1>1. ClockSpec => []AlarmTypeOK
  BY ClockIsAlarmList, AlarmTyped, PTL
<1>2. ClockInit => ClockInv
  BY InitClock
<1>3. AlarmTypeOK' /\ ClockInv /\ [ClockNext]_clockVars => ClockInv'
  BY NextClock
<1> QED BY <1>1, <1>2, <1>3, PTL DEF ClockSpec

\* The counters, the handler and the stored time keep their ranges for every
\* width of the counter and every rate.
THEOREM ClockTyped == ClockSpec => []ClockTypeOK
<1>1. ClockInv => ClockTypeOK
  BY DEF ClockInv
<1> QED BY ClockAlways, <1>1, PTL

\* For every width of the counter alt_tick counts each period of the timer
\* once, whenever it ends.
THEOREM ClockCounts == ClockSpec => []TicksCounted
<1>1. ClockInv => TicksCounted
  BY DEF ClockInv
<1> QED BY ClockAlways, <1>1, PTL
-----------------------------------------------------------------------------
(* The time of day *)

\* gettimeofday's two loops carry and borrow at most once and keep the sum.
LEMMA NormalKeeps == ASSUME NEW s \in Int, NEW u \in (1 - ALT_US) .. (2 * ALT_US - 1),
                            s * ALT_US + u >= 0
                     PROVE  LET t == Normal([tv_sec |-> s, tv_usec |-> u])
                            IN /\ Microseconds(t) = s * ALT_US + u
                               /\ t.tv_usec \in 0 .. (ALT_US - 1)
<1>0. ALT_US \in Nat \ {0}
  BY ClockAssumption
<1>1. CASE u < 0
  <2>1. s > 0
    BY <1>0, <1>1
  <2>2. Normal([tv_sec |-> s, tv_usec |-> u]) = [tv_sec |-> s - 1, tv_usec |-> u + ALT_US]
    BY <1>1, <2>1 DEF Normal
  <2>3. (s - 1) * ALT_US + (u + ALT_US) = s * ALT_US + u
    BY <1>0
  <2>4. u + ALT_US \in 0 .. (ALT_US - 1)
    BY <1>0, <1>1
  <2> QED BY <2>2, <2>3, <2>4 DEF Microseconds
<1>2. CASE u >= ALT_US
  <2>1. Normal([tv_sec |-> s, tv_usec |-> u]) = [tv_sec |-> s + 1, tv_usec |-> u - ALT_US]
    BY <1>0, <1>2 DEF Normal
  <2>2. (s + 1) * ALT_US + (u - ALT_US) = s * ALT_US + u
    BY <1>0
  <2>3. u - ALT_US \in 0 .. (ALT_US - 1)
    BY <1>0, <1>2
  <2> QED BY <2>1, <2>2, <2>3 DEF Microseconds
<1>3. CASE u \in 0 .. (ALT_US - 1)
  <2>1. Normal([tv_sec |-> s, tv_usec |-> u]) = [tv_sec |-> s, tv_usec |-> u]
    BY <1>0, <1>3 DEF Normal
  <2> DEFINE t == [tv_sec |-> s, tv_usec |-> u]
  <2>2. t.tv_sec = s /\ t.tv_usec = u
    OBVIOUS
  <2> QED BY <1>3, <2>1, <2>2 DEF Microseconds
<1> QED BY <1>0, <1>1, <1>2, <1>3

\* Until the counter wraps gettimeofday gives the time that was set and every
\* tick since, for every rate that divides the second, every second, every
\* width of the counter and every time that is set while its product fits.
THEOREM ClockKeepsTime == ClockSpec => []TimeIsKept
<1>1. ASSUME ClockInv PROVE TimeIsKept
  <2>1. SUFFICES ASSUME since # Lost
                 PROVE  /\ Microseconds(TimeOfDay(nticks)) = settime + since * PerTick
                        /\ TimeOfDay(nticks).tv_usec \in 0 .. (ALT_US - 1)
    BY DEF TimeIsKept
  <2> DEFINE q == nticks \div TickRate
             m == (nticks * PerTick) % ALT_US
             a == resettime.tv_sec
             b == resettime.tv_usec
             sum == settime + since * PerTick
  <2>2. nticks \in Nat
    BY <1>1, AlarmAssumption DEF ClockInv, ClockTypeOK, AlarmTypeOK
  <2>3. /\ m \in 0 .. (ALT_US - 1) /\ q \in Nat
        /\ nticks * PerTick = q * ALT_US + m
    BY <2>2, TicksSplit
  <2>4. a \in Int /\ b \in (1 - ALT_US) .. (ALT_US - 1)
    BY <1>1 DEF ClockInv, ClockTypeOK
  <2>5. TimeOfDay(nticks) = Normal([tv_sec |-> a + q, tv_usec |-> b + m])
    BY DEF TimeOfDay
  <2>6. (a * ALT_US + b) + nticks * PerTick = sum
    BY <1>1, <2>1 DEF ClockInv, Kept, Microseconds
  <2>7. sum \in Nat
    <3>1. settime \in Nat /\ since \in Nat
      BY <1>1, <2>1, AlarmAssumption DEF ClockInv, Kept
    <3>2. PerTick \in Nat
      BY ClockAssumption, Divided DEF PerTick
    <3> QED BY <3>1, <3>2
  <2> HIDE DEF q, m, a, b, sum
  <2>8. ALT_US \in Nat \ {0}
    BY ClockAssumption
  <2>9. a + q \in Int /\ b + m \in (1 - ALT_US) .. (2 * ALT_US - 1)
    BY <2>3, <2>4, <2>8
  <2>10. (a + q) * ALT_US + (b + m) = (a * ALT_US + b) + (q * ALT_US + m)
    BY <2>3, <2>4, <2>8
  <2>11. (a + q) * ALT_US + (b + m) = sum
    BY <2>3, <2>6, <2>10
  <2>12. (a + q) * ALT_US + (b + m) >= 0
    BY <2>7, <2>11
  <2>13. LET t == Normal([tv_sec |-> a + q, tv_usec |-> b + m])
         IN /\ Microseconds(t) = (a + q) * ALT_US + (b + m)
            /\ t.tv_usec \in 0 .. (ALT_US - 1)
    BY <2>9, <2>12, NormalKeeps
  <2>14. Microseconds(TimeOfDay(nticks)) = sum
         /\ TimeOfDay(nticks).tv_usec \in 0 .. (ALT_US - 1)
    BY <2>5, <2>11, <2>13
  <2> QED BY <2>14 DEF sum
<1> QED BY ClockAlways, <1>1, PTL
=============================================================================
