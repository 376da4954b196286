----------------------------- MODULE AlarmList -----------------------------
(***************************************************************************)
(* The HAL's alarms: alt_alarm_start, alt_alarm_stop and alt_tick over the *)
(* doubly linked alt_alarm_list, with a tick counter that wraps.  alt_tick *)
(* runs with interrupts disabled and is one action per alarm it visits;    *)
(* the callback of a due alarm may start and stop alarms before it         *)
(* returns.  The main program starts and stops alarms between ticks.       *)
(***************************************************************************)
EXTENDS Naturals

CONSTANTS Alarms,     \* the alt_alarm structures of the program
          Head,       \* alt_alarm_list
          Null,       \* a pointer of a structure that was never linked
          Modulus,    \* 2^32: the tick counter and the times wrap here
          Delays,     \* arguments of alt_alarm_start
          Periods,    \* values callbacks return
          StopsNext   \* a callback may stop the alarm after its own

ASSUME AlarmAssumption == /\ Head \notin Alarms /\ Null \notin Alarms /\ Head # Null
                          /\ Modulus \in Nat \ {0, 1}
                          /\ Delays \subseteq 0 .. (Modulus - 1)
                          /\ Periods \subseteq 0 .. (Modulus - 1)
                          /\ StopsNext \in BOOLEAN

Nodes == Alarms \cup {Head}

VARIABLES nticks,     \* _alt_nticks
          running,    \* _alt_tick_rate is set
          next, prev, \* the links of the alarms and of the list head
          time,       \* alarm->time
          rollover,   \* alarm->rollover
          alarm,      \* alt_tick's alarm; Head when it is not running
          saved,      \* alt_tick's next
          calling     \* the callback of alarm is running

links == <<next, prev>>
locals == <<alarm, saved, calling>>
vars == <<nticks, running, links, time, rollover, locals>>

Init == /\ nticks = 0
        /\ running = FALSE
        /\ next = [x \in Nodes |-> IF x = Head THEN Head ELSE Null]
        /\ prev = [x \in Nodes |-> IF x = Head THEN Head ELSE Null]
        /\ time = [a \in Alarms |-> 0]
        /\ rollover = [a \in Alarms |-> FALSE]
        /\ alarm = Head
        /\ saved = Head
        /\ calling = FALSE

\* Mutant: the sum does not wrap.
PlusUnwrapped(x, y) == x + y

\* Unsigned addition of tick counts.
Plus(x, y) == (x + y) % Modulus

\* An alarm that points to something other than itself is in the list.
Linked(a) == next[a] \notin {a, Null}

\* alt_llist_insert at the head of the list
Insert(e) == /\ next' = [next EXCEPT ![e] = next[Head], ![Head] = e]
             /\ prev' = [prev EXCEPT ![e] = Head, ![next[Head]] = e]

\* alt_llist_remove: the entry is unlinked and then points to itself.
Remove(e) == /\ next' = [next EXCEPT ![prev[e]] = next[e], ![e] = e]
             /\ prev' = [prev EXCEPT ![next[e]] = prev[e], ![e] = e]
-----------------------------------------------------------------------------
(* The API, from the main program between ticks or from a callback. *)

\* alt_sysclk_init, by alt_avalon_timer_sc_init
SysclkInit == /\ ~running
              /\ running' = TRUE
              /\ UNCHANGED <<nticks, links, time, rollover, locals>>

CanCall == alarm = Head \/ calling

\* Mutant: the flag is left from the alarm's last use.
StartKeepFlag(a, n) == /\ running /\ CanCall
                       /\ a # alarm /\ ~Linked(a)
                       /\ time' = [time EXCEPT ![a] = Plus(n, nticks + 1)]
                       /\ Insert(a)
                       /\ UNCHANGED <<nticks, running, rollover, locals>>

\* alt_alarm_start of an alarm that is not registered, nor being called.
Start(a, n) == LET due == Plus(n, nticks + 1)
               IN /\ running /\ CanCall
                  /\ a # alarm /\ ~Linked(a)
                  /\ time' = [time EXCEPT ![a] = due]
                  /\ rollover' = [rollover EXCEPT ![a] = due < nticks]
                  /\ Insert(a)
                  /\ UNCHANGED <<nticks, running, locals>>

\* alt_alarm_stop of an alarm that was started once, registered or not.
Stop(a) == /\ running /\ CanCall
           /\ next[a] # Null
           /\ calling /\ ~StopsNext => a # saved
           /\ Remove(a)
           /\ UNCHANGED <<nticks, running, time, rollover, locals>>
-----------------------------------------------------------------------------
(* alt_tick() *)

TickStart == /\ running /\ alarm = Head
             /\ next[Head] # Head
             /\ nticks' = Plus(nticks, 1)
             /\ alarm' = next[Head]
             /\ UNCHANGED <<running, links, time, rollover, saved, calling>>

TickNothing == /\ running /\ alarm = Head
               /\ next[Head] = Head
               /\ nticks' = Plus(nticks, 1)
               /\ UNCHANGED <<running, links, time, rollover, locals>>

\* The flag as alt_tick leaves it, cleared when the counter has wrapped.
Flag == rollover[alarm] /\ nticks # 0

Due == time[alarm] <= nticks /\ ~Flag

Visit == /\ alarm # Head /\ ~calling
         /\ rollover' = [rollover EXCEPT ![alarm] = Flag]
         /\ \/ /\ Due
               /\ calling' = TRUE
               /\ saved' = next[alarm]
               /\ UNCHANGED alarm
            \/ /\ ~Due
               /\ alarm' = next[alarm]
               /\ saved' = Head
               /\ UNCHANGED calling
         /\ UNCHANGED <<nticks, running, links, time>>

\* Mutant: the next alarm is looked up after the callback.
ReturnUnsaved(p) ==
  /\ calling
  /\ \/ /\ p = 0
        /\ Remove(alarm)
        /\ UNCHANGED <<time, rollover>>
     \/ /\ p # 0
        /\ time' = [time EXCEPT ![alarm] = Plus(@, p)]
        /\ rollover' = [rollover EXCEPT ![alarm] = @ \/ Plus(time[alarm], p) < nticks]
        /\ UNCHANGED links
  /\ calling' = FALSE
  /\ alarm' = next'[alarm]
  /\ saved' = Head
  /\ UNCHANGED <<nticks, running>>

\* The callback returns: the alarm is deactivated or moved on by p ticks, and
\* alt_tick goes on with the alarm it saved.
Return(p) ==
  /\ calling
  /\ \/ /\ p = 0
        /\ Remove(alarm)
        /\ UNCHANGED <<time, rollover>>
     \/ /\ p # 0
        /\ time' = [time EXCEPT ![alarm] = Plus(@, p)]
        /\ rollover' = [rollover EXCEPT ![alarm] = @ \/ Plus(time[alarm], p) < nticks]
        /\ UNCHANGED links
  /\ calling' = FALSE
  /\ alarm' = saved
  /\ saved' = Head
  /\ UNCHANGED <<nticks, running>>

Next == \/ SysclkInit
        \/ \E a \in Alarms : \/ \E n \in Delays : Start(a, n)
                             \/ Stop(a)
        \/ TickStart \/ TickNothing
        \/ Visit
        \/ \E p \in Periods : Return(p)

Spec == Init /\ [][Next]_vars
-----------------------------------------------------------------------------
(* Properties *)

AlarmTypeOK == /\ nticks \in 0 .. (Modulus - 1)
               /\ running \in BOOLEAN /\ calling \in BOOLEAN
               /\ next \in [Nodes -> Nodes \cup {Null}]
               /\ prev \in [Nodes -> Nodes \cup {Null}]
               /\ time \in [Alarms -> 0 .. (Modulus - 1)]
               /\ rollover \in [Alarms -> BOOLEAN]
               /\ alarm \in Nodes /\ saved \in Nodes

\* The list stays doubly linked whatever order alarms are started and stopped
\* in, in callbacks, twice or by their own callback: every entry's neighbours
\* point back to it (alt_llist.h:90-117).
ListLinked == \A x \in Nodes :
  next[x] # Null => prev[next[x]] = x /\ next[prev[x]] = x

Registered == {a \in Alarms : Linked(a)}

\* What is left until an alarm's call, modulo the counter.
Left == [a \in Registered |-> (time[a] + Modulus - nticks) % Modulus]

Timers == INSTANCE TimerQueue WITH left <- Left, None <- Head,
                                   ringing <- IF calling THEN alarm ELSE Head

\* Every callback is called in the tick it is due, never early, never late and
\* once, through every wrap of the counter and of the times: the rollover flag
\* tells on which side of the wrap an alarm is (alt_tick.c:106-137).
IsTimerQueue == Timers!TimerSpec

\* "alt_alarm_stop() is used to unregister a callback" (alt_alarm.h:73): only
\* a registered alarm's callback is called.
CallStep == ~calling /\ calling' => alarm' \in Registered

OnlyRegisteredCalled == [][CallStep]_vars
=============================================================================
