----------------------------- MODULE TimerQueue -----------------------------
(***************************************************************************)
(* What the HAL's alarms promise (alt_alarm.h): an alarm's callback is     *)
(* called when the ticks it was started with have elapsed, then again and  *)
(* again after the ticks its callback returns, until that is 0 or the      *)
(* alarm is stopped.  No tick passes while a call is due.                  *)
(***************************************************************************)
EXTENDS Naturals

CONSTANTS Alarms,   \* the alt_alarm structures of the program
          Delays,   \* arguments of alt_alarm_start
          Periods,  \* values callbacks return
          None      \* not an alarm

VARIABLES left,     \* registered alarm -> ticks until its call
          ringing   \* the alarm whose callback runs

vars == <<left, ringing>>

Registered == DOMAIN left

TimerInit == /\ left = [a \in {} |-> 0]
             /\ ringing = None

\* "The time to elapse until the alarm executes", after the tick under way.
Start(a, n) == /\ a \notin Registered
               /\ left' = [b \in Registered \cup {a} |-> IF b = a THEN n + 1 ELSE left[b]]
               /\ UNCHANGED ringing

Stop(a) == /\ left' = [b \in Registered \ {a} |-> left[b]]
           /\ UNCHANGED ringing

Tick == /\ ringing = None
        /\ \A a \in Registered : left[a] > 0
        /\ left' = [a \in Registered |-> left[a] - 1]
        /\ UNCHANGED ringing

Call(a) == /\ ringing = None
           /\ a \in Registered /\ left[a] = 0
           /\ ringing' = a
           /\ UNCHANGED left

\* A callback that stopped its own alarm returns to nothing.
Return(p) == /\ ringing # None
             /\ left' = [b \in Registered \ (IF p = 0 THEN {ringing} ELSE {}) |->
                           IF b = ringing THEN p ELSE left[b]]
             /\ ringing' = None

TimerNext == \/ \E a \in Alarms : \/ \E n \in Delays : Start(a, n)
                                  \/ Stop(a) \/ Call(a)
             \/ Tick
             \/ \E p \in Periods : Return(p)

TimerSpec == TimerInit /\ [][TimerNext]_vars
=============================================================================
