------------------------------- MODULE Clock -------------------------------
(***************************************************************************)
(* The system clock: the interval timer with its interrupt and the handler *)
(* that calls alt_tick, on top of the alarms, and the time of day that     *)
(* settimeofday and gettimeofday count from the same ticks.  The handler   *)
(* runs with interrupts off; the program runs when it does not.            *)
(***************************************************************************)
EXTENDS AlarmList, Integers

CONSTANTS ALT_US,   \* microseconds in a second
          TickRate, \* ticks in a second; what alt_sysclk_init is given
          Times     \* arguments of settimeofday

Seconds == [tv_sec : Nat, tv_usec : 0 .. (ALT_US - 1)]

\* ALTERA_AVALON_TIMER_FREQ rounds: a rate that does not divide ALT_US would
\* make the microseconds of gettimeofday jump.
ASSUME ClockAssumption == /\ ALT_US \in Nat \ {0} /\ TickRate \in Nat \ {0}
                          /\ ALT_US % TickRate = 0
                          /\ Times \subseteq Seconds

VARIABLES started,    \* CONTROL: ITO, CONT and START
          timeout,    \* STATUS.TO, which requests the interrupt
          registered, \* the handler is in the table and its line enabled
          isr,        \* "none", or where alt_avalon_timer_sc_irq is
          elapsed,    \* periods the timer has counted, modulo Modulus
          resettime,  \* alt_resettime
          settime,    \* ghost: microseconds of the time that was set last
          since       \* ghost: ticks since it was, Lost when they do not count

timer == <<started, timeout, registered, isr, elapsed>>
today == <<resettime, settime, since>>
clockVars == <<vars, timer, today>>

\* The time of day is no longer promised: the counter has wrapped since it was
\* set, or it was set when the product below did not fit.
Lost == -1

ClockInit == /\ Init
             /\ started = FALSE /\ timeout = FALSE /\ registered = FALSE
             /\ isr = "none" /\ elapsed = 0
             /\ resettime = [tv_sec |-> 0, tv_usec |-> 0]
             /\ settime = 0 /\ since = 0
-----------------------------------------------------------------------------
(* alt_avalon_timer_sc_init, one call or register access per action *)

SetRate == /\ SysclkInit
           /\ UNCHANGED <<timer, today>>

StartTimer == /\ running /\ ~started
              /\ started' = TRUE
              /\ UNCHANGED <<vars, timeout, registered, isr, elapsed, today>>

RegisterTimer == /\ started /\ ~registered
                 /\ registered' = TRUE
                 /\ UNCHANGED <<vars, started, timeout, isr, elapsed, today>>

\* The timer comes to the end of a period.  The handler is taken to begin
\* before the next one ends: the register cannot count them.
Period == /\ started /\ ~timeout
          /\ timeout' = TRUE
          /\ elapsed' = Plus(elapsed, 1)
          /\ UNCHANGED <<vars, started, registered, isr, today>>
-----------------------------------------------------------------------------
(* alt_avalon_timer_sc_irq *)

\* Mutant: the time-out bit is not cleared.
TimerIrqKeep == /\ registered /\ timeout /\ isr = "none"
                /\ isr' = "tick"
                /\ UNCHANGED <<vars, started, timeout, registered, elapsed, today>>

\* The interrupt is taken and STATUS cleared before the tick is counted.
TimerIrq == /\ registered /\ timeout /\ isr = "none"
            /\ isr' = "tick"
            /\ timeout' = FALSE
            /\ UNCHANGED <<vars, started, registered, elapsed, today>>

Tick == /\ isr = "tick"
        /\ TickStart \/ TickNothing
        /\ isr' = "ticking"
        /\ IF since # Lost /\ nticks + 1 < Modulus
           THEN since' = since + 1 /\ UNCHANGED settime
           ELSE since' = Lost /\ settime' = 0
        /\ UNCHANGED <<started, timeout, registered, elapsed, resettime>>

InTick == /\ isr = "ticking"
          /\ Visit \/ \E p \in Periods : Return(p)
          /\ UNCHANGED <<timer, today>>

IrqReturn == /\ isr = "ticking" /\ alarm = Head
             /\ isr' = "none"
             /\ UNCHANGED <<vars, started, timeout, registered, elapsed, today>>

Handler == TimerIrq \/ Tick \/ InTick \/ IrqReturn
-----------------------------------------------------------------------------
(* The program, and the callbacks *)

Program == registered /\ (isr = "none" \/ calling)

UseAlarm == /\ Program
            /\ \E a \in Alarms : \/ \E n \in Delays : Start(a, n)
                                 \/ Stop(a)
            /\ UNCHANGED <<timer, today>>

\* Microseconds of a tick, as both functions compute it
PerTick == ALT_US \div TickRate

\* The two loops of gettimeofday; neither goes round twice, the microseconds
\* being the sum of two that are less than a second in size.
Normal(t) ==
  IF t.tv_usec < 0
  THEN IF t.tv_sec <= 0 THEN [tv_sec |-> 0, tv_usec |-> 0]
                        ELSE [tv_sec |-> t.tv_sec - 1, tv_usec |-> t.tv_usec + ALT_US]
  ELSE IF t.tv_usec >= ALT_US
       THEN [tv_sec |-> t.tv_sec + 1, tv_usec |-> t.tv_usec - ALT_US]
       ELSE t

\* What gettimeofday gives when it reads n ticks: the product has 64 bits.
TimeOfDay(n) == Normal([tv_sec |-> resettime.tv_sec + n \div TickRate,
                        tv_usec |-> resettime.tv_usec + ((n * PerTick) % ALT_US)])

Microseconds(t) == t.tv_sec * ALT_US + t.tv_usec

\* The ticks' microseconds fit in the 32 bits settimeofday computes them in.
Exact == nticks * PerTick < Modulus

Remember(t) == IF Exact THEN settime' = Microseconds(t) /\ since' = 0
                        ELSE settime' = 0 /\ since' = Lost

\* Mutant: what the counter shows is not taken off.
SetTimeWhole(t) == /\ Program /\ running
                   /\ resettime' = [tv_sec |-> t.tv_sec - nticks \div TickRate,
                                    tv_usec |-> t.tv_usec]
                   /\ Remember(t)
                   /\ UNCHANGED <<vars, timer>>

\* settimeofday: the product has 32 bits.
SetTime(t) == /\ Program /\ running
              /\ resettime' = [tv_sec |-> t.tv_sec - nticks \div TickRate,
                               tv_usec |-> t.tv_usec - (((nticks * PerTick) % Modulus) % ALT_US)]
              /\ Remember(t)
              /\ UNCHANGED <<vars, timer>>

ClockNext == \/ SetRate \/ StartTimer \/ RegisterTimer \/ Period \/ Handler
             \/ UseAlarm
             \/ \E t \in Times : SetTime(t)

ClockSpec == ClockInit /\ [][ClockNext]_clockVars

\* The handler keeps executing, its callbacks return and the drivers' start-up
\* is completed; neither the timer nor the program need do anything.
FairClockSpec == /\ ClockSpec
                 /\ WF_clockVars(SetRate \/ StartTimer \/ RegisterTimer)
                 /\ WF_clockVars(Handler)
-----------------------------------------------------------------------------
(* Properties *)

\* The values resettime takes are bounded by what it is set to and the counter.
ClockTypeOK == /\ AlarmTypeOK
               /\ started \in BOOLEAN /\ timeout \in BOOLEAN /\ registered \in BOOLEAN
               /\ isr \in {"none", "tick", "ticking"}
               /\ elapsed \in 0 .. (Modulus - 1)
               /\ resettime \in [tv_sec : Int, tv_usec : (1 - ALT_US) .. (ALT_US - 1)]
               /\ settime \in Nat /\ since \in {Lost} \cup 0 .. (Modulus - 1)

\* No tick is lost or counted twice: the counter is behind the timer by the
\* period that still waits for the handler and the one the handler is about to
\* count, although a period may end while the handler runs, or before it is
\* registered (altera_avalon_timer_sc.c:62).
One(b) == IF b THEN 1 ELSE 0

TicksCounted == elapsed = Plus(nticks, One(timeout) + One(isr = "tick"))

\* gettimeofday gives "the elapsed number of system clock ticks" (alt_gettod.c:58)
\* on top of the time of the last settimeofday, or zero before one: carried and
\* borrowed across the second, and right after a call the very time that was set
\* (alt_settod.c:56).  The code promises no more once the counter has wrapped,
\* 2^32 ticks after the reset, when the time of day jumps back; nor for a time
\* set later than 71 minutes, whose product no longer fits in 32 bits.
TimeIsKept ==
  running /\ since # Lost =>
    /\ Microseconds(TimeOfDay(nticks)) = settime + since * PerTick
    /\ TimeOfDay(nticks).tv_usec \in 0 .. (ALT_US - 1)

\* Every period the timer counts is answered by a tick and its alarms: the
\* handler is entered and left again.
TimerServed == (timeout ~> isr = "tick") /\ []<>(isr = "none")
=============================================================================
