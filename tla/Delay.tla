------------------------------- MODULE Delay --------------------------------
(***************************************************************************)
(* alt_busy_sleep, which usleep is: loops of a known number of cycles, one *)
(* of INT_MAX turns after another and a last one for the rest.             *)
(***************************************************************************)
EXTENDS Integers

CONSTANTS Width,  \* bits of an int
          PerUs   \* ALT_CPU_FREQ / (cycles_per_loop * 1000000): turns in a microsecond

VARIABLES sleeping,   \* "no", "begin", "big" in the big loops, "rest" after
              \* them, or "short" without any
          us,         \* what is left of the argument
          big_loops,
          turns,      \* %0: the register a loop counts down
          running,    \* a loop is being executed
          least,      \* ghost: turns asked for
          spent       \* ghost: turns made

vars == <<sleeping, us, big_loops, turns, running, least, spent>>

Word == 2^Width
INT_MAX == 2^(Width - 1) - 1

\* Microseconds of a loop of INT_MAX turns
PerLoop == INT_MAX \div PerUs

Init == /\ sleeping = "no" /\ us = 0 /\ big_loops = 0 /\ turns = 0
        /\ running = FALSE /\ least = 0 /\ spent = 0

Sleep(n) == /\ sleeping = "no"
            /\ sleeping' = IF n \div PerLoop > 0 THEN "big" ELSE "begin"
            /\ us' = n /\ big_loops' = n \div PerLoop
            /\ least' = n * PerUs /\ spent' = 0
            /\ UNCHANGED <<turns, running>>

BigLoop == /\ sleeping = "big" /\ ~running /\ big_loops > 0
           /\ turns' = INT_MAX /\ running' = TRUE
           /\ big_loops' = big_loops - 1
           /\ us' = us - PerLoop
           /\ UNCHANGED <<sleeping, least, spent>>

\* The rest, after big loops or without one
LastLoop == /\ sleeping = "begin" \/ (sleeping = "big" /\ big_loops = 0 /\ ~running)
            /\ sleeping' = IF sleeping = "big" THEN "rest" ELSE "short"
            /\ turns' = us * PerUs /\ running' = TRUE
            /\ UNCHANGED <<us, big_loops, least, spent>>

Signed(n) == IF n > INT_MAX THEN n - Word ELSE n
Minus1(n) == (n + Word - 1) % Word

\* addi, then bgt in the loop of a short sleep and bne in all others
GoesOn(n) == IF sleeping = "short" THEN Signed(n) > 0 ELSE n # 0

Turn == /\ running
        /\ turns' = Minus1(turns)
        /\ running' = GoesOn(Minus1(turns))
        /\ spent' = spent + 1
        /\ UNCHANGED <<sleeping, us, big_loops, least>>

Wake == /\ sleeping \in {"rest", "short"} /\ ~running
        /\ sleeping' = "no"
        /\ UNCHANGED <<us, big_loops, turns, running, least, spent>>

Main == BigLoop \/ LastLoop \/ Turn \/ Wake
Next == Main \/ \E n \in 0 .. Word - 1 : Sleep(n)
-----------------------------------------------------------------------------
DelayTypeOK == /\ sleeping \in {"no", "begin", "big", "rest", "short"}
               /\ us \in 0 .. Word - 1 /\ turns \in 0 .. Word - 1
               /\ big_loops \in 0 .. (Word \div PerLoop)

\* A sleep makes the turns it was asked for, and beyond them exactly the rounding
\* of each big loop (alt_busy_sleep.c:74) and, when it is a whole number of big
\* loops, all those of a last loop that counts down from 0 (104-112).
SleepStep ==
    Wake => LET asked == least \div PerUs
                rounding == (asked \div PerLoop) * (INT_MAX % PerUs) + (IF asked = 0 THEN 1 ELSE 0)
                around == IF sleeping = "rest" /\ us = 0 THEN Word ELSE 0
            IN spent = least + rounding + around
=============================================================================
