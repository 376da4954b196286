--------------------------- MODULE MCKnightRider ----------------------------
(***************************************************************************)
(* KnightRider with the timer of the board for TLC: a period of one        *)
(* microsecond, which nothing reprograms, and a millisecond of more than   *)
(* one.  A wait polls as fast as it likes: the printf calls in its loop,   *)
(* which take what time the host takes, are left out.                      *)
(***************************************************************************)
EXTENDS KnightRider

CONSTANT Period  \* TIMER_0_PERIOD, in microseconds (system.h:328)

\* "1s delay between LEDs" (KnightRiderLight.c:42): a wait that is not given up
\* lasts as long as it was asked for, but for the period under way when it began.
LongStep == wait = "poll" /\ wait' = "none" /\ ms_count = Target
            => (elapsed + 1) * Period >= LED_DELAY

LastsLong == [][LongStep]_vars
=============================================================================
