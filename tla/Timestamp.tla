----------------------------- MODULE Timestamp ------------------------------
(***************************************************************************)
(* The timestamp service over an interval timer that counts down once from *)
(* its full period.  The count is read in two halves from a snapshot; a    *)
(* handler may read the time between the two.                              *)
(***************************************************************************)
EXTENDS Integers

CONSTANTS Half  \* values of one half of the counter, 2^16

VARIABLES freq,     \* altera_avalon_timer_ts_freq is not 0: a timer is registered
          counter, run,  \* of the timer
          age,      \* ghost: periods since alt_timestamp_start; 0 again after a roll-over
          snap,     \* the snapshot register
          reading,  \* "idle", or the half that alt_timestamp reads next
          lower,
          result,   \* what it returned last
          taken,    \* ghost: the age when it took its snapshot
          again     \* ghost: a handler has taken another one since

timer == <<counter, run, age>>
vars == <<freq, timer, snap, reading, lower, result, taken, again>>

Full == Half * Half - 1

Init == /\ freq \in BOOLEAN
        /\ counter = Full /\ run = FALSE /\ age = 0 /\ snap = 0
        /\ reading = "idle" /\ lower = 0 /\ result = 0 /\ taken = 0 /\ again = FALSE

\* Without a timer it returns -1 and does nothing.
Start == /\ freq /\ reading = "idle"
         /\ counter' = Full /\ run' = TRUE /\ age' = 0
         /\ UNCHANGED <<freq, snap, reading, lower, result, taken, again>>

\* The timer does not run in continuous mode: it stops with its period reloaded.
Count == /\ run
         /\ counter' = IF counter = 0 THEN Full ELSE counter - 1
         /\ age' = IF counter = 0 THEN 0 ELSE age + 1
         /\ run' = (counter # 0)
         /\ UNCHANGED <<freq, snap, reading, lower, result, taken, again>>

Unavailable == /\ ~freq /\ reading = "idle"
               /\ result' = Full
               /\ UNCHANGED <<freq, timer, snap, reading, lower, taken, again>>

Snapshot == /\ freq /\ reading = "idle"
            /\ snap' = counter /\ taken' = age /\ again' = FALSE
            /\ reading' = "lower"
            /\ UNCHANGED <<freq, timer, lower, result>>

ReadLower == /\ reading = "lower"
             /\ lower' = snap % Half
             /\ reading' = "upper"
             /\ UNCHANGED <<freq, timer, snap, result, taken, again>>

\* Mutant: the upper half is read from the counter that runs on.
ReadUpperLive == /\ reading = "upper"
                 /\ result' = Full - ((counter \div Half) * Half + lower)
                 /\ reading' = "idle"
                 /\ UNCHANGED <<freq, timer, snap, lower, taken, again>>

ReadUpper == /\ reading = "upper"
             /\ result' = Full - ((snap \div Half) * Half + lower)
             /\ reading' = "idle"
             /\ UNCHANGED <<freq, timer, snap, lower, taken, again>>

\* A handler calls alt_timestamp, whole.
HandlerReads == /\ freq /\ reading # "idle"
                /\ snap' = counter /\ again' = TRUE
                /\ UNCHANGED <<freq, timer, reading, lower, result, taken>>

Next == \/ Start \/ Count \/ Unavailable \/ Snapshot \/ ReadLower \/ ReadUpper
        \/ HandlerReads
-----------------------------------------------------------------------------
TimestampTypeOK == /\ counter \in 0 .. Full /\ snap \in 0 .. Full /\ result \in 0 .. Full
                   /\ lower \in 0 .. Half - 1 /\ age \in 0 .. Full
                   /\ reading \in {"idle", "lower", "upper"}

\* alt_timestamp returns the periods since the start at the moment of its
\* snapshot, however long the two halves take to read.  After a roll-over that is
\* 0, as altera_avalon_timer_ts.c:57-58 says and 92-94 does not: -1 comes only
\* without a timer.  The snapshot is the timer's only one, and a handler that reads
\* the time in between moves it: then the result is made of two, but while the
\* timer runs it is not before the call's own and at most a half ahead of now.
StampStep == ReadUpper => /\ again \/ result' = taken
                          /\ run => result' \in taken .. age + Half - 1
=============================================================================
