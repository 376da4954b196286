------------------------------ MODULE MCClock ------------------------------
(***************************************************************************)
(* Clock for TLC: a counter of two bits, so that it wraps again and again  *)
(* under every alarm and within the time of day, three alarms to make a    *)
(* list with a middle, and seconds of two ticks.                           *)
(***************************************************************************)
EXTENDS Clock

MCModulus == 4
MCPeriods == 0 .. 3

\* All but the longest: alt_alarm_start adds 1, and 2^32 - 1 would be due at once.
MCDelays == 0 .. 2

MCSecond == 6
MCTickRate == 2

MCNoTimes == {}

\* The one leaves less than no microseconds, the other a full second.
MCTimes == {[tv_sec |-> 1, tv_usec |-> 2], [tv_sec |-> 1, tv_usec |-> 3]}
=============================================================================
