--------------------------- MODULE NiosLoggerDemo ---------------------------
(***************************************************************************)
(* examples/NiosLoggerDemo/main.c over EquiniosLogger: a main loop, no     *)
(* interrupts, that logs, asks for the number of dropped lines, reports it *)
(* in a line of its own, resets it, and calls log_process.  The demo is    *)
(* written to macros LOGI, LOGD, LOGW and LOGE that equinios.h does not    *)
(* define; they are read as LOG_INFO, LOG_DEBUG, LOG_WARNING, LOG_ERROR.   *)
(***************************************************************************)
EXTENDS EquiniosLogger

CONSTANTS Hello,      \* the messages before the loop, in order
          Heartbeat, Warning, Error,  \* the messages of the loop ...
          Report      \* ... and "Dropped log lines since last check: %lu"

VARIABLES loop,       \* the iteration in thousands, modulo 20
          work,       \* the calls still to make in this iteration
          want,       \* the message of the log_write under way
          seen,       \* the local variable dropped
          reported    \* history: the sum of the numbers logged

demoVars == <<loop, work, want, seen, reported>>

Log1(m) == [call |-> "write", m |-> m]

Do(f) == [call |-> f, m |-> Report]

If(test, calls) == IF test THEN calls ELSE << >>

\* One iteration that logs; the 999 after it only call log_process.
Iteration(k) == <<Log1(Heartbeat)>>
                \o If(k % 5 = 0, <<Log1(Warning)>>)
                \o If(k = 0, <<Log1(Error)>>)
                \o If(k % 10 = 0, <<Do("get")>>)
                \o <<Do("process")>>

\* log_set_level(TRACE), every_n_calls(1) and the provider; then the loop.
Settings == <<Do("level"), Do("every"), Do("provider")>>

DemoInit == /\ Init
            /\ loop = 0
            /\ work = Settings \o [i \in 1 .. Len(Hello) |-> Log1(Hello[i])] \o Iteration(0)
            /\ want = Report
            /\ seen = 0
            /\ reported = 0

\* The next call of main() enters the logger.
Enter == /\ work # << >>
         /\ Head(work).call # "get"
         /\ Call(Head(work).call)
         /\ work' = Tail(work)
         /\ want' = Head(work).m
         /\ reported' = IF Head(work) = Log1(Report) THEN reported + seen ELSE reported
         /\ UNCHANGED <<loop, seen>>

\* dropped = log_get_dropped_lines(); if (dropped > 0u) { LOGW; reset }
GetDropped == /\ work # << >>
              /\ Head(work).call = "get"
              /\ pc["main"] = "idle"
              /\ seen' = dropped
              /\ work' = If(dropped > 0, <<Log1(Report), Do("reset")>>) \o Tail(work)
              /\ UNCHANGED <<vars, loop, want, reported>>

NextIteration == /\ work = << >>
                 /\ pc["main"] = "idle"
                 /\ loop' = (loop + 1) % 20
                 /\ work' = Iteration(loop')
                 /\ UNCHANGED <<vars, want, seen, reported>>

\* With the arguments main() gives.  The clock behind the provider, g_demo_ticks,
\* is left where it is: no property compares the stamps of this program.
Logger == /\ Section("main")
          /\ pc["main"] = "write" => msg'["main"] = want
          /\ pc["main"] = "level" => level' = Max(Levels)
          /\ pc["main"] = "provider" => provider'
          /\ UNCHANGED demoVars

DemoNext == Enter \/ GetDropped \/ NextIteration \/ Logger

DemoSpec == DemoInit /\ [][DemoNext]_<<vars, demoVars>>
-----------------------------------------------------------------------------
\* "Dropped log lines since last check: %lu" (main.c:48): every drop that a
\* reset clears has been part of a number that was logged.
EveryDropReported == forgotten <= reported
=============================================================================
