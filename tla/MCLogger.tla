------------------------------ MODULE MCLogger ------------------------------
(***************************************************************************)
(* The logger at its two grains for TLC, one of them to a behaviour while  *)
(* the other stands still: LockedRing, the lock and the ring it guards,    *)
(* load by load, and EquiniosLogger, whose sections the lock makes whole,  *)
(* with two readers.                                                       *)
(*                                                                         *)
(* LockedRing has two slots, so that its ring is full, empty and wrapped   *)
(* within a few calls.  The logger has a line that overruns its buffers    *)
(* and its ring, and lines of two and three bytes.                         *)
(***************************************************************************)
EXTENDS LockedRing

CONSTANTS LogSize, MsgMax, LineMax, Prefix, Ending, ChunkSize, DefaultEvery, Levels,
          InfoLevel, Messages, EveryArgs, Writers, Processors, Setters,
          MaxWrites, MaxSets, MaxClock

VARIABLES part,  \* "ring" or "logger"
          initialized, level, divider, every, dropped, bytes, provider, ticks, clock,
          running, at, todo, msg, stamp, chunk, out, lines, cut, forgotten, budget

Logger == INSTANCE EquiniosLogger
            WITH Size <- LogSize, ring <- bytes, active <- running, pc <- at

MCOverlong == {[len |-> n, level |-> IF n = 0 THEN 0 ELSE 1, breaks |-> {}] : n \in {0, 1, 8}}

logger == <<initialized, level, divider, every, dropped, bytes, provider, ticks, clock,
            running, at, todo, msg, stamp, chunk, out, lines, cut, forgotten, budget>>
bothVars == <<part, vars, logger>>

BothInit == part \in {"ring", "logger"} /\ Init /\ Logger!Init

RingOnly(A) == part = "ring" /\ A /\ UNCHANGED <<part, logger>>
LoggerOnly(A) == part = "logger" /\ A /\ UNCHANGED <<part, vars>>

BothNext == RingOnly(Next) \/ LoggerOnly(Logger!Next)

\* The Fairness of the one part or of the other
BothSpec ==
    /\ BothInit /\ [][BothNext]_bothVars
    /\ WF_bothVars(RingOnly(Body("main")))
    /\ WF_bothVars(RingOnly(Body("isr")) \/ LoggerOnly(Logger!Section("isr")))
    /\ WF_bothVars(RingOnly(Eret) \/ LoggerOnly(Logger!Eret))
    /\ SF_bothVars(RingOnly(EnableAll) \/ LoggerOnly(Logger!Call("process")))
    /\ SF_bothVars(LoggerOnly(Logger!Section("main")))

\* A line that was not discarded is written whole and once; of another one the
\* first bytes are, and nothing after them (EquiniosLogger.c:52-104, 222-257).
BytesKept == Logger!BytesKept

\* Once the writers are quiet everything queued reaches the terminal
\* (equinios.h:59).
Drains == Logger!Drains
=============================================================================
