--------------------------- MODULE EquiniosLogger ---------------------------
(***************************************************************************)
(* The singleton of EquiniosLogger.c behind the facade of equinios.c,      *)
(* called by the main program and by an interrupt handler.  Every critical *)
(* section (EquiniosLock.enter .. exit) is one action: LockedRing shows    *)
(* that the lock makes it one.  Between its critical sections a call of    *)
(* the main program can be interrupted; a handler makes one call and runs  *)
(* to its end.  A byte is the line it belongs to, its place in that line   *)
(* and whether it is a '\n'; the ring is the queue RingBuffer implements.  *)
(***************************************************************************)
EXTENDS Naturals, Sequences, FiniteSetsExt, SequencesExt

CONSTANTS Size,        \* RING_BUFFER_SIZE
          MsgMax,      \* characters vsnprintf leaves in message[]
          LineMax,     \* characters snprintf leaves in line[]
          Prefix,      \* length of "[<timestamp>] "
          Ending,      \* length of "\r\n"
          ChunkSize,   \* EQUINIOS_LOG_PROCESS_CHUNK_SIZE
          DefaultEvery,\* EQUINIOS_LOG_PROCESS_EVERY_N_CALLS_DEFAULT
          Levels,      \* log_level_t, lower is more severe
          InfoLevel,   \* LOG_LEVEL_INFO
          Messages,    \* [len, level, breaks]: length, level, places of '\n'
          EveryArgs,   \* arguments of log_set_process_every_n_calls
          Writers,     \* contexts that call log_write
          Processors,  \* contexts that call log_process
          Setters,     \* contexts that call the other functions
          MaxWrites,   \* bound on the calls of log_write
          MaxSets,     \* bound on the calls of the other functions
          MaxClock     \* bound on the clock behind an external provider

Contexts == {"main", "isr"}

ASSUME LoggerAssumption ==
  /\ {Size, MsgMax, LineMax, ChunkSize, DefaultEvery, Ending} \subseteq Nat \ {0}
  /\ {Prefix, MaxWrites, MaxSets, MaxClock} \subseteq Nat
  /\ Levels \subseteq Nat /\ InfoLevel \in Levels
  /\ EveryArgs \subseteq Nat
  /\ Messages \subseteq [len : Nat, level : Levels, breaks : SUBSET Nat]
  /\ Writers \subseteq Contexts /\ Processors \subseteq Contexts /\ Setters \subseteq Contexts

VARIABLES initialized, level, divider, every, dropped,  \* struct EquiniosLogger
          ring,        \* the bytes in its ring_buffer_, oldest first
          provider,    \* timestamp_provider_ is set
          ticks,       \* ticks_count_ of the timestamp provider
          clock,       \* what the external provider reads
          active,      \* the context on the processor
          pc,          \* the next critical section of each context's call
          todo,        \* the function each context calls
          msg, stamp,  \* log_vwrite's message and timestamp
          chunk,       \* the bytes popped and not yet written by process
          out,         \* the bytes putchar has written
          lines,       \* history: every line enqueued
          cut,         \* history: the lines that lost bytes to a discard
          forgotten,   \* history: the drops that resets have cleared
          budget       \* calls left, by kind

config == <<initialized, level, divider, every, dropped, provider, ticks>>
locals == <<todo, msg, stamp, chunk>>
history == <<lines, cut, forgotten, budget>>
vars == <<config, ring, clock, active, pc, locals, out, history>>

Setting == {"level", "every", "provider", "reset"}

NoMsg == [len |-> 0, level |-> InfoLevel, breaks |-> {}]

NoStamp == [src |-> "tick", time |-> 0]

\* g_instance, and what EquiniosLogger.new() returns once it is initialized.
Init == /\ initialized = FALSE
        /\ level = InfoLevel
        /\ divider = 0
        /\ every = DefaultEvery
        /\ dropped = 0
        /\ ring = << >>
        /\ provider = FALSE
        /\ ticks = 0
        /\ clock = 0
        /\ active = "main"
        /\ pc = [c \in Contexts |-> "idle"]
        /\ todo = [c \in Contexts |-> "process"]
        /\ msg = [c \in Contexts |-> NoMsg]
        /\ stamp = [c \in Contexts |-> NoStamp]
        /\ chunk = [c \in Contexts |-> << >>]
        /\ out = << >>
        /\ lines = << >>
        /\ cut = {}
        /\ forgotten = 0
        /\ budget = [write |-> MaxWrites, set |-> MaxSets]

Step(c, from, to) == /\ active = c
                     /\ pc[c] = from
                     /\ pc' = [pc EXCEPT ![c] = to]
-----------------------------------------------------------------------------
(* equinios.c: every function of the facade asks for the instance first. *)

MayCall(c, f) == \/ f = "write" /\ c \in Writers /\ budget.write > 0
                 \/ f = "process" /\ c \in Processors
                 \/ f \in Setting /\ c \in Setters /\ budget.set > 0

Spend(f) == budget' = CASE f = "write" -> [budget EXCEPT !.write = @ - 1]
                        [] f \in Setting -> [budget EXCEPT !.set = @ - 1]
                        [] OTHER -> budget

Call(f) == /\ Step("main", "idle", "instance")
           /\ MayCall("main", f)
           /\ todo' = [todo EXCEPT !["main"] = f]
           /\ Spend(f)
           /\ UNCHANGED <<config, ring, clock, active, msg, stamp, chunk, out,
                          lines, cut, forgotten>>

\* Interrupts are enabled wherever the main program is between two sections.
Interrupt(f) == /\ active = "main"
                /\ MayCall("isr", f)
                /\ active' = "isr"
                /\ pc' = [pc EXCEPT !["isr"] = "instance"]
                /\ todo' = [todo EXCEPT !["isr"] = f]
                /\ Spend(f)
                /\ UNCHANGED <<config, ring, clock, msg, stamp, chunk, out,
                               lines, cut, forgotten>>

Eret == /\ active = "isr"
        /\ pc["isr"] = "idle"
        /\ active' = "main"
        /\ UNCHANGED <<config, ring, clock, pc, locals, out, history>>

\* logger_ensure_initialized, the first critical section of every call.
Instance(c) == /\ Step(c, "instance", todo[c])
               /\ \/ /\ ~initialized
                     /\ ring' = << >>
                     /\ provider' = FALSE
                     /\ ticks' = 0
                     /\ initialized' = TRUE
                  \/ /\ initialized
                     /\ UNCHANGED <<ring, provider, ticks, initialized>>
               /\ UNCHANGED <<level, divider, every, dropped, clock, active,
                              locals, out, history>>
-----------------------------------------------------------------------------
(* log_vwrite *)

\* The level is compared in a critical section of its own.
CheckLevel(c) == \E m \in Messages :
  /\ \/ /\ m.level > level
        /\ Step(c, "write", "idle")
        /\ UNCHANGED msg
     \/ /\ m.level <= level
        /\ Step(c, "write", "stamp")
        /\ msg' = [msg EXCEPT ![c] = m]
  /\ UNCHANGED <<config, ring, clock, active, todo, stamp, chunk, out, history>>

\* Mutant: the counter is read but not advanced.
GetTimestampStuck(c) ==
  /\ Step(c, "stamp", "enqueue")
  /\ stamp' = [stamp EXCEPT ![c] = IF provider THEN [src |-> "clock", time |-> clock]
                                   ELSE [src |-> "tick", time |-> ticks]]
  /\ UNCHANGED <<config, ring, clock, active, todo, msg, chunk, out, history>>

\* The timestamp is taken in the next one ...
GetTimestamp(c) ==
  /\ Step(c, "stamp", "enqueue")
  /\ \/ /\ provider
        /\ stamp' = [stamp EXCEPT ![c] = [src |-> "clock", time |-> clock]]
        /\ UNCHANGED ticks
     \/ /\ ~provider
        /\ stamp' = [stamp EXCEPT ![c] = [src |-> "tick", time |-> ticks]]
        /\ ticks' = ticks + 1
  /\ UNCHANGED <<initialized, level, divider, every, dropped, provider, ring, clock,
                 active, todo, msg, chunk, out, history>>

\* "[ts] message\r\n": both buffers truncate, so a long message loses its '\n'.
Formatted(m, id) ==
  LET body == Min({m.len, MsgMax})
      whole == Prefix + body + Ending
  IN [i \in 1 .. Min({whole, LineMax}) |->
        [line |-> id, pos |-> i,
         nl |-> i = whole \/ (i - Prefix \in m.breaks /\ i <= Prefix + body)]]

\* Only the last Size bytes of a line longer than the ring are stored.
Stored(line) ==
  LET skip == Len(line) - Min({Len(line), Size})
  IN [i \in 1 .. (Len(line) - skip) |-> [line[skip + i] EXCEPT !.pos = i]]

\* Where ring_buffer_discard_oldest_line stops: after a '\n', or when empty.
LineEnds == {i \in 1 .. Len(ring) : ring[i].nl \/ i = Len(ring)}

\* Mutant: lines are discarded while the free space is no more than needed.
DiscardMore(need) == Min({d \in {0} \cup LineEnds :
                            Size - (Len(ring) - d) > need \/ d = Len(ring)})

\* The bytes the discard loop takes: whole lines, oldest first, while the free
\* space is too small and the ring is not empty.
Discard(need) == Min({d \in {0} \cup LineEnds :
                        Size - (Len(ring) - d) >= need \/ d = Len(ring)})

\* Mutant: a call that discards counts one drop, however many lines it takes.
CountDropOnce(d) == IF d > 0 THEN 1 ELSE 0

\* dropped_lines_++ for every line discarded.
CountDrop(d) == Cardinality({i \in LineEnds : i <= d})

\* The bytes pushed one by one; push() refuses those past Size.
Pushed(queue, line) ==
  SubSeq(queue \o line, 1, Min({Size, Len(queue) + Len(line)}))

\* ... and logger_enqueue_line runs in the last.
Enqueue(c) ==
  LET line == Stored(Formatted(msg[c], Len(lines) + 1))
      d == Discard(Len(line))
  IN /\ Step(c, "enqueue", "idle")
     /\ ring' = Pushed(SubSeq(ring, d + 1, Len(ring)), line)
     /\ dropped' = dropped + CountDrop(d)
     /\ lines' = Append(lines, [by |-> c, stamp |-> stamp[c], len |-> Len(line)])
     /\ cut' = cut \cup {ring[i].line : i \in 1 .. d}
     /\ msg' = [msg EXCEPT ![c] = NoMsg]
     /\ stamp' = [stamp EXCEPT ![c] = NoStamp]
     /\ UNCHANGED <<initialized, level, divider, every, provider, ticks, clock,
                    active, todo, chunk, out, forgotten, budget>>
-----------------------------------------------------------------------------
(* log_process *)

\* Mutant: a call that does not flush leaves the divider alone.
ShouldProcessStuck(c) ==
  /\ Step(c, "process", IF divider + 1 >= every THEN "pop" ELSE "idle")
  /\ UNCHANGED <<config, ring, clock, active, locals, out, history>>

ShouldProcess(c) ==
  /\ \/ /\ divider + 1 >= every
        /\ Step(c, "process", "pop")
        /\ divider' = 0
     \/ /\ divider + 1 < every
        /\ Step(c, "process", "idle")
        /\ divider' = divider + 1
  /\ UNCHANGED <<initialized, level, every, dropped, provider, ticks, ring, clock,
                 active, locals, out, history>>

\* Mutant: the chunk is copied and its bytes stay in the ring.
PopChunkKeep(c) ==
  LET n == Min({ChunkSize, Len(ring)})
  IN /\ Step(c, "pop", IF n = 0 THEN "idle" ELSE "put")
     /\ chunk' = [chunk EXCEPT ![c] = SubSeq(ring, 1, n)]
     /\ ring' = SubSeq(ring, Max({n, 1}), Len(ring))
     /\ UNCHANGED <<config, clock, active, todo, msg, stamp, out, history>>

\* pop_chunk_from_buffer: process ends when there is nothing left.
PopChunk(c) ==
  LET n == Min({ChunkSize, Len(ring)})
  IN /\ Step(c, "pop", IF n = 0 THEN "idle" ELSE "put")
     /\ chunk' = [chunk EXCEPT ![c] = SubSeq(ring, 1, n)]
     /\ ring' = SubSeq(ring, n + 1, Len(ring))
     /\ UNCHANGED <<config, clock, active, todo, msg, stamp, out, history>>

\* putchar for each byte of the chunk, outside the lock.
PutChar(c) == /\ Step(c, "put", IF Len(chunk[c]) = 1 THEN "pop" ELSE "put")
              /\ out' = Append(out, Head(chunk[c]))
              /\ chunk' = [chunk EXCEPT ![c] = Tail(@)]
              /\ UNCHANGED <<config, ring, clock, active, todo, msg, stamp, history>>
-----------------------------------------------------------------------------
(* The other functions: one critical section each. *)

SetLevel(c) == /\ Step(c, "level", "idle")
               /\ level' \in Levels
               /\ UNCHANGED <<initialized, divider, every, dropped, provider, ticks,
                              ring, clock, active, locals, out, history>>

\* Mutant: a new period keeps the calls counted towards the old one.
SetEveryKeep(c) == /\ Step(c, "every", "idle")
                   /\ \E n \in EveryArgs : every' = Max({n, 1})
                   /\ UNCHANGED <<initialized, level, divider, dropped, provider, ticks,
                                  ring, clock, active, locals, out, history>>

SetEvery(c) == /\ Step(c, "every", "idle")
               /\ \E n \in EveryArgs : every' = Max({n, 1})
               /\ divider' = 0
               /\ UNCHANGED <<initialized, level, dropped, provider, ticks,
                              ring, clock, active, locals, out, history>>

\* set_provider refuses NULL and keeps the provider it has.
SetProvider(c) == /\ Step(c, "provider", "idle")
                  /\ \E nonNull \in BOOLEAN : provider' = (provider \/ nonNull)
                  /\ UNCHANGED <<initialized, level, divider, every, dropped, ticks,
                                 ring, clock, active, locals, out, history>>

ResetDropped(c) == /\ Step(c, "reset", "idle")
                   /\ dropped' = 0
                   /\ forgotten' = forgotten + dropped
                   /\ UNCHANGED <<initialized, level, divider, every, provider, ticks,
                                  ring, clock, active, locals, out, lines, cut, budget>>

\* The clock of an external provider (alt_nticks) advances at any time.
Tick == /\ clock < MaxClock
        /\ clock' = clock + 1
        /\ UNCHANGED <<config, ring, active, pc, locals, out, history>>

Section(c) == \/ Instance(c)
              \/ CheckLevel(c) \/ GetTimestamp(c) \/ Enqueue(c)
              \/ ShouldProcess(c) \/ PopChunk(c) \/ PutChar(c)
              \/ SetLevel(c) \/ SetEvery(c) \/ SetProvider(c) \/ ResetDropped(c)

Next == \/ \E f \in {"write", "process"} \cup Setting : Call(f) \/ Interrupt(f)
        \/ \E c \in Contexts : Section(c)
        \/ Eret
        \/ Tick

Spec == Init /\ [][Next]_vars
-----------------------------------------------------------------------------
(* Properties *)

Bytes(id) == [line : {id}, pos : 1 .. lines[id].len, nl : BOOLEAN]

\* "Configure how often log_process flushes (every N calls)" (equinios.h:44): a
\* flush is never more than N calls away, whenever and from whichever context
\* the period was changed.
FlushWithinPeriod == divider < every

LoggerTypeOK ==
  /\ initialized \in BOOLEAN /\ provider \in BOOLEAN
  /\ level \in Levels
  /\ every \in Nat \ {0}
  /\ {divider, dropped, ticks, forgotten} \subseteq Nat
  /\ clock \in 0 .. MaxClock
  /\ Len(ring) <= Size
  /\ \A c \in Contexts : Len(chunk[c]) <= ChunkSize
  /\ \A s \in {ring, out, chunk["main"], chunk["isr"]} :
        \A i \in DOMAIN s : s[i].line \in DOMAIN lines /\ s[i] \in Bytes(s[i].line)
  /\ active \in Contexts
  /\ todo \in [Contexts -> {"write", "process"} \cup Setting]
  /\ pc \in [Contexts -> {"idle", "instance", "write", "stamp", "enqueue", "process",
                          "pop", "put"} \cup Setting]
  /\ msg \in [Contexts -> Messages \cup {NoMsg}]
  /\ cut \subseteq DOMAIN lines
  /\ FlushWithinPeriod

\* The places of line id that are on the terminal, or still on their way there.
Reached(id) == {b.pos : b \in {x \in ToSet(out) : x.line = id}}

Coming(id) == {b.pos : b \in {x \in ToSet(chunk["main"]) \cup ToSet(chunk["isr"])
                                   \cup ToSet(ring) : x.line = id}}

\* Whatever the two contexts interleave, a line loses at most its end: the bytes
\* of it that were or will be written are its first ones, all of them unless it
\* was discarded, and a line once discarded leaves nothing in the ring
\* (logger_enqueue_line against pop_chunk_from_buffer).
OnlyEndsAreCut ==
  \A id \in DOMAIN lines :
     \E k \in 0 .. lines[id].len :
        /\ Reached(id) \cup Coming(id) = 1 .. k
        /\ id \in cut <=> k < lines[id].len
        /\ id \in cut => \A b \in ToSet(ring) : b.line # id

\* No byte is written twice, or written and queued again, even when both
\* contexts run process() at once.
NoByteTwice ==
  Cardinality(ToSet(out) \cup ToSet(chunk["main"]) \cup ToSet(chunk["isr"]) \cup ToSet(ring))
    = Len(out) + Len(chunk["main"]) + Len(chunk["isr"]) + Len(ring)

\* A line that was not discarded is written whole and once; of another one the
\* first bytes are, and nothing after them (EquiniosLogger.c:52-104, 222-257).
BytesKept == OnlyEndsAreCut /\ NoByteTwice

\* "Get count of log lines dropped due to ring buffer overflow" (equinios.h:50):
\* every line that lost bytes was counted, since the start or the last reset,
\* once, and nothing else was.
DropsCounted == dropped + forgotten = Cardinality(cut)

\* A line that takes its timestamp from the tick counter shares it with no
\* other, and although the stamp is taken and the line queued in separate sections
\* (EquiniosLogger.c:195-202), lines are queued in the order of their stamps, but
\* for one disorder: handlers that came between the two sections of a call of the
\* main program have their later stamps in front of its line.
StampsOrdered ==
  \A i, j \in DOMAIN lines :
     i < j /\ lines[i].stamp.src = lines[j].stamp.src =>
       /\ lines[j].by \in {lines[i].by, "isr"} => lines[i].stamp.time <= lines[j].stamp.time
       /\ lines[i].stamp.src = "tick" => lines[i].stamp.time # lines[j].stamp.time

\* The bytes on their way: popped by the main program, then the ring.
Log == INSTANCE LossyLog WITH Capacity <- Size, InFlight <- ChunkSize,
                              backlog <- chunk["main"] \o ring,
                              accepted <- Len(lines)

\* With one context calling log_process, the terminal shows the queued bytes in
\* order, and a line that does not fit costs the oldest queued lines, whole,
\* and no more of them than the room it needs.
IsLossyLog == Log!LogSpec

Empty == ring = << >> /\ \A c \in Contexts : chunk[c] = << >>

\* The main program gets processor time between interrupts, handlers return,
\* and the main loop keeps calling log_process ("Call periodically from main
\* loop or timer tick", equinios.h:59).
Fairness == /\ SF_vars(Section("main"))
            /\ WF_vars(Section("isr"))
            /\ WF_vars(Eret)
            /\ SF_vars(Call("process"))

FairSpec == Spec /\ Fairness

\* Once the writers are quiet everything queued reaches the terminal, whatever
\* interrupts log_process and however the flush period is changed.
Drains == []<>Empty
=============================================================================
