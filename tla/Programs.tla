------------------------------ MODULE Programs ------------------------------
(***************************************************************************)
(* The programs and services that share no state with one another: the     *)
(* running light, the polling UART driver, the printing below the C        *)
(* library, heap and profiler, cache calls, busy sleep, timestamp and      *)
(* device channels.  A behaviour runs one of them; the others stand still. *)
(***************************************************************************)
EXTENDS Integers, Sequences

CONSTANTS LED_DELAY, UsPerMs, IterationsPerMs,
          Byte, RxDepth, TxDepth, TxThreshold, Messages, Spaces,
          W, ALT_LOG_FLAGS, AltPrints, LogPrints, Puts, Writes, EchoLen, Interval, IsrLine,
          Bursts,
          HeapBytes, Struct, Slab, Text, Bucket, Arcs, HandlerArcs, Increments, Frame,
          MaxCalls, MaxMallocs,
          Line, Lines, Sets, HandlerLines,
          Width, PerUs,
          Half,
          Devices, NULL, NoName, MaxRequests

VARIABLES program,
          pc, todo, wait, ms_count, iteration_count, started, timeout, outputs, pressed,
          elapsed, shown,
          rxFifo, txFifo, active, call, nonblock, space, received, offered, wspace,
          level, routine, fmt, args, state, spec, out, ready, isr, isrReady, clock, room,
          asked, printed, lost, bursts,
          heap, sp, entries, slab_ptr, slab_size, structs, refused, at, arc, entry, node,
          count, pcsample_need_init, rate, starts, sampled, done, raced, late,
          kind, cached, dirty, job, start, len, i, more, touched, gone, uncached,
          sleeping, us, big_loops, turns, running, least, spent,
          freq, counter, run, age, snap, reading, lower, result, taken, again,
          list, since, errno, handle, posted, accepted, seen, forwarded

Light == INSTANCE KnightRider
Uart == INSTANCE JtagUartSmall
Printer == INSTANCE Console
Profiler == INSTANCE Profile
Caches == INSTANCE Cache
Sleeper == INSTANCE Delay
Stamps == INSTANCE Timestamp
Dma == INSTANCE Channels

\* The sizes of the hardware FIFOs, and the arguments of read and write.
ASSUME UartAssumption ==
  /\ RxDepth \in Nat \ {0} /\ TxDepth \in Nat \ {0}
  /\ Messages \subseteq Seq(Byte) /\ Spaces \subseteq Nat

ASSUME LightAssumption ==
  LED_DELAY \in Nat /\ UsPerMs \in Nat \ {0} /\ IterationsPerMs \in Nat

ASSUME PrinterAssumption == {Interval, IsrLine, Bursts} \subseteq Nat

\* A slab holds an entry, and the program is a whole number of buckets: the samples
\* of a last one that is cut short would lie past the histogram (alt_gmon.c:265).
\* Heap and stack share a memory of whole words (linker.x:370-386); a call is told by
\* its two ends.
ASSUME ProfilerAssumption ==
  /\ HeapBytes \in Nat /\ HeapBytes % 4 = 0 /\ Frame \in Nat /\ Increments \subseteq Nat
  /\ Arcs # {} /\ \A x \in Arcs : x = [self |-> x.self, from |-> x.from]
  /\ Struct \in Nat \ {0} /\ Slab \in Nat /\ Struct <= Slab
  /\ Text \in Nat /\ Bucket \in Nat \ {0} /\ Text % Bucket = 0

ASSUME CacheAssumption == Line \in Nat \ {0} /\ Lines \in Nat /\ Sets \in Nat \ {0}

\* A microsecond's turns fit in an int.
ASSUME SleeperAssumption ==
  Width \in Nat \ {0} /\ PerUs \in Nat \ {0} /\ PerUs <= 2^(Width - 1) - 1

ASSUME StampsAssumption == Half \in Nat \ {0}

ASSUME ChannelsAssumption ==
  /\ NULL \notin Devices /\ MaxRequests \in Nat
  /\ \A d \in Devices : d.kind \in {"rx", "tx", "flash"} /\ d.depth \in Nat
-----------------------------------------------------------------------------
light == <<pc, todo, wait, ms_count, iteration_count, started, timeout, outputs, pressed,
           elapsed, shown>>
uartCall == <<call, nonblock, space, received, offered, wspace>>
uart == <<rxFifo, txFifo, active, uartCall>>
printer == <<level, routine, fmt, args, state, spec, out, ready, isr, isrReady, clock, room,
             asked, printed, lost, bursts>>
profiler == <<heap, sp, entries, slab_ptr, slab_size, structs, refused, at, arc, entry, node,
              count, pcsample_need_init, rate, starts, sampled, done, raced, late>>
cache == <<kind, cached, dirty, job, start, len, i, more, touched, gone, uncached>>
sleeper == <<sleeping, us, big_loops, turns, running, least, spent>>
stamps == <<freq, counter, run, age, snap, reading, lower, result, taken, again>>
channels == <<list, since, errno, handle, posted, accepted, seen, forwarded>>
vars == <<program, light, uart, printer, profiler, cache, sleeper, stamps, channels>>

\* A choice that belongs to a program is made only when it runs.
Init == /\ program \in {"light", "uart", "printer", "profiler", "cache", "sleeper", "stamps",
                      "channels"}
        /\ Light!Init /\ (program # "light" => ~pressed)
        /\ Uart!Init
        /\ Printer!Init /\ (program # "printer" => level = 0)
        /\ Profiler!Init /\ (program # "profiler" => ~rate)
        /\ Caches!Init /\ (program # "cache" => kind = "data")
        /\ Sleeper!Init
        /\ Stamps!Init /\ (program # "stamps" => ~freq)
        /\ Dma!Init

NotLight == UNCHANGED <<program, uart, printer, profiler, cache, sleeper, stamps, channels>>
NotUart == UNCHANGED <<program, light, printer, profiler, cache, sleeper, stamps, channels>>
NotPrinter == UNCHANGED <<program, light, uart, profiler, cache, sleeper, stamps, channels>>
NotProfiler == UNCHANGED <<program, light, uart, printer, cache, sleeper, stamps, channels>>
NotCache == UNCHANGED <<program, light, uart, printer, profiler, sleeper, stamps, channels>>
NotSleeper == UNCHANGED <<program, light, uart, printer, profiler, cache, stamps, channels>>
NotStamps == UNCHANGED <<program, light, uart, printer, profiler, cache, sleeper, channels>>
NotChannels == UNCHANGED <<program, light, uart, printer, profiler, cache, sleeper, stamps>>

Next == \/ program = "light" /\ Light!Next /\ NotLight
        \/ program = "uart" /\ Uart!Next /\ NotUart
        \/ program = "printer" /\ Printer!Next /\ NotPrinter
        \/ program = "profiler" /\ Profiler!Next /\ NotProfiler
        \/ program = "cache" /\ Caches!Next /\ NotCache
        \/ program = "sleeper" /\ Sleeper!Next /\ NotSleeper
        \/ program = "stamps" /\ Stamps!Next /\ NotStamps
        \/ program = "channels" /\ Dma!Next /\ NotChannels

Spec == Init /\ [][Next]_vars

\* The processor executes the program, a handler that was entered comes to its
\* end, and a host that is there empties the FIFO.
ProgramsSpec ==
    /\ Spec
    /\ WF_vars(program = "light" /\ Light!Main /\ NotLight)
    /\ WF_vars(/\ program = "uart" /\ NotUart
               /\ Uart!Driver \/ (Uart!HostTake /\ UNCHANGED uartCall))
    /\ WF_vars(program = "printer" /\ (Printer!Main \/ Printer!Handler \/ Printer!HostTake) /\ NotPrinter)
-----------------------------------------------------------------------------
ProgramsTypeOK == /\ Light!LightTypeOK /\ Uart!SmallTypeOK /\ Printer!ConsoleTypeOK
                  /\ Profiler!ProfileTypeOK /\ Caches!CacheTypeOK /\ Sleeper!DelayTypeOK
                  /\ Stamps!TimestampTypeOK /\ Dma!ChannelsTypeOK

\* One LED is lit during every wait and between two cycles, the light moves by
\* one, and a wait takes no time-out for two (KnightRiderLight.c:85-89, 129).
LightShows == [](Light!OneLit) /\ Light!RunsAlong /\ Light!TimeoutsCounted

\* Whatever the timer does the light keeps running and a button that is held down
\* is answered (KnightRiderLight.c:95-99, main.c:55); with a host that reads, a
\* write and a call that prints come to their end
\* (altera_avalon_jtag_uart_write.c:70-72, alt_log_printf.c:94-101).
ProgramsAnswer == /\ program = "light" => Light!LightRuns /\ Light!ButtonAnswered
                  /\ Uart!WriteEnds
                  /\ routine # "none" ~> routine = "none"

\* The polling driver is a serial line: no byte is dropped, doubled or reordered
\* (altera_avalon_jtag_uart_write.c:70-72).
PollsLine == Uart!IsSerialLine

\* A call prints what its format means and loses a character at most to each
\* interrupt that prints (alt_log_printf.c:94-341).
ConsolePrints == [][Printer!PrintStep]_vars

\* Blocks of the heap, and the profiler's structures in them, are apart, and the
\* heap from the stack (alt_sbrk.c:73-113, alt_gmon.c:133-148).
HeapIsApart == Profiler!HeapApart /\ Profiler!ProfileApart

\* Calls are counted, but for the races the code's comment admits to, and one it
\* does not (alt_gmon.c:177-180, alt_mcount.S:120-122).
CallsCounted == Profiler!ProfileCounts

\* A flush leaves no line of its region in the cache, and only one without write
\* back throws writes away (alt_dcache_flush.c:46-70).
FlushLeavesNothing == [][Caches!FlushStep]_vars

\* A busy sleep makes its turns, and a timestamp is the time of its snapshot, or not
\* before it when a handler took another (alt_busy_sleep.c:52-133,
\* altera_avalon_timer_ts.c:100-131).
TimesKept == [][Sleeper!SleepStep]_vars /\ [][Stamps!StampStep]_vars

\* A name opens the newest of its devices, and only callbacks take room away from
\* a channel behind the program's back (alt_find_dev.c:54-86, alt_dma.h:100-110).
ChannelsKeep == [][Dma!OpenStep]_vars /\ []Dma!RoomKept
=============================================================================
