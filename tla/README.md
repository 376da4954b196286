# RadonMCU: a TLA+ project

RadonMCU is a small Nios II computer in an FPGA (a CPU, on-chip memory, an
interval timer, four LEDs, four buttons, a JTAG UART) and the C code that runs on
it: an interrupt-safe logger, LED and button drivers, a running light, two `main`
programs, and the BSP (the Nios II HAL and the device drivers) they link with.
This directory holds TLA+ modules of that code, the TLC runs that check them and
the theorems TLAPS proves about them. Paths below are relative to
`src/SoftwareExamplesForRadonMCU/`; `HAL/` and `drivers/` are under
`RadonHelloWorld_bsp/`.

## 1. The system

| component | state | operations | used by |
|---|---|---|---|
| `EquiniosLogger/src/RingBuffer.c` | `head`, `tail`, `count`, `buffer[128]` | `init push pop size is_empty is_full` | the logger |
| `EquiniosLogger/src/EquiniosLock.c` | none: `status.PIE` of the CPU | `enter` (read and clear PIE), `exit` (write back) | the logger, the timestamp provider |
| `EquiniosLogger/src/EquiniosLogger.c`, `equinios.c` | the singleton: level, flush divider and period, `dropped_lines_`, the ring | `log_write log_process log_set_level log_set_process_every_n_calls log_set_timestamp_provider log_get/reset_dropped_lines` | main programs, handlers, `LedStateHandler.c` |
| `EquiniosLogger/src/TimestampProvider.c` | a provider pointer, `ticks_count_` | `init get_timestamp set_provider` | the logger |
| `EquiniosLogger/examples/NiosLoggerDemo/main.c` | two counters of its loop | logs, polls the drop counter, calls `log_process` | - |
| `KnightRiderLight`, `LEDDriver`, `ButtonsDriver`, `RadonHelloWorld/main.c` | the PIO registers, the timer's status register | `run_knight_rider_cycle`, `set_ledN_state`, `get_*_status` | the main program |
| HAL file descriptors (`alt_open.c`, `alt_close.c`, `alt_read.c`, `alt_get_fd.c`, `alt_fd_lock.c`, `alt_io_redirect.c` ...) | `alt_fd_list[4]`, `alt_max_fd`, the device and file system lists | `open close ioctl read write lseek fcntl fstat isatty` | newlib's stdio, `alt_main` |
| HAL alarms and tick (`alt_tick.c`, `alt_alarm_start.c`) | `_alt_nticks`, the alarm list with `time` and `rollover` of every alarm | `alt_tick alt_alarm_start alt_alarm_stop` | the timer driver, the JTAG UART driver |
| HAL interrupts (`alt_iic*.c`, `alt_irq_*.c`, `alt_irq.h`, `alt_legacy_irq.h`) | `alt_irq[32]`, `alt_irq_active`, `alt_priority_mask`, `ienable`, `status.PIE` | register, enable, disable, interruptible, dispatch | drivers |
| HAL exceptions (`alt_exception_entry.S`, `alt_exception_muldiv.S`, `alt_exception_trap.S`, `alt_instruction_exception_*.c`) | the frame on the stack, the registered handler | entry, interrupt test, emulation, trap, exit | the CPU |
| HAL start-up (`crt0.S`, `alt_load.c`, `alt_main.c`, `alt_sys_init.c`, `alt_exit.c`, `alt_kill.c`) | memory and caches, the device lists, the standard descriptors | reset to `main`, to `_exit` | the CPU |
| HAL time of day | `alt_resettime`, the tick count | `gettimeofday settimeofday times` | newlib |
| HAL heap, delays (`alt_sbrk.c`, `alt_busy_sleep.c`) | `heap_end`, the stack limit | `sbrk usleep` | newlib, the profiler |
| HAL printing (`alt_printf.c`, `alt_log_printf.c`) | the format variables, the UART's registers | `alt_printf alt_putstr`, `ALT_LOG_*` | boot code, drivers, handlers |
| HAL cache calls (`alt_dcache_flush*.c`, `alt_icache_flush*.c`, `alt_uncached_*.c`) | the caches | flush, remap, uncached memory | boot code, drivers of DMA |
| HAL profiling (`alt_mcount.S`, `alt_gmon.c`) | lists of call counts, a histogram | `_mcount`, a sampling alarm | every function of a profiled program |
| JTAG UART driver (`altera_avalon_jtag_uart_*.c`) | two rings of 2048 bytes, interrupt enables, `host_inactive` | `read write ioctl close`, interrupt handler, time-out alarm | the descriptors, through `alt_dev` |
| HAL DMA and flash devices (`alt_dma_*.c`, `alt_dma.h`, `alt_flash_dev.c`, `alt_find_dev.c`) | three device lists, what the drivers hold | register, open, close, `alt_dma_txchan_space/send`, `alt_dma_rxchan_prepare` | application code |
| timer driver (`altera_avalon_timer_sc.c`, `_ts.c`) | the timer's registers | tick interrupt; `alt_timestamp*` | `alt_tick` |

As built (`public.mk`, `system.h`) the BSP defines `ALT_SINGLE_THREADED` (all
`ALT_SEM_*` are empty), `ALT_USE_SMALL_DRIVERS` (the JTAG UART polls) and has no
system clock, so no interrupt source is registered. The logger is written for
programs that have interrupts all the same (`equinios.h:59`: "Call periodically
from main loop or timer tick"; the demo takes `alt_nticks` as its provider), and
the HAL contains the code for both configurations.

How they interact: the main program calls the logger directly; a handler may call
it too. The two share the singleton and exclude each other only by clearing PIE.
`log_process` writes with `putchar`, hence through newlib, the descriptor of
stdout and the UART driver. A tick interrupt runs `alt_tick`, which calls alarm
callbacks (the UART's time-out among them). Everything else is polled, or called.

Underneath, `main` and all the rest run on what the exception code leaves of the
CPU: an interrupt may come between any two instructions, the dispatcher calls
handlers until nothing is pending, handlers may let higher ones in, and on a CPU
without them the multiply and divide instructions are exceptions, too.

What is hard in it: (1) a call of the logger is several critical sections, so
handlers run in the middle of it; (2) the lock must nest inside a caller's own
masking and inside handlers; (3) discarding lines to make room runs against a
`process()` that has already popped the front of a line; (4) counters wrap (the
ring's indices, the tick counter with its rollover flags); (5) callbacks change
the list they are called from; (6) the descriptor table is scanned with a
high-water mark that is raised lazily; (7) polling loops end only if the hardware
cooperates; (8) the controller's `ienable`, the HAL's `alt_irq_active` and the
priority mask are three words that must agree; (9) the exception code must give
back every register but the one the emulated instruction writes; (10) code is
copied as data, through one cache, and fetched through another; (11) ticks are
converted with products of 32 and of 64 bits; (12) profiler, printing and timestamp
share words or registers with handlers without a lock. The list of hazards, each at its line, is in `PROJECT.json`.

## 2. The modules

| module | models | state and actions |
|---|---|---|
| `BoundedFifo` | abstract | what a byte queue of `Size` promises: `Put Refuse Take Nothing Clear` and the value each returns |
| `RingBuffer` | `RingBuffer.c`, one caller | the four fields; `push`, `pop` (each with its refusal), `init`. `IsFifo`: it implements `BoundedFifo` with `queue <- Contents` |
| `LockedRing` (EXTENDS `RingBuffer`) | `EquiniosLock.c` around `RingBuffer.c`, with interrupts | one action per load or store: `EnterRead` (`rdctl status`), `EnterMask` (`wrctl`), the test, the slot, the index, the load and the store of `count`, `Exit`; `Interrupt`/`Eret` save and restore `status`; `DisableAll`/`EnableAll` are a caller's own masking. `SharedFifo`: it implements `BoundedFifo` |
| `LossyLog` | abstract | what a logger promises: lines are accepted whole, reach the terminal in order, and only the oldest queued lines are given up, no more than the room needed |
| `EquiniosLogger` | `EquiniosLogger.c`, `equinios.c`, `TimestampProvider.c` | the singleton's fields; one action per critical section (`Instance CheckLevel GetTimestamp Enqueue ShouldProcess PopChunk SetLevel SetEvery SetProvider ResetDropped`) and one per `putchar`; `Call` and `Interrupt` start a call in the main program or a handler. `IsLossyLog`: it implements `LossyLog` |
| `NiosLoggerDemo` (EXTENDS `EquiniosLogger`) | the demo's `main.c` | its loop, with the real lengths of its messages and buffers |
| `FdTable` | `alt_open alt_close alt_read alt_write alt_lseek alt_fstat alt_isatty alt_get_fd alt_release_fd alt_fd_lock alt_fd_unlock alt_ioctl alt_fcntl alt_dev alt_io_redirect` | the descriptor table: one action per call of the API |
| `Startup` (EXTENDS `FdTable`) | `crt0.S`, `alt_load`, `alt_main`, `alt_sys_init`, `alt_find_dev/file`, `alt_do_ctors/dtors`, `alt_exit`, `alt_kill` | the stage the program has come to, what memory and the two caches hold of the copied sections, the device lists; the caches write back and fetch between any two steps. `Main` is the program's use of `FdTable` |
| `TimerQueue` | abstract | what alarms promise: a registered callback runs in the tick it is due, once, and no other runs |
| `AlarmList` | `alt_tick.c`, `alt_alarm_start.c`, `alt_llist.h`, the tick handler of the timer driver | the links of the list, `time`, `rollover` and `period` of every alarm, a tick counter that wraps; `Tick` enters `alt_tick`, `Visit` is one turn of its loop, `Return` what follows a callback; `Start` and `Stop` come from the program and from callbacks. `IsTimerQueue`: it implements `TimerQueue` |
| `SerialLine` | abstract | what a serial device promises: bytes once and in order in both directions, a call that gives up has accepted a front part |
| `JtagHost` | external: the UART core and the host, as the registers show them | the hardware FIFOs and `CONTROL.AC` |
| `Clock` (EXTENDS `AlarmList`) | `altera_avalon_timer_sc.c`, `alt_gettod.c`, `alt_settod.c` | the timer's registers, its handler around `alt_tick`, the start-up, the time of day |
| `Machine` | abstract | the processor that `main` may believe it runs on: all instructions, no interrupts |
| `MulDiv` | `alt_exception_muldiv.S` | the emulation as functions over words: division and the four products bit by bit |
| `Exceptions` (EXTENDS `MulDiv`) | the exception code, `alt_irq_handler`, the registry and the masking calls | what runs (`pc`), the frames it interrupted, `status.PIE`, `ienable`, `request`, `alt_irq_active`, `alt_priority_mask`, the registry. `IsMachine`: it implements `Machine` |
| `JtagUartSmall` (EXTENDS `JtagHost`) | the polling driver of this build | `Read ReadByte ReadReturn`, `Write SeeSpace WriteByte WriteReturn`: one register access per step. Implements `SerialLine` |
| `JtagUart` (EXTENDS `JtagHost`) | the interrupt driven driver | the two rings, `irq_enable`, `host_inactive`; the calls `read write close ioctl`, the handler and the time-out alarm, one shared access per step. Implements `SerialLine` |
| `KnightRider` | `RadonHelloWorld/main.c`, `KnightRiderLight.c`, `LedDriver.c`, `LedStateHandler.c`, `ButtonsDriver.c`, `ButtonStateReader.c` | main's loop, the sequence of LED writes and waits of the two cycles, `timer_wait_us` (`PollNothing PollTimeout Clear WaitEnd`), the output register; `TimerPeriod` and `Button` are the board |
| `Console` (EXTENDS `Directives`, what a format is made of) | `alt_printf.c`, `alt_putchar.c`, `alt_putstr.c`, `alt_log_printf.c` and its header, `alt_log_macro.S` | a format as a sequence of directives and what it means (`Meaning`); the two interpreters as state machines; every character a look at WSPACE and a write, with handlers that print in between |
| `Heap`, `Profile` (EXTENDS `Heap`) | `alt_sbrk.c`, `alt_stack.h`; `alt_mcount.S`, `alt_gmon.c` | heap end, stack limit and what was handed out; the profiler's lists, walked and counted in access by access by the program and a handler |
| `Cache` | the flush, remap and uncached calls | the lines cached and dirty, the loop of a flush step by step |
| `Delay` | `alt_busy_sleep.c`, `alt_usleep.c` | the register the loops count down |
| `Timestamp` | `altera_avalon_timer_ts.c`, `_vars.c` | the counter, its snapshot and the two halves read |
| `Channels` | `alt_dma_rxchan_open.c`, `alt_dma_txchan_open.c`, `alt_flash_dev.c`, `alt_dma.h`, `alt_find_dev.c` | the lists of devices, the handles of the program, the requests each driver holds and the room the program has seen; `Done` is a callback, which may post again |
| `Programs` | the programs and services that share no state | instantiates `JtagUartSmall` and the models from `KnightRider` on side by side, one of them to a behaviour, with the assumptions on their constants |
| `LockedRing_proofs`, `EquiniosLogger_proofs`, `Startup_proofs`, `Clock_proofs`, `JtagUart_proofs`, `Exceptions_proofs`, `Programs_proofs` | | theorems about the module named and those it extends |
| `Arithmetic` | | facts about numbers that several proofs need: induction up to a bound, powers of two, quotient and remainder, least and greatest elements |
| `MC*` | | sizes for TLC |

The composition: `RingBuffer` and `LockedRing` show that the ring behind the lock
is a queue, which is why `EquiniosLogger` may take a critical section as one step
and the ring as a sequence; `NiosLoggerDemo` restricts who calls what. `Clock` and `Startup` run `AlarmList` and
`FdTable` inside the code that starts and drives them, and are shown to be behaviours
of them; `Exceptions` shows why all other modules may take an interrupt to leave
the interrupted code as it was. `Profile` takes its memory from `Heap`, as `malloc` does.
The light uses the logger and `printf`, which its module leaves to those two.

### Abstractions

* A byte of a log line is the record of the line it belongs to, its place in that
  line and whether it is `'\n'`. The text is not modelled; its *length* is, with
  both truncations (`vsnprintf` into `message[256]`, `snprintf` into `line[260]`),
  the loss of the final newline they can cause, and newlines inside a message.
* A handler makes one call of the logger and runs to its end: handlers nest only
  if they ask for it (`alt_irq_interruptible`), which no handler here does.
* The logger's `putchar` never fails, and takes one step (the UART is a component
  of its own).
* An external timestamp provider is a clock that advances at any time
  (`alt_nticks`); it never goes back, so `StampsOrdered` says nothing of one that
  wraps. `ticks_count_` and `dropped_lines_` (32 bits) do not wrap within the runs.
* Alarms: starting an alarm that is registered, or one whose callback is running,
  is misuse and left out. Delays stop short of the longest, 2^32 - 1: one tick more
  is added to it and it is due at once. `alt_irq_disable_all` to
  `alt_irq_enable_all` is one step.
* UART: reads and writes are of at least one byte (`UartAssumption`); for empty ones
  `write.c:199-214` and `read.c:197-202` return an error though nothing went wrong. A
  `memcpy` out of or into a ring is one step, because the handler touches no cell of the
  piece being copied; whether the core's receive interrupt is delayed is left to when
  `Interrupt` is taken; the locals of a call are cleared when it returns.
  `TIOCGCONNECTED` only reads and is left out.
* `Exceptions`: an instruction is its operation, its register fields and, for a
  load, what is wrong with its address. A handler calls into the registry only while
  it, and whatever it interrupted, has not let higher ones in (`Polite`), because
  `alt_irq_enable` writes `ienable` without regard to `alt_priority_mask`; it enables
  only what has a handler (`Sensible`); and an interrupt goes away only when code tells
  its device so: a spurious one would keep the dispatcher scanning for ever. The
  debugger may continue after a break but need not.
* `Startup`: what a section holds is whether it is the copy. A cache may write back a
  dirty line and fetch the handler's code at any time; the instruction cache may hold
  anything at reset.
* `Clock`: a period ends no sooner than the handler of the one before has begun.
  A rate that does not divide the second is excluded (`ClockAssumption`).
* `Console`: characters are model values of a kind (a digit, a letter, `"^D"`); a
  format is given by directives, spelled out by `Spelling`. A handler prints a line
  of fixed length.
* `Heap`: the memory between `__alt_heap_start` and the stack's end is shared, as it is
  in this system; increments are positive.
* `Cache`: the handler uses some lines only, and no free memory.
* `Timestamp`: a counter of two halves; a handler reads the time whole.
* `Channels`: no driver of the kind is in the repository. A channel is what `alt_dma.h`
  says of it, a queue of requests with a depth; a flash driver's `open()` may refuse.
* `KnightRider`: a wait polls as often as it likes, for any number of periods of the
  timer; what period the timer has matters to `light_lasts` only. It starts from the
  reset value of the output register (`PIO_RESET_VALUE` 10: LEDs 0 and 2 lit). Logging
  and the `printf` in the wait are left out.
* `lines`, `cut`, `forgotten` (logger), `elapsed`, `shown` (light), `reply`
  (descriptors), `elapsed`, `settime`, `since` (clock), the variables marked ghost and
  the budgets of calls and requests are histories or bounds that exist in the models
  only.

## 3. The runs

| run | bounds | shows |
|---|---|---|
| `logger_two_grains` | one of two parts to a behaviour: the ring behind its lock, 2 slots, 2 bytes, main program and handler, any number of calls; the logger with a ring of 5 bytes, 2 lines, a message that overruns both buffers among them, `log_process` in both contexts, 1 setting | of the ring `MaskRestored` (nothing ever unmasks a handler or a caller's masked region), `SharedFifo` (at the grain of loads and stores), `MaskEnds` (interrupts are enabled again and again); of the logger `BytesKept`: its promise without the order (order on the terminal is not promised here, and is lost): no byte twice, and only ends of lines are cut; and `Drains` |
| `logger_one_reader` | ring of 5 bytes, lines of 2, 3 and 5, chunk of 2, 3 lines from both contexts, 1 setting from the handler | `DropsCounted`, `StampsOrdered`, `IsLossyLog`; its type invariant says that the flush count stays within its period |
| `demo_reports_drops` | the demo's own sizes | violation, see Findings |
| `startup` | 5 descriptors, 3 devices and a file system, two drivers that can fail, standard streams apart, one of them missing; both caches, three sections to copy, 2 constructors | `HandlerLoaded`, `StdReady`; `NoLeak` (failing opens and closes included), `OneHolder`, `LockHeld` from reset to `_exit` |
| `clock` | 3 alarms, a counter of 2 bits, delays 0..2, periods 0..3, a second of 6 microseconds and 2 ticks, two times to set | `TicksCounted`, `TimerServed`, `IsTimerQueue` (as long as no callback stops the alarm after its own), `TimeIsKept` (the time of day is the one set and the ticks that passed since) |
| `alarm_stop_next` | 2 alarms, without that restriction | violation |
| `uart_lines` | rings of 3 slots (one stays empty), FIFOs of 1, two bytes, messages of 3, reads of 2 | `IsSerialLine` |
| `uart_calls` | rings of 2 slots, one byte value, messages of 3, reads of 1 and 3, time-outs of 2 and the longest, close | `Armed` (no interrupt stays off while there is work for it), `CallsServed` (readers and senders are woken, writes, closes and the handler end) |
| `uart_fails` | write only, a ring of 3 slots, `TxThreshold` 1 | violation |
| `exceptions` | 3 interrupts, words of 3 bits, 3 registers; small programs: every operation on every pair of words with an interrupt, handlers that nest and need emulation, handlers and `main` changing the registry, faults and missing instructions with the exception API, without it, and with it on a processor without emulation, which is this BSP | `Agreement`, `OnlyHigher`, `OnlyArmed`, `IsMachine`, `Progress` |
| `programs` | one of several small systems to a behaviour, see below | `LightShows`, `PollsLine`, `ProgramsAnswer`, `ConsolePrints`, `HeapIsApart`, `CallsCounted`, `FlushLeavesNothing`, `TimesKept`, `ChannelsKeep` |
| `light_lasts` | a wait of 8 microseconds, a "millisecond" of 4, the timer's real period of 1 | violation |

`programs` holds the parts that share no state with one another. Its light waits 2
"milliseconds" of 2 microseconds, 2 polls for each: one LED is lit during each wait, it
moves by one, a wait takes no time-out for two (that it takes each for a millisecond is
finding 4), and neither a stopped timer nor a busy one keeps the loop from the button. Its polling
UART has FIFOs of 2 and messages of 1 and 3 bytes. The printer has longs of 8 bits, every
numeric directive with and without padding on 0, 10, the most negative number and -1, two
mixed formats, and one burst of a handler. The profiler has two arcs, slabs of two entries
and a histogram that leaves the heap's end between two words. The cache has lines of two
bytes, three of them, and every region in them. The sleeper has ints of 5 bits and every
argument, the timestamp a counter of 9 values. Of the channels two transmit channels have
one name and one device has none, the flash device can fail to open, and two requests
are accepted.

Deadlock is checked in all runs but `exceptions` and `programs`: a program of the
former comes to its end, and of the latter the profiler runs out of the calls it is
allowed and the timestamp's counter stops.

Why the bounds are enough. The ring's code is uniform in its size beyond the wrap,
and the wrap, full and empty all happen with 2 or 3 slots; the theorems then hold
for every size. For the logger the *order* of the lengths is kept (chunk < ring <
`line[]` < message + prefix + ending, 32 < 128 < 259 < 261) so that every branch
of the formatter and of the discard loop is taken: a line that fits, one that
evicts one line, one that evicts several, one that fills the ring, one longer than
the ring, a discard that meets a line already half popped. Three writes suffice to
have one line half written, one queued and one arriving. `MaxWrites`, `MaxSets`
and `MaxClock` bound the runs. Three alarms give the list a first, a middle and a
last element, and with a counter of two bits due times lie on both sides of the
wrap in every state. A UART message of three bytes against a ring of one wraps,
fills the ring and is transferred in pieces. `uart_calls` has one byte value and rings of one byte, which
keeps its liveness checks small; content and order are the question of `uart_lines`
and, for every size, of the theorem `UartIsLine`. For the light every order of time-out,
poll and clear occurs within two counts. Words of three bits have a most negative number,
a sign and a carry out of the top; `IsMachine` compares all pairs of them. Interrupt
numbers 0 to 2 give a handler both a higher and a lower neighbour.

Fairness.

* `LockedRing`: a processor never stops executing (`WF` of every instruction and
  of `eret`) and a program that masks interrupts unmasks them (`SF(EnableAll)`,
  strong because it may do so only between its calls).
* `EquiniosLogger`: a handler's steps and its return are weakly fair; the main
  program's sections and its next call of `log_process` are *strongly* fair, because
  interrupts disable them again and again: that the main program makes progress
  between interrupts is an assumption on the interrupt rate, which the code needs.
  Nothing is assumed of `Interrupt`, of writers or of setters.
* `Clock`: the driver's start-up is completed, its handler keeps executing and callbacks
  return. Nothing is assumed of the timer or the program.
* `Exceptions`: the processor executes (`WF(Cpu)`); devices request what they like, and
  the debugger need not continue, so `Progress` excepts a break.
* `Console`: the call and a handler that was entered execute, and a host that is there
  empties the FIFO; without one every printed character may wait for ever.
* `JtagUartSmall`: the program executes, and the host keeps reading, without which
  the polling write spins for ever (`altera_avalon_jtag_uart_write.c:70`).
* `JtagUart`: handler and pending interrupt weakly fair, the program and the tick
  strongly (interrupts disable them again and again). Of the host nothing is
  assumed, but for `CallsEnd` (in `CallsServed`): a host that keeps setting `AC` takes what it is sent
  (`LivingHost`), and the time-out is not the one that means never.
* `KnightRider`: main keeps executing, which takes the `printf` of its waits to
  return and hence, in this build, a host that reads. The timer need not run.

## 4. What is proved

Every theorem holds for all values of the constants that the ASSUMEs of its module
allow. Some need a hypothesis more; it is then a named operator in the theorem's
statement (`NoBreaks`, `Fits`, `OneReader`, `Moderate`, `OwnMessages`), and the runs satisfy it.

`LockedRing_proofs`. First `RingBuffer` alone (every `Size` in Nat \ {0}, every `Byte`
set that contains 0; `RingBuffer` has no run of its own, `logger_two_grains` contains it):

* `RingTyped == RingSpec => []RingInv`. The invariant is inductive as it stands
  because it contains `head = Wrap(tail + count)`, without which neither bound on
  the count nor the place of the next byte follows.
* `RingIsFifo == RingSpec => IsFifo`: every push, pop and init is the step of
  `BoundedFifo` of the same name on `Contents`. The one arithmetic fact is
  `WrapOnce`: below twice the size the modulo is one conditional subtraction;
  with it the provers need no `%`.

Then the ring under the lock (two contexts):

* `LockInv` is the inductive invariant. Its first half (`MaskInv`) ties the mask to
  the control points: a handler runs only from code that was outside a section and
  outside a masked region; what `enter()` read is what the program chose; a handler
  not entered is idle. Its second half (`RingPart`) says, for the one context in a
  section, how far its push or pop has got: the write index is ahead by one between
  the stores to index and count, the register holds the count, the byte stored or
  fetched is the one the queue will gain or lose, and the test still holds.
* `LockedTyped`, `LockExcludes` (no two contexts inside the lock), `LockRestores`
  (`MaskRestored`) and `LockedRingIsFifo` (`SharedFifo`) follow. The refinement maps
  the store to `count` to `Put`/`Take`, a failed test to `Refuse`/`Nothing` and every
  other load or store to a stutter.

`EquiniosLogger_proofs` (every ring, chunk and buffer size, every set of messages,
writers in both contexts):

* `LoggerTyped` and `FlushesWithinPeriod` from `LogBase`: types, where each byte of
  ring, chunk and terminal belongs, and that nothing is queued before the singleton
  exists (`LoggerTypeOK`, of which `FlushWithinPeriod` is a part). A handler may shorten
  the period between any two sections of a call; the count stays below it because the
  section that sets the period also restarts the count.
* `StampsInOrder` (`StampsOrdered`) from `StampInv`: a stamp taken and not yet queued is
  no older than what its context has queued, and the handler's no older than any queued
  line. Taking and queueing are two critical sections, between which the handler may queue a
  line of its own: that is the one way lines come out of order, a handler's later ones in
  front of a line of the main program, and the theorem says that there is no other.
* `BytesAreKept` (`BytesKept`) from `KeptInv`, with readers in both contexts: a byte is in
  one place, once; the bytes that have left the ring are a front part of their line, and
  the rest of the line is in the ring, or was discarded together with its end. It needs
  messages without a newline of their own (`NoBreaks`), because a discard stops at the
  first newline; section 5 says what such a message does.
* `DropsAreCounted` (`DropsCounted`) needs also that every line ends in its newline
  (`Fits`), for the same reason: what is counted is discards, and a line that lost its
  newline is discarded together with the next (section 5).
* `LoggerIsLossyLog` (`IsLossyLog`) with one context that reads (`OneReader`): `Enqueue`
  maps to the acceptance of a line and the loss of the oldest, a `putchar` to its byte
  reaching the terminal, everything else to a stutter. It needs neither of the other
  hypotheses. With two readers the order is lost, and only `BytesKept` remains.
* `DemoIsLogger`: the demo is a program of the logger, so that every theorem above holds
  of it. `DemoReportsOnce` is the half of finding 1 that does hold: no drop is reported
  twice, though some are never. `DemoInv` says what `main` has still to call: nothing about
  drops, a reset, or a report and a reset, and in each case how what was read relates
  to what is counted now. Both take the demo's report to be no message of its own
  otherwise (`OwnMessages`).

`Startup_proofs`. First `FdTable` (every `MaxFd` > 3, every set of drivers and of open
flags, every choice of standard devices): `FdTyped`, `FdNoLeak`, `FdOneHolder` and
`FdLockHeld` from the invariant `FdInv`. Its key conjunct is `LockedBelow`: a user of a
device that `alt_fd_lock` overlooked sits *above* the holder, so two holders would each be
above the other; `WithinMark` (every open descriptor is at or below `alt_max_fd`)
is what makes the scan of `alt_file_locked` complete. Then the start-up (every cache
configuration, set of copied sections, sequence of registered devices and number of
constructors):

* `StartupLoads`: `HandlerLoaded`. `LoadInv` says, stage by stage, which sections are in
  memory or at least in the data cache, and that what the instruction cache fetched
  before the flush is thrown away by it. The caches' own steps are what makes it
  more than a sequence of assignments.
* `StartupIsTable`: every step is a step of `FdTable` or leaves it alone. It needs that
  every standard device's driver has registered by the time it is opened
  (`RegisteredInv`). `StartupNoLeak`, `StartupOneHolder` and `StartupLockHeld` then follow
  from the theorems about `FdTable`, cited as they are.
* `StartupStd`: `StdReady`, from an invariant about the descriptors that
  `alt_io_redirect` has already opened.

`Clock_proofs`. First the alarms (every set of alarms, every width of the counter):

* `AlarmTyped` and `AlarmsLinked` (`ListLinked`) from `ListInv`, which adds to both that an
  element has both its links or neither, and that the elements `alt_tick` holds have them.
  `InsertKeeps` and `RemoveKeeps` are the two facts about `alt_llist_insert` and
  `alt_llist_remove`, the second of which also covers an element that is not linked:
  `alt_tick` may stop an alarm that its callback has stopped. They hold with callbacks
  that stop the next alarm, too: what that breaks is the walk, not the list.
* `AlarmsAreTimers` (`IsTimerQueue`), under `Moderate`: no callback stops the alarm that
  `alt_tick` has saved as its next (finding 2) and no delay is the longest (section 5).
  `TimerInv` adds to `ListInv` what a rollover flag means (`FlagInv`: it is set exactly
  while the wrapped due time lies behind the counter), that the head leads to every
  registered alarm, and that those `alt_tick` has not done with (due in this tick, or with a
  flag the counter's wrap has made out of date) are still ahead of it. "Ahead" is
  reachability along `next`. Without a recursive definition it is said by closed
  sets: whatever contains the current element and is closed under `next` contains all
  pending alarms; `Start` and `Stop` change the list in the middle of the walk and have
  to keep that.

Then the clock (every rate that divides the second, every set of times):
`ClockIsAlarmList` makes the theorems about the alarms hold of it, `ClockIsTimerQueue`
among them. `ClockTyped`, `ClockCounts` (`TicksCounted`) and
`ClockKeepsTime` (`TimeIsKept`) follow from `ClockInv`, which ties the handler's position
to the list that `alt_tick` walks, and `alt_resettime` to the time that was set and the
ticks counted before it was. The arithmetic rests on `Division`, that quotient
and remainder are the only pair that fits, and `NormalKeeps`, that carrying and borrowing
change no time.

`Exceptions_proofs` (every set of interrupts, word size, program and configuration):

* `IrqAgreement` (`Agreement`) and `IrqOnlyArmed` (`OnlyArmed`) from `ExcInv`. The
  invariant says where the processor can be and what its frames resume (`Shape`), that
  exception code and masked calls have interrupts off (`Closed`), what a masked call
  knows between its read of `alt_irq_active` and its write (`InCall`), and that what the
  dispatcher has read as pending still is (`Fresh`). The frames matter because a handler
  that runs above a frame returns to code whose own knowledge must still be true.
* `IrqOnlyHigher` (`OnlyHigher`) from `HighInv`, over the levels of nesting: the mask lies
  below every handler that has let others in, and so does the mask that any level above
  it has saved and will write back (`MaskBelow`, `OldBelow`); hence interrupt numbers fall
  from level to level. The mask is one global word: that a handler puts back the value it
  read is right only because everything above it has by then put back its own.
* `IrqTyped` (`ExceptionsTypeOK`) and `MainRunsOnMachine` (`IsMachine`) from `MainInv`: the
  first frame resumes `main` and no other does, a frame that resumes behind its
  instruction is the newest and is left at once, and what is done in `main`'s name (a
  masked call, a trap, a break) is the instruction it stands at. `Machine` sees `main`'s
  registers in the first frame while there is one; the return from an emulation or from a
  repaired fault maps to the machine's step of that instruction, and what handlers do to a
  stutter.
* `ProductIs` and `DivisionIs`: for every word width and all operands the loops of
  `alt_exception_muldiv.S` compute the products and quotients of the integers, sign
  corrections included. Their models are recursive functions over the bits; the proofs
  carry loop invariants (`Divided`, `FromLeft`, `FromRight`) from one turn to the next and
  close the loop with `Upto` of `Arithmetic`, an induction over a *set* of numbers, which
  the provers can use where the library's induction over an operator is out of reach.
  Powers of two are counted as subsets there.

`JtagUart_proofs` (every `BufLen` > 1, every FIFO depth and threshold, every set of
bytes, messages, read sizes and time-outs):

* `UartInv` is the invariant: types, `Armed` in both directions, that the room the
  handler has read is still there (`RoomKept`), and what each control point of a
  call knows (`CallInv`): a read or write that is about to copy has something to
  copy, and the chunk it has copied is still what stands in the ring from its own
  index on, although the handler has moved the other one.
* `UartTyped`, `UartArmed`, `UartRoom` follow, and `UartIsLine`: the rings
  behind the FIFOs map to the two directions of `SerialLine`. The program's
  advance of an index maps to `ReadGets`/`WriteAccepts`, the host's steps to its
  own, and every access of the handler to a stutter: it moves a byte from a FIFO to
  the end of a ring or back, which the concatenation of the two does not show.

`Programs_proofs` (every value of the constants the assumptions of `Programs` allow).
Each service has an invariant of its own, which steps of the others leave alone because
they change none of its variables:

* `LightKeepsShowing` (`LightShows`). `LightInv` says which routine is under way, which
  of its turns and which step of the turn, and from that what is lit and what was shown
  last; `todo` is a sequence, so it is said of what remains. `WaitInv` bounds the
  time-outs counted, and the one there to be counted, by the periods elapsed and one
  more: the period under way when the wait began; `WaitCounts` draws the conclusion.
  What period the timer has is not assumed.
* `PollsALine` (`PollsLine`): the FIFOs map to the two directions of `SerialLine`, the
  program's accesses to the data register to bytes that a call gets or gives up. The
  invariant's point is the room: between the look at WSPACE and the write only the host
  touches the FIFO, and it takes from it.
* `PrintsLoseFew`, the safety half of `ConsolePrints`: a character is lost only if a
  handler printed since the last look at WSPACE, and to each handler's line one at most.
  `PrintInv` adds that a loss still to come is not yet paid for with an interrupt that
  another loss has used.
* `HeapStaysApart` (`HeapIsApart`). `ProfInv` says where heap end, stack limit and blocks
  lie, and that slabs, entries and histogram lie inside blocks and apart.
* `CallsStayCounted` (`CallsCounted`), for any number of functions, arcs and calls, from four
  invariants about the lists that the program and a handler extend at once. `WalkInv`: what a
  context found on its walk stays where it is, because lists only grow at their ends.
  `MarksInv`: the calls missing from an arc's counts, and those that the store under way is
  about to take back, are no more than the handler's calls that came between
  a load and its store; a store takes back exactly what was counted since its load.
  `CopiesInv` counts the places an arc has or is about to be given: one, and one
  more for each handler's call that came while the program was about to add it.
  `StartsInv` says the same of the starts of the sampling.
* `ProgramsTyped` (`ProgramsTypeOK`) collects the bounds from the invariants of all
  services. `RoomInv`, that heap and stack lie in their memory and the stack limit at the
  heap's end or below, is one more of them.
* `FlushesKeep` (`FlushLeavesNothing`). `CacheInv`: the lines of the region the loop
  has passed are flushed, but for those the handler touched since.
* `TimesStayKept` (`TimesKept`). `SleepInv`: what turns were made for the big loops done, and
  what is left for the rest. `StampInv`: the snapshot is the time of the last request, and the
  half already read is its. `LaterInv` is for a call whose snapshot a handler has replaced:
  both snapshots lie between the call's own and now, as long as the timer runs.
* `ChannelsStayKept` (`ChannelsKeep`). `DmaInv`: the lists are the devices
  registered, newest first, and the room seen is there but for what callbacks posted.

Proving changed the models in five places, each towards the code or a stronger claim.
A fault that could be repaired, in a program without the exception API, left `Machine` with
no step for what the code does (`Lost` of `Exceptions`). `ProfileApart` said that the
profiler's structures have distinct addresses; it now says that they do not overlap.
`OneLit` names the LED that is lit instead of counting. `ProfileCounts` counts sets, the
places of an arc and a mark for every call counted there, instead of adding up lists
with a fold, whose value for every list only an induction over data gives. And the
heap's memory is a number of words, which the linker's script provides and without which
rounding up the last block could leave it.

Only model-checked:

* Liveness, which needs ENABLED: `MaskEnds`, `Drains`, `TimerServed`, `CallsServed`,
  `Progress`, `ProgramsAnswer`, and the part of `ConsolePrints` that says a call ends.
* The step half of `ConsolePrints`: `Meaning` maps a format of any length to its output
  and `Numeral` a number to its digits, and what either gives for every input is an
  induction over data.
* That a run finds `EveryDropReported`, `OnlyRegisteredCalled`, `FailsWhenGone` and
  `LastsLong` violated is a fact about an instance, and needs no proof.
* The invariants above were checked by TLC before they were proved, on the instances of
  the runs: `KeptInv` on both of the logger's, `TimerInv` on the clock's, `HighInv` and
  `MainInv` on that of the exceptions, and
  the invariants of the profiler, the printing and the polling driver on that of the programs.

## 5. Findings

1. `demo_reports_drops`: the demo reads the drop count, logs a report and resets
   the counter; the report itself can evict lines, and the reset forgets that. With
   the code's real sizes it happens in the first iteration. `DemoReportsOnce` (section 4)
   is what remains: what is reported did happen, and is reported once.
2. `alarm_stop_next`: a callback that stops the alarm `alt_tick` has saved as its
   next has that alarm called all the same; and since a removed element points to
   itself, `alt_tick` then never leaves it.
3. `uart_fails`: after a wait for room `write.c:187` gives up with `-EIO` if
   `host_inactive` is not 0, while the wait itself and `TIOCGCONNECTED` take the host
   for gone at `timeout`. A writer woken because the host took a byte can fail,
   though the host is connected.
4. `light_lasts`: `timer_wait_us` takes each time-out for a millisecond
   (`KnightRiderLight.c:44`: "1ms timer period"), but `TIMER_0` has a period of one
   microsecond (`system.h:328`) and no code reprograms it. Nothing in the wait makes it last
   the "1s delay between LEDs" of line 42; how long it takes in fact is left to the `printf`
   calls in its loop, and so to the host.

Seen while modelling, without a run of their own:

* A message of 255 characters loses its `"\r\n"` (`snprintf` into `line[260]`), so
  when it is evicted `ring_buffer_discard_oldest_line` runs on through the following
  line: one drop counted, two lines gone. `DropsCounted` holds for messages that fit.
* A message with its own `'\n'` (`RadonHelloWorld/main.c:37`) is evicted in two
  steps and counted twice.
* `alt_fd_lock` scans `i < alt_max_fd`, one descriptor short of `alt_file_locked`'s
  `i <= alt_max_fd`, and would grant exclusive access while the highest descriptor
  is open on the device. It takes standard streams on different devices or more
  descriptors than the four of this BSP. `FdOneHolder` and `FdLockHeld` hold in
  spite of it.
* `close()` of a standard descriptor succeeds and keeps its lock.
* `alt_alarm_start` with 2^32 - 1 ticks fires at the next tick.
* `KnightRiderLight.c` starts `TIMER_0` with its interrupt enabled in the timer, though no
  handler is registered; it is never enabled in the controller, so nothing happens.
* `alt_settod.c:84` multiplies in 32 bits and `gettimeofday` in 64: after 71 minutes of
  uptime a time that is set is not the one read back, though `alt_settod.c:56` says it is.
  `TimeIsKept` carries that limit (`Exact`).
* The time of day jumps back when the tick counter wraps, after 2^32 ticks: `gettimeofday`
  adds the counter as it stands (`alt_gettod.c`). `TimeIsKept` promises nothing from
  there to the next `settimeofday` (`Lost`).
* `alt_irq_enable` and `alt_irq_disable` write `ienable` without `alt_priority_mask`: called
  from a handler that has let higher ones in, they let lower ones in, too. The model
  excludes such calls (`Polite`).
* `alt_sbrk` does check bounds, though its comment (45-48) says not. After an increment
  that is not a number of words the stack limit no longer equals the rounded end of the
  heap and stays behind for good: the profiler's histogram can do that. `HeapApart`
  promises the stack check only until then (`odd`).
* `alt_gmon.c`: nobody looks at the -1 of a refused `sbrk`; `pcsample_need_init` is tested
  outside the masked section, so sampling can start twice; an arc may be listed twice,
  which the comment at 177 admits for functions; sampling is tried again not "on subsequent
  mcount calls" (212) but on those that record a new arc; when the text's size is not a
  number of buckets a sample of its end is written one bucket past the histogram.
* `alt_log_system_clock` prints every `Interval` + 1 ticks; the echo of a write is one
  character shorter than its comment says, the last giving way to the end of the line;
  a precision is read and ignored. With `alt_log` linked in, the boot code prints
  messages that are initialised data (`crt0.S:436`) before `alt_load` has copied them.
* `alt_busy_sleep` rounds the turns per microsecond down (at 50 MHz a sleep is about a
  tenth short), and a sleep of a whole number of big loops runs another 2^32 turns.
  `SleepStep` says by exactly how much a sleep is off; it does not forbid it.
* `alt_timestamp` read by a handler between the two halves of a read tears it. `StampStep`
  says how far the result is off then: while the timer runs it is never before the call's own
  snapshot, and less than 2^16 periods ahead of now.
* After a roll-over `alt_timestamp` returns 0, as `altera_avalon_timer_ts.c:57-58` says; the
  comment at 92-94 says -1, which is returned only without a timer.
* The comment at `alt_exception_entry.S:276` does not describe the branch under it; with
  a separate exception stack, an emulated instruction in a nested handler would
  overwrite the outer frame.

Where the properties stop. Some hazards of `PROJECT.json` are, in part, what the code
does. Where nothing in the code says otherwise the properties allow that part, and say
how far it goes, rather than fail on it: the order of lines across contexts
(`StampsOrdered` bounds it); a refused `sbrk` and increments that are no number of words
(`refused`, `odd` of `HeapApart`); a line outside the region of a discard that shares
one with it; the highest descriptor that `alt_fd_lock` overlooks; a message with a
newline of its own; an absent host, which keeps a polling write waiting for good; the
histogram's last bucket; a whole number of big loops; a torn timestamp. Each is
described above or in the hazard's note.

## 6. Not modelled, and why

* Parts that this build leaves out are modelled where the HAL has the code for them
  and noted here because the image does not contain it: the interrupt driven UART, the
  alt_log half of `Console`, `Cache`, `Profile`, `Timestamp`, the system clock and the
  stack check. It does contain the instruction exception API (`system.h:343`). The CPU has no
  caches and no instruction emulation; `alt_load` copies only `.rwdata` here.
* The C library (newlib's stdio and malloc), and `snprintf` in the logger beyond lengths.
* Of DMA and flash: the drivers, which this system has not got; `alt_flash`'s read, write
  and erase, which call the driver's and return; requests of `ioctl` that go straight to
  the driver; the depth of a receive channel.
* The libc stubs (`fork`, `wait`, `link` ...) set `errno` and return; the locks around
  malloc and the environment are empty in a single-threaded build.
* Semihosted output (`alt_putcharbuf.c`) and `alt_getchar`; `times`; `timer_get_period_us`;
  the left and right buttons.
* Of the exceptions: a separate exception stack, the stack check at entry, CDX
  instructions, ECC errors, shadow registers and the external interrupt controller; none
  is configured.
* The file `gmon.out` written at the end; the system identification, which compares two
  constants; the generated hardware description, from which the models take their
  device parameters.

## 7. Plan

Done: `RingBuffer`, `LockedRing`, `EquiniosLogger`, `NiosLoggerDemo`; `FdTable` and
`Startup`; `AlarmList`, `TimerQueue` and `Clock`; `JtagUart`, `JtagUartSmall`,
`SerialLine`; `Exceptions`, `MulDiv`, `Machine`; `KnightRider`, `Console`, `Heap`,
`Profile`, `Cache`, `Delay`, `Timestamp`, `Channels`; the theorems of section 4.

What is left, in order of weight:

1. `Console`: the step half of `ConsolePrints`, that a call prints what its format means,
   once a prover is at hand that takes an induction over formats.
2. An abstract specification of the drop count that allows for what finding 1 shows, so
   that a repaired demo could be checked against it.
3. The drivers of DMA channels and flash devices, when this system gets one.

A new property joins an existing run where the state allows it, so that the runs stay
few and each of them answers a question of its own.
