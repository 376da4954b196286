------------------------------ MODULE Startup ------------------------------
(***************************************************************************)
(* From reset to main() and on to _exit(): crt0, alt_load, alt_main and    *)
(* alt_sys_init over the descriptor table.  Sections are copied to RAM     *)
(* through caches that write back and fetch on their own; drivers register *)
(* their devices before the standard descriptors are opened on them, and   *)
(* the program's calls are those of FdTable.                               *)
(***************************************************************************)
EXTENDS FdTable, FiniteSets

CONSTANTS DCache, ICache,  \* the processor has a data, an instruction cache
          Copied,          \* sections whose load address is not where they run
          Register,        \* the devices and file systems alt_sys_init registers
          Constructors     \* entries of __CTOR_LIST__, as of __DTOR_LIST__

Sections == {"rwdata", "exceptions", "rodata"}

\* A name that no driver of this system registers is Missing.
Registers(d) == \E i \in 1 .. Len(Register) : Register[i] = d

ASSUME StartupAssumption == /\ DCache \in BOOLEAN /\ ICache \in BOOLEAN
                            /\ Copied \subseteq Sections
                            /\ Register \in Seq(Drivers \ {Null}) /\ Register # <<>>
                            /\ \A f \in Std : StdDevice[f] \in {Null, Missing}
                                                 \/ Registers(StdDevice[f])
                            /\ Constructors \in Nat

VARIABLES at,         \* what crt0, alt_main or exit comes to next
          ram,        \* the sections that memory holds
          dirty,      \* sections written but still in the data cache only
          fetched,    \* what the instruction cache holds of the handler's code:
                      \* "none", what was there "before", or the "code"
          bss,        \* .bss is zero
          pie,        \* status.PIE
          registered, \* alt_dev_list and alt_fs_list, the first found first
          left        \* entries of the constructors' or destructors' list left

memory == <<ram, dirty, fetched, bss>>
bootVars == <<at, memory, pie, registered, left>>
startupVars == <<vars, bootVars>>

\* Mutant: the instruction cache is flushed before the data are in memory.
AfterFlushes(s) ==
  [icache |-> "dcache", dcache |-> "bss", bss |-> "rwdata",
   rwdata |-> "exceptions", exceptions |-> "rodata",
   rodata |-> "iflush", iflush |-> "dflush", dflush |-> "irq",
   irq |-> "devices", devices |-> "redirect", redirect |-> "ctors",
   ctors |-> "main", main |-> "exit", exit |-> "dtors",
   dtors |-> "spin"][s]

\* Mutant: standard I/O is redirected before the drivers are there.
AfterRedirect(s) ==
  [icache |-> "dcache", dcache |-> "bss", bss |-> "rwdata",
   rwdata |-> "exceptions", exceptions |-> "rodata",
   rodata |-> "dflush", dflush |-> "iflush", iflush |-> "irq",
   irq |-> "redirect", redirect |-> "devices", devices |-> "ctors",
   ctors |-> "main", main |-> "exit", exit |-> "dtors",
   dtors |-> "spin"][s]

\* The order of crt0, alt_load, alt_main and exit
After(s) ==
  [icache |-> "dcache", dcache |-> "bss", bss |-> "rwdata",
   rwdata |-> "exceptions", exceptions |-> "rodata",
   rodata |-> "dflush", dflush |-> "iflush", iflush |-> "irq",
   irq |-> "devices", devices |-> "redirect", redirect |-> "ctors",
   ctors |-> "main", main |-> "exit", exit |-> "dtors",
   dtors |-> "spin"][s]

\* The instruction cache may hold anything at reset.
StartupInit == /\ Init
               /\ at = "icache"
               /\ ram = Sections \ Copied
               /\ dirty = {}
               /\ fetched = IF ICache THEN "before" ELSE "none"
               /\ bss = FALSE /\ pie = FALSE
               /\ registered = <<Null>>
               /\ left = 0

Goes(s) == at = s /\ at' = After(s)
-----------------------------------------------------------------------------
(* crt0.S and alt_load() *)

\* The loop of initi over the instruction cache
InitICache == /\ Goes("icache")
              /\ fetched' = "none"
              /\ UNCHANGED <<vars, ram, dirty, bss, pie, registered, left>>

\* The loop of initd over the data cache, whose lines are lost
InitDCache == /\ Goes("dcache")
              /\ dirty' = {}
              /\ UNCHANGED <<vars, ram, fetched, bss, pie, registered, left>>

\* Word by word, but for an empty .bss
ClearBss == /\ Goes("bss")
            /\ bss' = TRUE
            /\ UNCHANGED <<vars, ram, dirty, fetched, pie, registered, left>>

\* alt_load_section copies a section unless it is where it runs.
LoadSection(s) == /\ Goes(s)
                  /\ IF s \notin Copied THEN UNCHANGED <<ram, dirty>>
                     ELSE IF DCache THEN dirty' = dirty \cup {s} /\ UNCHANGED ram
                     ELSE ram' = ram \cup {s} /\ UNCHANGED dirty
                  /\ UNCHANGED <<vars, fetched, bss, pie, registered, left>>

\* alt_dcache_flush_all
FlushDCache == /\ Goes("dflush")
               /\ ram' = ram \cup dirty
               /\ dirty' = {}
               /\ UNCHANGED <<vars, fetched, bss, pie, registered, left>>

\* alt_icache_flush_all
FlushICache == /\ Goes("iflush")
               /\ fetched' = "none"
               /\ UNCHANGED <<vars, ram, dirty, bss, pie, registered, left>>

\* The caches themselves: a dirty line is written back, and a line of the
\* handler's code, next to the code that runs, is fetched from memory.
Evict == /\ dirty # {}
         /\ \E s \in dirty : ram' = ram \cup {s} /\ dirty' = dirty \ {s}
         /\ UNCHANGED <<vars, at, fetched, bss, pie, registered, left>>

Fetched == IF ICache /\ fetched = "none"
           THEN IF "exceptions" \in ram THEN "code" ELSE "before"
           ELSE fetched

Prefetch == /\ ICache /\ fetched = "none" /\ ~pie
            /\ at # "icache"
            /\ fetched' = Fetched
            /\ UNCHANGED <<vars, at, ram, dirty, bss, pie, registered, left>>
-----------------------------------------------------------------------------
(* alt_main() *)

\* alt_irq_init: from now on an interrupt may fetch the handler.
IrqInit == /\ Goes("irq")
           /\ pie' = TRUE
           /\ fetched' = Fetched
           /\ UNCHANGED <<vars, ram, dirty, bss, registered, left>>

\* alt_sys_init: alt_dev_reg and alt_fs_reg insert at the head of their lists.
RegisterNext == /\ at = "devices"
                /\ LET n == Len(registered)
                   IN /\ n <= Len(Register)
                      /\ registered' = <<Register[n]>> \o registered
                      /\ at' = IF n = Len(Register) THEN After(at) ELSE at
                /\ UNCHANGED <<vars, memory, pie, left>>

\* alt_find_dev, alt_find_file
Found(d) == \E i \in 1 .. Len(registered) : registered[i] = d

\* alt_io_redirect opens the standard descriptors' devices one after the other.
RedirectNext == /\ at = "redirect" /\ boot # <<>>
                /\ IF StdDevice[Head(boot)] = Missing \/ Found(StdDevice[Head(boot)])
                   THEN Redirect \/ RedirectFails
                   ELSE boot' = Tail(boot) /\ UNCHANGED <<dev, flags, max_fd, held, reply>>
                /\ UNCHANGED bootVars

\* _do_ctors starts at the end of its list.
Redirected == /\ boot = <<>>
              /\ Goes("redirect")
              /\ left' = Constructors
              /\ UNCHANGED <<vars, memory, pie, registered>>

\* _do_ctors and _do_dtors call an entry, or find none left.
CallEntry == /\ at \in {"ctors", "dtors"} /\ left > 0
             /\ left' = left - 1
             /\ UNCHANGED <<vars, at, memory, pie, registered>>

NoEntry == /\ left = 0
           /\ Goes("ctors") \/ Goes("dtors")
           /\ UNCHANGED <<vars, memory, pie, registered, left>>

\* main() and whatever it opens and closes
Main == /\ at = "main"
        /\ Next
        /\ UNCHANGED bootVars

\* main() returns, whatever it leaves open; alt_main closes stdout.
MainReturns == /\ at = "main"
               /\ Close(1)
               /\ at' = After("main")
               /\ UNCHANGED <<memory, pie, registered, left>>

\* kill() sends the program itself a signal that _exit() answers, as abort() does:
\* nothing is closed and nothing destructed.  Other signals change nothing.
Kill == /\ at = "main"
        /\ at' = "spin"
        /\ UNCHANGED <<vars, memory, pie, registered, left>>

\* exit() runs what atexit() was given, _do_dtors.
Exit == /\ Goes("exit")
        /\ left' = Constructors
        /\ UNCHANGED <<vars, memory, pie, registered>>

\* _exit() spins forever.
Spin == /\ at = "spin"
        /\ UNCHANGED startupVars

Boot == \/ InitICache \/ InitDCache \/ ClearBss
        \/ \E s \in Sections : LoadSection(s)
        \/ FlushDCache \/ FlushICache
        \/ IrqInit \/ RegisterNext \/ RedirectNext \/ Redirected
        \/ CallEntry \/ NoEntry \/ Exit

StartupNext == Boot \/ Evict \/ Prefetch \/ Main \/ MainReturns \/ Kill \/ Spin

StartupSpec == StartupInit /\ [][StartupNext]_startupVars
-----------------------------------------------------------------------------
(* Properties *)

StartupTypeOK == /\ FdTypeOK
                 /\ at \in {"icache", "dcache", "bss", "rwdata", "exceptions", "rodata", "dflush",
                           "iflush", "irq", "devices", "redirect", "ctors", "main", "exit",
                           "dtors", "spin"}
                 /\ ram \subseteq Sections /\ dirty \subseteq Sections
                 /\ fetched \in {"none", "before", "code"}
                 /\ bss \in BOOLEAN /\ pie \in BOOLEAN
                 /\ registered \in Seq(Drivers)
                 /\ left \in 0 .. Constructors

\* From the moment interrupts are on, the handler that is fetched is the one
\* alt_load copied, from the cache or from memory, and data read as they were
\* copied (alt_load.c:93-98, alt_sys_init.c:86).
HandlerLoaded == pie => /\ bss /\ Sections = ram \cup dirty
                        /\ fetched = IF ICache THEN "code" ELSE "none"
                        /\ "exceptions" \in ram

\* When the program starts, standard I/O goes to the devices it was configured
\* for, in the right direction, unless they cannot be opened.
Openable(d) == Registers(d) /\ d \notin Fragile

StdReady == at = "ctors" => \A f \in Std :
  IF Openable(StdDevice[f])
  THEN dev[f] = StdDevice[f] /\ Access(f) = IF f = 0 THEN "read" ELSE "write"
  ELSE dev[f] \in {Null, StdDevice[f]}
=============================================================================
