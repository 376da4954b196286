------------------------------ MODULE Profile -------------------------------
(***************************************************************************)
(* Profiling: _mcount at the start of every function, in the program and   *)
(* in interrupt handlers, over lists that the assembler code walks and     *)
(* counts in without a lock, and a sampling alarm.  Its memory comes from  *)
(* alt_sbrk, which malloc uses as well.                                    *)
(***************************************************************************)
EXTENDS Heap, Sequences, FiniteSets
LOCAL INSTANCE Functions

CONSTANTS Arcs,       \* calls that happen: records [self, from]
          HandlerArcs,\* those that happen in a handler
          Struct,     \* bytes of an entry of either list
          Slab,       \* MCOUNT_SLAB_INCREMENT
          Text,       \* bytes of the program
          Bucket,     \* PCSAMPLE_BYTES_PER_BUCKET
          Increments, \* what malloc asks for
          Frame,      \* of a function on the stack
          MaxCalls,   \* bounds: calls of either context
          MaxMallocs

VARIABLES entries,    \* of each function: mcount_fn_entry, oldest first, each the
                      \* sequence of its arcs [from, count], oldest first
          slab_ptr, slab_size,
          structs,    \* ghost: where entries and arcs were put
          refused,    \* ghost: alt_sbrk returned -1, which nobody looks at
          at,         \* of each context: where it is in _mcount, "none" outside
          arc,        \* the call it records
          entry, node, count,  \* what it has found and loaded
          pcsample_need_init, rate, starts,  \* rate: the system clock ticks
          sampled,    \* the bucket that was counted last, or -1
          done,       \* ghost: calls counted, by context and arc
          raced, late \* ghosts: calls of a handler while the program was about to store
                      \* a count, and while it was about to add an arc

Contexts == {"main", "handler"}
Functions == {c.self : c \in Arcs}
lists == <<entries, slab_ptr, slab_size, structs, refused>>
sampler == <<pcsample_need_init, rate, starts, sampled>>
locals == <<at, arc, entry, node, count>>
ghosts == <<done, raced, late>>
vars == <<heap, sp, lists, sampler, locals, ghosts>>

Init == /\ HeapInit
        /\ entries = [f \in Functions |-> <<>>]
        /\ slab_ptr = 0 /\ slab_size = 0 /\ structs = <<>> /\ refused = FALSE
        /\ at = [c \in Contexts |-> "none"]
        /\ arc = [c \in Contexts |-> CHOOSE x \in Arcs : TRUE]
        /\ entry = [c \in Contexts |-> 0] /\ node = [c \in Contexts |-> 0]
        /\ count = [c \in Contexts |-> 0]
        /\ pcsample_need_init = TRUE /\ rate \in BOOLEAN /\ starts = 0 /\ sampled = -1
        /\ done = [c \in Contexts |-> [x \in Arcs |-> 0]] /\ raced = 0 /\ late = 0

\* The program stands still while a handler runs.
Runs(c) == c = "handler" \/ at["handler"] = "none"

Calls(c) == SumFunction(done[c])

Call(c, x) == /\ Runs(c) /\ at[c] = "none"
              /\ Calls(c) < MaxCalls
              /\ c = "handler" => x \in HandlerArcs
              /\ at' = [at EXCEPT ![c] = "entry"] /\ arc' = [arc EXCEPT ![c] = x]
              /\ UNCHANGED <<heap, sp, lists, sampler, entry, node, count, ghosts>>

\* The first entry of the function is the newest.
FindEntry(c) == /\ Runs(c) /\ at[c] = "entry"
                /\ entry' = [entry EXCEPT ![c] = Len(entries[arc[c].self])]
                /\ at' = [at EXCEPT ![c] = IF entries[arc[c].self] = <<>> THEN "record" ELSE "arc"]
                /\ UNCHANGED <<heap, sp, lists, sampler, arc, node, count, ghosts>>

Nodes(c) == entries[arc[c].self][entry[c]]
Found(c) == {i \in DOMAIN Nodes(c) : Nodes(c)[i].from = arc[c].from}

FindArc(c) == /\ Runs(c) /\ at[c] = "arc"
              /\ \/ \E i \in Found(c) : /\ \A j \in Found(c) : j <= i
                                        /\ node' = [node EXCEPT ![c] = i]
                                        /\ at' = [at EXCEPT ![c] = "load"]
                 \/ /\ Found(c) = {}
                    /\ at' = [at EXCEPT ![c] = "record"] /\ UNCHANGED node
              /\ UNCHANGED <<heap, sp, lists, sampler, arc, entry, count, ghosts>>

Load(c) == /\ Runs(c) /\ at[c] = "load"
           /\ count' = [count EXCEPT ![c] = Nodes(c)[node[c]].count]
           /\ at' = [at EXCEPT ![c] = "store"]
           /\ UNCHANGED <<heap, sp, lists, sampler, arc, entry, node, ghosts>>

\* The call is over; what it ran into is remembered.
Over(c) == /\ at' = [at EXCEPT ![c] = "none"]
           /\ done' = [done EXCEPT ![c][arc[c]] = @ + 1]
           /\ raced' = IF c = "handler" /\ at["main"] = "store" THEN raced + 1 ELSE raced
           /\ late' = IF c = "handler" /\ at["main"] \in {"record", "clear", "start", "add"}
                      THEN late + 1 ELSE late
           /\ UNCHANGED <<sp, arc, entry, node, count>>

\* Mutant: the count is incremented twice.
StoreTwo(c) == /\ Runs(c) /\ at[c] = "store"
               /\ entries' = [entries EXCEPT ![arc[c].self][entry[c]][node[c]].count = count[c] + 2]
               /\ Over(c)
               /\ UNCHANGED <<heap, slab_ptr, slab_size, structs, refused, sampler>>

Store(c) == /\ Runs(c) /\ at[c] = "store"
            /\ entries' = [entries EXCEPT ![arc[c].self][entry[c]][node[c]].count = count[c] + 1]
            /\ Over(c)
            /\ UNCHANGED <<heap, slab_ptr, slab_size, structs, refused, sampler>>
-----------------------------------------------------------------------------
(* __mcount_record *)

TestInit(c) == /\ Runs(c) /\ at[c] = "record"
               /\ at' = [at EXCEPT ![c] = IF pcsample_need_init THEN "clear" ELSE "add"]
               /\ UNCHANGED <<heap, sp, lists, sampler, arc, entry, node, count, ghosts>>

ClearInit(c) == /\ Runs(c) /\ at[c] = "clear"
                /\ pcsample_need_init' = FALSE
                /\ at' = [at EXCEPT ![c] = "start"]
                /\ UNCHANGED <<heap, sp, lists, rate, starts, sampled, arc, entry, node, count, ghosts>>

HistogramSize == Text \div Bucket

\* nios2_pcsample_init, once the system clock ticks
StartSampling(c) ==
    /\ Runs(c) /\ at[c] = "start"
    /\ at' = [at EXCEPT ![c] = "add"]
    /\ pcsample_need_init' = ~rate
    /\ \/ /\ ~rate /\ UNCHANGED <<heap, refused, starts>>
       \/ /\ rate
          /\ heap' = Sbrk(heap, 2 * HistogramSize, "histogram")
          /\ refused' = (refused \/ ~Granted(heap, 2 * HistogramSize))
          /\ starts' = starts + 1
    /\ UNCHANGED <<sp, entries, slab_ptr, slab_size, structs, rate, sampled, arc, entry, node, count, ghosts>>

\* What mcount_allocate works on
Memory == [heap |-> heap, ptr |-> slab_ptr, size |-> slab_size, structs |-> structs,
           refused |-> refused]

Slabbed(m) == IF Struct <= m.size THEN m
              ELSE [m EXCEPT !.heap = Sbrk(m.heap, Slab, "slab"),
                             !.ptr = IF Granted(m.heap, Slab) THEN Aligned(m.heap.end) ELSE -1,
                             !.size = Slab,
                             !.refused = @ \/ ~Granted(m.heap, Slab)]

Allocate(m) == LET s == Slabbed(m)
               IN [s EXCEPT !.ptr = @ + Struct, !.size = @ - Struct,
                            !.structs = Append(@, s.ptr)]

\* With interrupts off a new entry, unless there was one, and a new arc in front
Add(c) ==
    /\ Runs(c) /\ at[c] = "add"
    /\ LET f == arc[c].self
           new == [from |-> arc[c].from, count |-> 1]
           m == IF entry[c] = 0 THEN Allocate(Allocate(Memory)) ELSE Allocate(Memory)
       IN /\ \/ entry[c] = 0 /\ entries' = [entries EXCEPT ![f] = Append(@, <<new>>)]
             \/ entry[c] # 0 /\ entries' = [entries EXCEPT ![f][entry[c]] = Append(@, new)]
          /\ heap' = m.heap /\ slab_ptr' = m.ptr /\ slab_size' = m.size
          /\ structs' = m.structs /\ refused' = m.refused
    /\ Over(c)
    /\ UNCHANGED sampler

\* nios2_pcsample, in a tick
Sample(pc) == /\ starts > 0
              /\ sampled' = pc \div Bucket
              /\ UNCHANGED <<heap, sp, lists, pcsample_need_init, rate, starts, locals, ghosts>>

\* The system clock is registered.
ClockStarts == /\ ~rate /\ rate' = TRUE
               /\ UNCHANGED <<heap, sp, lists, pcsample_need_init, starts, sampled, locals, ghosts>>

Mallocs == {b \in heap.blocks : b.who = "malloc"}

Next == \/ \E c \in Contexts : \/ \E x \in Arcs : Call(c, x)
                               \/ FindEntry(c) \/ FindArc(c) \/ Load(c) \/ Store(c)
                               \/ TestInit(c) \/ ClearInit(c) \/ StartSampling(c) \/ Add(c)
        \/ \E pc \in 0 .. Text - 1 : Sample(pc)
        \/ ClockStarts
        \/ /\ \/ \E n \in Increments : Malloc(n) /\ Cardinality(Mallocs) < MaxMallocs
              \/ Push(Frame) \/ Pop(Frame)
           /\ at["main"] = "none" /\ at["handler"] = "none"
           /\ UNCHANGED <<lists, sampler, locals, ghosts>>
-----------------------------------------------------------------------------
ProfileTypeOK == /\ HeapTypeOK
                 /\ \A c \in Contexts : /\ arc[c] \in Arcs
                                        /\ at[c] \in {"load", "store"} =>
                                             node[c] \in DOMAIN Nodes(c)
                 /\ starts \in Nat /\ slab_size \in 0 .. Slab

\* Where the lists hold an arc, [entry, node], and a mark for each call counted there
Places(x) == UNION {{<<e, i>> : i \in {j \in DOMAIN entries[x.self][e] :
                                         entries[x.self][e][j].from = x.from}} :
                      e \in DOMAIN entries[x.self]}

Marks(x) == UNION {{<<p, k>> : k \in 1 .. entries[x.self][p[1]][p[2]].count} : p \in Places(x)}

Counted(x) == done["main"][x] + done["handler"][x]

\* The profile counts every call, but for those of a handler that ran between
\* the load and the store of a count (alt_mcount.S:120-122), and an arc has a
\* second copy only for a handler's call while the program was about to add it
\* (alt_gmon.c:177-180).  Only then, too, may sampling be started twice.
ProfileCounts == /\ \A x \in Arcs :
                       /\ Cardinality(Marks(x)) \in Counted(x) - raced .. Counted(x)
                       /\ Cardinality(Places(x)) <= 1 + late
                 /\ starts <= 1 + late

\* Entries and arcs lie in the slabs, each in a place of its own, and samples in
\* the histogram, as long as alt_sbrk has not refused.
ProfileApart == refused \/
    /\ \A i, j \in DOMAIN structs :
          i = j \/ structs[i] + Struct <= structs[j] \/ structs[j] + Struct <= structs[i]
    /\ \A i \in DOMAIN structs : \E b \in heap.blocks :
          b.who = "slab" /\ structs[i] .. structs[i] + Struct - 1 \subseteq Bytes(b)
    /\ sampled < HistogramSize
=============================================================================
