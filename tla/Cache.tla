------------------------------- MODULE Cache --------------------------------
(***************************************************************************)
(* The cache calls of the HAL, line by line, with an interrupt handler     *)
(* that uses memory between two of them: flush with and without write      *)
(* back, memory allocated to be used past the cache, and the flush of the  *)
(* instruction cache.                                                      *)
(***************************************************************************)
EXTENDS Integers, FiniteSets

CONSTANTS Line,   \* NIOS2_DCACHE_LINE_SIZE, NIOS2_ICACHE_LINE_SIZE
          Lines,  \* of memory
          Sets,   \* lines of the instruction cache
          HandlerLines  \* what the handler uses

VARIABLES kind,           \* the cache in question, "data" or "instruction"
          cached, dirty,  \* lines in the cache, and those memory is behind of
          job,            \* "idle", "flush" or "discard"
          start, len,     \* its region
          i,              \* the loop's pointer
          more,           \* the loop is not over
          touched,        \* ghost: lines the handler used since the job began
          gone,           \* ghost: lines whose writes were thrown away by it
          uncached        \* lines that are used past the cache

region == <<start, len>>
vars == <<kind, cached, dirty, job, region, i, more, touched, gone, uncached>>

LineOf(a) == a \div Line
Of(a, n) == {LineOf(b) : b \in a .. a + n - 1}

Init == /\ kind \in {"data", "instruction"}
        /\ cached = {} /\ dirty = {} /\ job = "idle" /\ start = 0 /\ len = 0
        /\ i = 0 /\ more = FALSE /\ touched = {} /\ gone = {} /\ uncached = {}

\* The lines that share a place with l in the instruction cache
SameSet(l) == {k \in 0 .. Lines : k % Sets = l % Sets}

\* A fetch, a load or a store, by the program or by a handler during a job
Touch(l, store) == /\ l \notin uncached
                   /\ store => kind = "data"
                   /\ job # "idle" => l \in HandlerLines
                   /\ cached' = (IF kind = "data" THEN cached ELSE cached \ SameSet(l)) \cup {l}
                   /\ dirty' = IF store THEN dirty \cup {l} ELSE dirty
                   /\ touched' = IF job = "idle" THEN touched ELSE touched \cup {l}
                   /\ UNCHANGED <<kind, job, region, i, more, gone, uncached>>

Begin(name, a, n) == /\ job = "idle"
                     /\ job' = name
                     /\ start' = a /\ len' = n
                     /\ i' = a /\ more' = TRUE
                     /\ touched' = {} /\ gone' = {}

Flush(a, n) == Begin("flush", a, n) /\ UNCHANGED <<kind, cached, dirty, uncached>>
Discard(a, n) == /\ kind = "data"
                 /\ Begin("discard", a, n) /\ UNCHANGED <<kind, cached, dirty, uncached>>

\* alt_dcache_flush_all, alt_icache_flush_all
FlushAll == Flush(0, Lines * Line)

\* alt_icache_flush flushes no more than the whole cache.
End == start + (IF kind = "instruction" /\ len > Sets * Line THEN Sets * Line ELSE len)

\* flushda writes a dirty line back, initda does not; flushi takes whatever is there.
Drop(l) == /\ cached' = cached \ (IF kind = "data" THEN {l} ELSE SameSet(l))
           /\ dirty' = dirty \ {l}
           /\ gone' = IF job = "discard" THEN gone \cup ({l} \cap dirty) ELSE gone

LoopStep == /\ job # "idle" /\ more
            /\ i < End
            /\ Drop(LineOf(i))
            /\ i' = i + Line
            /\ UNCHANGED <<kind, job, region, more, touched, uncached>>

\* Mutant: the loop's lines are all.
LastLineNot == /\ job # "idle" /\ more
               /\ i >= End
               /\ more' = FALSE
               /\ UNCHANGED <<kind, cached, dirty, gone, job, region, i, touched, uncached>>

\* One line more when the region does not start at the beginning of a line
LastLine == /\ job # "idle" /\ more
            /\ i >= End
            /\ IF start % Line # 0 THEN Drop(LineOf(i)) ELSE UNCHANGED <<cached, dirty, gone>>
            /\ more' = FALSE
            /\ UNCHANGED <<kind, job, region, i, touched, uncached>>

Done == /\ job # "idle" /\ ~more
        /\ job' = "idle"
        /\ UNCHANGED <<kind, cached, dirty, region, i, more, touched, gone, uncached>>

\* alt_uncached_malloc: whole lines, which memalign takes from free memory and
\* which are then flushed.  No handler uses free memory.
UncachedMalloc(l, n) ==
    LET lines == l .. l + (n + Line - 1) \div Line - 1
    IN /\ kind = "data" /\ job = "idle" /\ n > 0
       /\ lines \subseteq 0 .. Lines - 1 /\ lines \cap uncached = {}
       /\ cached' = cached \ lines /\ dirty' = dirty \ lines
       /\ uncached' = uncached \cup lines
       /\ UNCHANGED <<kind, job, region, i, more, touched, gone>>

\* alt_uncached_free and alt_remap_cached only change the pointer: from now on the
\* memory is used through the cache.
UncachedFree == /\ job = "idle" /\ uncached # {}
                /\ uncached' = {}
                /\ UNCHANGED <<kind, cached, dirty, job, region, i, more, touched, gone>>

Main == LoopStep \/ LastLine \/ Done

Next == \/ \E l \in 0 .. Lines - 1, store \in BOOLEAN : Touch(l, store)
        \/ \E a \in 0 .. Lines * Line - 1 : \E n \in 0 .. Lines * Line - a :
              Flush(a, n) \/ Discard(a, n)
        \/ FlushAll \/ Main
        \/ \E l \in 0 .. Lines - 1, n \in 1 .. Line + 1 : UncachedMalloc(l, n)
        \/ UncachedFree
-----------------------------------------------------------------------------
CacheTypeOK == /\ cached \subseteq 0 .. Lines - 1 /\ dirty \subseteq cached
               /\ job \in {"idle", "flush", "discard"} /\ more \in BOOLEAN
               /\ cached \cap uncached = {}

\* When a flush returns, no line of its region is left in the cache, however the
\* region lies on the lines, but for those a handler has used since
\* (alt_dcache_flush.c:58-67).  Only a flush without write back throws writes
\* away, and then beyond its region not more than the one line that follows.
FlushStep == Done => /\ cached \cap Of(start, len) \subseteq touched
                     /\ gone \subseteq Of(start, len + Line)
                     /\ job = "flush" => gone = {}
=============================================================================
