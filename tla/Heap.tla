-------------------------------- MODULE Heap --------------------------------
(***************************************************************************)
(* The heap that alt_sbrk extends towards the stack, in a build that       *)
(* checks the stack: the limit the compiled code compares the stack        *)
(* pointer with lies at the end of the heap and moves with it.             *)
(***************************************************************************)
EXTENDS Integers

CONSTANT HeapBytes  \* from __alt_heap_start to __alt_heap_limit, or ALT_MAX_HEAP_BYTES

VARIABLES heap,  \* what alt_sbrk keeps: heap_end and the stack limit, with ghosts
          sp     \* the stack pointer; the stack grows down from the end of the heap's memory

\* end: heap_end; limit: et; overflow: reported; odd: heap_end was once left between
\* two words; blocks: what was handed out, [at, size, who]
NewHeap == [end |-> 0, limit |-> 0, overflow |-> FALSE, odd |-> FALSE, blocks |-> {}]

HeapInit == heap = NewHeap /\ sp = HeapBytes

Aligned(a) == ((a + 3) \div 4) * 4

Granted(h, incr) == Aligned(h.end) + incr <= HeapBytes

Given(h, incr, who) == [at |-> Aligned(h.end), size |-> incr, who |-> who]

\* Mutant: the stack limit stays where it is.
FollowsNot(h) == FALSE

\* The stack and the heap are contiguous, and no other stack is in use.
Follows(h) == h.limit = Aligned(h.end)

\* The heap after alt_sbrk(incr), which returns -1 when it is not granted
Sbrk(h, incr, who) ==
    LET next == Aligned(h.end) + incr
    IN IF ~Granted(h, incr) THEN [h EXCEPT !.end = Aligned(@)]
       ELSE [end |-> next,
             limit |-> IF Follows(h) THEN next ELSE h.limit,
             overflow |-> h.overflow \/ (Follows(h) /\ sp <= next),
             odd |-> h.odd \/ next % 4 # 0,
             blocks |-> h.blocks \cup {Given(h, incr, who)}]

\* malloc asks for more.
Malloc(incr) == /\ heap' = Sbrk(heap, incr, "malloc")
                /\ UNCHANGED sp

\* The prologue of a function, with the compiler's check of the stack
Push(n) == /\ sp >= n
           /\ sp' = sp - n
           /\ heap' = [heap EXCEPT !.overflow = @ \/ sp - n < heap.limit]

Pop(n) == /\ sp + n <= HeapBytes
          /\ sp' = sp + n
          /\ UNCHANGED heap

Bytes(b) == b.at .. b.at + b.size - 1

HeapTypeOK == /\ heap.end \in 0 .. HeapBytes /\ heap.limit \in 0 .. heap.end
              /\ sp \in 0 .. HeapBytes

\* What alt_sbrk hands out lies on words and overlaps nothing it has handed out,
\* to malloc or to the profiler in a handler; and the heap never meets the stack
\* unreported (alt_sbrk.c:98-113).  The second holds only as long as every
\* increment is a number of words: after another one the limit no longer equals
\* the rounded end of the heap and stays where it is.
HeapApart == /\ \A b \in heap.blocks : b.at % 4 = 0 /\ b.at + b.size <= HeapBytes
             /\ \A b \in heap.blocks, c \in heap.blocks : b = c \/ Bytes(b) \cap Bytes(c) = {}
             /\ heap.overflow \/ heap.odd \/ heap.end <= sp
=============================================================================
