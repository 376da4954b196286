---------------------------- MODULE BoundedFifo ----------------------------
(***************************************************************************)
(* What a byte ring buffer promises its callers: a first-in first-out      *)
(* queue that holds at most Size bytes, refuses a push when it is full and *)
(* a pop when it is empty, and tells the caller which of the two happened. *)
(* RingBuffer (one caller) and LockedRing (two execution contexts that     *)
(* share the buffer behind EquiniosLock) implement this specification.     *)
(***************************************************************************)
EXTENDS Naturals, Sequences

CONSTANTS Size,   \* the capacity (RING_BUFFER_SIZE)
          Byte    \* the bytes a caller may push

VARIABLES queue,  \* the bytes held, oldest first
          reply   \* what the last completed operation returned

vars == <<queue, reply>>

\* What push() and pop() hand back: the boolean they return and, for a pop
\* that succeeds, the byte stored through the data pointer (0 otherwise).
Reply(op, ok, data) == [op |-> op, ok |-> ok, data |-> data]

Replies == [op : {"none", "push", "pop"}, ok : BOOLEAN, data : Byte]

FifoInit == /\ queue = << >>
            /\ reply = Reply("none", TRUE, 0)

Put(b) == /\ Len(queue) < Size
          /\ queue' = Append(queue, b)
          /\ reply' = Reply("push", TRUE, 0)

Refuse == /\ Len(queue) = Size
          /\ reply' = Reply("push", FALSE, 0)
          /\ UNCHANGED queue

Take == /\ queue # << >>
        /\ queue' = Tail(queue)
        /\ reply' = Reply("pop", TRUE, Head(queue))

Nothing == /\ queue = << >>
           /\ reply' = Reply("pop", FALSE, 0)
           /\ UNCHANGED queue

Clear == queue' = << >> /\ UNCHANGED reply

FifoNext == (\E b \in Byte : Put(b)) \/ Refuse \/ Take \/ Nothing \/ Clear

FifoSpec == FifoInit /\ [][FifoNext]_vars
=============================================================================
