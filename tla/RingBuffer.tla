----------------------------- MODULE RingBuffer -----------------------------
(***************************************************************************)
(* RingBuffer.c: a byte ring of RING_BUFFER_SIZE slots kept by a write     *)
(* index, a read index and a count.  One caller at a time; LockedRing      *)
(* takes the operations apart and lets an interrupt in between.            *)
(***************************************************************************)
EXTENDS Naturals, Sequences

CONSTANTS Size,   \* RING_BUFFER_SIZE
          Byte    \* the values of a uint8_t that callers store

ASSUME RingAssumption == /\ Size \in Nat \ {0}
                         /\ 0 \in Byte

VARIABLES head,    \* next slot to write
          tail,    \* next slot to read
          count,   \* bytes held
          buffer,  \* the slots
          reply    \* what the last push or pop returned

ringVars == <<head, tail, count, buffer, reply>>

Slots == 0 .. (Size - 1)

\* An index brought back into the array.
Wrap(x) == x % Size

is_empty == count = 0

is_full == count = Size

Reply(op, ok, data) == [op |-> op, ok |-> ok, data |-> data]

\* newRingBuffer: the designated initializer zeroes the slots, then init().
newRingBuffer == /\ head = 0
                 /\ tail = 0
                 /\ count = 0
                 /\ buffer = [i \in Slots |-> 0]
                 /\ reply = Reply("none", TRUE, 0)

\* init() on a buffer in use forgets its bytes and leaves the slots alone.
init == /\ head' = 0
        /\ tail' = 0
        /\ count' = 0
        /\ UNCHANGED <<buffer, reply>>

push(b) == /\ ~is_full
           /\ buffer' = [buffer EXCEPT ![head] = b]
           /\ head' = Wrap(head + 1)
           /\ count' = count + 1
           /\ reply' = Reply("push", TRUE, 0)
           /\ UNCHANGED tail

pushFull == /\ is_full
            /\ reply' = Reply("push", FALSE, 0)
            /\ UNCHANGED <<head, tail, count, buffer>>

pop == /\ ~is_empty
       /\ reply' = Reply("pop", TRUE, buffer[tail])
       /\ tail' = Wrap(tail + 1)
       /\ count' = count - 1
       /\ UNCHANGED <<head, buffer>>

popEmpty == /\ is_empty
            /\ reply' = Reply("pop", FALSE, 0)
            /\ UNCHANGED <<head, tail, count, buffer>>

RingNext == (\E b \in Byte : push(b)) \/ pushFull \/ pop \/ popEmpty \/ init

RingSpec == newRingBuffer /\ [][RingNext]_ringVars
-----------------------------------------------------------------------------
\* Every index stays inside the array and the count inside its capacity, and
\* the three of them agree: the write index is the read index plus the count,
\* modulo the size (RingBuffer.c:57-81).
RingInv == /\ head \in Slots
           /\ tail \in Slots
           /\ count \in 0 .. Size
           /\ buffer \in [Slots -> Byte]
           /\ reply \in [op : {"none", "push", "pop"}, ok : BOOLEAN, data : Byte]
           /\ head = Wrap(tail + count)

\* The bytes the ring holds, oldest first.
Contents == [i \in 1 .. count |-> buffer[Wrap(tail + i - 1)]]

Fifo == INSTANCE BoundedFifo WITH queue <- Contents

\* The ring is a bounded first-in first-out queue: push and pop of RingBuffer.c
\* return what a queue of Size bytes returns, through every wrap of an index.
IsFifo == Fifo!FifoSpec
=============================================================================
