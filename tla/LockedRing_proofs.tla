------------------------- MODULE LockedRing_proofs -------------------------
(***************************************************************************)
(* Proofs about RingBuffer and LockedRing for every size of the ring and   *)
(* every set of bytes: the ring with one caller is a queue; behind the     *)
(* lock the mask excludes the handler from the main program's critical     *)
(* sections, it is restored by every call, and the loads and stores of the *)
(* two contexts implement one bounded queue.                               *)
(***************************************************************************)
EXTENDS LockedRing, TLAPS

-----------------------------------------------------------------------------
(* RingBuffer: one caller at a time *)

\* An index sum of the ring is below twice the size, where the modulo is a
\* single conditional subtraction.
LEMMA WrapOnce ==
  ASSUME NEW x \in 0 .. (2 * Size - 1)
  PROVE  Wrap(x) = IF x < Size THEN x ELSE x - Size
BY RingAssumption DEF Wrap

\* The i-th slot from another one is a slot.
LEMMA WrapSlot ==
  ASSUME NEW s \in Slots, NEW i \in 1 .. Size
  PROVE  Wrap(s + i - 1) \in Slots
<1> DEFINE x == s + i - 1
<1>1. x \in 0 .. (2 * Size - 1)
  BY RingAssumption DEF Slots
<1> HIDE DEF x
<1>2. Wrap(x) \in Slots
  BY <1>1, WrapOnce, RingAssumption DEF Slots
<1> QED
  BY <1>2 DEF x

\* The indices agree with the count in every reachable state: the ring
\* invariant of RingBuffer.c is inductive, for every RING_BUFFER_SIZE.
THEOREM RingTyped == RingSpec => []RingInv
<1>1. newRingBuffer => RingInv
  <2> SUFFICES ASSUME newRingBuffer PROVE RingInv
    OBVIOUS
  <2>1. 0 \in Slots /\ 0 \in 0 .. Size
    BY RingAssumption DEF Slots
  <2>2. Wrap(0 + 0) = 0
    BY RingAssumption, WrapOnce
  <2> QED
    BY <2>1, <2>2, RingAssumption DEF newRingBuffer, RingInv, Reply
<1>2. RingInv /\ [RingNext]_ringVars => RingInv'
  <2> SUFFICES ASSUME RingInv, [RingNext]_ringVars PROVE RingInv'
    OBVIOUS
  <2> USE RingAssumption DEF RingInv, Reply, Slots
  <2>1. ASSUME NEW b \in Byte, push(b) PROVE RingInv'
    <3>1. head' \in Slots /\ count' \in 0 .. Size /\ tail' \in Slots
      BY <2>1, WrapOnce DEF push, is_full
    <3>2. head' = Wrap(tail' + count')
      BY <2>1, WrapOnce DEF push, is_full
    <3>3. /\ buffer' \in [Slots -> Byte]
          /\ reply' \in [op : {"none", "push", "pop"}, ok : BOOLEAN, data : Byte]
      BY <2>1 DEF push
    <3> QED BY <3>1, <3>2, <3>3
  <2>2. CASE pushFull
    BY <2>2 DEF pushFull
  <2>3. CASE pop
    <3>1. head' \in Slots /\ count' \in 0 .. Size /\ tail' \in Slots
      BY <2>3, WrapOnce DEF pop, is_empty
    <3>2. head' = Wrap(tail' + count')
      BY <2>3, WrapOnce DEF pop, is_empty
    <3>3. /\ buffer' \in [Slots -> Byte]
          /\ reply' \in [op : {"none", "push", "pop"}, ok : BOOLEAN, data : Byte]
      BY <2>3 DEF pop
    <3> QED BY <3>1, <3>2, <3>3
  <2>4. CASE popEmpty
    BY <2>4 DEF popEmpty
  <2>5. CASE init
    BY <2>5, WrapOnce DEF init
  <2>6. CASE UNCHANGED ringVars
    BY <2>6 DEF ringVars
  <2> QED
    BY <2>1, <2>2, <2>3, <2>4, <2>5, <2>6 DEF RingNext
<1> QED
  BY <1>1, <1>2, PTL DEF RingSpec

\* RingBuffer.c implements a bounded first-in first-out queue: whatever the
\* size, every push and pop returns what the queue of Contents returns.
THEOREM RingIsFifo == RingSpec => IsFifo
<1> USE RingAssumption
<1>1. newRingBuffer => Fifo!FifoInit
  BY DEF newRingBuffer, Fifo!FifoInit, Contents, Reply, Fifo!Reply
<1>2. RingInv /\ [RingNext]_ringVars => [Fifo!FifoNext]_(Fifo!vars)
  <2> SUFFICES ASSUME RingInv, [RingNext]_ringVars
               PROVE  [Fifo!FifoNext]_(Fifo!vars)
    OBVIOUS
  <2>0. Contents \in Seq(Byte) /\ Len(Contents) = count /\ count \in 0 .. Size
    BY WrapOnce DEF Contents, RingInv, Slots
  <2>1. ASSUME NEW b \in Byte, push(b) PROVE Fifo!Put(b)
    <3>1. Contents' = Append(Contents, b)
      <4>1. ASSUME NEW i \in 1 .. count
            PROVE  buffer'[Wrap(tail + i - 1)] = buffer[Wrap(tail + i - 1)]
        <5>1. Wrap(tail + i - 1) # Wrap(tail + count)
          BY <2>1, WrapOnce DEF RingInv, Slots, push, is_full
        <5>2. Wrap(tail + i - 1) \in Slots
          BY WrapOnce DEF RingInv, Slots
        <5> QED BY <2>1, <5>1, <5>2 DEF push, RingInv
      <4>2. buffer'[Wrap(tail + (count + 1) - 1)] = b
        BY <2>1 DEF push, RingInv
      <4>3. Contents' = [i \in 1 .. (count + 1) |-> buffer'[Wrap(tail + i - 1)]]
        BY <2>1 DEF push, Contents
      <4>4. /\ Contents' \in Seq(Byte)
            /\ Len(Contents') = count + 1
        BY <2>0, <2>1, <4>3, WrapOnce DEF push, RingInv, Slots, is_full
      <4>5. Append(Contents, b) \in Seq(Byte) /\ Len(Append(Contents, b)) = count + 1
        BY <2>0
      <4>6. ASSUME NEW i \in 1 .. (count + 1)
            PROVE  Contents'[i] = Append(Contents, b)[i]
        <5>1. CASE i \in 1 .. count
          <6>1. Append(Contents, b)[i] = Contents[i]
            BY <5>1, <2>0
          <6>2. Contents[i] = buffer[Wrap(tail + i - 1)]
            BY <5>1 DEF Contents
          <6>3. Contents'[i] = buffer'[Wrap(tail + i - 1)]
            BY <4>3
          <6> QED BY <4>1, <5>1, <6>1, <6>2, <6>3
        <5>2. CASE i = count + 1
          BY <5>2, <2>0, <4>2, <4>3
        <5> QED BY <5>1, <5>2, <2>0
      <4> QED BY <4>4, <4>5, <4>6
    <3> QED BY <2>0, <2>1, <3>1 DEF Fifo!Put, push, is_full, Reply, Fifo!Reply
  <2>2. CASE pushFull
    <3>1. Contents' = Contents
      BY <2>2 DEF pushFull, Contents
    <3>2. Fifo!Refuse
      BY <2>0, <2>2, <3>1 DEF Fifo!Refuse, pushFull, is_full, Reply, Fifo!Reply
    <3> QED BY <3>2 DEF Fifo!FifoNext
  <2>3. CASE pop
    <3>1. Contents # << >> /\ Head(Contents) = buffer[tail]
      <4>1. count > 0 /\ 1 \in 1 .. count
        BY <2>0, <2>3 DEF pop, is_empty
      <4>2. Contents[1] = buffer[Wrap(tail + 1 - 1)]
        BY <4>1 DEF Contents
      <4>3. Wrap(tail + 1 - 1) = tail
        BY WrapOnce DEF RingInv, Slots
      <4> QED BY <2>0, <4>1, <4>2, <4>3
    <3>2. Contents' = Tail(Contents)
      <4>1. Contents' = [i \in 1 .. (count - 1) |-> buffer[Wrap(Wrap(tail + 1) + i - 1)]]
        BY <2>3 DEF pop, Contents
      <4>2. Tail(Contents) \in Seq(Byte) /\ Len(Tail(Contents)) = count - 1
        BY <2>0, <3>1
      <4>3. Contents' \in Seq(Byte) /\ Len(Contents') = count - 1
        <5>1. \A i \in 1 .. (count - 1) : Wrap(Wrap(tail + 1) + i - 1) \in Slots
          <6>1. Wrap(tail + 1) \in Slots
            BY WrapOnce DEF RingInv, Slots
          <6>2. \A i \in 1 .. (count - 1) : i \in 1 .. Size
            BY <2>0
          <6> QED BY <6>1, <6>2, WrapSlot
        <5>2. count - 1 \in Nat
          BY <2>0, <2>3 DEF pop, is_empty
        <5> QED BY <4>1, <5>1, <5>2 DEF RingInv
      <4>4. ASSUME NEW i \in 1 .. (count - 1)
            PROVE  Contents'[i] = Tail(Contents)[i]
        <5>1. Wrap(Wrap(tail + 1) + i - 1) = Wrap(tail + (i + 1) - 1)
          BY <2>0, WrapOnce DEF RingInv, Slots
        <5>2. Tail(Contents)[i] = Contents[i + 1]
          BY <2>0, <3>1, <4>2
        <5>3. i + 1 \in 1 .. count
          BY <2>0
        <5>4. Contents[i + 1] = buffer[Wrap(tail + (i + 1) - 1)]
          BY <5>3 DEF Contents
        <5> QED BY <4>1, <5>1, <5>2, <5>4
      <4> QED BY <4>2, <4>3, <4>4
    <3>3. Fifo!Take
      BY <2>3, <3>1, <3>2 DEF Fifo!Take, pop, Reply, Fifo!Reply
    <3> QED BY <3>3 DEF Fifo!FifoNext
  <2>4. CASE popEmpty
    <3>1. Contents' = Contents
      BY <2>4 DEF popEmpty, Contents
    <3>2. Contents = << >>
      BY <2>0, <2>4 DEF popEmpty, is_empty
    <3>3. Fifo!Nothing
      BY <2>4, <3>1, <3>2 DEF Fifo!Nothing, popEmpty, Reply, Fifo!Reply
    <3> QED BY <3>3 DEF Fifo!FifoNext
  <2>5. CASE init
    <3>1. Contents' = << >>
      BY <2>5 DEF init, Contents
    <3>2. Fifo!Clear
      BY <2>5, <3>1 DEF Fifo!Clear, init
    <3> QED BY <3>2 DEF Fifo!FifoNext
  <2>6. CASE UNCHANGED ringVars
    BY <2>6 DEF ringVars, Fifo!vars, Contents
  <2> QED
    BY <2>1, <2>2, <2>3, <2>4, <2>5, <2>6 DEF RingNext, Fifo!FifoNext
<1> QED
  BY <1>1, <1>2, RingTyped, PTL DEF RingSpec, IsFifo, Fifo!FifoSpec
-----------------------------------------------------------------------------
(* LockedRing: the main program and a handler *)

\* A handler runs with interrupts masked, entered from code that had them
\* enabled: outside a critical section and outside a masked region.
HandlerMasked == active = "isr" => ~pie /\ estatus /\ ~region /\ ~InSection("main")

\* In the main program PIE is what the program chose until enter() clears it.
MainMask == /\ active = "main" /\ ~InSection("main") => pie = ~region
            /\ InSection("main") => ~pie
            /\ pc["main"] # "done"

\* What enter() read is what exit() will restore.
StateRead == /\ InSection("main") \/ pc["main"] = "wrctl" => state["main"] = ~region
             /\ pc["isr"] \notin {"idle", "rdctl"} => ~state["isr"]

\* A handler that has not been entered is not in a call.
HandlerIdle == active = "main" => pc["isr"] = "idle"

MaskInv == LockedTypeOK /\ HandlerMasked /\ MainMask /\ StateRead /\ HandlerIdle

\* The loads and stores of push() and pop(), which leave the mask alone.
RingStep(c) == \/ PushTest(c) \/ Store(c) \/ AdvanceHead(c) \/ CountUp(c)
               \/ PopTest(c) \/ Fetch(c) \/ AdvanceTail(c) \/ CountDown(c)
               \/ Load(c)

Sections == {"test", "copy", "advance", "load", "bump", "exit"}

LEMMA MaskInit == Init => HandlerMasked /\ MainMask /\ StateRead /\ HandlerIdle
BY DEF Init, HandlerMasked, MainMask, StateRead, HandlerIdle, InSection, Contexts

\* A step inside a critical section stays inside it.
LEMMA RingStepMask ==
  ASSUME LockedTypeOK, MaskInv, NEW c \in Contexts, RingStep(c)
  PROVE  (HandlerMasked /\ MainMask /\ StateRead /\ HandlerIdle)'
<1>1. /\ active = c /\ pc[c] \in Sections
      /\ \E to \in Sections : pc' = [pc EXCEPT ![c] = to]
      /\ UNCHANGED <<pie, estatus, active, state, region>>
  BY DEF RingStep, PushTest, Store, AdvanceHead, CountUp, PopTest, Fetch, AdvanceTail,
         CountDown, Load, At, Sections, locals
<1> QED
  BY <1>1 DEF MaskInv, LockedTypeOK, HandlerMasked, MainMask, StateRead, HandlerIdle,
              InSection, Sections, Contexts

LEMMA MaskStep ==
  ASSUME LockedTypeOK, MaskInv, [Next]_vars
  PROVE  (HandlerMasked /\ MainMask /\ StateRead /\ HandlerIdle)'
<1> USE DEF MaskInv, HandlerMasked, MainMask, StateRead, HandlerIdle, InSection, Contexts
<1>1. ASSUME NEW c \in Contexts, Call(c)
      PROVE  (HandlerMasked /\ MainMask /\ StateRead /\ HandlerIdle)'
  BY <1>1 DEF Call, At, LockedTypeOK
<1>2. ASSUME NEW c \in Contexts, EnterRead(c)
      PROVE  (HandlerMasked /\ MainMask /\ StateRead /\ HandlerIdle)'
  BY <1>2 DEF EnterRead, At, LockedTypeOK
<1>3. ASSUME NEW c \in Contexts, EnterMask(c)
      PROVE  (HandlerMasked /\ MainMask /\ StateRead /\ HandlerIdle)'
  BY <1>3 DEF EnterMask, At, LockedTypeOK, locals
<1>4. ASSUME NEW c \in Contexts, Exit(c)
      PROVE  (HandlerMasked /\ MainMask /\ StateRead /\ HandlerIdle)'
  BY <1>4 DEF Exit, At, LockedTypeOK, locals
<1>5. ASSUME NEW c \in Contexts, RingStep(c)
      PROVE  (HandlerMasked /\ MainMask /\ StateRead /\ HandlerIdle)'
  BY <1>5, RingStepMask
<1>6. CASE Interrupt
  BY <1>6 DEF Interrupt, LockedTypeOK, locals
<1>7. CASE Eret
  BY <1>7 DEF Eret, LockedTypeOK, locals
<1>8. CASE DisableAll \/ EnableAll
  BY <1>8 DEF DisableAll, EnableAll, LockedTypeOK, locals
<1>9. CASE UNCHANGED vars
  BY <1>9 DEF vars, locals
<1> QED
  BY <1>1, <1>2, <1>3, <1>4, <1>5, <1>6, <1>7, <1>8, <1>9 DEF Next, Body, RingStep

-----------------------------------------------------------------------------
Busy == {"copy", "advance", "load", "bump"}

Moving(o) == \E c \in Contexts : Moved(c, o)

\* The write index is ahead of the bytes counted while a push is between its
\* stores to the index and to the count.
IndicesAgree == head = Wrap(First + count + (IF Moving("push") THEN 1 ELSE 0))

\* A push past its test has room, a pop past its test has a byte.
Tested == \A c \in Contexts : pc[c] \in Busy =>
            /\ op[c] = "push" => count < Size
            /\ op[c] = "pop" => count > 0

\* The count in a register is the count.
CountFresh == \A c \in Contexts : pc[c] = "bump" => loaded[c] = count

\* The byte stored or fetched is the one the queue gains or loses.
ByteKept == \A c \in Contexts : pc[c] \in Busy \ {"copy"} =>
              /\ op[c] = "push" => buffer[Wrap(First + count)] = data[c]
              /\ op[c] = "pop" => buffer[First] = data[c]

RingPart == IndicesAgree /\ Tested /\ CountFresh /\ ByteKept

LockInv == MaskInv /\ RingPart

\* Only the context on the processor can be in a critical section.
LEMMA OneInSection ==
  ASSUME MaskInv, NEW c \in Contexts, InSection(c)
  PROVE  active = c
BY DEF MaskInv, LockedTypeOK, HandlerMasked, HandlerIdle, InSection, Contexts

\* With nobody at work on the ring its three fields agree as in RingBuffer.
LEMMA QuietRing ==
  ASSUME \A c \in Contexts : pc[c] \notin Busy
  PROVE  /\ RingPart <=> head = Wrap(tail + count + 0)
         /\ First = tail
BY DEF RingPart, IndicesAgree, Tested, CountFresh, ByteKept, Busy, Moving, Moved, First

LEMMA QuietRingPrimed ==
  ASSUME \A c \in Contexts : pc'[c] \notin Busy
  PROVE  RingPart' <=> head' = Wrap(tail' + count' + 0)
BY DEF RingPart, IndicesAgree, Tested, CountFresh, ByteKept, Busy, Moving, Moved, First

\* Who moves the indices during a step inside a section of c.
LEMMA MovedOnly ==
  ASSUME MaskInv, NEW c \in Contexts, NEW to \in Sections,
         active = c, pc[c] \in Sections, pc' = [pc EXCEPT ![c] = to], op' = op
  PROVE  /\ \A d \in Contexts : d # c => pc[d] \notin Busy /\ pc'[d] \notin Busy
         /\ \A o \in {"push", "pop"} : Moving(o) <=> op[c] = o /\ pc[c] \in {"load", "bump"}
         /\ \A o \in {"push", "pop"} : Moving(o)' <=> op[c] = o /\ to \in {"load", "bump"}
<1>1. \A d \in Contexts : d # c => pc[d] \notin Busy /\ pc'[d] = pc[d]
  BY OneInSection DEF InSection, Busy, MaskInv, LockedTypeOK
<1>2. pc'[c] = to
  BY DEF MaskInv, LockedTypeOK
<1> QED
  BY <1>1, <1>2 DEF Moving, Moved, Busy

LEMMA RingInit == Init => LockInv
<1> SUFFICES ASSUME Init PROVE LockInv
  OBVIOUS
<1>1. LockedTypeOK
  <2>1. 0 \in Slots /\ 0 \in 0 .. Size /\ 0 \in Byte
    BY RingAssumption DEF Slots
  <2> QED
    BY <2>1 DEF Init, LockedTypeOK, Contexts, Reply
<1>2. MaskInv
  BY <1>1, MaskInit DEF MaskInv
<1>3. Wrap(0 + 0 + 0) = 0
  BY WrapOnce, RingAssumption
<1>4. RingPart
  BY <1>3, QuietRing DEF Init, Busy
<1> QED
  BY <1>2, <1>4 DEF LockInv

\* The steps that do not touch the ring.
LEMMA OutsideStep ==
  ASSUME LockInv, [Next]_vars, \A c \in Contexts : ~RingStep(c)
  PROVE  LockedTypeOK' /\ RingPart'
<1> USE DEF LockInv, MaskInv, LockedTypeOK, Contexts
<1>1. ASSUME UNCHANGED vars PROVE LockedTypeOK' /\ RingPart'
  BY <1>1 DEF vars, ring, locals, RingPart, IndicesAgree, Tested, CountFresh, ByteKept,
              Moving, Moved, First
<1>2. ASSUME UNCHANGED ring, \A c \in Contexts : pc[c] \notin Busy /\ pc'[c] \notin Busy
      PROVE  RingPart'
  BY <1>2, QuietRing, QuietRingPrimed DEF ring
<1>3. ASSUME NEW c \in Contexts, Call(c) \/ EnterRead(c) \/ EnterMask(c) \/ Exit(c)
      PROVE  LockedTypeOK' /\ RingPart'
  <2>1. UNCHANGED ring /\ active = c
    BY <1>3 DEF Call, EnterRead, EnterMask, Exit, At
  <2>2. pc[c] \notin Busy /\ pc'[c] \notin Busy
    BY <1>3 DEF Call, EnterRead, EnterMask, Exit, At, Busy
  <2>3. \A d \in Contexts : d # c => pc[d] \notin Busy /\ pc'[d] = pc[d]
    BY <1>3, <2>1, OneInSection DEF Call, EnterRead, EnterMask, Exit, At, Busy, InSection
  <2>4. LockedTypeOK'
    <3>1. CASE Call(c)
      BY <2>1, <3>1, RingAssumption DEF Call, At, ring
    <3>2. CASE EnterRead(c)
      BY <2>1, <3>2 DEF EnterRead, At, ring
    <3>3. CASE EnterMask(c)
      BY <2>1, <3>3 DEF EnterMask, At, ring, locals
    <3>4. CASE Exit(c)
      <4>1. pie' \in BOOLEAN
        BY <3>4 DEF Exit
      <4>2. \E to \in {"idle", "done"} : pc' = [pc EXCEPT ![c] = to]
        BY <3>4 DEF Exit, At
      <4> QED
        BY <2>1, <3>4, <4>1, <4>2 DEF Exit, ring, locals
    <3> QED
      BY <1>3, <3>1, <3>2, <3>3, <3>4
  <2> QED
    BY <1>2, <2>1, <2>2, <2>3, <2>4
<1>4. CASE Interrupt \/ Eret \/ DisableAll \/ EnableAll
  <2>1. UNCHANGED ring
    BY <1>4 DEF Interrupt, Eret, DisableAll, EnableAll
  <2>2. \A c \in Contexts : pc[c] \notin Busy /\ pc'[c] \notin Busy
    BY <1>4 DEF Interrupt, Eret, DisableAll, EnableAll, HandlerMasked, HandlerIdle, MainMask,
                InSection, Busy
  <2>3. LockedTypeOK'
    BY <1>4, <2>1 DEF Interrupt, Eret, DisableAll, EnableAll, ring, locals
  <2> QED
    BY <1>2, <2>1, <2>2, <2>3
<1> QED
  BY <1>1, <1>3, <1>4 DEF Next, Body, RingStep

-----------------------------------------------------------------------------
Late == {"load", "bump"}

\* Inside a section of c the ring's part of the invariant speaks of c alone.
LEMMA Focus ==
  ASSUME LockInv, NEW c \in Contexts, NEW to \in Sections,
         active = c, pc[c] \in Sections, pc' = [pc EXCEPT ![c] = to], op' = op
  PROVE  /\ First = IF op[c] = "pop" /\ pc[c] \in Late THEN Wrap(tail + Size - 1) ELSE tail
         /\ First \in Slots
         /\ head = Wrap(First + count + (IF op[c] = "push" /\ pc[c] \in Late THEN 1 ELSE 0))
         /\ First' = IF op[c] = "pop" /\ to \in Late THEN Wrap(tail' + Size - 1) ELSE tail'
         /\ (/\ head' = Wrap(First' + count' + (IF op[c] = "push" /\ to \in Late THEN 1 ELSE 0))
             /\ to \in Busy => /\ op[c] = "push" => count' < Size
                               /\ op[c] = "pop" => count' > 0
             /\ to = "bump" => loaded'[c] = count'
             /\ to \in Busy \ {"copy"} => /\ op[c] = "push" => buffer'[Wrap(First' + count')] = data'[c]
                                          /\ op[c] = "pop" => buffer'[First'] = data'[c])
            => RingPart'
<1> USE DEF LockInv, Late
<1>1. /\ \A d \in Contexts : d # c => pc[d] \notin Busy /\ pc'[d] \notin Busy
      /\ \A o \in {"push", "pop"} : Moving(o) <=> op[c] = o /\ pc[c] \in {"load", "bump"}
      /\ \A o \in {"push", "pop"} : Moving(o)' <=> op[c] = o /\ to \in {"load", "bump"}
  BY MovedOnly
<1>2. pc'[c] = to
  BY DEF MaskInv, LockedTypeOK
<1>3. First = IF op[c] = "pop" /\ pc[c] \in Late THEN Wrap(tail + Size - 1) ELSE tail
  BY <1>1 DEF First, Moving
<1>4. First' = IF op[c] = "pop" /\ to \in Late THEN Wrap(tail' + Size - 1) ELSE tail'
  BY <1>1 DEF First, Moving
<1>5. First \in Slots
  BY <1>3, WrapOnce, RingAssumption DEF MaskInv, LockedTypeOK, Slots
<1>6. head = Wrap(First + count + (IF op[c] = "push" /\ pc[c] \in Late THEN 1 ELSE 0))
  BY <1>1 DEF RingPart, IndicesAgree
<1>7. ASSUME /\ head' = Wrap(First' + count' + (IF op[c] = "push" /\ to \in Late THEN 1 ELSE 0))
             /\ to \in Busy => /\ op[c] = "push" => count' < Size
                               /\ op[c] = "pop" => count' > 0
             /\ to = "bump" => loaded'[c] = count'
             /\ to \in Busy \ {"copy"} => /\ op[c] = "push" => buffer'[Wrap(First' + count')] = data'[c]
                                          /\ op[c] = "pop" => buffer'[First'] = data'[c]
      PROVE  RingPart'
  <2>1. IndicesAgree'
    BY <1>1, <1>7 DEF IndicesAgree
  <2>2. Tested'
    BY <1>1, <1>2, <1>7 DEF Tested
  <2>3. CountFresh'
    BY <1>1, <1>2, <1>7 DEF CountFresh, Busy
  <2>4. ByteKept'
    BY <1>1, <1>2, <1>7 DEF ByteKept
  <2> QED
    BY <2>1, <2>2, <2>3, <2>4 DEF RingPart
<1> QED
  BY <1>3, <1>4, <1>5, <1>6, <1>7

\* push() finds room or gives up, pop() finds a byte or gives up.
LEMMA TestStep ==
  ASSUME LockInv, NEW c \in Contexts, PushTest(c) \/ PopTest(c)
  PROVE  LockedTypeOK' /\ RingPart' /\ First' = First
<1>1. PICK to \in {"copy", "exit"} :
         /\ active = c /\ pc[c] = "test" /\ pc' = [pc EXCEPT ![c] = to]
         /\ to = "copy" => (op[c] = "push" => count # Size) /\ (op[c] = "pop" => count # 0)
         /\ reply' \in {reply, Reply("push", FALSE, 0), Reply("pop", FALSE, 0)}
         /\ UNCHANGED <<ring, pie, estatus, active, locals, region>>
  BY DEF PushTest, PopTest, At, is_full, is_empty
<1>2. LockedTypeOK'
  <2>1. reply' \in [op : {"none", "push", "pop"}, ok : BOOLEAN, data : Byte]
    <3>1. \A o \in {"push", "pop"} :
             Reply(o, FALSE, 0) \in [op : {"none", "push", "pop"}, ok : BOOLEAN, data : Byte]
      BY RingAssumption DEF Reply
    <3>2. reply \in [op : {"none", "push", "pop"}, ok : BOOLEAN, data : Byte]
      BY DEF LockInv, MaskInv, LockedTypeOK
    <3> QED
      BY <1>1, <3>1, <3>2
  <2> QED
    BY <1>1, <2>1 DEF LockInv, MaskInv, LockedTypeOK, ring, locals
<1>3. count \in 0 .. Size /\ op[c] \in {"push", "pop"} /\ UNCHANGED <<head, tail, count, buffer, op>>
  BY <1>1 DEF LockInv, MaskInv, LockedTypeOK, ring, locals
<1>4. First' = First /\ head = Wrap(First + count + 0)
  BY <1>1, <1>3, Focus DEF Sections, Late
<1>5. CASE to = "exit"
  BY <1>1, <1>2, <1>3, <1>4, <1>5, Focus DEF Sections, Late, Busy
<1>6. CASE to = "copy"
  <2>1. (op[c] = "push" => count < Size) /\ (op[c] = "pop" => count > 0)
    BY <1>1, <1>3, <1>6, RingAssumption
  <2> QED
    BY <1>1, <1>2, <1>3, <1>4, <1>6, <2>1, Focus DEF Sections, Late, Busy
<1> QED
  BY <1>2, <1>5, <1>6

LEMMA StoreStep ==
  ASSUME LockInv, NEW c \in Contexts, Store(c)
  PROVE  LockedTypeOK' /\ RingPart' /\ First' = First
<1>1. /\ active = c /\ pc[c] = "copy" /\ pc' = [pc EXCEPT ![c] = "advance"] /\ op[c] = "push"
      /\ buffer' = [buffer EXCEPT ![head] = data[c]]
      /\ UNCHANGED <<head, tail, count, reply, pie, estatus, active, op, data, state, loaded, region>>
  BY DEF Store, At, locals
<1>2. LockedTypeOK'
  BY <1>1 DEF LockInv, MaskInv, LockedTypeOK
<1>3. count < Size
  BY <1>1 DEF LockInv, RingPart, Tested, Busy
<1>4. First' = First /\ head = Wrap(First + count + 0) /\ First \in Slots
  BY <1>1, Focus DEF Sections, Late
<1>5. buffer'[head] = data[c]
  BY <1>1 DEF LockInv, MaskInv, LockedTypeOK
<1>6. First + count + 0 = First + count /\ count' \in 0 .. Size
  BY <1>1, <1>4 DEF LockInv, MaskInv, LockedTypeOK, Slots
<1>7. RingPart'
  BY <1>1, <1>3, <1>4, <1>5, <1>6, Focus DEF Sections, Late, Busy
<1> QED
  BY <1>2, <1>4, <1>7

LEMMA FetchStep ==
  ASSUME LockInv, NEW c \in Contexts, Fetch(c)
  PROVE  LockedTypeOK' /\ RingPart' /\ First' = First
<1>1. /\ active = c /\ pc[c] = "copy" /\ pc' = [pc EXCEPT ![c] = "advance"] /\ op[c] = "pop"
      /\ data' = [data EXCEPT ![c] = buffer[tail]]
      /\ UNCHANGED <<ring, reply, pie, estatus, active, op, state, loaded, region>>
  BY DEF Fetch, At
<1>2. LockedTypeOK'
  BY <1>1 DEF LockInv, MaskInv, LockedTypeOK, ring
<1>3. count > 0 /\ data'[c] = buffer[tail]
  BY <1>1 DEF LockInv, RingPart, Tested, Busy, MaskInv, LockedTypeOK
<1>4. First' = First
  BY <1>1, Focus DEF Sections, Late, ring
<1>5. RingPart'
  BY <1>1, <1>3, Focus DEF Sections, Late, Busy, ring
<1> QED
  BY <1>2, <1>4, <1>5

LEMMA AdvanceHeadStep ==
  ASSUME LockInv, NEW c \in Contexts, AdvanceHead(c)
  PROVE  LockedTypeOK' /\ RingPart' /\ First' = First
<1>1. /\ active = c /\ pc[c] = "advance" /\ pc' = [pc EXCEPT ![c] = "load"] /\ op[c] = "push"
      /\ head' = Wrap(head + 1)
      /\ UNCHANGED <<tail, count, buffer, reply, pie, estatus, active, op, data, state, loaded, region>>
  BY DEF AdvanceHead, At, locals
<1>2. head \in Slots /\ head' \in Slots
  BY <1>1, WrapOnce, RingAssumption DEF LockInv, MaskInv, LockedTypeOK, Slots
<1>3. LockedTypeOK'
  BY <1>1, <1>2 DEF LockInv, MaskInv, LockedTypeOK
<1>4. count < Size /\ count \in 0 .. Size /\ buffer[Wrap(First + count)] = data[c]
  BY <1>1 DEF LockInv, RingPart, Tested, ByteKept, Busy, MaskInv, LockedTypeOK
<1>5. First' = First /\ head = Wrap(First + count + 0) /\ First \in Slots
  BY <1>1, Focus DEF Sections, Late
<1>6. Wrap(head + 1) = Wrap(First + count + 1)
  BY <1>2, <1>4, <1>5, WrapOnce, RingAssumption DEF Slots
<1>7. RingPart'
  BY <1>1, <1>4, <1>5, <1>6, Focus DEF Sections, Late, Busy
<1> QED
  BY <1>3, <1>5, <1>7

LEMMA AdvanceTailStep ==
  ASSUME LockInv, NEW c \in Contexts, AdvanceTail(c)
  PROVE  LockedTypeOK' /\ RingPart' /\ First' = First
<1>1. /\ active = c /\ pc[c] = "advance" /\ pc' = [pc EXCEPT ![c] = "load"] /\ op[c] = "pop"
      /\ tail' = Wrap(tail + 1)
      /\ UNCHANGED <<head, count, buffer, reply, pie, estatus, active, op, data, state, loaded, region>>
  BY DEF AdvanceTail, At, locals
<1>2. tail \in Slots /\ tail' \in Slots
  BY <1>1, WrapOnce, RingAssumption DEF LockInv, MaskInv, LockedTypeOK, Slots
<1>3. LockedTypeOK'
  BY <1>1, <1>2 DEF LockInv, MaskInv, LockedTypeOK
<1>4. count > 0 /\ count \in 0 .. Size /\ buffer[First] = data[c]
  BY <1>1 DEF LockInv, RingPart, Tested, ByteKept, Busy, MaskInv, LockedTypeOK
<1>5. First = tail /\ head = Wrap(First + count + 0) /\ First' = Wrap(tail' + Size - 1)
  BY <1>1, Focus DEF Sections, Late
<1>6. Wrap(Wrap(tail + 1) + Size - 1) = tail
  BY <1>2, WrapOnce, RingAssumption DEF Slots
<1>7. First' = First
  BY <1>1, <1>5, <1>6
<1>8. RingPart'
  BY <1>1, <1>4, <1>5, <1>7, Focus DEF Sections, Late, Busy
<1> QED
  BY <1>3, <1>7, <1>8

LEMMA LoadStep ==
  ASSUME LockInv, NEW c \in Contexts, Load(c)
  PROVE  LockedTypeOK' /\ RingPart' /\ First' = First
<1>1. /\ active = c /\ pc[c] = "load" /\ pc' = [pc EXCEPT ![c] = "bump"]
      /\ loaded' = [loaded EXCEPT ![c] = count]
      /\ UNCHANGED <<head, tail, count, buffer, reply, pie, estatus, active, op, data, state, region>>
  BY DEF Load, At, ring
<1>2. LockedTypeOK'
  BY <1>1 DEF LockInv, MaskInv, LockedTypeOK
<1>3. /\ op[c] = "push" => count < Size /\ buffer[Wrap(First + count)] = data[c]
      /\ op[c] = "pop" => count > 0 /\ buffer[First] = data[c]
      /\ loaded'[c] = count
  BY <1>1 DEF LockInv, RingPart, Tested, ByteKept, Busy, MaskInv, LockedTypeOK
<1>4. First' = First
  <2>1. /\ First = IF op[c] = "pop" /\ pc[c] \in Late THEN Wrap(tail + Size - 1) ELSE tail
        /\ First' = IF op[c] = "pop" /\ "bump" \in Late THEN Wrap(tail' + Size - 1) ELSE tail'
    BY <1>1, Focus DEF Sections
  <2> QED
    BY <1>1, <2>1 DEF Late
<1>5. head = Wrap(First + count + (IF op[c] = "push" THEN 1 ELSE 0))
  <2>1. head = Wrap(First + count + (IF op[c] = "push" /\ pc[c] \in Late THEN 1 ELSE 0))
    BY <1>1, Focus DEF Sections
  <2> QED
    BY <1>1, <2>1 DEF Late
<1>6. RingPart'
  BY <1>1, <1>3, <1>4, <1>5, Focus DEF Sections, Late, Busy
<1> QED
  BY <1>2, <1>4, <1>6

LEMMA CountUpStep ==
  ASSUME LockInv, NEW c \in Contexts, CountUp(c)
  PROVE  LockedTypeOK' /\ RingPart' /\ First' = First
<1>1. /\ active = c /\ pc[c] = "bump" /\ pc' = [pc EXCEPT ![c] = "exit"] /\ op[c] = "push"
      /\ count' = loaded[c] + 1
      /\ reply' = Reply("push", TRUE, 0)
      /\ UNCHANGED <<head, tail, buffer, pie, estatus, active, op, data, state, loaded, region>>
  BY DEF CountUp, At, locals
<1>2. loaded[c] = count /\ count < Size /\ count \in 0 .. Size
  BY <1>1 DEF LockInv, RingPart, CountFresh, Tested, Busy, MaskInv, LockedTypeOK
<1>3. LockedTypeOK'
  BY <1>1, <1>2, RingAssumption DEF LockInv, MaskInv, LockedTypeOK, Reply
<1>4. First' = First /\ head = Wrap(First + count + 1) /\ First \in Slots
  BY <1>1, Focus DEF Sections, Late
<1>5. First + count + 1 = First + count' + 0
  BY <1>1, <1>2, <1>4 DEF Slots
<1>6. RingPart'
  BY <1>1, <1>4, <1>5, Focus DEF Sections, Late, Busy
<1> QED
  BY <1>3, <1>4, <1>6

LEMMA CountDownStep ==
  ASSUME LockInv, NEW c \in Contexts, CountDown(c)
  PROVE  LockedTypeOK' /\ RingPart' /\ First' = Wrap(First + 1)
<1>1. /\ active = c /\ pc[c] = "bump" /\ pc' = [pc EXCEPT ![c] = "exit"] /\ op[c] = "pop"
      /\ count' = loaded[c] - 1
      /\ reply' = Reply("pop", TRUE, data[c])
      /\ UNCHANGED <<head, tail, buffer, pie, estatus, active, op, data, state, loaded, region>>
  BY DEF CountDown, At, locals
<1>2. loaded[c] = count /\ count > 0 /\ count \in 0 .. Size /\ tail \in Slots
  BY <1>1 DEF LockInv, RingPart, CountFresh, Tested, Busy, MaskInv, LockedTypeOK
<1>3. LockedTypeOK'
  BY <1>1, <1>2, RingAssumption DEF LockInv, MaskInv, LockedTypeOK, Reply
<1>4. First = Wrap(tail + Size - 1) /\ First' = tail /\ head = Wrap(First + count + 0)
  BY <1>1, Focus DEF Sections, Late
<1>5. First' = Wrap(First + 1)
  BY <1>2, <1>4, WrapOnce, RingAssumption DEF Slots
<1>6. head = Wrap(First' + count' + 0)
  BY <1>1, <1>2, <1>4, WrapOnce, RingAssumption DEF Slots
<1>7. RingPart'
  BY <1>1, <1>6, Focus DEF Sections, Late, Busy
<1> QED
  BY <1>3, <1>5, <1>7

LEMMA LockStep == LockInv /\ [Next]_vars => LockInv'
<1> SUFFICES ASSUME LockInv, [Next]_vars PROVE LockInv'
  OBVIOUS
<1>1. (HandlerMasked /\ MainMask /\ StateRead /\ HandlerIdle)'
  BY MaskStep DEF LockInv, MaskInv
<1>2. CASE \A c \in Contexts : ~RingStep(c)
  BY <1>1, <1>2, OutsideStep DEF LockInv, MaskInv
<1>3. ASSUME NEW c \in Contexts, RingStep(c) PROVE LockedTypeOK' /\ RingPart'
  BY <1>3, TestStep, StoreStep, FetchStep, AdvanceHeadStep, AdvanceTailStep, LoadStep,
     CountUpStep, CountDownStep DEF RingStep
<1> QED
  BY <1>1, <1>2, <1>3 DEF LockInv, MaskInv

\* The invariant holds in every reachable state, for every size of the ring.
THEOREM LockedTyped == Spec => []LockedTypeOK
<1>1. LockInv => LockedTypeOK
  BY DEF LockInv, MaskInv
<1> QED
  BY <1>1, RingInit, LockStep, PTL DEF Spec

\* EquiniosLock.c keeps the handler out of the main program's sections.
THEOREM LockExcludes == Spec => []MutualExclusion
<1>1. LockInv => MutualExclusion
  BY DEF LockInv, MaskInv, HandlerMasked, HandlerIdle, LockedTypeOK, MutualExclusion,
         InSection, Contexts
<1> QED
  BY <1>1, RingInit, LockStep, PTL DEF Spec

\* enter() and exit() leave the mask as they found it, in the main program, in
\* its masked regions and in handlers.
THEOREM LockRestores == Spec => []MaskRestored
<1>1. LockInv => MaskRestored
  BY DEF LockInv, MaskInv, HandlerMasked, MainMask, MaskRestored, InSection
<1> QED
  BY <1>1, RingInit, LockStep, PTL DEF Spec

-----------------------------------------------------------------------------
\* Steps that leave the count, the slots below it and the read position alone
\* leave the queue alone.
LEMMA SameContents ==
  ASSUME count' = count, First' = First,
         \A i \in 1 .. count : buffer'[Wrap(First + i - 1)] = buffer[Wrap(First + i - 1)]
  PROVE  Committed' = Committed
BY DEF Committed

LEMMA ContentsFacts ==
  ASSUME LockInv
  PROVE  /\ First \in Slots /\ count \in 0 .. Size
         /\ Committed \in Seq(Byte) /\ Len(Committed) = count
<1>1. First \in Slots
  BY WrapOnce, RingAssumption DEF First, LockInv, MaskInv, LockedTypeOK, Slots
<1>2. \A i \in 1 .. count : i \in 1 .. Size
  BY RingAssumption DEF LockInv, MaskInv, LockedTypeOK
<1>3. \A i \in 1 .. count : Wrap(First + i - 1) \in Slots
  BY <1>1, <1>2, WrapSlot
<1> QED
  BY <1>1, <1>3 DEF Committed, LockInv, MaskInv, LockedTypeOK

\* Outside the ring's code nothing changes for the queue.
LEMMA OutsideQueue ==
  ASSUME LockInv, LockInv', [Next]_vars, \A c \in Contexts : ~RingStep(c)
  PROVE  UNCHANGED <<Committed, reply>>
<1>1. UNCHANGED <<head, tail, count, buffer, reply>>
  BY DEF Next, Body, RingStep, Call, EnterRead, EnterMask, Exit, Interrupt, Eret,
         DisableAll, EnableAll, vars, ring
<1>2. \A o \in {"push", "pop"} : Moving(o)' <=> Moving(o)
  <2>1. CASE UNCHANGED vars
    BY <2>1 DEF vars, locals, Moving, Moved
  <2>2. ASSUME NEW c \in Contexts, Call(c) \/ EnterRead(c) \/ EnterMask(c) \/ Exit(c)
        PROVE  \A d \in Contexts : pc[d] \notin Busy /\ pc'[d] \notin Busy
    <3>1. active = c
      BY <2>2 DEF Call, EnterRead, EnterMask, Exit, At
    <3>2. pc[c] \notin Busy /\ pc'[c] \notin Busy
      BY <2>2 DEF Call, EnterRead, EnterMask, Exit, At, Busy, LockInv, MaskInv, LockedTypeOK
    <3>3. \A d \in Contexts : d # c => pc[d] \notin Busy /\ pc'[d] = pc[d]
      BY <2>2, <3>1, OneInSection
      DEF Call, EnterRead, EnterMask, Exit, At, Busy, InSection, LockInv, MaskInv, LockedTypeOK
    <3> QED
      BY <3>2, <3>3
  <2>3. CASE Interrupt \/ Eret \/ DisableAll \/ EnableAll
    <3>1. \A d \in Contexts : pc[d] \notin Busy /\ pc'[d] \notin Busy
      BY <2>3 DEF Interrupt, Eret, DisableAll, EnableAll, LockInv, MaskInv, LockedTypeOK,
                  HandlerMasked, HandlerIdle, MainMask, InSection, Busy, Contexts
    <3> QED
      BY <3>1 DEF Moving, Moved, Busy
  <2>4. ASSUME \A d \in Contexts : pc[d] \notin Busy /\ pc'[d] \notin Busy
        PROVE  \A o \in {"push", "pop"} : Moving(o)' <=> Moving(o)
    BY <2>4 DEF Moving, Moved, Busy
  <2> QED
    BY <2>1, <2>2, <2>3, <2>4 DEF Next, Body, RingStep
<1>3. First' = First
  BY <1>1, <1>2 DEF First, Moving
<1> QED
  BY <1>1, <1>3, SameContents

\* A store to the next free slot is not yet visible.
LEMMA StoreQueue ==
  ASSUME LockInv, NEW c \in Contexts, Store(c)
  PROVE  UNCHANGED <<Committed, reply>>
<1>1. /\ active = c /\ pc[c] = "copy" /\ pc' = [pc EXCEPT ![c] = "advance"] /\ op' = op
      /\ op[c] = "push" /\ buffer' = [buffer EXCEPT ![head] = data[c]]
      /\ UNCHANGED <<count, reply>>
  BY DEF Store, At, locals
<1>2. First' = First
  BY StoreStep
<1>3. head = Wrap(First + count + 0)
  BY <1>1, Focus DEF Sections, Late
<1>4. count < Size
  BY <1>1 DEF LockInv, RingPart, Tested, Busy
<1>5. ASSUME NEW i \in 1 .. count
      PROVE  buffer'[Wrap(First + i - 1)] = buffer[Wrap(First + i - 1)]
  <2>1. Wrap(First + i - 1) # head /\ Wrap(First + i - 1) \in Slots
    BY <1>3, <1>4, ContentsFacts, WrapOnce, RingAssumption DEF Slots
  <2> QED
    BY <1>1, <2>1 DEF LockInv, MaskInv, LockedTypeOK
<1> QED
  BY <1>1, <1>2, <1>5, SameContents

\* The store to the count makes the byte part of the queue.
LEMMA CountUpQueue ==
  ASSUME LockInv, NEW c \in Contexts, CountUp(c), LockInv'
  PROVE  Queue!Put(data[c])
<1>1. /\ pc[c] = "bump" /\ op[c] = "push" /\ count' = loaded[c] + 1
      /\ reply' = Reply("push", TRUE, 0) /\ buffer' = buffer
  BY DEF CountUp, At
<1>2. /\ loaded[c] = count /\ count < Size /\ buffer[Wrap(First + count)] = data[c]
      /\ data[c] \in Byte
  BY <1>1 DEF LockInv, RingPart, CountFresh, Tested, ByteKept, Busy, MaskInv, LockedTypeOK
<1>3. First' = First
  BY CountUpStep
<1>4. First \in Slots /\ count \in 0 .. Size /\ Committed \in Seq(Byte) /\ Len(Committed) = count
  BY ContentsFacts
<1>5. Committed' = [i \in 1 .. (count + 1) |-> buffer[Wrap(First + i - 1)]]
  BY <1>1, <1>2, <1>3 DEF Committed
<1>6. Committed' \in Seq(Byte) /\ Len(Committed') = count + 1
  <2>1. \A i \in 1 .. (count + 1) : Wrap(First + i - 1) \in Slots
    BY <1>2, <1>4, WrapOnce, RingAssumption DEF Slots
  <2>2. buffer \in [Slots -> Byte] /\ count + 1 \in Nat
    BY <1>4 DEF LockInv, MaskInv, LockedTypeOK
  <2> QED
    BY <1>5, <2>1, <2>2
<1>7. ASSUME NEW i \in 1 .. (count + 1)
      PROVE  Committed'[i] = Append(Committed, data[c])[i]
  <2>1. CASE i \in 1 .. count
    <3>1. Append(Committed, data[c])[i] = Committed[i]
      BY <1>2, <1>4, <2>1
    <3>2. Committed[i] = buffer[Wrap(First + i - 1)]
      BY <2>1 DEF Committed
    <3> QED
      BY <1>5, <3>1, <3>2
  <2>2. CASE i = count + 1
    <3>1. First + i - 1 = First + count
      BY <1>4, <2>2 DEF Slots
    <3>2. Append(Committed, data[c])[i] = data[c]
      BY <1>2, <1>4, <2>2
    <3> QED
      BY <1>2, <1>5, <3>1, <3>2
  <2> QED
    BY <1>4, <2>1, <2>2
<1>8. Committed' = Append(Committed, data[c])
  <2>1. Append(Committed, data[c]) \in Seq(Byte) /\ Len(Append(Committed, data[c])) = count + 1
    BY <1>2, <1>4
  <2> QED
    BY <1>6, <1>7, <2>1
<1> QED
  BY <1>1, <1>2, <1>4, <1>8 DEF Queue!Put, Reply, Queue!Reply

\* The store to the count takes the oldest byte out of the queue.
LEMMA CountDownQueue ==
  ASSUME LockInv, NEW c \in Contexts, CountDown(c), LockInv'
  PROVE  Queue!Take
<1>1. /\ pc[c] = "bump" /\ op[c] = "pop" /\ count' = loaded[c] - 1
      /\ reply' = Reply("pop", TRUE, data[c]) /\ buffer' = buffer
  BY DEF CountDown, At
<1>2. loaded[c] = count /\ count > 0 /\ buffer[First] = data[c]
  BY <1>1 DEF LockInv, RingPart, CountFresh, Tested, ByteKept, Busy, MaskInv, LockedTypeOK
<1>3. First' = Wrap(First + 1)
  BY CountDownStep
<1>4. First \in Slots /\ count \in 0 .. Size /\ Committed \in Seq(Byte) /\ Len(Committed) = count
  BY ContentsFacts
<1>5. Committed # << >> /\ Head(Committed) = data[c]
  <2>1. 1 \in 1 .. count
    BY <1>2, <1>4
  <2>2. Committed[1] = buffer[Wrap(First + 1 - 1)]
    BY <2>1 DEF Committed
  <2>3. Wrap(First + 1 - 1) = First
    BY <1>4, WrapOnce, RingAssumption DEF Slots
  <2> QED
    BY <1>2, <1>4, <2>1, <2>2, <2>3
<1>6. Committed' = [i \in 1 .. (count - 1) |-> buffer[Wrap(Wrap(First + 1) + i - 1)]]
  BY <1>1, <1>2, <1>3 DEF Committed
<1>7. Tail(Committed) \in Seq(Byte) /\ Len(Tail(Committed)) = count - 1
  BY <1>4, <1>5
<1>8. Committed' \in Seq(Byte) /\ Len(Committed') = count - 1
  <2>1. \A i \in 1 .. (count - 1) : Wrap(Wrap(First + 1) + i - 1) \in Slots
    BY <1>4, WrapOnce, RingAssumption DEF Slots
  <2>2. buffer \in [Slots -> Byte] /\ count - 1 \in Nat
    BY <1>2, <1>4 DEF LockInv, MaskInv, LockedTypeOK
  <2> QED
    BY <1>6, <2>1, <2>2
<1>9. ASSUME NEW i \in 1 .. (count - 1)
      PROVE  Committed'[i] = Tail(Committed)[i]
  <2>1. Wrap(Wrap(First + 1) + i - 1) = Wrap(First + (i + 1) - 1)
    BY <1>4, WrapOnce, RingAssumption DEF Slots
  <2>2. Tail(Committed)[i] = Committed[i + 1]
    BY <1>4, <1>5, <1>7
  <2>3. i + 1 \in 1 .. count
    BY <1>4
  <2>4. Committed[i + 1] = buffer[Wrap(First + (i + 1) - 1)]
    BY <2>3 DEF Committed
  <2> QED
    BY <1>6, <2>1, <2>2, <2>4
<1>10. Committed' = Tail(Committed)
  BY <1>7, <1>8, <1>9
<1> QED
  BY <1>1, <1>5, <1>10 DEF Queue!Take, Reply, Queue!Reply

\* Every load and store maps to a step of the queue or to no step at all.
LEMMA QueueStep ==
  ASSUME LockInv, LockInv', [Next]_vars
  PROVE  [Queue!FifoNext]_(Queue!vars)
<1>1. CASE \A c \in Contexts : ~RingStep(c)
  BY <1>1, OutsideQueue DEF Queue!vars
<1>2. ASSUME NEW c \in Contexts, PushTest(c) \/ PopTest(c)
      PROVE  [Queue!FifoNext]_(Queue!vars)
  <2>1. Committed' = Committed
    <3>1. UNCHANGED <<count, buffer>>
      BY <1>2 DEF PushTest, PopTest, ring
    <3> QED
      BY <1>2, <3>1, TestStep, SameContents
  <2>2. Len(Committed) = count /\ Committed \in Seq(Byte)
    BY ContentsFacts
  <2>3. CASE reply' = reply
    BY <2>1, <2>3 DEF Queue!vars
  <2>4. CASE PushTest(c) /\ reply' # reply
    <3>1. Queue!Refuse
      BY <2>1, <2>2, <2>4 DEF PushTest, is_full, Reply, Queue!Refuse, Queue!Reply
    <3> QED
      BY <3>1 DEF Queue!FifoNext
  <2>5. CASE PopTest(c) /\ reply' # reply
    <3>1. Queue!Nothing
      BY <2>1, <2>2, <2>5 DEF PopTest, is_empty, Reply, Queue!Nothing, Queue!Reply
    <3> QED
      BY <3>1 DEF Queue!FifoNext
  <2> QED
    BY <1>2, <2>3, <2>4, <2>5
<1>3. ASSUME NEW c \in Contexts, Store(c) PROVE [Queue!FifoNext]_(Queue!vars)
  BY <1>3, StoreQueue DEF Queue!vars
<1>4. ASSUME NEW c \in Contexts, Fetch(c) \/ AdvanceHead(c) \/ AdvanceTail(c) \/ Load(c)
      PROVE  [Queue!FifoNext]_(Queue!vars)
  <2>1. UNCHANGED <<count, buffer, reply>>
    BY <1>4 DEF Fetch, AdvanceHead, AdvanceTail, Load, ring
  <2>2. First' = First
    BY <1>4, FetchStep, AdvanceHeadStep, AdvanceTailStep, LoadStep
  <2> QED
    BY <2>1, <2>2, SameContents DEF Queue!vars
<1>5. ASSUME NEW c \in Contexts, CountUp(c) PROVE [Queue!FifoNext]_(Queue!vars)
  <2>1. data[c] \in Byte
    BY DEF LockInv, MaskInv, LockedTypeOK
  <2> QED
    BY <1>5, <2>1, CountUpQueue DEF Queue!FifoNext
<1>6. ASSUME NEW c \in Contexts, CountDown(c) PROVE [Queue!FifoNext]_(Queue!vars)
  BY <1>6, CountDownQueue DEF Queue!FifoNext
<1> QED
  BY <1>1, <1>2, <1>3, <1>4, <1>5, <1>6 DEF RingStep

\* EquiniosLock.c around RingBuffer.c makes one bounded queue for the main
\* program and the handler, whatever the size of the ring and wherever between
\* two loads and stores an interrupt is taken.
THEOREM LockedRingIsFifo == Spec => SharedFifo
<1>1. Init => Queue!FifoInit
  BY DEF Init, Queue!FifoInit, Committed, Reply, Queue!Reply
<1>2. LockInv /\ LockInv' /\ [Next]_vars => [Queue!FifoNext]_(Queue!vars)
  BY QueueStep
<1> QED
  BY <1>1, <1>2, RingInit, LockStep, PTL DEF Spec, SharedFifo, Queue!FifoSpec
=============================================================================
