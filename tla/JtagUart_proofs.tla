-------------------------- MODULE JtagUart_proofs --------------------------
(***************************************************************************)
(* Proofs about JtagUart for every length of the rings and FIFOs, every    *)
(* set of bytes and every choice of calls.                                 *)
(***************************************************************************)
EXTENDS JtagUart, SequenceTheorems, TLAPS

\* An index sum of a ring is below twice its length, where the modulo is a
\* single conditional subtraction.
LEMMA WrapOnce ==
  ASSUME NEW x \in 0 .. (2 * BufLen - 1)
  PROVE  Wrap(x) = IF x < BufLen THEN x ELSE x - BufLen
BY UartAssumption DEF Wrap
-----------------------------------------------------------------------------
(* The conjuncts of UartTypeOK, by what changes together *)

RingTypes == /\ rx_in \in Slots /\ rx_out \in Slots /\ rx_buf \in [Slots -> Byte]
             /\ tx_in \in Slots /\ tx_out \in Slots /\ tx_buf \in [Slots -> Byte]
             /\ irq_enable \subseteq {"RE", "WE"}
             /\ timeout \in 2 .. IntMax /\ host_inactive \in 0 .. (IntMax - 2)

CallTypes == /\ pc \in {"idle", "close"} \cup ReadCalls \cup WriteCalls
             /\ nonblock \in BOOLEAN /\ accepted \in BOOLEAN
             /\ seen \in Slots /\ space \in Nat
             /\ received \in Seq(Byte) /\ offered \in Seq(Byte) /\ chunk \in Seq(Byte)
             /\ result \in {"none", "count", "0", "-EIO", "-EWOULDBLOCK"}

HandlerTypes == /\ handler \in Handlers
                /\ wi \in BOOLEAN /\ avail \in BOOLEAN
                /\ room \in 0 .. TxDepth

LEMMA TypeParts == UartTypeOK <=> HostTypeOK /\ RingTypes /\ CallTypes /\ HandlerTypes
BY DEF UartTypeOK, RingTypes, CallTypes, HandlerTypes
-----------------------------------------------------------------------------
(* The inductive invariant *)

\* A read goes round its loop only while there is room left for a byte.
ReadHasRoom == pc \in {"read", "read_advance", "read_wait", "read_check"} => space > 0

\* What a read has copied is still at the front of the ring.
ReadChunk == pc = "read_advance" =>
  /\ Len(chunk) \in 1 .. Readable /\ Len(chunk) <= space
  /\ chunk = Bytes(rx_buf, rx_out, Len(chunk))

\* A write goes round its loop only while there is a byte left to send.
WriteHasBytes == pc \in {"write", "write_advance", "write_wait", "write_check"}
                 => offered # <<>>

\* What a write has copied is in the ring's free slots.
WriteChunk == pc = "write_advance" =>
  /\ Len(chunk) \in 1 .. Writable /\ Len(chunk) <= Len(offered)
  /\ chunk = SubSeq(offered, 1, Len(chunk))
  /\ chunk = Bytes(tx_buf, tx_in, Len(chunk))

\* The locals of a call that is not under way are gone.
LocalsGone == /\ pc \notin ReadCalls => received = <<>>
              /\ pc \notin WriteCalls => offered = <<>>

CallInv == ReadHasRoom /\ ReadChunk /\ WriteHasBytes /\ WriteChunk /\ LocalsGone

\* The room the handler counts with is there.
RoomKept == room <= WSpace

UartInv == UartTypeOK /\ CallInv /\ RxArmed /\ TxArmed /\ RoomKept

LEMMA UartInit == Init => UartInv
<1> USE UartAssumption, HostAssumption
<1>1. ASSUME Init PROVE UartTypeOK
  <2> USE <1>1 DEF Init
  <2>1. HostTypeOK
    <3>1. active \in BOOLEAN
      BY DEF HostInit
    <3> QED
      BY <3>1 DEF HostInit, HostTypeOK
  <2>2. RingTypes
    BY DEF RingTypes, Slots
  <2>3. CallTypes
    <3>1. nonblock \in BOOLEAN /\ accepted \in BOOLEAN
      OBVIOUS
    <3> QED
      BY <3>1 DEF CallTypes, Slots
  <2>4. HandlerTypes
    <3>1. wi \in BOOLEAN /\ avail \in BOOLEAN
      OBVIOUS
    <3> QED
      BY <3>1 DEF HandlerTypes, Handlers
  <2> QED
    BY <2>1, <2>2, <2>3, <2>4, TypeParts
<1>2. ASSUME Init PROVE CallInv
  BY <1>2 DEF Init, CallInv, ReadHasRoom, ReadChunk, WriteHasBytes, WriteChunk, LocalsGone
<1>3. ASSUME Init PROVE RxArmed /\ TxArmed /\ RoomKept
  BY <1>3 DEF Init, HostInit, RxArmed, TxArmed, RoomKept, WSpace
<1> QED
  BY <1>1, <1>2, <1>3 DEF UartInv
-----------------------------------------------------------------------------
(* Types *)

LEMMA ReturnTypes ==
  ASSUME CallTypes, NEW value \in {"count", "0", "-EIO", "-EWOULDBLOCK"}, Return(value)
  PROVE  CallTypes'
<1>1. nonblock' \in BOOLEAN /\ accepted' \in BOOLEAN
  BY DEF Return
<1> QED
  BY <1>1, UartAssumption DEF CallTypes, Return, Slots

LEMMA GotoTypes ==
  ASSUME CallTypes, NEW label \in {"close"} \cup ReadCalls \cup WriteCalls, Goto(label)
  PROVE  CallTypes'
BY DEF CallTypes, Goto

LEMMA WaitTypes ==
  ASSUME CallTypes, NEW label \in {"read_wait", "write_kick"}, NEW index \in Slots,
         WaitFor(label, index)
  PROVE  CallTypes'
BY DEF CallTypes, WaitFor, ReadCalls, WriteCalls

LEMMA ShortenedType == Shortened \in {"count", "-EIO", "-EWOULDBLOCK"}
BY DEF Shortened

\* A step of the program that copies nothing keeps the types.
LEMMA ProgramTypes ==
  ASSUME UartTypeOK,
         \/ \E n \in Spaces, flag \in BOOLEAN : Read(n, flag)
         \/ \E m \in Messages, flag \in BOOLEAN : Write(m, flag)
         \/ \E flag \in BOOLEAN : Close(flag)
         \/ \E t \in Timeouts : SetTimeout(t)
         \/ ReadNothing \/ ReadWait \/ ReadCheck \/ ReadEnable
         \/ WriteFull \/ WriteKick \/ WriteWait \/ WriteCheck
         \/ CloseWait
  PROVE  UartTypeOK'
<1>0. HostTypeOK /\ RingTypes /\ CallTypes /\ HandlerTypes
  BY TypeParts
<1>1. HostTypeOK' /\ HandlerTypes'
  BY <1>0 DEF HostTypeOK, HandlerTypes, Read, Write, Close, SetTimeout, ReadNothing, ReadWait,
     ReadCheck, ReadEnable, WriteFull, WriteKick, WriteWait, WriteCheck, CloseWait,
     hardware, inquiry
<1>2. RingTypes'
  <2>1. CASE \E t \in Timeouts : SetTimeout(t)
    BY <1>0, <2>1, UartAssumption DEF RingTypes, SetTimeout, rxRing, txRing
  <2>2. CASE ~(\E t \in Timeouts : SetTimeout(t))
    <3>1. UNCHANGED <<rxRing, txRing, hostwatch>> /\ irq_enable' \subseteq {"RE", "WE"}
      BY <1>0, <2>2 DEF RingTypes, Read, Write, Close, ReadNothing, ReadWait,
         ReadCheck, ReadEnable, WriteFull, WriteKick, WriteWait, WriteCheck, CloseWait
    <3> QED
      BY <1>0, <3>1 DEF RingTypes, rxRing, txRing, hostwatch
  <2> QED
    BY <2>1, <2>2
<1>3. CallTypes'
  <2> USE <1>0
  <2>1. ASSUME NEW n \in Spaces, NEW flag \in BOOLEAN, Read(n, flag) PROVE CallTypes'
    BY <2>1, UartAssumption DEF Read, CallTypes, ReadCalls
  <2>2. ASSUME NEW m \in Messages, NEW flag \in BOOLEAN, Write(m, flag) PROVE CallTypes'
    BY <2>2, UartAssumption DEF Write, CallTypes, WriteCalls
  <2>3. ASSUME NEW flag \in BOOLEAN, Close(flag) PROVE CallTypes'
    BY <2>3 DEF Close, CallTypes
  <2>4. ASSUME NEW t \in Timeouts, SetTimeout(t) PROVE CallTypes'
    BY <2>4 DEF SetTimeout, call, CallTypes
  <2>5. CASE ReadNothing
    <3>1. rx_in \in Slots
      BY DEF RingTypes
    <3> QED
      BY <2>5, <3>1, GotoTypes, ReturnTypes, WaitTypes DEF ReadNothing, ReadCalls
  <2>6. CASE ReadWait \/ ReadCheck \/ ReadEnable
    BY <2>6, GotoTypes, ReturnTypes DEF ReadWait, ReadCheck, ReadEnable, ReadCalls
  <2>7. CASE WriteFull
    <3>1. tx_out \in Slots
      BY DEF RingTypes
    <3> QED
      BY <2>7, <3>1, WaitTypes DEF WriteFull
  <2>8. CASE WriteKick \/ WriteWait \/ WriteCheck
    BY <2>8, GotoTypes, ReturnTypes, ShortenedType DEF WriteKick, WriteWait, WriteCheck, WriteCalls
  <2>9. CASE CloseWait
    BY <2>9, ReturnTypes DEF CloseWait
  <2> QED
    BY <2>1, <2>2, <2>3, <2>4, <2>5, <2>6, <2>7, <2>8, <2>9
<1> QED
  <2>1. HostTypeOK' /\ RingTypes' /\ CallTypes' /\ HandlerTypes'
    BY <1>1, <1>2, <1>3
  <2> QED
    BY <2>1 DEF UartTypeOK, RingTypes, CallTypes, HandlerTypes

\* What a read may copy at once does not wrap.
LEMMA ReadableFacts ==
  ASSUME rx_in \in Slots, rx_out \in Slots
  PROVE  /\ Readable \in 0 .. (BufLen - rx_out)
         /\ Readable > 0 <=> rx_in # rx_out
         /\ Readable <= Wrap(rx_in + BufLen - rx_out)
BY UartAssumption, WrapOnce DEF Readable, Slots

\* What a write may copy at once does not wrap and leaves a slot empty.
LEMMA WritableFacts ==
  ASSUME tx_in \in Slots, tx_out \in Slots
  PROVE  /\ Writable \in 0 .. (BufLen - tx_in)
         /\ Writable + Wrap(tx_in + BufLen - tx_out) < BufLen
<1>0. /\ tx_in < tx_out => Writable = tx_out - 1 - tx_in
      /\ tx_in >= tx_out /\ tx_out > 0 => Writable = BufLen - tx_in
      /\ tx_in >= tx_out /\ tx_out = 0 => Writable = BufLen - 1 - tx_in
  BY UartAssumption DEF Writable, Slots
<1>1. CASE tx_in < tx_out
  BY <1>0, <1>1, UartAssumption, WrapOnce DEF Slots
<1>2. CASE tx_in >= tx_out /\ tx_out > 0
  BY <1>0, <1>2, UartAssumption, WrapOnce DEF Slots
<1>3. CASE tx_in >= tx_out /\ tx_out = 0
  BY <1>0, <1>3, UartAssumption, WrapOnce DEF Slots
<1> QED
  BY <1>1, <1>2, <1>3 DEF Slots

\* The bytes of a piece of a ring's buffer
LEMMA BytesFacts ==
  ASSUME NEW buf \in [Slots -> Byte], NEW out \in Slots, NEW n \in 0 .. (BufLen - out)
  PROVE  Bytes(buf, out, n) \in Seq(Byte) /\ Len(Bytes(buf, out, n)) = n
<1>1. \A i \in 1 .. n : out + i - 1 \in Slots
  BY UartAssumption DEF Slots
<1> QED
  BY <1>1, UartAssumption DEF Bytes, Slots

LEMMA ReadCopyTypes ==
  ASSUME UartInv, ReadCopy
  PROVE  UartTypeOK'
<1>0. HostTypeOK /\ RingTypes /\ CallTypes /\ HandlerTypes
  BY TypeParts DEF UartInv
<1>1. HostTypeOK' /\ RingTypes' /\ HandlerTypes'
  BY <1>0 DEF ReadCopy, HostTypeOK, RingTypes, HandlerTypes, hardware, rxRing, txRing,
     hostwatch, inquiry
<1>2. chunk' \in Seq(Byte)
  <2>1. rx_in \in Slots /\ rx_out \in Slots /\ rx_buf \in [Slots -> Byte] /\ space \in Nat
    BY <1>0 DEF RingTypes, CallTypes
  <2>2. LeastOf(Readable, space) \in 0 .. (BufLen - rx_out)
    BY <2>1, ReadableFacts, UartAssumption DEF LeastOf, Slots
  <2> QED
    BY <2>1, <2>2, BytesFacts DEF ReadCopy
<1>3. CallTypes'
  BY <1>0, <1>2 DEF ReadCopy, CallTypes, ReadCalls
<1> QED
  <2>1. HostTypeOK' /\ RingTypes' /\ CallTypes' /\ HandlerTypes'
    BY <1>1, <1>3
  <2> QED
    BY <2>1 DEF UartTypeOK, RingTypes, CallTypes, HandlerTypes

LEMMA ReadAdvanceTypes ==
  ASSUME UartInv, ReadAdvance
  PROVE  UartTypeOK'
<1>0. HostTypeOK /\ RingTypes /\ CallTypes /\ HandlerTypes
  BY TypeParts DEF UartInv
<1>1. HostTypeOK' /\ HandlerTypes'
  BY <1>0 DEF ReadAdvance, HostTypeOK, HandlerTypes, hardware, inquiry
<1>2. /\ Len(chunk) \in 1 .. Readable /\ Len(chunk) <= space
      /\ rx_in \in Slots /\ rx_out \in Slots
      /\ chunk \in Seq(Byte) /\ space \in Nat /\ received \in Seq(Byte)
  BY <1>0 DEF UartInv, CallInv, ReadChunk, ReadAdvance, At, RingTypes, CallTypes
<1>3. RingTypes'
  <2>1. Wrap(rx_out + Len(chunk)) \in Slots
    BY <1>2, ReadableFacts, WrapOnce, UartAssumption DEF Slots
  <2> QED
    BY <1>0, <2>1 DEF ReadAdvance, RingTypes, txRing, hostwatch
<1>4. CallTypes'
  <2>1. space' \in Nat /\ received' \in Seq(Byte) /\ chunk' \in Seq(Byte)
    BY <1>2 DEF ReadAdvance
  <2> QED
    BY <1>0, <2>1 DEF ReadAdvance, CallTypes, ReadCalls
<1> QED
  <2>1. HostTypeOK' /\ RingTypes' /\ CallTypes' /\ HandlerTypes'
    BY <1>1, <1>3, <1>4
  <2> QED
    BY <2>1 DEF UartTypeOK, RingTypes, CallTypes, HandlerTypes

LEMMA WriteCopyTypes ==
  ASSUME UartInv, WriteCopy
  PROVE  UartTypeOK'
<1>0. HostTypeOK /\ RingTypes /\ CallTypes /\ HandlerTypes
  BY TypeParts DEF UartInv
<1> DEFINE n == LeastOf(Writable, Len(offered))
<1>1. HostTypeOK' /\ HandlerTypes'
  BY <1>0 DEF WriteCopy, HostTypeOK, HandlerTypes, hardware, inquiry
<1>2. /\ tx_in \in Slots /\ tx_out \in Slots /\ tx_buf \in [Slots -> Byte]
      /\ offered \in Seq(Byte) /\ n \in 0 .. (BufLen - tx_in) /\ n <= Len(offered)
  <2>1. /\ tx_in \in Slots /\ tx_out \in Slots /\ tx_buf \in [Slots -> Byte]
        /\ offered \in Seq(Byte)
    BY <1>0 DEF RingTypes, CallTypes
  <2> QED
    BY <2>1, WritableFacts, UartAssumption DEF LeastOf, Slots
<1>3. RingTypes'
  <2>1. ASSUME NEW s \in Slots, s \in tx_in .. (tx_in + n - 1)
        PROVE  offered[s - tx_in + 1] \in Byte
    <3>1. s - tx_in + 1 \in 1 .. Len(offered)
      BY <1>2, <2>1, UartAssumption DEF Slots
    <3> QED
      BY <1>2, <3>1
  <2>2. tx_buf' \in [Slots -> Byte]
    BY <1>2, <2>1 DEF WriteCopy
  <2> QED
    BY <1>0, <2>2 DEF WriteCopy, RingTypes, rxRing, hostwatch
<1>4. CallTypes'
  <2>1. chunk' \in Seq(Byte)
    BY <1>2 DEF WriteCopy
  <2> QED
    BY <1>0, <2>1 DEF WriteCopy, CallTypes, WriteCalls
<1> QED
  <2>1. HostTypeOK' /\ RingTypes' /\ CallTypes' /\ HandlerTypes'
    BY <1>1, <1>3, <1>4
  <2> QED
    BY <2>1 DEF UartTypeOK, RingTypes, CallTypes, HandlerTypes

LEMMA WriteAdvanceTypes ==
  ASSUME UartInv, WriteAdvance
  PROVE  UartTypeOK'
<1>0. HostTypeOK /\ RingTypes /\ CallTypes /\ HandlerTypes
  BY TypeParts DEF UartInv
<1>1. HostTypeOK' /\ HandlerTypes'
  BY <1>0 DEF WriteAdvance, HostTypeOK, HandlerTypes, hardware, inquiry
<1>2. /\ Len(chunk) \in 1 .. Writable /\ Len(chunk) <= Len(offered)
      /\ tx_in \in Slots /\ tx_out \in Slots
      /\ chunk \in Seq(Byte) /\ offered \in Seq(Byte)
  BY <1>0 DEF UartInv, CallInv, WriteChunk, WriteAdvance, At, RingTypes, CallTypes
<1>3. RingTypes'
  <2>1. Wrap(tx_in + Len(chunk)) \in Slots
    BY <1>2, WritableFacts, WrapOnce, UartAssumption DEF Slots
  <2> QED
    BY <1>0, <2>1 DEF WriteAdvance, RingTypes, rxRing, hostwatch
<1>4. CallTypes'
  <2>1. offered' \in Seq(Byte) /\ chunk' \in Seq(Byte) /\ accepted' \in BOOLEAN
    BY <1>2 DEF WriteAdvance
  <2> QED
    BY <1>0, <2>1 DEF WriteAdvance, CallTypes, WriteCalls
<1> QED
  <2>1. HostTypeOK' /\ RingTypes' /\ CallTypes' /\ HandlerTypes'
    BY <1>1, <1>3, <1>4
  <2> QED
    BY <2>1 DEF UartTypeOK, RingTypes, CallTypes, HandlerTypes

LEMMA HandlerStepTypes ==
  ASSUME UartInv, Interrupt \/ Handler
  PROVE  UartTypeOK'
<1>0. HostTypeOK /\ RingTypes /\ CallTypes /\ HandlerTypes
  BY TypeParts DEF UartInv
<1>1. CallTypes'
  BY <1>0 DEF CallTypes, call, Interrupt, Handler, Control, Receive, ReceiveNothing,
     ReceiveFull, Transmit, TransmitEnd
<1>2. CASE Interrupt \/ Control
  <2>1. HostTypeOK' /\ RingTypes'
    BY <1>0, <1>2 DEF Interrupt, Control, HostTypeOK, RingTypes, hardware, rxRing, txRing, hostwatch
  <2>2. wi' \in BOOLEAN /\ avail' \in BOOLEAN
    BY <1>0, <1>2 DEF Interrupt, Control, HandlerTypes, WritePending, ReadPending
  <2>3. handler' \in Handlers /\ room' \in 0 .. TxDepth
    BY <1>0, <1>2, HostAssumption DEF Interrupt, Control, HandlerTypes, Handlers, WSpace, HostTypeOK
  <2> QED
    BY <1>1, <2>1, <2>2, <2>3 DEF UartTypeOK, RingTypes, CallTypes
<1>3. CASE Receive
  <2>1. /\ rxFifo \in Seq(Byte) /\ rxFifo # <<>> /\ rx_buf \in [Slots -> Byte]
        /\ rx_in \in Slots /\ Len(rxFifo) <= RxDepth
    BY <1>0, <1>3 DEF Receive, HostTypeOK, RingTypes
  <2>2. Head(rxFifo) \in Byte /\ Tail(rxFifo) \in Seq(Byte) /\ Len(Tail(rxFifo)) <= RxDepth
    BY <2>1, HostAssumption
  <2>3. HostTypeOK'
    BY <1>0, <1>3, <2>2 DEF Receive, HostTypeOK
  <2>4. Wrap(rx_in + 1) \in Slots
    BY <2>1, WrapOnce, UartAssumption DEF Slots
  <2>5. RingTypes'
    BY <1>0, <1>3, <2>2, <2>4 DEF Receive, RingTypes, txRing, hostwatch
  <2>6. avail' \in BOOLEAN
    BY <1>3 DEF Receive
  <2> QED
    BY <1>0, <1>1, <1>3, <2>3, <2>5, <2>6 DEF Receive, HandlerTypes, UartTypeOK, RingTypes, CallTypes
<1>4. CASE ReceiveNothing \/ ReceiveFull \/ TransmitEnd
  <2>1. HostTypeOK'
    BY <1>0, <1>4 DEF ReceiveNothing, ReceiveFull, TransmitEnd, HostTypeOK, hardware
  <2>2. irq_enable' \subseteq {"RE", "WE"} /\ UNCHANGED <<rxRing, txRing, hostwatch>>
    BY <1>0, <1>4 DEF ReceiveNothing, ReceiveFull, TransmitEnd, RingTypes
  <2>3. RingTypes'
    BY <1>0, <2>2 DEF RingTypes, rxRing, txRing, hostwatch
  <2>4. avail' \in BOOLEAN
    BY <1>0, <1>4 DEF ReceiveNothing, ReceiveFull, TransmitEnd, HandlerTypes
  <2>5. handler' \in Handlers /\ UNCHANGED <<wi, room>>
    BY <1>4 DEF ReceiveNothing, ReceiveFull, TransmitEnd, Handlers
  <2> QED
    BY <1>0, <1>1, <2>1, <2>3, <2>4, <2>5 DEF HandlerTypes, UartTypeOK, RingTypes, CallTypes
<1>5. CASE Transmit
  <2>1. /\ txFifo \in Seq(Byte) /\ tx_buf \in [Slots -> Byte] /\ tx_out \in Slots
        /\ Len(txFifo) <= TxDepth /\ room \in 0 .. TxDepth
    BY <1>0 DEF HostTypeOK, RingTypes, HandlerTypes
  <2>2. txFifo' \in Seq(Byte) /\ Len(txFifo') <= TxDepth
    BY <1>5, <2>1, HostAssumption DEF Transmit, WSpace
  <2>3. HostTypeOK'
    BY <1>0, <1>5, <2>2 DEF Transmit, HostTypeOK
  <2>4. Wrap(tx_out + 1) \in Slots
    BY <2>1, WrapOnce, UartAssumption DEF Slots
  <2>5. RingTypes'
    BY <1>0, <1>5, <2>4 DEF Transmit, RingTypes, rxRing, hostwatch
  <2>6. room' \in 0 .. TxDepth
    BY <1>5, <2>1, HostAssumption DEF Transmit
  <2> QED
    BY <1>0, <1>1, <1>5, <2>3, <2>5, <2>6 DEF Transmit, HandlerTypes, UartTypeOK, RingTypes, CallTypes
<1> QED
  BY <1>2, <1>3, <1>4, <1>5 DEF Handler

LEMMA HostStepTypes ==
  ASSUME UartInv, Timeout \/ (Host /\ UNCHANGED driver) \/ UNCHANGED vars
  PROVE  UartTypeOK'
<1>0. HostTypeOK /\ RingTypes /\ CallTypes /\ HandlerTypes
  BY TypeParts DEF UartInv
<1>1. CASE Timeout
  <2>1. active' \in BOOLEAN /\ UNCHANGED <<rxFifo, txFifo, rxRing, txRing, irq_enable, timeout, call, inquiry>>
    BY <1>1 DEF Timeout
  <2>2. host_inactive' \in 0 .. (IntMax - 2)
    BY <1>0, <1>1, UartAssumption DEF Timeout, RingTypes
  <2> QED
    BY <1>0, <2>1, <2>2 DEF HostTypeOK, RingTypes, CallTypes, HandlerTypes, UartTypeOK,
       rxRing, txRing, call, inquiry
<1>2. CASE Host /\ UNCHANGED driver
  <2>1. HostTypeOK'
    <3>1. active' \in BOOLEAN
      BY <1>2 DEF Host, HostSend, HostTake, HostPoll
    <3>2. rxFifo' \in Seq(Byte) /\ Len(rxFifo') <= RxDepth
      <4>1. ASSUME NEW b \in Byte, HostSend(b)
            PROVE  rxFifo' \in Seq(Byte) /\ Len(rxFifo') <= RxDepth
        BY <1>0, <4>1, HostAssumption DEF HostTypeOK, HostSend
      <4> QED
        BY <1>0, <1>2, <4>1 DEF HostTypeOK, Host, HostTake, HostPoll
    <3>3. txFifo' \in Seq(Byte) /\ Len(txFifo') <= TxDepth
      BY <1>0, <1>2, HostAssumption DEF HostTypeOK, Host, HostSend, HostTake, HostPoll
    <3> QED
      BY <3>1, <3>2, <3>3 DEF HostTypeOK
  <2> QED
    BY <1>0, <1>2, <2>1 DEF RingTypes, CallTypes, HandlerTypes, UartTypeOK, driver,
       rxRing, txRing, hostwatch, call, inquiry
<1>3. CASE UNCHANGED vars
  BY <1>0, <1>3 DEF HostTypeOK, RingTypes, CallTypes, HandlerTypes, UartTypeOK, vars,
     hardware, rxRing, txRing, hostwatch, call, inquiry
<1> QED
  BY <1>1, <1>2, <1>3

LEMMA StepTypes == UartInv /\ [Next]_vars => UartTypeOK'
BY ProgramTypes, ReadCopyTypes, ReadAdvanceTypes, WriteCopyTypes, WriteAdvanceTypes,
   HandlerStepTypes, HostStepTypes DEF Next, Program, UartInv
-----------------------------------------------------------------------------
(* The locals of the calls *)

\* A byte received leaves what a read has copied at the front of the ring.
LEMMA ReceiveKeepsChunk ==
  ASSUME UartInv, Receive
  PROVE  ReadChunk'
<1>0. /\ rx_in \in Slots /\ rx_out \in Slots /\ rx_buf \in [Slots -> Byte]
      /\ chunk \in Seq(Byte)
  BY TypeParts DEF UartInv, RingTypes, CallTypes
<1>1. /\ Wrap(rx_in + 1) # rx_out /\ rx_in' = Wrap(rx_in + 1)
      /\ UNCHANGED <<rx_out, pc, space, chunk>>
      /\ rx_buf' = [rx_buf EXCEPT ![rx_in] = Head(rxFifo)]
  BY DEF Receive, RxFull, call
<1>2. Readable <= Readable'
  BY <1>0, <1>1, WrapOnce, UartAssumption DEF Readable, Slots
<1>3. SUFFICES ASSUME pc = "read_advance" PROVE ReadChunk'
  BY <1>1 DEF ReadChunk
<1>4. /\ Len(chunk) \in 1 .. Readable /\ Len(chunk) <= space
      /\ chunk = Bytes(rx_buf, rx_out, Len(chunk))
  BY <1>3 DEF UartInv, CallInv, ReadChunk
<1>5. Readable \in 0 .. (BufLen - rx_out) /\ Readable' \in Int
  BY <1>0, <1>1, ReadableFacts, WrapOnce, UartAssumption DEF Readable, Slots
<1>6. ASSUME NEW i \in 1 .. Len(chunk)
      PROVE  rx_buf'[rx_out + i - 1] = rx_buf[rx_out + i - 1]
  <2>1. rx_out + i - 1 # rx_in /\ rx_out + i - 1 \in Slots
    BY <1>0, <1>4, <1>5, UartAssumption DEF Readable, Slots
  <2> QED
    BY <1>0, <1>1, <2>1
<1>7. Bytes(rx_buf', rx_out, Len(chunk)) = Bytes(rx_buf, rx_out, Len(chunk))
  BY <1>6 DEF Bytes
<1>8. Len(chunk) \in 1 .. Readable'
  BY <1>2, <1>4, <1>5, UartAssumption DEF Slots
<1> QED
  BY <1>1, <1>4, <1>7, <1>8 DEF ReadChunk

\* A byte sent leaves what a write has copied in the ring's free slots.
LEMMA TransmitKeepsChunk ==
  ASSUME UartInv, Transmit
  PROVE  WriteChunk'
<1>0. /\ tx_in \in Slots /\ tx_out \in Slots /\ chunk \in Seq(Byte)
  BY TypeParts DEF UartInv, RingTypes, CallTypes
<1>1. /\ tx_out # tx_in /\ tx_out' = Wrap(tx_out + 1)
      /\ UNCHANGED <<tx_in, tx_buf, pc, offered, chunk>>
  BY DEF Transmit, call
<1>2. tx_out' \in Slots
  BY <1>0, <1>1, WrapOnce, UartAssumption DEF Slots
<1>3. /\ tx_in < tx_out => Writable = tx_out - 1 - tx_in
      /\ tx_in >= tx_out /\ tx_out > 0 => Writable = BufLen - tx_in
      /\ tx_in >= tx_out /\ tx_out = 0 => Writable = BufLen - 1 - tx_in
  BY <1>0, UartAssumption DEF Writable, Slots
<1>4. /\ tx_in < tx_out' => Writable' = tx_out' - 1 - tx_in
      /\ tx_in >= tx_out' /\ tx_out' > 0 => Writable' = BufLen - tx_in
      /\ tx_in >= tx_out' /\ tx_out' = 0 => Writable' = BufLen - 1 - tx_in
  BY <1>0, <1>1, <1>2, UartAssumption DEF Writable, Slots
<1>5. Writable <= Writable' /\ Writable \in Int /\ Writable' \in Int
  BY <1>0, <1>1, <1>2, <1>3, <1>4, WrapOnce, UartAssumption DEF Slots
<1>6. SUFFICES ASSUME pc = "write_advance" PROVE WriteChunk'
  BY <1>1 DEF WriteChunk
<1>7. Len(chunk) \in 1 .. Writable
  BY <1>6 DEF UartInv, CallInv, WriteChunk
<1>8. Len(chunk) \in 1 .. Writable'
  BY <1>0, <1>5, <1>7
<1> QED
  BY <1>1, <1>6, <1>8 DEF UartInv, CallInv, WriteChunk

\* A step that leaves rings and call alone
LEMMA CallFrame ==
  ASSUME CallInv, UNCHANGED <<rxRing, txRing, call>>
  PROVE  CallInv'
BY DEF CallInv, ReadHasRoom, ReadChunk, WriteHasBytes, WriteChunk, LocalsGone, rxRing, txRing,
   call, Readable, Writable

LEMMA ReadCalling ==
  ASSUME UartInv,
         \/ \E n \in Spaces, flag \in BOOLEAN : Read(n, flag)
         \/ ReadCopy \/ ReadNothing \/ ReadAdvance \/ ReadWait \/ ReadCheck \/ ReadEnable
  PROVE  CallInv'
<1> USE DEF At, ReadCalls, WriteCalls
<1>0. CallInv /\ RingTypes /\ CallTypes
  BY TypeParts DEF UartInv
<1>1. CASE \E n \in Spaces, flag \in BOOLEAN : Read(n, flag)
  BY <1>0, <1>1, UartAssumption DEF Read, CallInv, ReadHasRoom, ReadChunk, WriteHasBytes,
     WriteChunk, LocalsGone
<1>2. CASE ReadCopy
  <2>1. /\ pc = "read" /\ pc' = "read_advance" /\ UNCHANGED <<rxRing, space, received, offered>>
        /\ chunk' = Bytes(rx_buf, rx_out, LeastOf(Readable, space)) /\ Readable > 0
    BY <1>2 DEF ReadCopy
  <2>2. space > 0 /\ space \in Nat /\ rx_in \in Slots /\ rx_out \in Slots /\ rx_buf \in [Slots -> Byte]
    BY <1>0, <2>1 DEF CallInv, ReadHasRoom, RingTypes, CallTypes
  <2>3. Readable \in 0 .. (BufLen - rx_out)
    BY <2>2, ReadableFacts
  <2>4. /\ LeastOf(Readable, space) \in 0 .. (BufLen - rx_out)
        /\ LeastOf(Readable, space) \in 1 .. Readable /\ LeastOf(Readable, space) <= space
    BY <2>1, <2>2, <2>3, UartAssumption DEF LeastOf, Slots
  <2>5. Len(chunk') = LeastOf(Readable, space)
    BY <2>1, <2>2, <2>4, BytesFacts
  <2>6. Readable' = Readable
    BY <2>1 DEF Readable, rxRing
  <2>7. ReadChunk'
    BY <2>1, <2>4, <2>5, <2>6 DEF ReadChunk, rxRing
  <2> QED
    BY <1>0, <2>1, <2>2, <2>7 DEF CallInv, ReadHasRoom, WriteHasBytes, WriteChunk, LocalsGone
<1>3. CASE ReadNothing
  <2>1. CASE Return("-EWOULDBLOCK")
    BY <2>1 DEF Return, CallInv, ReadHasRoom, ReadChunk, WriteHasBytes, WriteChunk, LocalsGone
  <2>2. CASE Goto("read_enable") \/ WaitFor("read_wait", rx_in)
    BY <1>0, <1>3, <2>2 DEF ReadNothing, Goto, WaitFor, CallInv, ReadHasRoom, ReadChunk,
       WriteHasBytes, WriteChunk, LocalsGone
  <2> QED
    BY <1>3, <2>1, <2>2 DEF ReadNothing
<1>4. CASE ReadAdvance
  <2>1. space' > 0 => pc' = "read"
    BY <1>4 DEF ReadAdvance
  <2>2. pc' \in {"read", "read_enable"} /\ (pc' = "read" => space' > 0)
    BY <1>4 DEF ReadAdvance
  <2> QED
    BY <1>0, <1>4, <2>2 DEF ReadAdvance, CallInv, ReadHasRoom, ReadChunk, WriteHasBytes,
       WriteChunk, LocalsGone
<1>5. CASE ReadWait
  BY <1>0, <1>5 DEF ReadWait, Goto, CallInv, ReadHasRoom, ReadChunk, WriteHasBytes,
     WriteChunk, LocalsGone
<1>6. CASE ReadCheck \/ ReadEnable
  <2>1. CASE Return("-EIO") \/ Return("count")
    BY <2>1 DEF Return, CallInv, ReadHasRoom, ReadChunk, WriteHasBytes, WriteChunk, LocalsGone
  <2>2. CASE pc = "read_check" /\ Goto("read")
    BY <1>0, <2>2 DEF Goto, CallInv, ReadHasRoom, ReadChunk, WriteHasBytes, WriteChunk, LocalsGone
  <2> QED
    BY <1>6, <2>1, <2>2 DEF ReadCheck, ReadEnable
<1> QED
  BY <1>1, <1>2, <1>3, <1>4, <1>5, <1>6

\* The slots a write fills are the ones its chunk is read back from.
LEMMA WriteCopyChunk ==
  ASSUME UartInv, WriteCopy
  PROVE  WriteChunk'
<1> DEFINE n == LeastOf(Writable, Len(offered))
<1>0. /\ tx_in \in Slots /\ tx_out \in Slots /\ tx_buf \in [Slots -> Byte]
      /\ offered \in Seq(Byte)
  BY TypeParts DEF UartInv, RingTypes, CallTypes
<1>1. /\ pc = "write" /\ Writable > 0 /\ chunk' = SubSeq(offered, 1, n)
      /\ tx_buf' = [s \in Slots |-> IF s \in tx_in .. (tx_in + n - 1)
                                    THEN offered[s - tx_in + 1] ELSE tx_buf[s]]
      /\ UNCHANGED <<tx_in, tx_out, offered>>
  BY DEF WriteCopy, At
<1>2. offered # <<>>
  BY <1>1 DEF UartInv, CallInv, WriteHasBytes
<1>3. Len(offered) \in Nat /\ Len(offered) > 0
  BY <1>0, <1>2
<1>4. Writable \in 0 .. (BufLen - tx_in)
  BY <1>0, WritableFacts
<1>5. n \in 1 .. Writable /\ n <= Len(offered)
  BY <1>0, <1>1, <1>3, <1>4, UartAssumption DEF LeastOf, Slots
<1>6. chunk' \in Seq(Byte) /\ Len(chunk') = n
  BY <1>0, <1>1, <1>3, <1>4, <1>5, UartAssumption DEF Slots
<1>7. tx_buf' \in [Slots -> Byte]
  <2>1. ASSUME NEW s \in Slots, s \in tx_in .. (tx_in + n - 1)
        PROVE  offered[s - tx_in + 1] \in Byte
    <3>1. s - tx_in + 1 \in 1 .. Len(offered)
      BY <1>0, <1>3, <1>5, <2>1, UartAssumption DEF Slots
    <3> QED
      BY <1>0, <3>1
  <2> QED
    BY <1>0, <1>1, <2>1
<1>8. Bytes(tx_buf', tx_in, n) \in Seq(Byte) /\ Len(Bytes(tx_buf', tx_in, n)) = n
  <2>1. n \in 0 .. (BufLen - tx_in)
    BY <1>0, <1>4, <1>5, UartAssumption DEF Slots
  <2> QED
    BY <1>0, <1>7, <2>1, BytesFacts
<1>9. ASSUME NEW i \in 1 .. n
      PROVE  chunk'[i] = Bytes(tx_buf', tx_in, n)[i]
  <2>1. chunk'[i] = offered[i]
    BY <1>0, <1>1, <1>3, <1>5
  <2>2. tx_in + i - 1 \in Slots /\ tx_in + i - 1 \in tx_in .. (tx_in + n - 1)
        /\ (tx_in + i - 1) - tx_in + 1 = i
    BY <1>0, <1>4, <1>5, UartAssumption DEF Slots
  <2>3. tx_buf'[tx_in + i - 1] = offered[i]
    BY <1>1, <2>2
  <2>4. Bytes(tx_buf', tx_in, n)[i] = tx_buf'[tx_in + i - 1]
    BY DEF Bytes
  <2> QED
    BY <2>1, <2>3, <2>4
<1>10. chunk' = Bytes(tx_buf', tx_in, n)
  BY <1>6, <1>8, <1>9
<1>11. Writable' = Writable
  BY <1>1 DEF Writable
<1> QED
  BY <1>1, <1>5, <1>6, <1>10, <1>11 DEF WriteChunk

LEMMA WriteCalling ==
  ASSUME UartInv,
         \/ \E m \in Messages, flag \in BOOLEAN : Write(m, flag)
         \/ WriteCopy \/ WriteFull \/ WriteAdvance \/ WriteKick \/ WriteWait \/ WriteCheck
  PROVE  CallInv'
<1> USE DEF At, ReadCalls, WriteCalls
<1>0. CallInv /\ RingTypes /\ CallTypes
  BY TypeParts DEF UartInv
<1>1. CASE \E m \in Messages, flag \in BOOLEAN : Write(m, flag)
  BY <1>0, <1>1, UartAssumption DEF Write, CallInv, ReadHasRoom, ReadChunk, WriteHasBytes,
     WriteChunk, LocalsGone
<1>2. CASE WriteCopy
  BY <1>0, <1>2, WriteCopyChunk DEF WriteCopy, CallInv, ReadHasRoom, ReadChunk, WriteHasBytes,
     LocalsGone
<1>3. CASE WriteFull
  BY <1>0, <1>3 DEF WriteFull, WaitFor, CallInv, ReadHasRoom, ReadChunk, WriteHasBytes,
     WriteChunk, LocalsGone
<1>4. CASE WriteAdvance
  <2>1. pc' \in {"write", "write_kick"} /\ (pc' = "write" => offered' # <<>>)
    BY <1>4 DEF WriteAdvance
  <2> QED
    BY <1>0, <1>4, <2>1 DEF WriteAdvance, CallInv, ReadHasRoom, ReadChunk, WriteHasBytes,
       WriteChunk, LocalsGone
<1>5. CASE WriteKick \/ WriteWait \/ WriteCheck
  <2>1. CASE Return("count") \/ Return(Shortened)
    BY <2>1 DEF Return, CallInv, ReadHasRoom, ReadChunk, WriteHasBytes, WriteChunk, LocalsGone
  <2>2. CASE pc = "write_kick" /\ offered # <<>> /\ Goto("write_wait")
    BY <1>0, <2>2 DEF Goto, CallInv, ReadHasRoom, ReadChunk, WriteHasBytes, WriteChunk, LocalsGone
  <2>3. CASE pc = "write_wait" /\ Goto("write_check")
    BY <1>0, <2>3 DEF Goto, CallInv, ReadHasRoom, ReadChunk, WriteHasBytes, WriteChunk, LocalsGone
  <2>4. CASE pc = "write_check" /\ Goto("write")
    BY <1>0, <2>4 DEF Goto, CallInv, ReadHasRoom, ReadChunk, WriteHasBytes, WriteChunk, LocalsGone
  <2> QED
    BY <1>5, <2>1, <2>2, <2>3, <2>4 DEF WriteKick, WriteWait, WriteCheck
<1> QED
  BY <1>1, <1>2, <1>3, <1>4, <1>5

LEMMA CallStep == UartInv /\ [Next]_vars => CallInv'
<1> SUFFICES ASSUME UartInv, [Next]_vars PROVE CallInv'
  OBVIOUS
<1>0. CallInv
  BY DEF UartInv
<1>1. CASE \/ \E flag \in BOOLEAN : Close(flag)
           \/ CloseWait
  BY <1>0, <1>1 DEF Close, CloseWait, At, Return, CallInv, ReadHasRoom, ReadChunk,
     WriteHasBytes, WriteChunk, LocalsGone, ReadCalls, WriteCalls
<1>2. CASE \/ \E t \in Timeouts : SetTimeout(t)
           \/ Timeout \/ Interrupt \/ Control \/ ReceiveNothing \/ ReceiveFull \/ TransmitEnd
           \/ (Host /\ UNCHANGED driver) \/ UNCHANGED vars
  BY <1>0, <1>2, CallFrame DEF SetTimeout, Timeout, Interrupt, Control, ReceiveNothing,
     ReceiveFull, TransmitEnd, driver, vars
<1>3. CASE Receive
  BY <1>0, <1>3, ReceiveKeepsChunk DEF Receive, CallInv, ReadHasRoom, WriteHasBytes,
     WriteChunk, LocalsGone, call, txRing, Writable
<1>4. CASE Transmit
  BY <1>0, <1>4, TransmitKeepsChunk DEF Transmit, CallInv, ReadHasRoom, WriteHasBytes,
     ReadChunk, LocalsGone, call, rxRing, Readable
<1> QED
  BY <1>1, <1>2, <1>3, <1>4, ReadCalling, WriteCalling DEF Next, Program, Handler
-----------------------------------------------------------------------------
(* Interrupts are armed *)

\* Every step that could make the last reason to be told of received bytes go
\* away gives another.
LEMMA RxArmedStep == UartInv /\ [Next]_vars => RxArmed'
<1> SUFFICES ASSUME UartInv, [Next]_vars PROVE RxArmed'
  OBVIOUS
<1> USE DEF RxArmed, At
<1>0. RxArmed /\ rx_in \in Slots /\ rx_out \in Slots /\ irq_enable \subseteq {"RE", "WE"}
  BY TypeParts DEF UartInv, RingTypes
<1>1. CASE ReadAdvance
  <2>1. /\ pc = "read_advance" /\ received' = received \o chunk
        /\ pc' \in {"read", "read_enable"}
    BY <1>1 DEF ReadAdvance
  <2>2. chunk \in Seq(Byte) /\ received \in Seq(Byte) /\ Len(chunk) >= 1
    BY <2>1, TypeParts, ReadableFacts, <1>0, UartAssumption
       DEF UartInv, CallTypes, CallInv, ReadChunk, Slots
  <2>3. received' # <<>>
    BY <2>1, <2>2
  <2> QED
    BY <2>1, <2>3
<1>2. CASE ReadNothing
  <2>1. rx_in = rx_out
    BY <1>0, <1>2, ReadableFacts, UartAssumption DEF ReadNothing, Slots
  <2>2. CASE received = <<>>
    <3>1. "RE" \in irq_enable
      BY <1>0, <1>2, <2>1, <2>2 DEF ReadNothing
    <3> QED
      BY <1>2, <3>1 DEF ReadNothing
  <2>3. CASE received # <<>>
    BY <1>2, <2>3 DEF ReadNothing, Goto
  <2> QED
    BY <2>2, <2>3
<1>3. CASE ReadCopy
  <2>1. rx_in # rx_out
    BY <1>0, <1>3, ReadableFacts DEF ReadCopy
  <2> QED
    BY <1>3, <2>1 DEF ReadCopy, rxRing
<1>4. CASE ReadEnable
  BY <1>4 DEF ReadEnable
<1>5. CASE ReceiveFull
  <2>1. rx_in # rx_out
    BY <1>0, <1>5, WrapOnce, UartAssumption DEF ReceiveFull, RxFull, Slots
  <2> QED
    BY <1>5, <2>1 DEF ReceiveFull, rxRing
<1>6. CASE Receive
  BY <1>6 DEF Receive, RxFull
<1>7. CASE TransmitEnd \/ Transmit
  BY <1>0, <1>7 DEF TransmitEnd, Transmit, rxRing, call
<1>8. CASE \/ \E n \in Spaces, flag \in BOOLEAN : Read(n, flag)
           \/ ReadWait \/ ReadCheck
  BY <1>0, <1>8 DEF Read, ReadWait, ReadCheck, Goto, Return, rxRing
<1>9. CASE \/ \E m \in Messages, flag \in BOOLEAN : Write(m, flag)
           \/ WriteCopy \/ WriteFull \/ WriteAdvance \/ WriteWait \/ WriteCheck
           \/ (\E flag \in BOOLEAN : Close(flag)) \/ CloseWait
  <2>1. UNCHANGED <<rxRing, irq_enable>> /\ pc \notin {"read", "read_enable"}
    BY <1>9 DEF Write, WriteCopy, WriteFull, WriteAdvance, WriteWait, WriteCheck, Close,
       CloseWait
  <2> QED
    BY <1>0, <2>1 DEF rxRing
<1>10. CASE WriteKick
  BY <1>0, <1>10 DEF WriteKick, rxRing
<1>11. CASE \/ \E t \in Timeouts : SetTimeout(t)
            \/ Timeout \/ Interrupt \/ Control \/ ReceiveNothing
            \/ (Host /\ UNCHANGED driver) \/ UNCHANGED vars
  <2>1. UNCHANGED <<rxRing, irq_enable, call>>
    BY <1>11 DEF SetTimeout, Timeout, Interrupt, Control, ReceiveNothing, driver, vars
  <2> QED
    BY <1>0, <2>1 DEF rxRing, call
<1> QED
  BY <1>1, <1>2, <1>3, <1>4, <1>5, <1>6, <1>7, <1>8, <1>9, <1>10, <1>11
     DEF Next, Program, Handler

\* Every step that could make the last reason to be told of room go away while
\* there are bytes to send gives another.
LEMMA TxArmedStep == UartInv /\ [Next]_vars => TxArmed'
<1> SUFFICES ASSUME UartInv, [Next]_vars PROVE TxArmed'
  OBVIOUS
<1> USE DEF TxArmed, At
<1>0. TxArmed /\ room \in 0 .. TxDepth
  BY TypeParts DEF UartInv, HandlerTypes
<1>1. CASE \/ WriteCopy \/ WriteAdvance \/ WriteFull
           \/ \E m \in Messages, flag \in BOOLEAN : Write(m, flag)
  BY <1>1 DEF WriteCopy, WriteAdvance, WriteFull, WaitFor, Write
<1>2. CASE WriteKick
  BY <1>2 DEF WriteKick
<1>3. CASE WriteWait \/ WriteCheck
  BY <1>0, <1>3 DEF WriteWait, WriteCheck, Goto, Return, txRing
<1>4. CASE TransmitEnd
  <2>1. UNCHANGED <<txRing, call>>
    BY <1>4 DEF TransmitEnd
  <2>2. CASE room > 0
    BY <1>4, <2>1, <2>2, HostAssumption DEF TransmitEnd, txRing
  <2>3. CASE ~(room > 0)
    BY <1>0, <1>4, <2>1, <2>3 DEF TransmitEnd, txRing, call
  <2> QED
    BY <2>2, <2>3
<1>5. CASE Transmit
  BY <1>0, <1>5 DEF Transmit, call
<1>6. CASE ReceiveFull \/ Receive
  BY <1>0, <1>6 DEF ReceiveFull, Receive, txRing, call
<1>7. CASE \/ \E n \in Spaces, flag \in BOOLEAN : Read(n, flag)
           \/ ReadCopy \/ ReadNothing \/ ReadAdvance \/ ReadWait \/ ReadCheck
           \/ (\E flag \in BOOLEAN : Close(flag)) \/ CloseWait
  <2>1. UNCHANGED <<txRing, irq_enable>> /\ pc \notin {"write", "write_advance", "write_kick"}
    BY <1>7 DEF Read, ReadCopy, ReadNothing, ReadAdvance, ReadWait, ReadCheck, Close, CloseWait
  <2> QED
    BY <1>0, <2>1 DEF txRing
<1>8. CASE ReadEnable
  BY <1>0, <1>8 DEF ReadEnable, txRing
<1>9. CASE \/ \E t \in Timeouts : SetTimeout(t)
           \/ Timeout \/ Interrupt \/ Control \/ ReceiveNothing
           \/ (Host /\ UNCHANGED driver) \/ UNCHANGED vars
  <2>1. UNCHANGED <<txRing, irq_enable, call>>
    BY <1>9 DEF SetTimeout, Timeout, Interrupt, Control, ReceiveNothing, driver, vars
  <2> QED
    BY <1>0, <2>1 DEF txRing, call
<1> QED
  BY <1>1, <1>2, <1>3, <1>4, <1>5, <1>6, <1>7, <1>8, <1>9 DEF Next, Program, Handler

\* Only the handler fills the transmit FIFO, and it counts what it puts in.
LEMMA RoomStep == UartInv /\ [Next]_vars => RoomKept'
<1> SUFFICES ASSUME UartInv, [Next]_vars PROVE RoomKept'
  OBVIOUS
<1>0. RoomKept /\ txFifo \in Seq(Byte) /\ room \in 0 .. TxDepth /\ Len(txFifo) <= TxDepth
  BY TypeParts DEF UartInv, HostTypeOK, HandlerTypes
<1>1. CASE UNCHANGED <<txFifo, room>>
  BY <1>0, <1>1 DEF RoomKept, WSpace
<1>2. CASE Control
  BY <1>0, <1>2, HostAssumption DEF Control, hardware, RoomKept, WSpace
<1>3. CASE Transmit
  BY <1>0, <1>3, HostAssumption DEF Transmit, RoomKept, WSpace
<1>4. CASE Host /\ UNCHANGED driver
  <2>1. room' = room
    BY <1>4 DEF driver, inquiry
  <2>2. CASE HostTake
    BY <1>0, <2>1, <2>2, HostAssumption DEF HostTake, RoomKept, WSpace
  <2>3. CASE UNCHANGED txFifo
    BY <1>1, <2>1, <2>3
  <2> QED
    BY <1>4, <2>2, <2>3 DEF Host, HostSend, HostPoll
<1>5. CASE \/ \E n \in Spaces, flag \in BOOLEAN : Read(n, flag)
           \/ \E m \in Messages, flag \in BOOLEAN : Write(m, flag)
           \/ \E flag \in BOOLEAN : Close(flag)
           \/ \E t \in Timeouts : SetTimeout(t)
           \/ Program
  BY <1>1, <1>5 DEF Read, Write, Close, SetTimeout, Program, ReadCopy, ReadNothing, ReadAdvance,
     ReadWait, ReadCheck, ReadEnable, WriteCopy, WriteFull, WriteAdvance, WriteKick, WriteWait,
     WriteCheck, CloseWait, hardware, inquiry
<1>6. CASE \/ Interrupt \/ Receive \/ ReceiveNothing \/ ReceiveFull \/ TransmitEnd \/ Timeout
           \/ UNCHANGED vars
  BY <1>1, <1>6 DEF Interrupt, Receive, ReceiveNothing, ReceiveFull, TransmitEnd, Timeout, vars,
     hardware, inquiry
<1> QED
  BY <1>2, <1>3, <1>4, <1>5, <1>6 DEF Next, Handler

\* The invariant of the driver is inductive.
LEMMA UartStep == UartInv /\ [Next]_vars => UartInv'
BY StepTypes, CallStep, RxArmedStep, TxArmedStep, RoomStep DEF UartInv

\* The driver's variables stay in their types for every length of the rings.
THEOREM UartTyped == Spec => []UartTypeOK
<1>1. UartInv => UartTypeOK
  BY DEF UartInv
<1> QED
  BY <1>1, UartInit, UartStep, PTL DEF Spec

\* No byte is left in the receive FIFO with nobody to be told of it, and none
\* in the transmit ring: whichever side turns an interrupt off, the other has a
\* reason to turn it on again.
THEOREM UartArmed == Spec => []Armed
<1>1. UartInv => Armed
  BY DEF UartInv, Armed
<1> QED
  BY <1>1, UartInit, UartStep, PTL DEF Spec

\* The handler never writes DATA when the transmit FIFO is full.
THEOREM UartRoom == Spec => []RoomIsThere
<1>1. UartInv => RoomIsThere
  BY DEF UartInv, RoomKept, RoomIsThere
<1> QED
  BY <1>1, UartInit, UartStep, PTL DEF Spec
-----------------------------------------------------------------------------
(* What a ring holds *)

LEMMA Distance ==
  ASSUME NEW in \in Slots, NEW out \in Slots
  PROVE  Wrap(in + BufLen - out) = IF in < out THEN in + BufLen - out ELSE in - out
BY WrapOnce, UartAssumption DEF Slots

\* A ring that a further index would not make look empty has a free slot.
LEMMA NotFull ==
  ASSUME NEW in \in Slots, NEW out \in Slots, Wrap(in + 1) # out
  PROVE  1 + Wrap(in + BufLen - out) < BufLen
<1>1. Wrap(in + 1) = IF in + 1 < BufLen THEN in + 1 ELSE 0
  BY WrapOnce, UartAssumption DEF Slots
<1>2. Wrap(in + BufLen - out) = IF in < out THEN in + BufLen - out ELSE in - out
  BY Distance
<1> QED
  BY <1>1, <1>2, UartAssumption DEF Slots

LEMMA NotEmpty ==
  ASSUME NEW in \in Slots, NEW out \in Slots, in # out
  PROVE  1 <= Wrap(in + BufLen - out)
<1>1. Wrap(in + BufLen - out) = IF in < out THEN in + BufLen - out ELSE in - out
  BY Distance
<1> QED
  BY <1>1, UartAssumption DEF Slots

\* The n slots from in on are free if the ring has room for them.
LEMMA FreeSlots ==
  ASSUME NEW in \in Slots, NEW out \in Slots, NEW n \in 0 .. (BufLen - in),
         n + Wrap(in + BufLen - out) < BufLen,
         NEW i \in 1 .. Wrap(in + BufLen - out)
  PROVE  Wrap(out + i - 1) \notin in .. (in + n - 1)
<1>1. Wrap(in + BufLen - out) = IF in < out THEN in + BufLen - out ELSE in - out
  BY Distance
<1>2. i \in Int /\ i >= 1 /\ (in < out => i <= in + BufLen - out)
      /\ (in >= out => i <= in - out)
  BY <1>1, UartAssumption DEF Slots
<1>3. Wrap(out + i - 1) = IF out + i - 1 < BufLen THEN out + i - 1 ELSE out + i - 1 - BufLen
  BY <1>2, WrapOnce, UartAssumption DEF Slots
<1> QED
  BY <1>1, <1>2, <1>3, UartAssumption DEF Slots

LEMMA RingFacts ==
  ASSUME NEW buf \in [Slots -> Byte], NEW in \in Slots, NEW out \in Slots
  PROVE  /\ Wrap(in + BufLen - out) \in Slots
         /\ Ring(buf, in, out) \in Seq(Byte)
         /\ Len(Ring(buf, in, out)) = Wrap(in + BufLen - out)
         /\ \A i \in 1 .. Wrap(in + BufLen - out) : Wrap(out + i - 1) \in Slots
<1>1. Wrap(in + BufLen - out) \in Slots
  BY WrapOnce, UartAssumption DEF Slots
<1>2. \A i \in 1 .. Wrap(in + BufLen - out) : Wrap(out + i - 1) \in Slots
  BY <1>1, WrapOnce, UartAssumption DEF Slots
<1> QED
  BY <1>1, <1>2, UartAssumption DEF Ring, Slots

\* Slots outside the ring do not matter.
LEMMA RingSame ==
  ASSUME NEW buf, NEW buf2, NEW in, NEW out,
         \A i \in 1 .. Wrap(in + BufLen - out) : buf2[Wrap(out + i - 1)] = buf[Wrap(out + i - 1)]
  PROVE  Ring(buf2, in, out) = Ring(buf, in, out)
BY DEF Ring

\* The n bytes from slot in on are added to the ring.
LEMMA RingMore ==
  ASSUME NEW buf \in [Slots -> Byte], NEW in \in Slots, NEW out \in Slots,
         NEW n \in 0 .. (BufLen - in), n + Wrap(in + BufLen - out) < BufLen
  PROVE  Ring(buf, Wrap(in + n), out) = Ring(buf, in, out) \o Bytes(buf, in, n)
<1> DEFINE old == Wrap(in + BufLen - out)
           more == Ring(buf, Wrap(in + n), out)
           both == Ring(buf, in, out) \o Bytes(buf, in, n)
<1>1. Wrap(in + n) \in Slots /\ old \in Slots
  BY WrapOnce, UartAssumption DEF Slots
<1>a. /\ Wrap(in + n) = IF in + n < BufLen THEN in + n ELSE in + n - BufLen
      /\ old = IF in < out THEN in + BufLen - out ELSE in - out
  BY WrapOnce, UartAssumption DEF Slots
<1>2. Wrap(Wrap(in + n) + BufLen - out) = old + n
  <2>1. Wrap(Wrap(in + n) + BufLen - out) = IF Wrap(in + n) < out THEN Wrap(in + n) + BufLen - out
                                            ELSE Wrap(in + n) - out
    BY <1>1, WrapOnce, UartAssumption DEF Slots
  <2> QED
    BY <1>a, <2>1, UartAssumption DEF Slots
<1>3. out + old = in \/ out + old = in + BufLen
  BY <1>a, UartAssumption DEF Slots
<1>4. more \in Seq(Byte) /\ Len(more) = old + n
  BY <1>1, <1>2, RingFacts
<1>5. Ring(buf, in, out) \in Seq(Byte) /\ Len(Ring(buf, in, out)) = old
  BY RingFacts
<1>6. Bytes(buf, in, n) \in Seq(Byte) /\ Len(Bytes(buf, in, n)) = n
  BY BytesFacts
<1>7. both \in Seq(Byte) /\ Len(both) = old + n
  BY <1>5, <1>6
<1>8. ASSUME NEW i \in 1 .. (old + n)
      PROVE  more[i] = both[i]
  <2>0. old \in Int /\ n \in Int /\ in \in Int /\ out \in Int /\ BufLen \in Int
    BY <1>1, UartAssumption DEF Slots
  <2>i. i \in Int
    BY <2>0
  <2>1. more[i] = buf[Wrap(out + i - 1)]
    BY <1>2 DEF Ring
  <2>2. CASE i <= old
    <3>1. i \in 1 .. old
      BY <1>1, <2>2 DEF Slots
    <3>2. both[i] = Ring(buf, in, out)[i]
      BY <1>5, <1>6, <3>1
    <3>3. Ring(buf, in, out)[i] = buf[Wrap(out + i - 1)]
      BY <3>1 DEF Ring
    <3> QED
      BY <2>1, <3>2, <3>3
  <2>3. CASE i > old
    <3>1. i - old \in 1 .. n
      BY <1>1, <2>3, UartAssumption DEF Slots
    <3>2. both[i] = Bytes(buf, in, n)[i - old]
      BY <1>5, <1>6, <2>3
    <3>3. Bytes(buf, in, n)[i - old] = buf[in + (i - old) - 1]
      BY <3>1 DEF Bytes
    <3>4. Wrap(out + i - 1) = in + (i - old) - 1
      <4>1. in + (i - old) - 1 \in Slots
        BY <1>1, <3>1, UartAssumption DEF Slots
      <4>2. out + i - 1 = in + (i - old) - 1 \/ out + i - 1 = in + (i - old) - 1 + BufLen
        BY <1>3, <2>0, <2>i
      <4> QED
        BY <4>1, <4>2, WrapOnce, UartAssumption DEF Slots
    <3> QED
      BY <2>1, <3>2, <3>3, <3>4
  <2>4. i <= old \/ i > old
    BY <2>0, <2>i
  <2> QED
    BY <2>2, <2>3, <2>4
<1> QED
  BY <1>4, <1>7, <1>8

\* The n bytes from slot out on are taken from the ring.
LEMMA RingLess ==
  ASSUME NEW buf \in [Slots -> Byte], NEW in \in Slots, NEW out \in Slots,
         NEW n \in 0 .. (BufLen - out), n <= Wrap(in + BufLen - out)
  PROVE  Ring(buf, in, out) = Bytes(buf, out, n) \o Ring(buf, in, Wrap(out + n))
<1> DEFINE old == Wrap(in + BufLen - out)
           rest == Ring(buf, in, Wrap(out + n))
           both == Bytes(buf, out, n) \o rest
<1>1. Wrap(out + n) \in Slots /\ old \in Slots
  BY WrapOnce, UartAssumption DEF Slots
<1>a. /\ Wrap(out + n) = IF out + n < BufLen THEN out + n ELSE out + n - BufLen
      /\ old = IF in < out THEN in + BufLen - out ELSE in - out
  BY WrapOnce, UartAssumption DEF Slots
<1>2. Wrap(in + BufLen - Wrap(out + n)) = old - n
  <2>1. Wrap(in + BufLen - Wrap(out + n)) = IF in < Wrap(out + n) THEN in + BufLen - Wrap(out + n)
                                            ELSE in - Wrap(out + n)
    BY <1>1, WrapOnce, UartAssumption DEF Slots
  <2> QED
    BY <1>a, <2>1, UartAssumption DEF Slots
<1>3. rest \in Seq(Byte) /\ Len(rest) = old - n
  BY <1>1, <1>2, RingFacts
<1>4. Ring(buf, in, out) \in Seq(Byte) /\ Len(Ring(buf, in, out)) = old
  BY RingFacts
<1>5. Bytes(buf, out, n) \in Seq(Byte) /\ Len(Bytes(buf, out, n)) = n
  BY BytesFacts
<1>6. both \in Seq(Byte) /\ Len(both) = old
  BY <1>1, <1>3, <1>5 DEF Slots
<1>7. ASSUME NEW i \in 1 .. old
      PROVE  Ring(buf, in, out)[i] = both[i]
  <2>0. old \in Int /\ n \in Int /\ in \in Int /\ out \in Int /\ BufLen \in Int
    BY <1>1, UartAssumption DEF Slots
  <2>i. i \in Int
    BY <2>0
  <2>1. Ring(buf, in, out)[i] = buf[Wrap(out + i - 1)]
    BY DEF Ring
  <2>2. CASE i <= n
    <3>1. i \in 1 .. n
      BY <1>1, <2>2 DEF Slots
    <3>2. both[i] = Bytes(buf, out, n)[i]
      BY <1>3, <1>5, <3>1
    <3>3. Bytes(buf, out, n)[i] = buf[out + i - 1]
      BY <3>1 DEF Bytes
    <3>4. Wrap(out + i - 1) = out + i - 1
      BY <3>1, WrapOnce, UartAssumption DEF Slots
    <3> QED
      BY <2>1, <3>2, <3>3, <3>4
  <2>3. CASE i > n
    <3>1. i - n \in 1 .. (old - n)
      BY <2>0, <2>i, <2>3
    <3>2. both[i] = rest[i - n]
      BY <1>3, <1>5, <2>0, <2>i, <2>3
    <3>3. rest[i - n] = buf[Wrap(Wrap(out + n) + (i - n) - 1)]
      BY <1>2, <3>1 DEF Ring
    <3>4. Wrap(Wrap(out + n) + (i - n) - 1) = Wrap(out + i - 1)
      BY <1>1, <3>1, WrapOnce, UartAssumption DEF Slots
    <3> QED
      BY <2>1, <3>2, <3>3, <3>4
  <2>4. i <= n \/ i > n
    BY <2>0, <2>i
  <2> QED
    BY <2>2, <2>3, <2>4
<1> QED
  BY <1>4, <1>6, <1>7

LEMMA Associative ==
  ASSUME NEW s \in Seq(Byte), NEW t \in Seq(Byte), NEW u \in Seq(Byte)
  PROVE  (s \o t) \o u = s \o (t \o u)
BY ConcatAssociative

\* The front part of a sequence and the rest of it
LEMMA FrontAndRest ==
  ASSUME NEW s \in Seq(Byte), NEW t \in Seq(Byte)
  PROVE  /\ SubSeq(s \o t, 1, Len(s)) = s
         /\ SubSeq(s \o t, Len(s) + 1, Len(s \o t)) = t
<1>1. s \o t \in Seq(Byte) /\ Len(s \o t) = Len(s) + Len(t)
  OBVIOUS
<1>2. SubSeq(s \o t, 1, Len(s)) \in Seq(Byte) /\ Len(SubSeq(s \o t, 1, Len(s))) = Len(s)
  BY <1>1
<1>3. ASSUME NEW i \in 1 .. Len(s) PROVE SubSeq(s \o t, 1, Len(s))[i] = s[i]
  BY <1>1
<1>4. /\ SubSeq(s \o t, Len(s) + 1, Len(s \o t)) \in Seq(Byte)
      /\ Len(SubSeq(s \o t, Len(s) + 1, Len(s \o t))) = Len(t)
  BY <1>1
<1>5. ASSUME NEW i \in 1 .. Len(t)
      PROVE  SubSeq(s \o t, Len(s) + 1, Len(s \o t))[i] = t[i]
  BY <1>1
<1>6. SubSeq(s \o t, 1, Len(s)) = s
  BY <1>2, <1>3
<1> QED
  BY <1>4, <1>5, <1>6
-----------------------------------------------------------------------------
(* The driver is a serial line *)

RxBytes == Ring(rx_buf, rx_in, rx_out)
TxBytes == Ring(tx_buf, tx_in, tx_out)
Inbound == RxBytes \o rxFifo
Outbound == txFifo \o TxBytes

LEMMA LineTypes ==
  ASSUME UartInv
  PROVE  /\ rx_buf \in [Slots -> Byte] /\ rx_in \in Slots /\ rx_out \in Slots
         /\ tx_buf \in [Slots -> Byte] /\ tx_in \in Slots /\ tx_out \in Slots
         /\ rxFifo \in Seq(Byte) /\ txFifo \in Seq(Byte)
         /\ received \in Seq(Byte) /\ offered \in Seq(Byte) /\ chunk \in Seq(Byte)
         /\ RxBytes \in Seq(Byte) /\ Len(RxBytes) = Wrap(rx_in + BufLen - rx_out)
         /\ TxBytes \in Seq(Byte) /\ Len(TxBytes) = Wrap(tx_in + BufLen - tx_out)
<1>1. /\ rx_buf \in [Slots -> Byte] /\ rx_in \in Slots /\ rx_out \in Slots
      /\ tx_buf \in [Slots -> Byte] /\ tx_in \in Slots /\ tx_out \in Slots
      /\ rxFifo \in Seq(Byte) /\ txFifo \in Seq(Byte)
      /\ received \in Seq(Byte) /\ offered \in Seq(Byte) /\ chunk \in Seq(Byte)
  BY TypeParts DEF UartInv, HostTypeOK, RingTypes, CallTypes
<1> QED
  BY <1>1, RingFacts DEF RxBytes, TxBytes

\* A single byte of a buffer
LEMMA OneByte ==
  ASSUME NEW buf \in [Slots -> Byte], NEW slot \in Slots
  PROVE  Bytes(buf, slot, 1) = <<buf[slot]>>
<1>1. slot + 1 - 1 = slot
  BY UartAssumption DEF Slots
<1>2. Bytes(buf, slot, 1) = [i \in 1 .. 1 |-> buf[slot + i - 1]]
  BY DEF Bytes
<1>3. 1 \in 0 .. (BufLen - slot)
  BY UartAssumption DEF Slots
<1>4. Bytes(buf, slot, 1) \in Seq(Byte) /\ Len(Bytes(buf, slot, 1)) = 1
  BY <1>3, BytesFacts
<1>5. Bytes(buf, slot, 1)[1] = buf[slot]
  BY <1>1, <1>2
<1> QED
  BY <1>4, <1>5

\* The handler moves a byte from the FIFO to the ring.
LEMMA ReceiveLine ==
  ASSUME UartInv, Receive
  PROVE  Inbound' = Inbound
<1> DEFINE b == Head(rxFifo)
<1>1. /\ rxFifo # <<>> /\ rxFifo' = Tail(rxFifo) /\ Wrap(rx_in + 1) # rx_out
      /\ rx_buf' = [rx_buf EXCEPT ![rx_in] = b]
      /\ rx_in' = Wrap(rx_in + 1) /\ rx_out' = rx_out
  BY DEF Receive, RxFull
<1>2. b \in Byte /\ Tail(rxFifo) \in Seq(Byte) /\ rxFifo = <<b>> \o Tail(rxFifo)
  BY <1>1, LineTypes
<1>3. rx_buf' \in [Slots -> Byte] /\ rx_buf'[rx_in] = b
  BY <1>1, <1>2, LineTypes
<1>4. 1 + Wrap(rx_in + BufLen - rx_out) < BufLen /\ 1 \in 0 .. (BufLen - rx_in)
  <2>1. rx_in \in Slots /\ rx_out \in Slots
    BY LineTypes
  <2> QED
    BY <1>1, <2>1, NotFull, UartAssumption DEF Slots
<1>5. Ring(rx_buf', rx_in, rx_out) = RxBytes
  <2>1. ASSUME NEW i \in 1 .. Wrap(rx_in + BufLen - rx_out)
        PROVE  rx_buf'[Wrap(rx_out + i - 1)] = rx_buf[Wrap(rx_out + i - 1)]
    <3>1. Wrap(rx_out + i - 1) \in Slots
      BY LineTypes, RingFacts
    <3>2. rx_in \in Slots /\ rx_out \in Slots
      BY LineTypes
    <3>3. Wrap(rx_out + i - 1) \notin rx_in .. (rx_in + 1 - 1)
      BY <1>4, <3>2, FreeSlots
    <3>4. Wrap(rx_out + i - 1) # rx_in
      BY <3>2, <3>3, UartAssumption DEF Slots
    <3> QED
      BY <1>1, <3>1, <3>4, LineTypes
  <2> QED
    BY <2>1, RingSame DEF RxBytes
<1>6. RxBytes' = RxBytes \o Bytes(rx_buf', rx_in, 1)
  <2>1. rx_in \in Slots /\ rx_out \in Slots
    BY LineTypes
  <2>2. Ring(rx_buf', Wrap(rx_in + 1), rx_out)
        = Ring(rx_buf', rx_in, rx_out) \o Bytes(rx_buf', rx_in, 1)
    BY <1>3, <1>4, <2>1, RingMore
  <2> QED
    BY <1>1, <1>5, <2>2 DEF RxBytes
<1>7. Bytes(rx_buf', rx_in, 1) = <<b>>
  BY <1>3, LineTypes, OneByte
<1>8. <<b>> \in Seq(Byte) /\ RxBytes \in Seq(Byte) /\ Tail(rxFifo) \in Seq(Byte)
  BY <1>2, LineTypes
<1>9. (RxBytes \o <<b>>) \o Tail(rxFifo) = RxBytes \o (<<b>> \o Tail(rxFifo))
  BY <1>8, Associative
<1> QED
  BY <1>1, <1>2, <1>6, <1>7, <1>9 DEF Inbound

\* The handler moves a byte from the ring to the FIFO.
LEMMA TransmitLine ==
  ASSUME UartInv, Transmit
  PROVE  Outbound' = Outbound
<1> DEFINE b == tx_buf[tx_out]
<1>1. /\ room > 0 /\ tx_out # tx_in
      /\ txFifo' = IF WSpace > 0 THEN Append(txFifo, b) ELSE txFifo
      /\ tx_out' = Wrap(tx_out + 1) /\ UNCHANGED <<tx_in, tx_buf>>
  BY DEF Transmit
<1>2. WSpace > 0
  BY <1>1, TypeParts, HostAssumption DEF UartInv, RoomKept, HandlerTypes, HostTypeOK, WSpace
<1>3. b \in Byte /\ txFifo' = txFifo \o <<b>>
  BY <1>1, <1>2, LineTypes, AppendIsConcat
<1>4. /\ 1 \in 0 .. (BufLen - tx_out) /\ 1 <= Wrap(tx_in + BufLen - tx_out)
      /\ Wrap(tx_out + 1) \in Slots
  <2>1. tx_in \in Slots /\ tx_out \in Slots
    BY LineTypes
  <2> QED
    BY <1>1, <2>1, NotEmpty, WrapOnce, UartAssumption DEF Slots
<1>5. TxBytes = Bytes(tx_buf, tx_out, 1) \o TxBytes'
  BY <1>1, <1>4, LineTypes, RingLess DEF TxBytes
<1>6. Bytes(tx_buf, tx_out, 1) = <<b>>
  BY LineTypes, OneByte
<1>7. TxBytes' \in Seq(Byte)
  BY <1>1, <1>4, LineTypes, RingFacts DEF TxBytes
<1>8. <<b>> \in Seq(Byte) /\ txFifo \in Seq(Byte)
  BY <1>3, LineTypes
<1>9. (txFifo \o <<b>>) \o TxBytes' = txFifo \o (<<b>> \o TxBytes')
  BY <1>7, <1>8, Associative
<1> QED
  BY <1>3, <1>5, <1>6, <1>9 DEF Outbound

\* A read takes its chunk from the front of the line.
LEMMA ReadAdvanceLine ==
  ASSUME UartInv, ReadAdvance
  PROVE  \E n \in 1 .. Len(Inbound) :
           /\ received' = received \o SubSeq(Inbound, 1, n)
           /\ Inbound' = SubSeq(Inbound, n + 1, Len(Inbound))
<1>1. /\ pc = "read_advance" /\ rx_out' = Wrap(rx_out + Len(chunk))
      /\ received' = received \o chunk
      /\ UNCHANGED <<rxFifo, rx_in, rx_buf>>
  BY DEF ReadAdvance, At, hardware
<1>2. Len(chunk) \in 1 .. Readable /\ chunk = Bytes(rx_buf, rx_out, Len(chunk))
  BY <1>1 DEF UartInv, CallInv, ReadChunk
<1>3. /\ Len(chunk) \in 0 .. (BufLen - rx_out) /\ Len(chunk) <= Wrap(rx_in + BufLen - rx_out)
      /\ Wrap(rx_out + Len(chunk)) \in Slots /\ Len(chunk) >= 1
  <2>1. /\ Readable \in 0 .. (BufLen - rx_out)
        /\ Readable <= Wrap(rx_in + BufLen - rx_out)
    BY LineTypes, ReadableFacts
  <2>2. Wrap(rx_in + BufLen - rx_out) \in Slots
    BY LineTypes, RingFacts
  <2>3. Len(chunk) \in 0 .. (BufLen - rx_out) /\ Len(chunk) >= 1
    BY <1>2, <2>1, LineTypes, UartAssumption DEF Slots
  <2>4. Len(chunk) <= Wrap(rx_in + BufLen - rx_out)
    BY <1>2, <2>1, <2>2, LineTypes, UartAssumption DEF Slots
  <2>5. rx_out \in Slots
    BY LineTypes
  <2>6. Wrap(rx_out + Len(chunk)) \in Slots
    BY <2>3, <2>5, WrapOnce, UartAssumption DEF Slots
  <2> QED
    BY <2>3, <2>4, <2>6
<1>4. RxBytes = chunk \o RxBytes' /\ RxBytes' \in Seq(Byte)
  <2>1. RxBytes = Bytes(rx_buf, rx_out, Len(chunk)) \o RxBytes'
    BY <1>1, <1>3, LineTypes, RingLess DEF RxBytes
  <2>2. RxBytes' \in Seq(Byte)
    BY <1>1, <1>3, LineTypes, RingFacts DEF RxBytes
  <2> QED
    BY <1>2, <2>1, <2>2
<1>5. Inbound = chunk \o Inbound' /\ Inbound' \in Seq(Byte)
  <2>1. rxFifo \in Seq(Byte) /\ chunk \in Seq(Byte)
    BY LineTypes
  <2>2. (chunk \o RxBytes') \o rxFifo = chunk \o (RxBytes' \o rxFifo)
    BY <1>4, <2>1, Associative
  <2> QED
    BY <1>1, <1>4, <2>1, <2>2 DEF Inbound
<1>6. /\ SubSeq(Inbound, 1, Len(chunk)) = chunk
      /\ SubSeq(Inbound, Len(chunk) + 1, Len(Inbound)) = Inbound'
  BY <1>5, LineTypes, FrontAndRest
<1>7. Len(chunk) \in 1 .. Len(Inbound)
  BY <1>3, <1>5, LineTypes
<1> QED
  BY <1>1, <1>6, <1>7

\* What a write copies is not yet in the ring.
LEMMA WriteCopyLine ==
  ASSUME UartInv, WriteCopy
  PROVE  Outbound' = Outbound
<1> DEFINE n == LeastOf(Writable, Len(offered))
<1>1. /\ tx_buf' = [s \in Slots |-> IF s \in tx_in .. (tx_in + n - 1)
                                    THEN offered[s - tx_in + 1] ELSE tx_buf[s]]
      /\ UNCHANGED <<txFifo, tx_in, tx_out>>
  BY DEF WriteCopy, hardware
<1>2. /\ Writable \in 0 .. (BufLen - tx_in)
      /\ Writable + Wrap(tx_in + BufLen - tx_out) < BufLen
  BY LineTypes, WritableFacts
<1>3. n \in 0 .. Writable
  <2>1. tx_in \in Nat /\ BufLen \in Nat
    BY LineTypes, UartAssumption DEF Slots
  <2>2. Writable \in Nat
    <3> HIDE DEF n
    <3> QED BY <1>2, <2>1
  <2>3. Len(offered) \in Nat
    BY LineTypes
  <2> QED
    BY <2>2, <2>3 DEF LeastOf
<1>4. ASSUME NEW i \in 1 .. Wrap(tx_in + BufLen - tx_out)
      PROVE  tx_buf'[Wrap(tx_out + i - 1)] = tx_buf[Wrap(tx_out + i - 1)]
  <2>1. Wrap(tx_out + i - 1) \in Slots
    BY LineTypes, RingFacts
  <2>2. tx_in \in Slots /\ tx_out \in Slots /\ Wrap(tx_in + BufLen - tx_out) \in Slots
    BY LineTypes, RingFacts
  <2>3. n \in 0 .. (BufLen - tx_in) /\ n + Wrap(tx_in + BufLen - tx_out) < BufLen
    BY <1>2, <1>3, <2>2, UartAssumption DEF Slots
  <2>4. Wrap(tx_out + i - 1) \notin tx_in .. (tx_in + n - 1)
    BY <2>2, <2>3, FreeSlots
  <2> QED
    BY <1>1, <2>1, <2>4
<1>5. Ring(tx_buf', tx_in, tx_out) = Ring(tx_buf, tx_in, tx_out)
  BY <1>4, RingSame
<1> QED
  BY <1>1, <1>5 DEF Outbound, TxBytes

\* A write's chunk goes to the end of the line.
LEMMA WriteAdvanceLine ==
  ASSUME UartInv, WriteAdvance
  PROVE  \E n \in 1 .. Len(offered) :
           /\ Outbound' = Outbound \o SubSeq(offered, 1, n)
           /\ offered' = SubSeq(offered, n + 1, Len(offered))
<1>1. /\ pc = "write_advance" /\ tx_in' = Wrap(tx_in + Len(chunk))
      /\ offered' = SubSeq(offered, Len(chunk) + 1, Len(offered))
      /\ UNCHANGED <<txFifo, tx_out, tx_buf>>
  BY DEF WriteAdvance, At, hardware
<1>2. /\ Len(chunk) \in 1 .. Writable /\ Len(chunk) <= Len(offered)
      /\ chunk = SubSeq(offered, 1, Len(chunk))
      /\ chunk = Bytes(tx_buf, tx_in, Len(chunk))
  BY <1>1 DEF UartInv, CallInv, WriteChunk
<1>3. /\ Writable \in 0 .. (BufLen - tx_in)
      /\ Writable + Wrap(tx_in + BufLen - tx_out) < BufLen
      /\ Wrap(tx_in + BufLen - tx_out) \in Slots
  BY LineTypes, WritableFacts, RingFacts
<1>4. Len(chunk) \in 0 .. (BufLen - tx_in) /\ Len(chunk) + Wrap(tx_in + BufLen - tx_out) < BufLen
  <2>1. tx_in \in Slots
    BY LineTypes
  <2> QED
    BY <1>2, <1>3, <2>1, UartAssumption DEF Slots
<1>5. TxBytes' = TxBytes \o Bytes(tx_buf, tx_in, Len(chunk))
  BY <1>1, <1>4, LineTypes, RingMore DEF TxBytes
<1>6. Outbound' = Outbound \o chunk
  <2>1. txFifo \in Seq(Byte) /\ TxBytes \in Seq(Byte) /\ chunk \in Seq(Byte)
    BY LineTypes
  <2>2. (txFifo \o TxBytes) \o chunk = txFifo \o (TxBytes \o chunk)
    BY <2>1, Associative
  <2> QED
    BY <1>1, <1>2, <1>5, <2>2 DEF Outbound
<1>7. Len(chunk) \in 1 .. Len(offered)
  BY <1>2, <1>3, LineTypes, UartAssumption DEF Slots
<1> QED
  BY <1>1, <1>2, <1>6, <1>7

\* A step that leaves what the line is seen through alone
LEMMA LineFrame ==
  ASSUME UNCHANGED <<rxFifo, txFifo, rxRing, txRing, received, offered>>,
         pc' \in ReadCalls <=> pc \in ReadCalls,
         pc' \in WriteCalls <=> pc \in WriteCalls
  PROVE  UNCHANGED Line!vars
<1>1. Inbound' = Inbound /\ Outbound' = Outbound
  BY DEF Inbound, Outbound, RxBytes, TxBytes, rxRing, txRing
<1>2. (pc \in ReadCalls)' = (pc \in ReadCalls) /\ (pc \in WriteCalls)' = (pc \in WriteCalls)
  BY DEF ReadCalls, WriteCalls
<1> QED
  BY <1>1, <1>2 DEF Line!vars, Line!read, Line!write, Inbound, Outbound, RxBytes, TxBytes

\* What a call's steps do to the line
LEMMA ReadLine ==
  ASSUME UartInv,
         \/ \E n \in Spaces, flag \in BOOLEAN : Read(n, flag)
         \/ ReadCopy \/ ReadNothing \/ ReadAdvance \/ ReadWait \/ ReadCheck \/ ReadEnable
  PROVE  [Line!LineNext]_(Line!vars)
<1> USE DEF ReadCalls, WriteCalls, At
<1>0. /\ UNCHANGED <<txFifo, txRing>> /\ pc \notin WriteCalls /\ pc' \notin WriteCalls
      /\ offered' = <<>> /\ offered = <<>>
  BY DEF Read, ReadCopy, ReadNothing, ReadAdvance, ReadWait, ReadCheck, ReadEnable, Return, Goto,
     WaitFor, hardware, UartInv, CallInv, LocalsGone
<1>1. UNCHANGED <<Outbound, offered>> /\ (pc \in WriteCalls)' = (pc \in WriteCalls)
  BY <1>0 DEF Outbound, TxBytes, txRing
<1>2. ASSUME NEW n \in Spaces, NEW flag \in BOOLEAN, Read(n, flag)
      PROVE  Line!ReadBegins
  <2>1. UNCHANGED <<Inbound, received>> /\ pc \notin ReadCalls /\ pc' \in ReadCalls
    BY <1>2 DEF Read, Inbound, RxBytes, hardware, rxRing
  <2> QED
    BY <1>1, <2>1 DEF Line!ReadBegins, Line!write, Inbound, Outbound, RxBytes, TxBytes
<1>3. CASE ReadAdvance
  <2>1. PICK n \in 1 .. Len(Inbound) :
          /\ received' = received \o SubSeq(Inbound, 1, n)
          /\ Inbound' = SubSeq(Inbound, n + 1, Len(Inbound))
    BY <1>3, ReadAdvanceLine
  <2>2. pc \in ReadCalls /\ (pc \in ReadCalls)' = (pc \in ReadCalls)
    BY <1>3 DEF ReadAdvance
  <2>3. Line!ReadGets(n)
    BY <1>1, <2>1, <2>2 DEF Line!ReadGets, Line!write, Inbound, Outbound, RxBytes, TxBytes
  <2> QED
    BY <2>3 DEF Line!LineNext, Inbound, RxBytes
<1>4. CASE ReadCopy \/ ReadWait
  BY <1>0, <1>4, LineFrame DEF ReadCopy, ReadWait, Goto, hardware
<1>5. CASE ReadNothing \/ ReadCheck \/ ReadEnable
  <2>1. UNCHANGED <<rxFifo, rxRing>> /\ pc \in ReadCalls
    BY <1>5 DEF ReadNothing, ReadCheck, ReadEnable, hardware
  <2>2. ASSUME NEW value, Return(value) PROVE Line!ReadReturns
    <3>1. received' = <<>> /\ pc' \notin ReadCalls /\ Inbound' = Inbound
      BY <2>1, <2>2 DEF Return, Inbound, RxBytes, rxRing
    <3> QED
      BY <1>1, <2>1, <3>1 DEF Line!ReadReturns, Line!write, Inbound, Outbound, RxBytes, TxBytes
  <2>3. ASSUME NEW label \in ReadCalls, Goto(label) \/ WaitFor(label, rx_in)
        PROVE  UNCHANGED Line!vars
    <3>1. received' = received /\ pc' \in ReadCalls
      BY <2>3 DEF Goto, WaitFor
    <3> QED
      BY <1>0, <2>1, <3>1, LineFrame
  <2> QED
    BY <1>5, <2>2, <2>3 DEF ReadNothing, ReadCheck, ReadEnable, Line!LineNext
<1> QED
  BY <1>2, <1>3, <1>4, <1>5 DEF Line!LineNext

LEMMA WriteLine ==
  ASSUME UartInv,
         \/ \E m \in Messages, flag \in BOOLEAN : Write(m, flag)
         \/ WriteCopy \/ WriteFull \/ WriteAdvance \/ WriteKick \/ WriteWait \/ WriteCheck
  PROVE  [Line!LineNext]_(Line!vars)
<1> USE DEF ReadCalls, WriteCalls, At
<1>0. /\ UNCHANGED <<rxFifo, rxRing>> /\ pc \notin ReadCalls /\ pc' \notin ReadCalls
      /\ received' = <<>> /\ received = <<>>
  BY DEF Write, WriteCopy, WriteFull, WriteAdvance, WriteKick, WriteWait, WriteCheck, Return, Goto,
     WaitFor, hardware, UartInv, CallInv, LocalsGone
<1>1. UNCHANGED <<Inbound, received>> /\ (pc \in ReadCalls)' = (pc \in ReadCalls)
  BY <1>0 DEF Inbound, RxBytes, rxRing
<1>2. ASSUME NEW m \in Messages, NEW flag \in BOOLEAN, Write(m, flag)
      PROVE  Line!WriteBegins
  <2>1. Outbound' = Outbound /\ pc \notin WriteCalls /\ pc' \in WriteCalls
    BY <1>2 DEF Write, Outbound, TxBytes, hardware, txRing
  <2>2. offered' \in Seq(Byte)
    BY <1>2, UartAssumption DEF Write
  <2> QED
    BY <1>1, <2>1, <2>2 DEF Line!WriteBegins, Line!read, Inbound, Outbound, RxBytes, TxBytes
<1>3. CASE WriteAdvance
  <2>1. PICK n \in 1 .. Len(offered) :
          /\ Outbound' = Outbound \o SubSeq(offered, 1, n)
          /\ offered' = SubSeq(offered, n + 1, Len(offered))
    BY <1>3, WriteAdvanceLine
  <2>2. pc \in WriteCalls /\ (pc \in WriteCalls)' = (pc \in WriteCalls)
    BY <1>3 DEF WriteAdvance
  <2>3. Line!WriteAccepts(n)
    BY <1>1, <2>1, <2>2 DEF Line!WriteAccepts, Line!read, Inbound, Outbound, RxBytes, TxBytes
  <2> QED
    BY <2>3 DEF Line!LineNext
<1>4. CASE WriteCopy
  <2>1. Outbound' = Outbound /\ offered' = offered
    BY <1>4, WriteCopyLine DEF WriteCopy
  <2>2. (pc \in WriteCalls)' = (pc \in WriteCalls)
    BY <1>4 DEF WriteCopy
  <2> QED
    BY <1>1, <2>1, <2>2 DEF Line!vars, Line!read, Line!write, Inbound, Outbound, RxBytes, TxBytes
<1>5. CASE WriteFull \/ WriteWait
  BY <1>0, <1>5, LineFrame DEF WriteFull, WriteWait, WaitFor, Goto, hardware
<1>6. CASE WriteKick \/ WriteCheck
  <2>1. UNCHANGED <<txFifo, txRing>> /\ pc \in WriteCalls
    BY <1>6 DEF WriteKick, WriteCheck, hardware
  <2>2. ASSUME NEW value, Return(value) PROVE Line!WriteReturns
    <3>1. offered' = <<>> /\ pc' \notin WriteCalls /\ Outbound' = Outbound
      BY <2>1, <2>2 DEF Return, Outbound, TxBytes, txRing
    <3> QED
      BY <1>1, <2>1, <3>1 DEF Line!WriteReturns, Line!read, Inbound, Outbound, RxBytes, TxBytes
  <2>3. ASSUME NEW label \in WriteCalls, Goto(label)
        PROVE  UNCHANGED Line!vars
    <3>1. offered' = offered /\ pc' \in WriteCalls
      BY <2>3 DEF Goto
    <3> QED
      BY <1>0, <2>1, <3>1, LineFrame
  <2> QED
    BY <1>6, <2>2, <2>3 DEF WriteKick, WriteCheck, Line!LineNext
<1> QED
  BY <1>2, <1>3, <1>4, <1>5, <1>6 DEF Line!LineNext

\* The host's bytes come in at one end and go out at the other.
LEMMA HostLine ==
  ASSUME UartInv, Host, UNCHANGED driver
  PROVE  [Line!LineNext]_(Line!vars)
<1>0. /\ UNCHANGED <<rxRing, txRing, received, offered, pc>>
  BY DEF driver, call
<1>a. /\ (pc \in ReadCalls)' = (pc \in ReadCalls) /\ (pc \in WriteCalls)' = (pc \in WriteCalls)
      /\ UNCHANGED <<RxBytes, TxBytes>>
  BY <1>0 DEF ReadCalls, WriteCalls, RxBytes, TxBytes, rxRing, txRing
<1>1. ASSUME NEW b \in Byte, HostSend(b) PROVE Line!HostSends
  <2>1. rxFifo' = Append(rxFifo, b) /\ txFifo' = txFifo
    BY <1>1 DEF HostSend
  <2>2. Inbound' = Append(Inbound, b)
    <3>1. RxBytes \in Seq(Byte) /\ rxFifo \in Seq(Byte) /\ <<b>> \in Seq(Byte)
      BY LineTypes
    <3>2. Append(rxFifo, b) = rxFifo \o <<b>> /\ Append(RxBytes \o rxFifo, b) = (RxBytes \o rxFifo) \o <<b>>
      BY <3>1, AppendIsConcat
    <3>3. (RxBytes \o rxFifo) \o <<b>> = RxBytes \o (rxFifo \o <<b>>)
      BY <3>1, Associative
    <3> QED
      BY <1>a, <2>1, <3>2, <3>3 DEF Inbound
  <2>3. Outbound' = Outbound
    BY <1>a, <2>1 DEF Outbound
  <2> QED
    BY <1>0, <1>a, <2>2, <2>3 DEF Line!HostSends, Line!read, Line!write, Inbound, Outbound,
       RxBytes, TxBytes
<1>2. CASE HostTake
  <2>1. txFifo # <<>> /\ txFifo' = Tail(txFifo) /\ rxFifo' = rxFifo
    BY <1>2 DEF HostTake
  <2>2. Outbound # <<>> /\ Outbound' = Tail(Outbound)
    <3>1. TxBytes \in Seq(Byte) /\ txFifo \in Seq(Byte)
      BY LineTypes
    <3>2. txFifo \o TxBytes # <<>> /\ Tail(txFifo \o TxBytes) = Tail(txFifo) \o TxBytes
      BY <2>1, <3>1
    <3> QED
      BY <1>a, <2>1, <3>2 DEF Outbound
  <2>3. Inbound' = Inbound
    BY <1>a, <2>1 DEF Inbound
  <2>4. Line!HostTakes
    BY <1>0, <1>a, <2>2, <2>3 DEF Line!HostTakes, Line!read, Line!write, Inbound, Outbound,
       RxBytes, TxBytes
  <2> QED
    BY <2>4 DEF Line!LineNext
<1>3. CASE HostPoll
  BY <1>0, <1>3, LineFrame DEF HostPoll
<1> QED
  BY <1>1, <1>2, <1>3 DEF Host, Line!LineNext

LEMMA HandlerLine ==
  ASSUME UartInv, Interrupt \/ Handler
  PROVE  UNCHANGED Line!vars
<1>0. /\ UNCHANGED <<received, offered, pc>>
  BY DEF Interrupt, Handler, Control, Receive, ReceiveNothing, ReceiveFull, Transmit, TransmitEnd, call
<1>1. CASE Receive \/ Transmit
  <2>1. Inbound' = Inbound /\ Outbound' = Outbound
    BY <1>1, ReceiveLine, TransmitLine DEF Receive, Transmit, Inbound, Outbound, RxBytes, TxBytes,
       rxRing, txRing
  <2>2. (pc \in ReadCalls)' = (pc \in ReadCalls) /\ (pc \in WriteCalls)' = (pc \in WriteCalls)
    BY <1>0 DEF ReadCalls, WriteCalls
  <2> QED
    BY <1>0, <2>1, <2>2 DEF Line!vars, Line!read, Line!write, Inbound, Outbound, RxBytes, TxBytes
<1>2. CASE Interrupt \/ Control \/ ReceiveNothing \/ ReceiveFull \/ TransmitEnd
  BY <1>0, <1>2, LineFrame DEF Interrupt, Control, ReceiveNothing, ReceiveFull, TransmitEnd, hardware
<1> QED
  BY <1>1, <1>2 DEF Handler

LEMMA LineStep == UartInv /\ [Next]_vars => [Line!LineNext]_(Line!vars)
<1> SUFFICES ASSUME UartInv, [Next]_vars PROVE [Line!LineNext]_(Line!vars)
  OBVIOUS
<1>1. CASE \/ \E flag \in BOOLEAN : Close(flag)
           \/ CloseWait
  <2>1. /\ pc \notin ReadCalls /\ pc \notin WriteCalls /\ pc' \notin ReadCalls /\ pc' \notin WriteCalls
        /\ UNCHANGED <<rxFifo, txFifo, rxRing, txRing, received, offered>>
    BY <1>1 DEF Close, CloseWait, At, Return, ReadCalls, WriteCalls, UartInv, CallInv, LocalsGone,
       hardware
  <2> QED
    BY <2>1, LineFrame
<1>2. CASE (\E t \in Timeouts : SetTimeout(t)) \/ Timeout \/ UNCHANGED vars
  <2>1. UNCHANGED <<rxFifo, txFifo, rxRing, txRing, received, offered, pc>>
    BY <1>2 DEF SetTimeout, Timeout, vars, call, hardware
  <2> QED
    BY <2>1, LineFrame
<1> QED
  BY <1>1, <1>2, ReadLine, WriteLine, HostLine, HandlerLine DEF Next, Program

\* Without a lock between the program and the handler, whatever the length of
\* the rings and of the FIFOs and however calls, interrupts, time-outs and the
\* host interleave, every byte arrives once and in order in both directions.
THEOREM UartIsLine == Spec => IsSerialLine
<1>1. Init => Line!LineInit
  <2> SUFFICES ASSUME Init PROVE Line!LineInit
    OBVIOUS
  <2>1. Wrap(0 + BufLen - 0) = 0
    BY WrapOnce, UartAssumption
  <2>2. Ring(rx_buf, rx_in, rx_out) = <<>> /\ Ring(tx_buf, tx_in, tx_out) = <<>>
    BY <2>1 DEF Init, Ring
  <2>3. Ring(rx_buf, rx_in, rx_out) \o rxFifo = <<>> /\ txFifo \o Ring(tx_buf, tx_in, tx_out) = <<>>
    BY <2>2 DEF Init, HostInit
  <2>4. pc \notin ReadCalls /\ pc \notin WriteCalls /\ received = <<>> /\ offered = <<>>
    BY DEF Init, ReadCalls, WriteCalls
  <2> QED
    BY <2>3, <2>4 DEF Line!LineInit
<1> QED
  BY <1>1, UartInit, UartStep, LineStep, PTL DEF Spec, IsSerialLine, Line!LineSpec
=============================================================================
