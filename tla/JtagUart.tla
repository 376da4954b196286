------------------------------ MODULE JtagUart ------------------------------
(***************************************************************************)
(* The interrupt driven JTAG UART driver: read, write, close and ioctl in  *)
(* the main program, the device's interrupt handler and the alarm that     *)
(* decides whether a host is there.  Program and handler share two rings   *)
(* without a lock: each side writes one of the two indices only.  A step   *)
(* is one access to a shared variable or register, with the local work     *)
(* around it; the host acts between any two.                               *)
(***************************************************************************)
EXTENDS JtagHost

CONSTANTS BufLen,        \* ALTERA_AVALON_JTAG_UART_BUF_LEN
          IntMax,        \* INT_MAX
          HasClock,      \* there is a system clock to start the alarm on
          DefaultTimeout,
          Timeouts,      \* arguments of TIOCSTIMEOUT
          Messages,      \* arguments of write
          Spaces,        \* the space argument of read
          Closes         \* the program calls close

ASSUME UartAssumption ==
  /\ BufLen \in Nat \ {0, 1}
  /\ IntMax \in Nat /\ DefaultTimeout \in 2 .. (IntMax - 2)
  /\ Timeouts \subseteq Nat
  /\ Messages \subseteq Seq(Byte) \ {<<>>}
  /\ Spaces \subseteq Nat \ {0}
  /\ Closes \in BOOLEAN /\ HasClock \in BOOLEAN
  /\ 0 \in Byte

Slots == 0 .. (BufLen - 1)

VARIABLES rx_in, rx_out, rx_buf,  \* the receive ring
          tx_in, tx_out, tx_buf,  \* the transmit ring
          irq_enable,             \* "RE" and "WE", as in the CONTROL register
          timeout, host_inactive,
          pc,                     \* where the program is in its call
          nonblock,               \* the call's O_NONBLOCK
          seen,                   \* the in or out a waiting call has seen last
          space, received,        \* read: what is left of buffer, what is in it
          offered, accepted,      \* write: from ptr on; ptr # start
          chunk,                  \* what memcpy has copied last
          result,                 \* what the last call returned
          handler,                \* where the interrupt handler is
          wi, room, avail         \* its control & WI, space and data & RAVAIL

rxRing == <<rx_in, rx_out, rx_buf>>
txRing == <<tx_in, tx_out, tx_buf>>
hostwatch == <<timeout, host_inactive>>
call == <<pc, nonblock, seen, space, received, offered, accepted, chunk, result>>
inquiry == <<handler, wi, room, avail>>
vars == <<hardware, rxRing, txRing, irq_enable, hostwatch, call, inquiry>>

\* Static storage is zero; without a system clock the alarm cannot be started.
Init == /\ HostInit
        /\ rx_in = 0 /\ rx_out = 0 /\ rx_buf = [s \in Slots |-> 0]
        /\ tx_in = 0 /\ tx_out = 0 /\ tx_buf = [s \in Slots |-> 0]
        /\ irq_enable = {"RE"}
        /\ timeout = IF HasClock THEN DefaultTimeout ELSE IntMax
        /\ host_inactive = 0
        /\ pc = "idle" /\ result = "none" /\ nonblock = FALSE /\ seen = 0
        /\ space = 0 /\ received = <<>>
        /\ offered = <<>> /\ accepted = FALSE /\ chunk = <<>>
        /\ handler = "none" /\ wi = FALSE /\ room = 0 /\ avail = FALSE

Wrap(i) == i % BufLen

TimedOut == host_inactive >= timeout

\* The program runs when the handler does not.
At(label) == pc = label /\ handler = "none"

\* The call returns and its locals are gone, or it goes on elsewhere.
Return(value) == /\ pc' = "idle" /\ result' = value
                 /\ nonblock' = FALSE /\ seen' = 0
                 /\ space' = 0 /\ received' = <<>>
                 /\ offered' = <<>> /\ accepted' = FALSE /\ chunk' = <<>>

Goto(label) == /\ pc' = label
               /\ UNCHANGED <<nonblock, seen, space, received, offered, accepted, chunk, result>>

\* A loop of the call waits for index to change or for the host to be given up.
WaitFor(label, index) == /\ pc' = label /\ seen' = index
                         /\ UNCHANGED <<nonblock, space, received, offered, accepted,
                                        chunk, result>>

LeastOf(a, b) == IF a <= b THEN a ELSE b

\* n bytes of a ring's buffer from slot out on, without a wrap
Bytes(buf, out, n) == [i \in 1 .. n |-> buf[out + i - 1]]
-----------------------------------------------------------------------------
(* altera_avalon_jtag_uart_read *)

Read(n, flag) == /\ At("idle")
                 /\ pc' = "read" /\ nonblock' = flag
                 /\ space' = n /\ result' = "none"
                 /\ UNCHANGED <<hardware, rxRing, txRing, irq_enable, hostwatch, inquiry,
                                seen, received, offered, accepted, chunk>>

\* What can be copied at once
Readable == IF rx_in >= rx_out THEN rx_in - rx_out ELSE BufLen - rx_out

ReadCopy == /\ At("read") /\ Readable > 0
            /\ chunk' = Bytes(rx_buf, rx_out, LeastOf(Readable, space))
            /\ pc' = "read_advance"
            /\ UNCHANGED <<hardware, rxRing, txRing, irq_enable, hostwatch, inquiry,
                           nonblock, seen, space, received, offered, accepted, result>>

ReadNothing == /\ At("read") /\ Readable = 0
               /\ \/ received # <<>> /\ Goto("read_enable")
                  \/ received = <<>> /\ nonblock /\ Return("-EWOULDBLOCK")
                  \/ received = <<>> /\ ~nonblock /\ WaitFor("read_wait", rx_in)
               /\ UNCHANGED <<hardware, rxRing, txRing, irq_enable, hostwatch, inquiry>>

\* ptr, space and rx_out move on by n.
ReadAdvance == /\ At("read_advance")
               /\ rx_out' = Wrap(rx_out + Len(chunk))
               /\ received' = received \o chunk
               /\ space' = space - Len(chunk)
               /\ chunk' = <<>>
               /\ pc' = IF space' > 0 THEN "read" ELSE "read_enable"
               /\ UNCHANGED <<hardware, rx_in, rx_buf, txRing, irq_enable, hostwatch, inquiry,
                              nonblock, seen, offered, accepted, result>>

ReadWait == /\ At("read_wait")
            /\ seen # rx_in \/ TimedOut
            /\ Goto("read_check")
            /\ UNCHANGED <<hardware, rxRing, txRing, irq_enable, hostwatch, inquiry>>

ReadCheck == /\ At("read_check")
             /\ \/ seen = rx_in /\ Return("-EIO")
                \/ seen # rx_in /\ Goto("read")
             /\ UNCHANGED <<hardware, rxRing, txRing, irq_enable, hostwatch, inquiry>>

\* RE is set with interrupts disabled.
ReadEnable == /\ At("read_enable")
              /\ irq_enable' = irq_enable \cup {"RE"}
              /\ Return("count")
              /\ UNCHANGED <<hardware, rxRing, txRing, hostwatch, inquiry>>
-----------------------------------------------------------------------------
(* altera_avalon_jtag_uart_write *)

Write(m, flag) == /\ At("idle")
                  /\ pc' = "write" /\ nonblock' = flag
                  /\ offered' = m /\ result' = "none"
                  /\ UNCHANGED <<hardware, rxRing, txRing, irq_enable, hostwatch, inquiry,
                                 seen, space, received, accepted, chunk>>

\* Mutant: the slot that tells full from empty is used.
WritableAll == IF tx_in < tx_out THEN tx_out - 1 - tx_in ELSE BufLen - tx_in

\* What can be copied at once; one slot stays empty.
Writable == CASE tx_in < tx_out -> tx_out - 1 - tx_in
              [] tx_in >= tx_out /\ tx_out > 0 -> BufLen - tx_in
              [] tx_in >= tx_out /\ tx_out = 0 -> BufLen - 1 - tx_in

WriteCopy == LET n == LeastOf(Writable, Len(offered))
             IN /\ At("write") /\ Writable > 0
                /\ chunk' = SubSeq(offered, 1, n)
                /\ tx_buf' = [s \in Slots |-> IF s \in tx_in .. (tx_in + n - 1)
                                              THEN offered[s - tx_in + 1] ELSE tx_buf[s]]
                /\ pc' = "write_advance"
                /\ UNCHANGED <<hardware, rxRing, tx_in, tx_out, irq_enable, hostwatch, inquiry,
                               nonblock, seen, space, received, offered, accepted, result>>

WriteFull == /\ At("write") /\ Writable = 0
             /\ WaitFor("write_kick", tx_out)
             /\ UNCHANGED <<hardware, rxRing, txRing, irq_enable, hostwatch, inquiry>>

\* ptr, count and tx_in move on by n.
WriteAdvance == /\ At("write_advance")
                /\ tx_in' = Wrap(tx_in + Len(chunk))
                /\ offered' = SubSeq(offered, Len(chunk) + 1, Len(offered))
                /\ accepted' = TRUE
                /\ chunk' = <<>>
                /\ pc' = IF offered' # <<>> THEN "write" ELSE "write_kick"
                /\ UNCHANGED <<hardware, rxRing, tx_out, tx_buf, irq_enable, hostwatch, inquiry,
                               nonblock, seen, space, received, result>>

\* What a write that gives up returns
Shortened == IF accepted THEN "count" ELSE IF nonblock THEN "-EWOULDBLOCK" ELSE "-EIO"

\* Mutant: the other interrupt is turned off.
WriteKickOnly == /\ At("write_kick")
                 /\ irq_enable' = {"WE"}
                 /\ \/ offered = <<>> /\ Return("count")
                    \/ offered # <<>> /\ nonblock /\ Return(Shortened)
                    \/ offered # <<>> /\ ~nonblock /\ Goto("write_wait")
                 /\ UNCHANGED <<hardware, rxRing, txRing, hostwatch, inquiry>>

\* WE is set with interrupts disabled; the rest is given up or waited for.
WriteKick == /\ At("write_kick")
             /\ irq_enable' = irq_enable \cup {"WE"}
             /\ \/ offered = <<>> /\ Return("count")
                \/ offered # <<>> /\ nonblock /\ Return(Shortened)
                \/ offered # <<>> /\ ~nonblock /\ Goto("write_wait")
             /\ UNCHANGED <<hardware, rxRing, txRing, hostwatch, inquiry>>

WriteWait == /\ At("write_wait")
             /\ seen # tx_out \/ TimedOut
             /\ Goto("write_check")
             /\ UNCHANGED <<hardware, rxRing, txRing, irq_enable, hostwatch, inquiry>>

WriteCheck == /\ At("write_check")
              /\ \/ host_inactive # 0 /\ Return(Shortened)
                 \/ host_inactive = 0 /\ Goto("write")
              /\ UNCHANGED <<hardware, rxRing, txRing, irq_enable, hostwatch, inquiry>>
-----------------------------------------------------------------------------
(* altera_avalon_jtag_uart_close and _ioctl *)

Close(flag) == /\ Closes
               /\ At("idle")
               /\ pc' = "close" /\ nonblock' = flag /\ result' = "none"
               /\ UNCHANGED <<hardware, rxRing, txRing, irq_enable, hostwatch, inquiry,
                              seen, space, received, offered, accepted, chunk>>

CloseWait == /\ At("close")
             /\ \/ (tx_out = tx_in \/ TimedOut) /\ Return("0")
                \/ tx_out # tx_in /\ ~TimedOut /\ nonblock /\ Return("-EWOULDBLOCK")
             /\ UNCHANGED <<hardware, rxRing, txRing, irq_enable, hostwatch, inquiry>>

SetTimeout(t) == /\ At("idle")
                 /\ timeout # IntMax
                 /\ timeout' = IF t >= 2 /\ t < IntMax THEN t ELSE IntMax - 1
                 /\ UNCHANGED <<hardware, rxRing, txRing, irq_enable, host_inactive, call, inquiry>>
-----------------------------------------------------------------------------
(* altera_avalon_jtag_uart_irq *)

ReadPending == "RE" \in irq_enable /\ rxFifo # <<>>
WritePending == "WE" \in irq_enable /\ Len(txFifo) <= TxThreshold

Interrupt == /\ handler = "none"
             /\ ReadPending \/ WritePending
             /\ handler' = "control"
             /\ UNCHANGED <<hardware, rxRing, txRing, irq_enable, hostwatch, call, wi, room, avail>>

\* A read of CONTROL: RI, WI and WSPACE
Control == /\ handler = "control"
           /\ wi' = WritePending
           /\ room' = IF WritePending THEN WSpace ELSE 0
           /\ avail' = ReadPending
           /\ handler' = IF ReadPending THEN "receive"
                         ELSE IF WritePending THEN "transmit" ELSE "none"
           /\ UNCHANGED <<hardware, rxRing, txRing, irq_enable, hostwatch, call>>

RxFull == Wrap(rx_in + 1) = rx_out

\* A read of DATA that takes a byte; RAVAIL is what is left behind it.
Receive == /\ handler = "receive" /\ ~RxFull
           /\ rxFifo # <<>>
           /\ rx_buf' = [rx_buf EXCEPT ![rx_in] = Head(rxFifo)]
           /\ rx_in' = Wrap(rx_in + 1)
           /\ rxFifo' = Tail(rxFifo)
           /\ avail' = (Len(rxFifo) > 1)
           /\ UNCHANGED <<txFifo, active, rx_out, txRing, irq_enable, hostwatch, call,
                          handler, wi, room>>

\* A read of DATA that finds nothing: RVALID and RAVAIL are 0.
ReceiveNothing == /\ handler = "receive" /\ ~RxFull
                  /\ rxFifo = <<>>
                  /\ avail' = FALSE
                  /\ handler' = IF wi THEN "transmit" ELSE "control"
                  /\ UNCHANGED <<hardware, rxRing, txRing, irq_enable, hostwatch, call,
                                 wi, room>>

\* Mutant: receive interrupts stay on.
ReceiveFullOn == /\ handler = "receive" /\ RxFull
                 /\ handler' = IF wi THEN "transmit" ELSE "control"
                 /\ UNCHANGED <<hardware, rxRing, txRing, irq_enable, hostwatch, call,
                                wi, room, avail>>

\* The ring is full: receive interrupts are turned off if there is more.
ReceiveFull == /\ handler = "receive" /\ RxFull
               /\ irq_enable' = irq_enable \ (IF avail THEN {"RE"} ELSE {})
               /\ handler' = IF wi THEN "transmit" ELSE "control"
               /\ UNCHANGED <<hardware, rxRing, txRing, hostwatch, call, wi, room, avail>>

Transmit == /\ handler = "transmit"
            /\ room > 0 /\ tx_out # tx_in
            /\ txFifo' = IF WSpace > 0 THEN Append(txFifo, tx_buf[tx_out]) ELSE txFifo
            /\ tx_out' = Wrap(tx_out + 1)
            /\ room' = room - 1
            /\ UNCHANGED <<rxFifo, active, rxRing, tx_in, tx_buf, irq_enable, hostwatch, call,
                           handler, wi, avail>>

\* Nothing is left to send: transmit interrupts are turned off.
TransmitEnd == /\ handler = "transmit"
               /\ room = 0 \/ tx_out = tx_in
               /\ irq_enable' = irq_enable \ (IF room > 0 THEN {"WE"} ELSE {})
               /\ handler' = "control"
               /\ UNCHANGED <<hardware, rxRing, txRing, hostwatch, call, wi, room, avail>>

\* Mutant: the count goes on to INT_MAX.
TimeoutUncapped == /\ handler = "none" /\ timeout # IntMax
                   /\ active' = FALSE
                   /\ host_inactive' = IF active THEN 0 ELSE host_inactive + 1
                   /\ host_inactive < IntMax
                   /\ UNCHANGED <<rxFifo, txFifo, rxRing, txRing, irq_enable, timeout, call, inquiry>>

\* altera_avalon_jtag_uart_timeout, called by the timer's handler: AC is cleared
\* if it is set, and the alarm is started again.
Timeout == /\ handler = "none" /\ timeout # IntMax
           /\ active' = FALSE
           /\ host_inactive' = IF active THEN 0
                               ELSE IF host_inactive < IntMax - 2 THEN host_inactive + 1
                               ELSE host_inactive
           /\ UNCHANGED <<rxFifo, txFifo, rxRing, txRing, irq_enable, timeout, call, inquiry>>
-----------------------------------------------------------------------------
Program == \/ ReadCopy \/ ReadNothing \/ ReadAdvance \/ ReadWait \/ ReadCheck \/ ReadEnable
           \/ WriteCopy \/ WriteFull \/ WriteAdvance \/ WriteKick \/ WriteWait \/ WriteCheck
           \/ CloseWait

Handler == \/ Control \/ Receive \/ ReceiveNothing \/ ReceiveFull
           \/ Transmit \/ TransmitEnd

driver == <<rxRing, txRing, irq_enable, hostwatch, call, inquiry>>

Next == \/ \E n \in Spaces, flag \in BOOLEAN : Read(n, flag)
        \/ \E m \in Messages, flag \in BOOLEAN : Write(m, flag)
        \/ \E flag \in BOOLEAN : Close(flag)
        \/ \E t \in Timeouts : SetTimeout(t)
        \/ Program
        \/ Interrupt \/ Handler
        \/ Timeout
        \/ Host /\ UNCHANGED driver

Spec == Init /\ [][Next]_vars

\* The processor executes the program between interrupts and the handler at
\* once; an interrupt that stays pending is taken, and the timer keeps ticking.
FairSpec == /\ Spec
            /\ SF_vars(Program) /\ WF_vars(Handler) /\ WF_vars(Interrupt)
            /\ SF_vars(Timeout)
-----------------------------------------------------------------------------
(* Properties *)

ReadCalls == {"read", "read_advance", "read_wait", "read_check", "read_enable"}
WriteCalls == {"write", "write_advance", "write_kick", "write_wait", "write_check"}
Handlers == {"none", "control", "receive", "transmit"}

UartTypeOK == /\ HostTypeOK
              /\ rx_in \in Slots /\ rx_out \in Slots /\ rx_buf \in [Slots -> Byte]
              /\ tx_in \in Slots /\ tx_out \in Slots /\ tx_buf \in [Slots -> Byte]
              /\ irq_enable \subseteq {"RE", "WE"}
              /\ timeout \in 2 .. IntMax /\ host_inactive \in 0 .. (IntMax - 2)
              /\ pc \in {"idle", "close"} \cup ReadCalls \cup WriteCalls
              /\ nonblock \in BOOLEAN /\ accepted \in BOOLEAN
              /\ seen \in Slots /\ space \in Nat
              /\ received \in Seq(Byte) /\ offered \in Seq(Byte) /\ chunk \in Seq(Byte)
              /\ result \in {"none", "count", "0", "-EIO", "-EWOULDBLOCK"}
              /\ handler \in Handlers
              /\ wi \in BOOLEAN /\ avail \in BOOLEAN
              /\ room \in 0 .. TxDepth

\* While receive interrupts are off there is something in the ring, or a read
\* that has got something is about to turn them on: no byte is left in the
\* FIFO with nobody to be told of it (init.c:156-166, read.c:188-195).
RxArmed == "RE" \in irq_enable \/ rx_in # rx_out
           \/ (pc = "read" /\ received # <<>>) \/ pc = "read_enable"

\* While the ring has bytes to send, transmit interrupts are on or the writer
\* is about to turn them on (init.c:186-194, write.c:136-139).
TxArmed == tx_in = tx_out \/ "WE" \in irq_enable
           \/ pc \in {"write", "write_advance", "write_kick"}

\* Neither side falls asleep on the other: bytes that wait in a ring or in the
\* receive FIFO always have an interrupt, or a call under way, that sees to them.
Armed == RxArmed /\ TxArmed

\* The handler never writes DATA when the FIFO is full: WSPACE, read once, is
\* still there (init.c:172-184).
RoomIsThere == handler = "transmit" => room <= WSpace

\* What a ring holds, oldest first
Ring(buf, in, out) ==
  [i \in 1 .. Wrap(in + BufLen - out) |-> buf[Wrap(out + i - 1)]]

Line == INSTANCE SerialLine WITH inbound <- Ring(rx_buf, rx_in, rx_out) \o rxFifo,
                                 outbound <- txFifo \o Ring(tx_buf, tx_in, tx_out),
                                 reading <- pc \in ReadCalls, writing <- pc \in WriteCalls

\* Without a lock, and with the handler and the host acting between any two
\* accesses, every byte arrives once and in order in both directions, and a
\* call that gives up has accepted exactly what it took.
IsSerialLine == Line!LineSpec

\* A reader that waits is woken by what the host sent: the interrupt that should
\* do it is never lost.
ReaderWakes == (pc = "read_wait" /\ rxFifo # <<>>) ~> pc # "read_wait"

\* What is in the ring gets to the hardware when the host makes room.
SenderWakes == (tx_in # tx_out /\ txFifo = <<>>) ~> txFifo # <<>>

\* A host that is active takes what it is sent.
LivingHost == []<><<active' /\ ~active>>_vars => []<>(txFifo = <<>>)

\* Every write and every close ends, if need be because the host is given up.
CallsEnd == LivingHost => ((pc \in WriteCalls \cup {"close"} /\ timeout < IntMax - 1) ~> pc = "idle")

\* The handler always comes to its end, however fast the host is.
HandlerEnds == []<>(handler = "none")

\* Nothing that waits is forgotten: readers and senders are woken, writes and
\* closes end and so does the handler (altera_avalon_jtag_uart_read.c:115-173,
\* _write.c:99-191, _init.c:106-197 and 241-253).
CallsServed == ReaderWakes /\ SenderWakes /\ CallsEnd /\ HandlerEnds

\* write.c:214: a write fails with -EIO when the "Host [is] not connected",
\* which is what TIOCGCONNECTED answers at that time (ioctl.c:74).
FailStep == result' = "-EIO" /\ result # "-EIO" => TimedOut

FailsWhenGone == [][FailStep]_vars
=============================================================================
