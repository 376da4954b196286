--------------------------- MODULE JtagUartSmall ---------------------------
(***************************************************************************)
(* The polling JTAG UART driver, the one this BSP is built with            *)
(* (ALT_USE_SMALL_DRIVERS): read and write touch the device registers in   *)
(* the caller's own loop, one register access per step.                    *)
(***************************************************************************)
EXTENDS JtagHost

CONSTANTS Messages,  \* arguments of write
          Spaces     \* the space argument of read

VARIABLES call,      \* "idle", or the call under way
          nonblock,  \* its O_NONBLOCK flag
          space,     \* what end - ptr is in read
          received,  \* buffer up to ptr
          offered,   \* ptr up to end in write
          wspace     \* write has seen room in the FIFO

locals == <<call, nonblock, space, received, offered, wspace>>
vars == <<hardware, locals>>

Init == /\ HostInit
        /\ call = "idle" /\ nonblock = FALSE
        /\ space = 0 /\ received = <<>>
        /\ offered = <<>> /\ wspace = FALSE

Read(n, flag) == /\ call = "idle"
                 /\ call' = "read" /\ nonblock' = flag
                 /\ space' = n
                 /\ UNCHANGED <<hardware, received, offered, wspace>>

\* A read of DATA with RVALID set
ReadByte == /\ call = "read" /\ space > 0
            /\ rxFifo # <<>>
            /\ received' = Append(received, Head(rxFifo))
            /\ rxFifo' = Tail(rxFifo)
            /\ space' = space - 1
            /\ UNCHANGED <<txFifo, active, call, nonblock, offered, wspace>>

\* The buffer is full, or nothing more is there and the call need not wait.
ReadReturn == /\ call = "read"
              /\ \/ space = 0
                 \/ rxFifo = <<>> /\ (received # <<>> \/ nonblock)
              /\ call' = "idle"
              /\ nonblock' = FALSE /\ space' = 0 /\ received' = <<>>
              /\ UNCHANGED <<hardware, offered, wspace>>

Write(m) == /\ call = "idle"
            /\ call' = "write"
            /\ offered' = m
            /\ UNCHANGED <<hardware, nonblock, space, received, wspace>>

\* A read of CONTROL with WSPACE # 0
SeeSpace == /\ call = "write" /\ offered # <<>> /\ ~wspace
            /\ WSpace # 0
            /\ wspace' = TRUE
            /\ UNCHANGED <<hardware, call, nonblock, space, received, offered>>

\* Mutant: the pointer stays where it was.
WriteByteTwice == /\ wspace
                  /\ txFifo' = Append(txFifo, Head(offered))
                  /\ wspace' = FALSE
                  /\ UNCHANGED <<rxFifo, active, call, nonblock, space, received, offered>>

\* The write of DATA; a core whose FIFO is full would drop the byte.
WriteByte == /\ wspace
             /\ txFifo' = IF WSpace > 0 THEN Append(txFifo, Head(offered)) ELSE txFifo
             /\ offered' = Tail(offered)
             /\ wspace' = FALSE
             /\ UNCHANGED <<rxFifo, active, call, nonblock, space, received>>

WriteReturn == /\ call = "write" /\ offered = <<>>
               /\ call' = "idle"
               /\ UNCHANGED <<hardware, nonblock, space, received, offered, wspace>>

Driver == ReadByte \/ ReadReturn \/ SeeSpace \/ WriteByte \/ WriteReturn

Next == \/ \E n \in Spaces, flag \in BOOLEAN : Read(n, flag)
        \/ \E m \in Messages : Write(m)
        \/ Driver
        \/ Host /\ UNCHANGED locals

Spec == Init /\ [][Next]_vars

\* The program keeps executing its loop, and a host that is there keeps
\* emptying the FIFO.
FairSpec == Spec /\ WF_vars(Driver) /\ WF_vars(HostTake /\ UNCHANGED locals)
-----------------------------------------------------------------------------
SmallTypeOK == /\ HostTypeOK
               /\ call \in {"idle", "read", "write"}
               /\ nonblock \in BOOLEAN /\ wspace \in BOOLEAN
               /\ space \in Nat
               /\ received \in Seq(Byte) /\ offered \in Seq(Byte)
               /\ wspace => (call = "write" /\ offered # <<>> /\ WSpace > 0)

Wire == INSTANCE SerialLine WITH inbound <- rxFifo, outbound <- txFifo,
                                 reading <- call = "read", writing <- call = "write"

\* Between the look at WSPACE and the write of DATA nothing can fill the FIFO,
\* so no byte of a write is dropped; none is doubled or reordered in either
\* direction (altera_avalon_jtag_uart_write.c:70-72).
IsSerialLine == Wire!LineSpec

\* With a host that reads, every write comes to its end; the loop has no other
\* way out.
WriteEnds == call = "write" ~> call = "idle"
=============================================================================
