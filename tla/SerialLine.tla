----------------------------- MODULE SerialLine -----------------------------
(***************************************************************************)
(* What a serial device promises its program: bytes in both directions     *)
(* arrive once and in order, in pieces of any size.  A write may accept    *)
(* only a front part of what it is offered.                                *)
(***************************************************************************)
EXTENDS Naturals, Sequences

CONSTANTS Byte

VARIABLES inbound,   \* sent by the host, not yet given to the program
          reading,   \* a read call is under way
          received,  \* what it has got so far
          outbound,  \* accepted from the program, not yet taken by the host
          writing,   \* a write call is under way
          offered    \* what it has not yet accepted

read == <<reading, received>>
write == <<writing, offered>>
vars == <<inbound, read, outbound, write>>

LineInit == /\ inbound = <<>> /\ reading = FALSE /\ received = <<>>
            /\ outbound = <<>> /\ writing = FALSE /\ offered = <<>>

HostSends == /\ \E b \in Byte : inbound' = Append(inbound, b)
             /\ UNCHANGED <<read, outbound, write>>

HostTakes == /\ outbound # <<>>
             /\ outbound' = Tail(outbound)
             /\ UNCHANGED <<inbound, read, write>>

ReadBegins == /\ ~reading /\ reading' = TRUE
              /\ UNCHANGED <<inbound, received, outbound, write>>

ReadGets(n) == /\ reading
               /\ received' = received \o SubSeq(inbound, 1, n)
               /\ inbound' = SubSeq(inbound, n + 1, Len(inbound))
               /\ UNCHANGED <<reading, outbound, write>>

ReadReturns == /\ reading /\ reading' = FALSE
               /\ received' = <<>>
               /\ UNCHANGED <<inbound, outbound, write>>

WriteBegins == /\ ~writing /\ writing' = TRUE
               /\ offered' \in Seq(Byte)
               /\ UNCHANGED <<inbound, read, outbound>>

WriteAccepts(n) == /\ writing
                   /\ outbound' = outbound \o SubSeq(offered, 1, n)
                   /\ offered' = SubSeq(offered, n + 1, Len(offered))
                   /\ UNCHANGED <<inbound, read, writing>>

WriteReturns == /\ writing /\ writing' = FALSE
                /\ offered' = <<>>
                /\ UNCHANGED <<inbound, read, outbound>>

LineNext == \/ HostSends \/ HostTakes
            \/ ReadBegins \/ ReadReturns
            \/ WriteBegins \/ WriteReturns
            \/ \E n \in 1 .. Len(inbound) : ReadGets(n)
            \/ \E n \in 1 .. Len(offered) : WriteAccepts(n)

LineSpec == LineInit /\ [][LineNext]_vars
=============================================================================
