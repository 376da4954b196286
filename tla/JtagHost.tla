------------------------------ MODULE JtagHost ------------------------------
(***************************************************************************)
(* The JTAG UART core and the host at the other end of the cable, as the   *)
(* drivers see them through the DATA and CONTROL registers: two hardware   *)
(* FIFOs, and the AC bit that the host sets by being there.                *)
(***************************************************************************)
EXTENDS Naturals, Sequences

CONSTANTS Byte,
          RxDepth, TxDepth,  \* sizes of the hardware FIFOs
          TxThreshold        \* a write interrupt is pending up to this fill

ASSUME HostAssumption == /\ RxDepth \in Nat \ {0} /\ TxDepth \in Nat \ {0}
                         /\ TxThreshold \in 0 .. (TxDepth - 1)

VARIABLES rxFifo,  \* from the host
          txFifo,  \* to the host
          active   \* CONTROL.AC: activity since the bit was cleared

hardware == <<rxFifo, txFifo, active>>

HostInit == rxFifo = <<>> /\ txFifo = <<>> /\ active = FALSE

WSpace == TxDepth - Len(txFifo)

\* The host sends a byte, takes one, or only polls.
HostSend(b) == /\ Len(rxFifo) < RxDepth
               /\ rxFifo' = Append(rxFifo, b)
               /\ active' = TRUE
               /\ UNCHANGED txFifo

HostTake == /\ txFifo # <<>>
            /\ txFifo' = Tail(txFifo)
            /\ active' = TRUE
            /\ UNCHANGED rxFifo

HostPoll == active' = TRUE /\ UNCHANGED <<rxFifo, txFifo>>

Host == (\E b \in Byte : HostSend(b)) \/ HostTake \/ HostPoll

HostTypeOK == /\ rxFifo \in Seq(Byte) /\ Len(rxFifo) <= RxDepth
              /\ txFifo \in Seq(Byte) /\ Len(txFifo) <= TxDepth
              /\ active \in BOOLEAN
=============================================================================
