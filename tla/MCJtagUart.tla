----------------------------- MODULE MCJtagUart -----------------------------
(***************************************************************************)
(* JtagUart for TLC: rings of one and of two bytes (one slot stays empty), *)
(* hardware FIFOs of one, transfers that wrap, overrun the ring and come   *)
(* in pieces.                                                              *)
(***************************************************************************)
EXTENDS JtagUart

MCBytes == {0, 1}
MCOneByte == {0}

MCSpaces == {1, 3}
MCSpace == {2}
MCMessage == {<<1, 0, 1>>}
MCLong == {<<0, 0, 0>>}

\* 1 is refused and means the longest.
MCTimeouts == {1, 2}
MCNone == {}
=============================================================================
