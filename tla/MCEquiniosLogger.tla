-------------------------- MODULE MCEquiniosLogger --------------------------
(***************************************************************************)
(* EquiniosLogger for TLC.  The lengths keep the order they have in the    *)
(* code: a chunk is shorter than the ring, the ring is shorter than a line *)
(* (32 < 128 < 259); MCLogger has the message that overruns both buffers.  *)
(***************************************************************************)
EXTENDS EquiniosLogger

MCSize == 5
MCMsgMax == 6
MCLineMax == 7
MCPrefix == 1
MCEnding == 1
MCChunk == 2
MCEvery == 2
MCLevels == {0, 1}
MCInfo == 1
MCEveryArgs == {0, 3}

Message(len, level1, breaks) == [len |-> len, level |-> level1, breaks |-> breaks]

\* Lines of 2, 3 and 5 bytes, the last one as long as the ring.
MCMessages == {Message(0, 0, {}), Message(1, 1, {}), Message(3, 1, {})}

MCBoth == {"main", "isr"}
MCMain == {"main"}
MCIsr == {"isr"}
=============================================================================
