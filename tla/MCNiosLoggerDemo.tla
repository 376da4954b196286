-------------------------- MODULE MCNiosLoggerDemo --------------------------
(***************************************************************************)
(* NiosLoggerDemo with the lengths of the code: the ring, the buffers, the *)
(* chunk and the demo's own messages, with a timestamp of one digit.       *)
(***************************************************************************)
EXTENDS NiosLoggerDemo

Text(len, l) == [len |-> len, level |-> l, breaks |-> {}]

\* "[INFO] EquiniosLogger demo started", "[INFO] Logger flush is called ..."
MCHello == <<Text(34, 3), Text(44, 3)>>
MCHeartbeat == Text(24, 4)
MCWarning == Text(31, 2)
MCError == Text(27, 1)
MCReport == Text(47, 2)
MCMessages == {MCHello[1], MCHello[2], MCHeartbeat, MCWarning, MCError, MCReport}

MCLevels == 0 .. 5
MCEveryArgs == {1}
MCMain == {"main"}
=============================================================================
