----------------------------- MODULE MCPrograms -----------------------------
(***************************************************************************)
(* Small instances of the programs and services for TLC.                   *)
(*                                                                         *)
(* The light has a millisecond of two microseconds, waits of two such      *)
(* milliseconds and up to two iterations for each.  The UART has messages  *)
(* longer than its FIFO and shorter, the printer longs of eight bits, the  *)
(* profiler slabs of two entries and a histogram of one halfword, after    *)
(* which the heap's end lies between two words, the busy sleep an int of   *)
(* five bits and a rest of one turn in every big loop.                     *)
(***************************************************************************)
EXTENDS Programs, Directives

MCMessages == {<<1, 2, 2>>, <<2>>}

Numbers == {<<Num(letter, zero, width, <<>>, v)>> :
               letter \in {"d", "u", "o", "X"}, zero \in BOOLEAN, width \in {0, 4},
               v \in {0, 10, 128, 255}}

Mixed == {<<Num("x", TRUE, 4, <<>>, 255), Verbatim("-"),
            Num("d", FALSE, 0, <<"l">>, 5)>>,
          <<Percent, Char(3, "c"), Str(4, <<"s">>),
            Num("i", FALSE, 12, <<".", "2">>, 3)>>}

MCLogPrints == Numbers \cup Mixed

MCAltPrints == {<<Verbatim("a"), Num("x", FALSE, 0, <<>>, v)>> :
                   v \in {0, 9, 10, 16, 255}}
               \cup {<<Percent, Char(0, "c"), Str(0, <<"s", "t">>)>>}

MCLevels == {-1, 0, 3}
MCPuts == {<<"b", "o">>}
MCWrites == {<<"a">>, <<"^D", "b">>, <<"a", "^D", "b", "c">>, <<"a", "b", "^D">>}

MCHandlerArcs == {[self |-> "f", from |-> "m"]}
MCArcs == MCHandlerArcs \cup {[self |-> "f", from |-> "n"]}

\* Two transmit channels of one name, a device without one, and a flash device
\* that can fail to open
Device(class, name, depth, fails) ==
  [kind |-> class, name |-> name, depth |-> depth, fails |-> fails]

MCDevices == {Device("rx", "dma", 1, FALSE), Device("tx", "dma", 1, FALSE),
              Device("tx", "dma", 2, FALSE), Device("rx", "none", 1, FALSE),
              Device("flash", "rom", 0, TRUE)}
MCNull == [kind |-> "none"]
=============================================================================
