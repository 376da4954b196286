------------------------------ MODULE LossyLog ------------------------------
(***************************************************************************)
(* What the logger promises the reader of the terminal when one context    *)
(* drains it: bytes come out in the order their lines were queued, none    *)
(* twice, and what is missing was discarded by a line that did not fit:    *)
(* the oldest queued lines, whole, and no more of them than it needed.     *)
(***************************************************************************)
EXTENDS Naturals, Sequences

CONSTANTS Capacity,  \* bytes that can be queued
          InFlight   \* bytes that can be on their way from queue to terminal

VARIABLES backlog,   \* bytes accepted and not yet on the terminal, oldest first
          accepted,  \* lines accepted so far
          out        \* the bytes on the terminal

logVars == <<backlog, accepted, out>>

LogInit == backlog = << >> /\ accepted = 0 /\ out = << >>

\* The queue without its first d bytes; the first f of the backlog are out of it.
Without(f, d) == SubSeq(backlog, 1, f) \o SubSeq(backlog, f + d + 1, Len(backlog))

\* Whether dropping d queued bytes drops whole lines.
WholeLines(f, d) == d = 0 \/ f + d = Len(backlog) \/ backlog[f + d].nl

\* Line number accepted + 1, cut at its front to what the queue can hold.
IsLine(new) == /\ new # << >>
               /\ Len(new) <= Capacity
               /\ \A i \in 1 .. Len(new) : /\ new[i].line = accepted + 1
                                           /\ new[i].pos = i

Accept == \E f \in 0 .. InFlight, d \in 0 .. Capacity :
             LET kept == Without(f, d)
                 new == SubSeq(backlog', Len(kept) + 1, Len(backlog'))
                 overflows(e) == Len(backlog) - f - e + Len(new) > Capacity
             IN /\ f + d <= Len(backlog)
                /\ WholeLines(f, d)
                /\ backlog' = kept \o new
                /\ IsLine(new)
                /\ ~overflows(d)
                /\ \A e \in 0 .. (d - 1) : WholeLines(f, e) => overflows(e)
                /\ accepted' = accepted + 1
                /\ UNCHANGED out

Show == /\ backlog # << >>
        /\ out' = Append(out, Head(backlog))
        /\ backlog' = Tail(backlog)
        /\ UNCHANGED accepted

LogNext == Accept \/ Show

LogSpec == LogInit /\ [][LogNext]_logVars
=============================================================================
