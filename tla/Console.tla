------------------------------ MODULE Console -------------------------------
(***************************************************************************)
(* Printing below the C library: alt_printf, the printf of alt_log and the *)
(* boot messages.  Each of them formats as it goes and polls the UART for  *)
(* room before every character; alt_log also prints from interrupt         *)
(* handlers, between any two accesses of the program.                      *)
(***************************************************************************)
EXTENDS Integers, Sequences, Directives
LOCAL INSTANCE SequencesExt

CONSTANTS W,              \* bits of a long
          ALT_LOG_FLAGS,  \* the levels of logging the program is built with
          AltPrints, LogPrints,  \* calls of alt_printf and of ALT_LOG_PRINTF
          Puts,           \* strings of alt_putstr and of the boot code
          Writes,         \* what write() is given, for its echo
          EchoLen,        \* ALT_LOG_WRITE_ECHO_LEN
          Interval,       \* ALT_LOG_SYS_CLK_INTERVAL
          IsrLine,        \* length of what a handler prints
          Bursts          \* bound: interrupts that print during one call

VARIABLES level,    \* ALT_LOG_FLAGS of this build
          routine,  \* the call under way, "none" without one
          fmt, args,\* what is left of its arguments
          state,    \* of the format: "chars", "first" or "other"
          spec,     \* the fmt... variables of the directive being read
          out,      \* characters the directive still prints
          ready,    \* the last look at WSPACE saw room
          isr,      \* characters a handler still prints
          isrReady,
          clock,    \* alt_log_sys_clk_count
          room,     \* WSPACE is not 0: one slot of the FIFO is left to play with
          asked,    \* what the call is to print, by the meaning of its format
          printed,  \* what it has written to DATA
          lost,     \* how many of these the full FIFO dropped
          bursts    \* interrupts that printed during it

call == <<routine, fmt, args, state, spec, asked>>
format == <<fmt, args, state, spec>>
device == <<ready, isr, isrReady, room, printed, lost, bursts>>
vars == <<level, call, out, clock, device>>

Lower == <<"0", "1", "2", "3", "4", "5", "6", "7", "8", "9", "a", "b", "c", "d", "e", "f">>
Upper == <<"0", "1", "2", "3", "4", "5", "6", "7", "8", "9", "A", "B", "C", "D", "E", "F">>
Figure(d, upper) == (IF upper THEN Upper ELSE Lower)[d + 1]
IsDigit(c) == \E d \in 0 .. 9 : Lower[d + 1] = c
DigitOf(c) == CHOOSE d \in 0 .. 9 : Lower[d + 1] = c

Repeat(c, n) == [i \in 1 .. n |-> c]
-----------------------------------------------------------------------------
(* What a format means.  A call's format is a sequence of directives.      *)

ValueIn(b, s) == FoldLeft(LAMBDA v, d : v * b + d, 0, s)

\* The shortest digits that have the value v in base b.
Numeral(v, b) == CHOOSE s \in UNION {[1 .. k -> 0 .. b - 1] : k \in 1 .. 3} :
                     /\ ValueIn(b, s) = v
                     /\ Len(s) = 1 \/ s[1] # 0

Figures(v, b, upper) == LET s == Numeral(v, b) IN [i \in DOMAIN s |-> Figure(s[i], upper)]

BaseOf(letter) == CASE letter \in {"x", "X"} -> 16 [] letter = "o" -> 8 [] OTHER -> 10

Meaning(d) ==
    CASE d.do = "text" -> <<d.char>>
      [] d.do = "percent" -> <<"%">>
      [] d.do = "char" -> Repeat(" ", d.width - 1) \o <<d.char>>
      [] d.do = "str" -> Repeat(" ", d.width - Len(d.str)) \o d.str
      [] d.do = "num" ->
            LET negative == d.letter \in {"d", "i"} /\ d.v >= 2^(W - 1)
                minus == IF negative THEN <<"-">> ELSE <<>>
                digits == Figures(IF negative THEN 2^W - d.v ELSE d.v,
                                  BaseOf(d.letter), d.letter = "X")
                rest == d.width - Len(minus) - Len(digits)
            IN IF d.zero THEN minus \o Repeat("0", rest) \o digits
                         ELSE Repeat(" ", rest) \o minus \o digits

\* How it is written in a format, and the arguments that go with it
Minimum(n) == IF n = 0 THEN <<>> ELSE Figures(n, 10, FALSE)

Spelling(d) ==
    CASE d.do = "text" -> <<d.char>>
      [] d.do = "percent" -> <<"%", "%">>
      [] d.do = "char" -> <<"%">> \o Minimum(d.width) \o <<"c">>
      [] d.do = "str" -> <<"%">> \o Minimum(d.width) \o <<"s">>
      [] d.do = "num" -> <<"%">> \o (IF d.zero THEN <<"0">> ELSE <<>>) \o Minimum(d.width)
                         \o d.mods \o <<d.letter>>

\* An argument is a number or characters.
Argument(d) == CASE d.do = "char" -> <<[v |-> 0, str |-> <<d.char>>]>>
                 [] d.do = "str" -> <<[v |-> 0, str |-> d.str]>>
                 [] d.do = "num" -> <<[v |-> d.v, str |-> <<>>]>>
                 [] OTHER -> <<>>

Each(Of(_), directives) == FlattenSeq([i \in DOMAIN directives |-> Of(directives[i])])
-----------------------------------------------------------------------------
(* The flags *)

\* What each level of ALT_LOG_FLAGS turns on
Flags(n) == CASE n = -1 -> {}
              [] n = 1 -> {"boot", "sys_clk", "startup_info"}
              [] n = 2 -> {"boot", "sys_clk", "startup_info", "write", "jtag_alarm"}
              [] n = 3 -> {"boot", "sys_clk", "startup_info", "write", "jtag_alarm", "jtag_isr"}
              [] OTHER -> {"boot"}

On(flag) == flag \in Flags(level)

Fresh == [zero |-> FALSE, signed |-> TRUE, base |-> 10, upper |-> FALSE,
          before |-> -1, after |-> -1]

Init == /\ level \in ALT_LOG_FLAGS
        /\ routine = "none" /\ fmt = <<>> /\ args = <<>> /\ state = "chars"
        /\ spec = Fresh
        /\ out = <<>> /\ ready = FALSE /\ isr = <<>> /\ isrReady = FALSE
        /\ clock = 0 /\ room = TRUE
        /\ asked = <<>> /\ printed = <<>> /\ lost = 0 /\ bursts = 0
-----------------------------------------------------------------------------
(* The calls *)

Begin(name, directives) ==
    /\ routine = "none"
    /\ routine' = name
    /\ fmt' = Each(Spelling, directives) /\ args' = Each(Argument, directives)
    /\ asked' = Each(Meaning, directives)
    /\ printed' = <<>> /\ lost' = 0 /\ bursts' = 0
    /\ UNCHANGED <<level, state, spec, out, clock, ready, isr, isrReady, room>>

AltPrintf(p) == Begin("alt_printf", p)
LogPrintf(p) == Begin("alt_log", p)

PutAll(name, s) == /\ routine = "none"
                 /\ routine' = name
                 /\ out' = s /\ asked' = s
                 /\ printed' = <<>> /\ lost' = 0 /\ bursts' = 0
                 /\ UNCHANGED <<level, format, clock, ready, isr, isrReady, room>>

\* alt_putstr, and ALT_LOG_PUTS with tx_log_str in the boot code
PutStr(s) == PutAll("alt_putstr", s)
BootMessage(s) == On("boot") /\ PutAll("tx_log_str", s)

\* The JTAG UART's CONTROL register in words, here its WSPACE and its AC
StartupInfo(space, ac) ==
    /\ On("startup_info")
    /\ Begin("alt_log", <<Str(0, <<"J">>), Verbatim(" "), Num("d", FALSE, 0, <<>>, space),
                          Num("d", FALSE, 0, <<>>, ac)>>)

Shorter(s) == IF Len(s) < EchoLen THEN Len(s) ELSE EchoLen

\* alt_log_write_buf: the last character gives way to the end of the line.
Echoed(s) == [i \in 1 .. Shorter(s) - 1 |-> IF s[i] = "^D" THEN "D" ELSE s[i]] \o <<"\n", "\r">>

WriteEcho(s) == /\ On("write") /\ Shorter(s) >= 2
                /\ Begin("alt_log", <<Verbatim("E"), Str(0, Echoed(s))>>)
-----------------------------------------------------------------------------
(* alt_printf *)

Formatting(name) == routine = name /\ out = <<>> /\ fmt # <<>> /\ isr = <<>>

\* The digits of v from the highest that is not 0 down, four bits at a time
HexDigits(v) == LET top[shift \in 0 .. W] ==
                        IF (v \div 2^shift) % 16 # 0 THEN shift ELSE top[shift - 4]
                    from[shift \in -4 .. W] ==
                        IF shift < 0 THEN <<>>
                        ELSE <<Figure((v \div 2^shift) % 16, FALSE)>> \o from[shift - 4]
                IN IF v = 0 THEN <<"0">> ELSE from[top[W - 4]]

AltChar == /\ Formatting("alt_printf")
           /\ Head(fmt) # "%"
           /\ out' = <<Head(fmt)>>
           /\ fmt' = Tail(fmt)
           /\ UNCHANGED <<level, routine, args, state, spec, asked, clock, device>>

\* The character after a "%", with the argument it takes
AltDirective ==
    /\ Formatting("alt_printf")
    /\ Head(fmt) = "%"
    /\ LET c == Head(Tail(fmt))
       IN /\ out' = CASE c = "%" -> <<c>>
                      [] c = "c" -> Head(args).str
                      [] c = "x" -> HexDigits(Head(args).v)
                      [] c = "s" -> Head(args).str
          /\ args' = IF c = "%" THEN args ELSE Tail(args)
    /\ fmt' = Tail(Tail(fmt))
    /\ UNCHANGED <<level, routine, state, spec, asked, clock, device>>
-----------------------------------------------------------------------------
(* alt_log_private_printf *)

\* The biggest power of b in v, and its number of digits
Power(v, b) == LET p[s \in 0 .. v] == IF s \div b = 0 THEN 1 ELSE b * p[s \div b] IN p[v]
DigitCount(v, b) == LET n[s \in 0 .. v] == IF s \div b = 0 THEN 1 ELSE 1 + n[s \div b] IN n[v]

\* Mutant: the sign is not counted in the width.
IntegerSignFree(f, w) ==
    LET sign == f.signed /\ w >= 2^(W - 1)
        v == IF sign THEN 2^W - w ELSE w
        minus == IF sign THEN <<"-">> ELSE <<>>
        pad == f.before - DigitCount(v, f.base)
        digits[r \in 0 .. v, p \in 0 .. v + 1] ==
            IF p = 0 THEN <<>>
            ELSE <<Figure(r \div p, f.upper)>> \o digits[r % p, p \div f.base]
    IN (IF f.zero THEN minus \o Repeat("0", pad) ELSE Repeat(" ", pad) \o minus)
       \o digits[v, Power(v, f.base)]

\* doIntegerPrint: sign and padding, then one digit for every power of the base
Integer(f, w) ==
    LET sign == f.signed /\ w >= 2^(W - 1)
        v == IF sign THEN 2^W - w ELSE w
        minus == IF sign THEN <<"-">> ELSE <<>>
        pad == f.before - DigitCount(v, f.base) - Len(minus)
        digits[r \in 0 .. v, p \in 0 .. v + 1] ==
            IF p = 0 THEN <<>>
            ELSE <<Figure(r \div p, f.upper)>> \o digits[r % p, p \div f.base]
    IN (IF f.zero THEN minus \o Repeat("0", pad) ELSE Repeat(" ", pad) \o minus)
       \o digits[v, Power(v, f.base)]

LogChar == /\ Formatting("alt_log")
           /\ state = "chars" /\ Head(fmt) # "%"
           /\ out' = <<Head(fmt)>>
           /\ fmt' = Tail(fmt)
           /\ UNCHANGED <<level, routine, args, state, spec, asked, clock, device>>

LogDirective == /\ Formatting("alt_log")
                /\ state = "chars" /\ Head(fmt) = "%"
                /\ spec' = Fresh /\ state' = "first"
                /\ fmt' = Tail(fmt)
                /\ UNCHANGED <<level, routine, args, asked, out, clock, device>>

\* "0" or "%" right after the "%"
LogFirst == /\ Formatting("alt_log")
            /\ state = "first" /\ Head(fmt) \in {"0", "%"}
            /\ \/ /\ Head(fmt) = "0"
                  /\ spec' = [spec EXCEPT !.zero = TRUE]
                  /\ state' = "other" /\ UNCHANGED out
               \/ /\ Head(fmt) = "%"
                  /\ out' = <<"%">>
                  /\ state' = "chars" /\ UNCHANGED spec
            /\ fmt' = Tail(fmt)
            /\ UNCHANGED <<level, routine, args, asked, clock, device>>

Other == Formatting("alt_log") /\ (state = "other" \/ (state = "first" /\ Head(fmt) \notin {"0", "%"}))

\* A digit of the width or, after the point, of the precision, which nothing uses
Counted(n, c) == (IF n < 0 THEN 0 ELSE n * 10) + DigitOf(c)

LogModifier ==
    /\ Other
    /\ Head(fmt) \in {".", "l"} \/ IsDigit(Head(fmt))
    /\ LET c == Head(fmt)
       IN spec' = CASE c = "." -> [spec EXCEPT !.after = 0]
                    [] c = "l" -> spec
                    [] IsDigit(c) /\ spec.after < 0 -> [spec EXCEPT !.before = Counted(@, c)]
                    [] OTHER -> [spec EXCEPT !.after = Counted(@, c)]
    /\ state' = "other"
    /\ fmt' = Tail(fmt)
    /\ UNCHANGED <<level, routine, args, asked, out, clock, device>>

\* The letter that tells the type
Typed(letter) == [spec EXCEPT !.signed = letter \in {"d", "i"},
                              !.base = BaseOf(letter),
                              !.upper = letter = "X"]

LogConversion ==
    /\ Other
    /\ Head(fmt) \in {"d", "i", "u", "o", "x", "X", "c", "s"}
    /\ LET c == Head(fmt)
       IN out' = CASE c = "c" -> Repeat(" ", spec.before - 1) \o Head(args).str
                   [] c = "s" -> Repeat(" ", spec.before - Len(Head(args).str)) \o Head(args).str
                   [] OTHER -> Integer(Typed(c), Head(args).v)
    /\ args' = Tail(args)
    /\ state' = "chars"
    /\ fmt' = Tail(fmt)
    /\ UNCHANGED <<level, routine, spec, asked, clock, device>>
-----------------------------------------------------------------------------
(* One character: alt_log_txchar, alt_putchar through the polling driver *)

SeeRoom == /\ out # <<>> /\ ~ready /\ isr = <<>>
           /\ room
           /\ ready' = TRUE
           /\ UNCHANGED <<level, call, out, clock, isr, isrReady, room, printed, lost, bursts>>

\* The core drops what is written to a full FIFO.
Put == /\ ready /\ isr = <<>>
       /\ printed' = Append(printed, Head(out))
       /\ lost' = IF room THEN lost ELSE lost + 1
       /\ room' \in {r \in BOOLEAN : r => room}
       /\ out' = Tail(out) /\ ready' = FALSE
       /\ UNCHANGED <<level, call, clock, isr, isrReady, bursts>>

Return == /\ routine # "none" /\ fmt = <<>> /\ out = <<>> /\ isr = <<>>
          /\ routine' = "none" /\ spec' = Fresh /\ asked' = <<>>
          /\ UNCHANGED <<level, fmt, args, state, out, clock, device>>
-----------------------------------------------------------------------------
(* Interrupt handlers that print during a call; outside one they meet      *)
(* nobody and are left out.                                                *)

Burst == /\ routine # "none" /\ isr = <<>> /\ bursts < Bursts
         /\ isr' = Repeat("i", IsrLine)
         /\ bursts' = bursts + 1
         /\ UNCHANGED <<level, call, out, ready, isrReady, room, printed, lost>>

\* The JTAG UART's handler and its alarm
Isr == On("jtag_isr") /\ Burst /\ UNCHANGED clock
Report == On("jtag_alarm") /\ Burst /\ UNCHANGED clock

\* The handler of the system clock: every so many ticks
SystemClock == /\ On("sys_clk")
               /\ \/ clock + 1 > Interval /\ clock' = 0 /\ Burst
                  \/ /\ clock + 1 <= Interval /\ clock' = clock + 1
                     /\ routine # "none" /\ isr = <<>>
                     /\ UNCHANGED <<level, call, out, device>>

IsrSeeRoom == /\ isr # <<>> /\ ~isrReady
              /\ room
              /\ isrReady' = TRUE
              /\ UNCHANGED <<level, call, out, clock, ready, isr, room, printed, lost, bursts>>

IsrPut == /\ isrReady
          /\ room' \in {r \in BOOLEAN : r => room}
          /\ isr' = Tail(isr) /\ isrReady' = FALSE
          /\ UNCHANGED <<level, call, out, clock, ready, printed, lost, bursts>>

\* The host empties the FIFO.
HostTake == /\ ~room
            /\ room' = TRUE
            /\ UNCHANGED <<level, call, out, clock, ready, isr, isrReady, printed, lost, bursts>>

Main == \/ AltChar \/ AltDirective \/ LogChar \/ LogDirective \/ LogFirst \/ LogModifier
        \/ LogConversion \/ SeeRoom \/ Put \/ Return
Handler == IsrSeeRoom \/ IsrPut

Next == \/ \E p \in AltPrints : AltPrintf(p)
        \/ \E p \in LogPrints : LogPrintf(p)
        \/ \E s \in Puts : PutStr(s) \/ BootMessage(s)
        \/ \E space \in 0 .. 1, ac \in 0 .. 1 : StartupInfo(space, ac)
        \/ \E s \in Writes : WriteEcho(s)
        \/ Main \/ Handler \/ HostTake
        \/ Isr \/ Report \/ SystemClock
-----------------------------------------------------------------------------
ConsoleTypeOK == /\ level \in ALT_LOG_FLAGS
                 /\ routine \in {"none", "alt_printf", "alt_log", "alt_putstr", "tx_log_str"}
                 /\ state \in {"chars", "first", "other"}
                 /\ spec.base \in {8, 10, 16} /\ spec.before \in Nat \cup {-1}
                 /\ ready \in BOOLEAN /\ isrReady \in BOOLEAN /\ room \in BOOLEAN
                 /\ clock \in 0 .. Interval
                 /\ lost \in 0 .. Len(printed) /\ bursts \in 0 .. Bursts

\* What a call writes is what its format means, digit by digit and padded to its
\* width (alt_log_printf.c:238-297, alt_printf.c:84-113), and of this the device
\* drops no more than one character for every interrupt that printed in between:
\* the one whose room the handler took (alt_log_printf.c:98-101).  A character
\* of the handler is never dropped, and Ctrl-D never echoed (455-459).
PrintStep == /\ (routine # "none" /\ routine' = "none") => printed = asked /\ lost <= bursts
             /\ IsrPut => room
             /\ (routine = "alt_log" /\ printed' # printed) => printed'[Len(printed')] # "^D"
=============================================================================
