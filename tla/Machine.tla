------------------------------ MODULE Machine ------------------------------
(***************************************************************************)
(* What main() may believe it runs on: a processor that has every multiply *)
(* and divide instruction and no interrupts.  An instruction takes effect  *)
(* once, in program order; one that the exception handler cannot repair    *)
(* has no effect.                                                          *)
(***************************************************************************)
EXTENDS Integers, Sequences

CONSTANTS W, Regs,
          Repairable(_)  \* the faults whose cause the handler can remove

VARIABLES program,  \* the instructions main() executes
          at,       \* the one it executes next
          regs      \* its registers

Span == 2^W

Value(x) == IF x >= 2^(W - 1) THEN x - Span ELSE x
Read(r) == IF r = 0 THEN 0 ELSE regs[r]
Signum(x) == IF x < 0 THEN -1 ELSE 1
Truncated(x, y) == Signum(x) * Signum(y) * ((Signum(x) * x) \div (Signum(y) * y))

\* The results the instruction set allows: a division by zero and a quotient
\* too large for a word leave the destination undefined.
Results(ins) ==
  LET x == Read(ins.a)
      y == IF ins.op = "muli" THEN ins.imm ELSE Read(ins.b)
      any == 0 .. (Span - 1)
  IN CASE ins.op = "divu" -> IF y = 0 THEN any ELSE {x \div y}
       [] ins.op = "div" ->
            IF y = 0 \/ (Value(x) = -(Span \div 2) /\ Value(y) = -1) THEN any
            ELSE {Truncated(Value(x), Value(y)) % Span}
       [] ins.op \in {"mul", "muli"} -> {(x * y) % Span}
       [] ins.op = "mulxuu" -> {(x * y) \div Span}
       [] ins.op = "mulxsu" -> {((Value(x) * y) \div Span) % Span}
       [] ins.op = "mulxss" -> {((Value(x) * Value(y)) \div Span) % Span}
       [] ins.op = "load" /\ (ins.cause = "none" \/ Repairable(ins.cause)) -> {ins.imm}
       [] OTHER -> {}

Target(ins) == IF ins.op = "muli" THEN ins.b ELSE ins.c

Init == at = 1 /\ regs \in [Regs \ {0} -> 0 .. (Span - 1)]

\* One instruction: a result if it has one, nothing in the registers otherwise.
Step == LET ins == program[at]
        IN /\ at <= Len(program)
           /\ at' = at + 1
           /\ \/ /\ Results(ins) = {} \/ Target(ins) = 0
                 /\ regs' = regs
              \/ \E v \in Results(ins) :
                    Target(ins) # 0 /\ regs' = [regs EXCEPT ![Target(ins)] = v]
           /\ UNCHANGED program

vars == <<program, at, regs>>

Spec == Init /\ [][Step]_vars
=============================================================================
