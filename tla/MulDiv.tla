------------------------------- MODULE MulDiv -------------------------------
(***************************************************************************)
(* alt_exception_muldiv.S: the multiply and divide instructions a small    *)
(* Nios II core leaves to the exception handler, one bit of the operands   *)
(* at a time, in words of W bits.  An instruction is decoded already: op   *)
(* is its OP and OPX fields together, a, b and c its register fields, imm  *)
(* its sign-extended IMM16 field.  The registers the handler's own text    *)
(* excludes (et, sp, ea, ba, bt) are not in Regs.                          *)
(***************************************************************************)
EXTENDS Integers

CONSTANTS W,     \* the bits of a word, 32
          Regs   \* the registers an instruction can name, r0 among them

ASSUME MulDivAssumption == W \in Nat \ {0} /\ 0 \in Regs

Word == 0 .. (2^W - 1)

Divides == {"div", "divu"}
Multiplies == {"mul", "mulxuu", "mulxsu", "mulxss"}

\* The instructions the handler recognises; any other is .Lnot_muldiv.
Emulable == Divides \cup Multiplies \cup {"muli"}

\* The word's sign bit, which bge and cmplt test, and arithmetic that wraps.
Msb(x) == IF x >= 2^(W - 1) THEN 1 ELSE 0
Wrapped(x) == x % 2^W
Negated(x) == Wrapped(-x)
Magnitude(x) == IF Msb(x) = 1 THEN Negated(x) ELSE x
-----------------------------------------------------------------------------
(* The loops: each makes W passes. *)

\* (remainder:dividend:quotient) <<= 1, then subtract the divisor if it fits.
DivisionPass(s, d) ==
  LET rem == Wrapped(2 * s.rem + Msb(s.quo))
      quo == Wrapped(2 * s.quo)
  IN IF rem < d THEN [rem |-> rem, quo |-> quo]
                ELSE [rem |-> rem - d, quo |-> quo + 1]

Quotient(x, d) ==
  LET after[k \in 0 .. W] == IF k = 0 THEN [rem |-> 0, quo |-> x]
                                      ELSE DivisionPass(after[k - 1], d)
  IN after[W].quo

\* .Ldivide: div works on magnitudes and puts the sign back.
Division(op, x, y) ==
  IF op = "div"
    THEN LET q == Quotient(Magnitude(x), Magnitude(y))
         IN IF Msb(x) # Msb(y) THEN Negated(q) ELSE q
    ELSE Quotient(x, y)

\* The multiplier's bits add the multiplicand x to the lower product from the
\* left and to the upper product, whose carry becomes its top bit, from the right.
ProductPass(s, x) ==
  LET high == Wrapped(s.high + (s.right % 2) * x)
      carry == IF s.right % 2 = 1 /\ high < x THEN 2^(W - 1) ELSE 0
  IN [low |-> Wrapped(2 * s.low + Msb(s.left) * x), high |-> high \div 2 + carry,
      left |-> Wrapped(2 * s.left), right |-> s.right \div 2]

Products(x, y) ==
  LET after[k \in 0 .. W] ==
        IF k = 0 THEN [low |-> 0, high |-> 0, left |-> y, right |-> y]
                 ELSE ProductPass(after[k - 1], x)
  IN after[W]

\* mulxsu = mulxuu - ((rA < 0) ? rB : 0), mulxss = mulxsu - ((rB < 0) ? rA : 0)
Product(op, x, y) ==
  LET p == Products(x, y)
      signedA == IF op \in {"mulxsu", "mulxss"} THEN Msb(x) * y ELSE 0
      signedB == IF op = "mulxss" THEN Msb(y) * x ELSE 0
  IN IF op = "mul" THEN p.low ELSE Wrapped(p.high - signedA - signedB)
-----------------------------------------------------------------------------
(* The instruction as a whole, on the registers saved in the frame *)

\* r0 has a slot of its own, holding zero, that is not restored.
Slot(regs, r) == IF r = 0 THEN 0 ELSE regs[r]
Stored(regs, r, value) == IF r = 0 THEN regs ELSE [regs EXCEPT ![r] = value]

\* Mutant: the destination of muli is field C.
EmulatedFieldC(regs, ins) ==
  LET x == Slot(regs, ins.a)
      y == IF ins.op = "muli" THEN Wrapped(ins.imm) ELSE Slot(regs, ins.b)
  IN Stored(regs, ins.c, IF ins.op \in Divides THEN Division(ins.op, x, y)
                         ELSE Product(IF ins.op = "muli" THEN "mul" ELSE ins.op, x, y))

\* .Lmul_immed: muli is a mul by IMM16 whose destination is field B.
Emulated(regs, ins) ==
  IF ins.op = "muli"
    THEN Stored(regs, ins.b, Product("mul", Slot(regs, ins.a), Wrapped(ins.imm)))
    ELSE LET x == Slot(regs, ins.a)
             y == Slot(regs, ins.b)
         IN Stored(regs, ins.c, IF ins.op \in Divides THEN Division(ins.op, x, y)
                                                      ELSE Product(ins.op, x, y))
=============================================================================
