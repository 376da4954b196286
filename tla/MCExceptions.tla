---------------------------- MODULE MCExceptions ----------------------------
(***************************************************************************)
(* Exceptions for TLC.  In the arithmetic setups every operation meets     *)
(* every pair of words and one interrupt; in the others a few instructions *)
(* meet handlers that nest, change the registry or need emulation.         *)
(***************************************************************************)
EXTENDS Exceptions

MCW == 3
MCRegs == 0 .. 3
MCIrqs == 0 .. 2

Ins(op, c) == [op |-> op, a |-> 1, b |-> 2, c |-> c, imm |-> 0, cause |-> "none"]
Muli(imm) == [Ins("muli", 3) EXCEPT !.imm = imm]
Load(cause) == [Ins("load", 1) EXCEPT !.imm = 5, !.cause = cause]
Ctl(op, i) == [op |-> op, irq |-> i]
Api(on) == [op |-> "api", on |-> on]
Open == [op |-> "open"]

Files == {[r \in 1 .. 3 |-> IF r = 1 THEN x ELSE IF r = 2 THEN y ELSE 0] : x, y \in 0 .. 7}
AFile == {[r \in 1 .. 3 |-> r]}
Idle == [i \in MCIrqs |-> {Nothing}]

Setup(program, rs, devices, work, requests, emulates, hasApi) ==
  [program |-> program, regs |-> rs, devices |-> devices, work |-> work,
   quota |-> requests, emulates |-> emulates, api |-> hasApi]

Arithmetic == {Setup(<<ins>>, Files, {1}, Idle, [i \in MCIrqs |-> IF i = 1 THEN 1 ELSE 0],
                     TRUE, FALSE) :
               ins \in {Ins(op, 3) : op \in Emulable \ {"muli"}}
                         \cup {Muli(imm) : imm \in -4 .. 3}
                         \cup {Ins("mul", 0), Ins("div", 1)}}

\* Three handlers that nest, need emulation and are interrupted again.
Nesting == {Setup(<<Ins("mul", 1), Load("none")>>, AFile, MCIrqs,
                  [i \in MCIrqs |-> {Nothing, Open, Ins("mul", 3)}],
                  [i \in MCIrqs |-> 1], TRUE, FALSE)}

\* Handlers and main() change the registry at the same time.
Changing == {Setup(<<call, Ctl("register", 2)>>, AFile, {0, 1},
                   [i \in MCIrqs |-> IF i = 0 THEN {Ctl("disable", 1), Ctl("unregister", 1),
                                                    Ctl("quiet", 1)}
                                     ELSE {Nothing, Ctl("enable", 0)}],
                   [i \in MCIrqs |-> 1], TRUE, FALSE) :
             call \in {Ctl("quiet", 0), Ctl("unregister", 1), Ctl("disable", 0)}}

\* Instruction-related exceptions, with the API and without, the latter also without
\* emulation.
Faulty == {Setup(<<Api(on), Load("misaligned data addr"), Load("illegal inst"),
                   Load("tlb write perm violation")>>,
                 AFile, {0}, Idle, [i \in MCIrqs |-> 1], TRUE, TRUE) : on \in BOOLEAN}
  \cup {Setup(<<Load("illegal inst"), Load("misaligned data addr"), Ins("trap", 1),
                Ins("div", 3)>>,
              AFile, {0}, Idle, [i \in MCIrqs |-> 1], e, FALSE) : e \in BOOLEAN}

\* The API in place of emulation, as the BSP is configured (system.h:343), for
\* main() and for a handler.
Unemulated == {Setup(<<Api(on), Ins("mul", 3), Load("misaligned data addr"), Ins("div", 3)>>,
                     AFile, {0}, [i \in MCIrqs |-> {Nothing, Ins("mul", 3)}],
                     [i \in MCIrqs |-> 1], FALSE, TRUE) : on \in BOOLEAN}

MCSetups == Arithmetic \cup Nesting \cup Changing \cup Faulty \cup Unemulated
=============================================================================
