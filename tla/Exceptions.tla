----------------------------- MODULE Exceptions -----------------------------
(***************************************************************************)
(* The processor under the HAL: alt_exception_entry.S and the code linked  *)
(* into it (the interrupt test, instruction emulation, the trap and the    *)
(* instruction exception API), alt_irq_handler(), the registry of handlers *)
(* and the calls that mask, enable and disable interrupts.                 *)
(*                                                                         *)
(* One thing runs at a time: main(), a handler, a masked call of either,   *)
(* or the exception code.  `pc' says which; what it interrupted is in      *)
(* `frames', the 76 bytes each exception pushes on the stack.  Interrupts  *)
(* are level sensitive; a request goes away only when the running code     *)
(* tells the device so.                                                    *)
(***************************************************************************)
EXTENDS MulDiv, Sequences, FiniteSets

CONSTANTS Irqs,      \* the interrupt numbers of the controller, a set of naturals
          Setups     \* the programs, with what is configured and connected

VARIABLES setup,     \* the program and the configuration it runs under
          pos,       \* the instruction main() executes next
          pc,        \* what runs
          frames,    \* the exception frames, the newest last
          regs,      \* the registers of what runs
          pie,       \* status.PIE
          ienable,   \* the ienable register
          request,   \* the devices' interrupt lines
          handler,   \* alt_irq[]: the numbers that have a handler
          active,    \* alt_irq_active
          mask,      \* alt_priority_mask
          api,       \* alt_instruction_exception_handler is not NULL
          repaired,  \* that handler has mapped the address main() could not reach
          quota      \* requests the devices still make, a bound

cpu == <<pos, pc, frames, regs, pie>>
controller == <<ienable, request, handler, active, mask>>
vars == <<setup, cpu, controller, api, repaired, quota>>

\* An interrupt is pending while it is requested and enabled.
Pending == ienable \cap request

At(place) == [at |-> place]
Main == At("main")
Nothing == [op |-> "none"]

Handler(i, todo) == [at |-> "isr", irq |-> i, todo |-> todo, acked |-> FALSE,
                     open |-> FALSE, old |-> {}]

\* The registers after C code used them.
Scratch == [r \in Regs \ {0} |-> 0]

\* alt_irq_vars.c, and the state main() starts in: interrupts on, the drivers'
\* handlers registered.
Init == /\ setup \in Setups
        /\ pos = 1 /\ pc = Main /\ frames = << >>
        /\ regs \in setup.regs
        /\ pie = TRUE
        /\ ienable = setup.devices /\ active = setup.devices
        /\ handler = setup.devices
        /\ mask = Irqs
        /\ request = {}
        /\ api = FALSE /\ repaired = FALSE
        /\ quota = setup.quota
-----------------------------------------------------------------------------
(* Instructions *)

\* The instruction some code is at: main()'s, or what a handler still has to do.
Instruction(code) == IF code.at = "main"
  THEN IF pos > Len(setup.program) THEN Nothing ELSE setup.program[pos]
  ELSE IF code.at = "isr" THEN code.todo ELSE Nothing

\* alt_exception_cause_generated_bad_addr()
GeneratedBadAddr(cause) == cause \in
  {"supervisor only data addr", "misaligned data addr", "misaligned target pc",
   "tlb read perm violation", "tlb write perm violation", "mpu data region violation",
   "ecc data err"}

\* An instruction at an address that the exception API's handler can repair.
Faults(ins) == ins.op = "load" /\ ins.cause # "none"
                 /\ ~(GeneratedBadAddr(ins.cause) /\ repaired)

\* Instructions that the processor leaves to the exception handler.
Trapped(ins) == ins.op \in Emulable \cup {"trap"} \/ Faults(ins)

\* Mutant: ea, already the next instruction's address, is moved on again.
PassedTwice(code) == IF code.at = "main"
  THEN pos' = pos + 2 /\ pc' = code
  ELSE pos' = pos /\ pc' = [code EXCEPT !.todo = Nothing]

\* The instruction is behind us.
Passed(code) == IF code.at = "main"
  THEN pos' = pos + 1 /\ pc' = code
  ELSE pos' = pos /\ pc' = [code EXCEPT !.todo = Nothing]

\* An instruction with an effect on the registers of main() alone.
Execute == LET ins == Instruction(pc)
           IN /\ ins.op = "load" /\ ~Faults(ins)
              /\ regs' = Stored(regs, ins.c, ins.imm)
              /\ Passed(pc)
              /\ UNCHANGED <<setup, frames, pie, controller, api, repaired, quota>>

\* alt_instruction_exception_register(), with a handler or with NULL
RegisterApi == LET ins == Instruction(pc)
               IN /\ ins.op = "api"
                  /\ api' = ins.on
                  /\ Passed(pc)
                  /\ UNCHANGED <<setup, frames, regs, pie, controller, repaired, quota>>
-----------------------------------------------------------------------------
(* Entry and exit *)

\* alt_exception: the processor clears PIE; the registers, estatus and the
\* address of the interrupted instruction go to the frame.
Enter == /\ frames' = Append(frames, [pc |-> pc, regs |-> regs, pie |-> pie,
                                      after |-> FALSE])
         /\ pie' = FALSE
         /\ pc' = At("irqtest")
         /\ UNCHANGED <<setup, pos, regs, controller, api, repaired, quota>>

Interrupt == pie /\ Pending # {} /\ Enter
Exception == Trapped(Instruction(pc)) /\ Enter

Frame == frames[Len(frames)]
Below == SubSeq(frames, 1, Len(frames) - 1)

\* What becomes of the frame: registers, and the instruction after or the same.
Reframe(saved, after) ==
  frames' = Append(Below, [pc |-> Frame.pc, regs |-> saved, pie |-> Frame.pie,
                           after |-> after])

\* .exceptions.exit: everything comes back from the frame, then eret.
Exit == /\ pc = At("exit")
        /\ frames' = Below
        /\ regs' = Frame.regs
        /\ pie' = Frame.pie
        /\ IF Frame.after THEN Passed(Frame.pc) ELSE pc' = Frame.pc /\ pos' = pos
        /\ UNCHANGED <<setup, controller, api, repaired, quota>>

Goes(place) == /\ pc' = place
               /\ UNCHANGED <<setup, pos, pie, controller, quota>>

\* .exceptions.irqtest: an interrupt if they were on and one is pending.
IrqTest == /\ pc = At("irqtest")
           /\ Goes(IF Frame.pie /\ Pending # {} THEN [at |-> "pending", first |-> TRUE]
                                                ELSE At("notirq"))
           /\ UNCHANGED <<frames, regs, api, repaired>>
-----------------------------------------------------------------------------
(* Software exceptions: Cause is the instruction at -4(ea) *)

Cause == Instruction(Frame.pc)

\* Mutant: the emulated instruction is issued again.
EmulateAgain == /\ pc = At("notirq")
                /\ setup.emulates /\ Cause.op \in Emulable
                /\ Reframe(Emulated(Frame.regs, Cause), FALSE)
                /\ Goes(At("exit"))
                /\ UNCHANGED <<regs, api, repaired>>

\* .exceptions.soft with muldiv linked in: the instruction is done, skip it.
Emulate == /\ pc = At("notirq")
           /\ setup.emulates /\ Cause.op \in Emulable
           /\ Reframe(Emulated(Frame.regs, Cause), TRUE)
           /\ Goes(At("exit"))
           /\ UNCHANGED <<regs, api, repaired>>

\* .Ltrap_handler breaks into the debugger, the next instruction in the frame.
Trap == /\ pc = At("notirq")
        /\ Cause.op = "trap"
        /\ Goes([at |-> "break", after |-> TRUE])
        /\ UNCHANGED <<frames, regs, api, repaired>>

\* What no code in .exceptions.soft recognises: a fault, or a multiplication or
\* division when its emulation is not linked in.
Unknown == Faults(Cause) \/ (Cause.op \in Emulable /\ ~setup.emulates)

\* .exceptions.unknown breaks, too, without the exception API ...
BreakSkip == /\ pc = At("notirq")
             /\ ~setup.api /\ Unknown
             /\ Goes([at |-> "break", after |-> TRUE])
             /\ UNCHANGED <<frames, regs, api, repaired>>

Reissue == 0
Skip == 1

\* ... and with it, the result says whether the next instruction is resumed.
After(result) == result # 0

\* alt_instruction_exception_entry() breaks when no handler is registered, to
\* return "reissue" should the debugger continue.
BreakReissue == /\ pc = At("notirq")
                /\ setup.api /\ Unknown /\ ~api
                /\ Goes([at |-> "break", after |-> After(Reissue)])
                /\ UNCHANGED <<frames, regs, api, repaired>>

Continue == /\ pc.at = "break"
            /\ Reframe(Frame.regs, pc.after)
            /\ Goes(At("exit"))
            /\ UNCHANGED <<regs, api, repaired>>

\* The cause has an address that a handler can map; an unimplemented instruction's
\* has none.
HasAddr == Cause.op = "load" /\ GeneratedBadAddr(Cause.cause)

\* A registered handler, here one that maps the address it is given and has the
\* instruction reissued, and has it skipped when there is no address.
AskHandler == /\ pc = At("notirq")
              /\ setup.api /\ Unknown /\ api
              /\ repaired' = (repaired \/ HasAddr)
              /\ Reframe(Frame.regs, After(IF HasAddr THEN Reissue ELSE Skip))
              /\ Goes(At("exit"))
              /\ UNCHANGED <<regs, api>>
-----------------------------------------------------------------------------
(* alt_irq_handler() *)

\* active = alt_irq_pending(), before the loop and after each handler: the loop
\* body runs at least once.
AltIrqPending == /\ pc.at = "pending"
                 /\ Goes(IF pc.first \/ Pending # {} THEN [at |-> "scan", active |-> Pending]
                                                     ELSE At("exit"))
                 /\ UNCHANGED <<frames, regs, api, repaired>>

\* The lowest bit of active; its handler is called.  With none set it goes on
\* for ever.
Scan == /\ pc.at = "scan"
        /\ \E i \in pc.active :
             /\ \A j \in pc.active : i <= j
             /\ \E todo \in setup.work[i] : Goes(Handler(i, todo))
        /\ regs' = Scratch
        /\ UNCHANGED <<frames, api, repaired>>
-----------------------------------------------------------------------------
(* What a handler does *)

\* It has its device drop the request.
Acknowledge == /\ pc.at = "isr" /\ ~pc.acked
               /\ request' = request \ {pc.irq}
               /\ pc' = [pc EXCEPT !.acked = TRUE]
               /\ UNCHANGED <<setup, pos, frames, regs, pie, ienable, handler, active,
                              mask, api, repaired, quota>>

\* Mutant: the handler's own interrupt stays enabled.
InterruptibleSelf == /\ pc.at = "isr" /\ pc.todo.op = "open"
                     /\ pc' = [pc EXCEPT !.todo = Nothing, !.open = TRUE, !.old = mask]
                     /\ mask' = {i \in Irqs : i <= pc.irq}
                     /\ ienable' = active \cap mask'
                     /\ pie' = TRUE
                     /\ UNCHANGED <<setup, pos, frames, regs, request, handler, active,
                                    api, repaired, quota>>

\* alt_irq_interruptible(irq): higher priorities may interrupt the handler.
Interruptible == /\ pc.at = "isr" /\ pc.todo.op = "open"
                 /\ pc' = [pc EXCEPT !.todo = Nothing, !.open = TRUE, !.old = mask]
                 /\ mask' = {i \in Irqs : i < pc.irq}
                 /\ ienable' = active \cap mask'
                 /\ pie' = TRUE
                 /\ UNCHANGED <<setup, pos, frames, regs, request, handler, active, api,
                                repaired, quota>>

\* alt_irq_non_interruptible(old)
NonInterruptible == /\ pc.at = "isr" /\ pc.open /\ pc.acked
                    /\ pie' = FALSE
                    /\ mask' = pc.old
                    /\ ienable' = pc.old \cap active
                    /\ pc' = [pc EXCEPT !.open = FALSE]
                    /\ UNCHANGED <<setup, pos, frames, regs, request, handler, active,
                                   api, repaired, quota>>

\* Mutant: alt_irq_handler() goes on with what was pending before.
ReturnStale == /\ pc.at = "isr" /\ pc.acked /\ ~pc.open /\ pc.todo = Nothing
               /\ Goes([at |-> "scan", active |-> {pc.irq}])
               /\ UNCHANGED <<frames, regs, api, repaired>>

\* It returns to alt_irq_handler().
Return == /\ pc.at = "isr" /\ pc.acked /\ ~pc.open /\ pc.todo = Nothing
          /\ Goes([at |-> "pending", first |-> FALSE])
          /\ UNCHANGED <<frames, regs, api, repaired>>
-----------------------------------------------------------------------------
(* The calls that update the controller, inside alt_irq_disable_all() and *)
(* alt_irq_enable_all(), from main() or from a handler.                   *)

Registry == {"register", "unregister"}
Calls == Registry \cup {"enable", "disable", "quiet"}

\* A handler makes no such call while it is interruptible, nor while one it
\* interrupted is: alt_irq_enable() writes ienable without alt_priority_mask.
Polite == mask = Irqs

\* Only what has a handler is enabled; the code does not refuse anything else.
Sensible(ins) == ins.op = "enable" => ins.irq \in handler

\* Mutant: the call leaves interrupts on.
DisableAllNot == /\ Instruction(pc).op \in Calls /\ Polite /\ Sensible(Instruction(pc))
                 /\ pc' = [at |-> "call", step |-> "read", ins |-> Instruction(pc),
                           context |-> pie, active |-> {}, from |-> pc]
                 /\ UNCHANGED <<setup, pos, frames, regs, pie, controller, api,
                                repaired, quota>>

\* status = alt_irq_disable_all()
DisableAll == /\ Instruction(pc).op \in Calls /\ Polite /\ Sensible(Instruction(pc))
              /\ pc' = [at |-> "call", step |-> "read", ins |-> Instruction(pc),
                        context |-> pie, active |-> {}, from |-> pc]
              /\ pie' = FALSE
              /\ UNCHANGED <<setup, pos, frames, regs, controller, api, repaired, quota>>

\* alt_irq[id].handler = isr when registering, and alt_irq_active is read.
ReadActive == /\ pc.at = "call" /\ pc.step = "read" /\ pc.ins.op # "quiet"
              /\ handler' = CASE pc.ins.op = "register" -> handler \cup {pc.ins.irq}
                              [] pc.ins.op = "unregister" -> handler \ {pc.ins.irq}
                              [] OTHER -> handler
              /\ pc' = [pc EXCEPT !.step = "write", !.active = active]
              /\ UNCHANGED <<setup, pos, frames, regs, pie, ienable, request, active, mask,
                             api, repaired, quota>>

\* alt_irq_active |= (1 << id), or &= ~(1 << id)
Chosen(ins, seen) == IF ins.op \in {"register", "enable"} THEN seen \cup {ins.irq}
                                                          ELSE seen \ {ins.irq}

WriteActive == /\ pc.at = "call" /\ pc.step = "write"
               /\ active' = Chosen(pc.ins, pc.active)
               /\ ienable' = active'
               /\ pc' = [pc EXCEPT !.step = "end"]
               /\ UNCHANGED <<setup, pos, frames, regs, pie, request, handler, mask, api,
                              repaired, quota>>

\* A driver turns its device's interrupt off in a masked section.
Quiet == /\ pc.at = "call" /\ pc.step = "read" /\ pc.ins.op = "quiet"
         /\ request' = request \ {pc.ins.irq}
         /\ quota' = [quota EXCEPT ![pc.ins.irq] = 0]
         /\ pc' = [pc EXCEPT !.step = "end"]
         /\ UNCHANGED <<setup, pos, frames, regs, pie, ienable, handler, active, mask, api,
                        repaired>>

\* alt_irq_enable_all(status)
EnableAll == /\ pc.at = "call" /\ pc.step = "end"
             /\ pie' = pc.context
             /\ Passed(pc.from)
             /\ UNCHANGED <<setup, frames, regs, controller, api, repaired, quota>>
-----------------------------------------------------------------------------
\* A device requests its interrupt.
Request(i) == /\ i \notin request /\ quota[i] > 0
              /\ request' = request \cup {i}
              /\ quota' = [quota EXCEPT ![i] = @ - 1]
              /\ UNCHANGED <<setup, cpu, ienable, handler, active, mask, api, repaired>>

Cpu == \/ Execute \/ RegisterApi
       \/ Interrupt \/ Exception \/ IrqTest \/ Exit
       \/ Emulate \/ Trap \/ BreakSkip \/ BreakReissue \/ AskHandler
       \/ AltIrqPending \/ Scan
       \/ Acknowledge \/ Interruptible \/ NonInterruptible \/ Return
       \/ DisableAll \/ ReadActive \/ WriteActive \/ Quiet \/ EnableAll

Next == Cpu \/ Continue \/ \E i \in Irqs : Request(i)

Spec == Init /\ [][Next]_vars

\* The processor executes; devices need not request, nor a debugger continue.
FairSpec == Spec /\ WF_vars(Cpu)
-----------------------------------------------------------------------------
(* Properties *)

\* What main() and the handlers execute.
Instructions ==
  LET mains(s) == {s.program[k] : k \in DOMAIN s.program}
      handlers(s) == UNION {s.work[i] : i \in Irqs}
  IN {Nothing} \cup UNION {mains(s) \cup handlers(s) : s \in Setups}

\* The registers main() can have, r0 apart.
File == [Regs \ {0} -> Word]

ASSUME ExceptionsAssumption ==
  /\ Irqs \subseteq Nat
  /\ \A s \in Setups : /\ s.devices \subseteq Irqs
                      /\ s.regs \subseteq File
                      /\ s.quota \in [Irqs -> Nat]
                      /\ Len(s.program) \in Nat
                      /\ DOMAIN s.program = 1 .. Len(s.program)
  /\ \A ins \in Instructions :
       /\ ins.op \in Calls => ins.irq \in Irqs
       /\ ins.op \in Emulable => {ins.a, ins.b, ins.c} \subseteq Regs /\ ins.imm \in Int
       /\ ins.op = "load" => ins.c \in Regs /\ ins.imm \in Word
       /\ ins.op = "api" => ins.on \in BOOLEAN

Handlers == [at : {"isr"}, irq : Irqs, todo : Instructions, acked : BOOLEAN,
             open : BOOLEAN, old : SUBSET Irqs]

Masked == [at : {"call"}, step : {"read", "write", "end"}, ins : Instructions,
           context : BOOLEAN, active : SUBSET Irqs, from : {Main} \cup Handlers]

\* What an exception can interrupt, and what can run.
Codes == {Main} \cup Handlers
Places == Codes \cup Masked
  \cup {At("irqtest"), At("notirq"), At("exit")}
  \cup [at : {"pending"}, first : BOOLEAN]
  \cup [at : {"scan"}, active : SUBSET Irqs]
  \cup [at : {"break"}, after : BOOLEAN]

ExceptionsTypeOK ==
  /\ setup \in Setups
  /\ pos \in 1 .. (Len(setup.program) + 1)
  /\ pc \in Places
  /\ frames \in Seq([pc : Codes, regs : File, pie : BOOLEAN, after : BOOLEAN])
  /\ regs \in File
  /\ pie \in BOOLEAN /\ api \in BOOLEAN /\ repaired \in BOOLEAN
  /\ ienable \subseteq Irqs /\ request \subseteq Irqs /\ handler \subseteq Irqs
  /\ active \subseteq Irqs /\ mask \subseteq Irqs
  /\ quota \in [Irqs -> Nat]

\* Outside the calls that change them, ienable holds alt_irq_active within
\* alt_priority_mask, and only interrupts with a handler are active: no update of
\* one side by a handler is lost in a call of the code it interrupted
\* (alt_legacy_irq.h:73-78, alt_iic_isr_register.c:90-97).
Agreement == pc.at # "call" => ienable = active \cap mask /\ active \subseteq handler

\* alt_irq_handler() calls a handler only while one is registered and its
\* interrupt is enabled and requested, whatever the handlers before it disabled,
\* unregistered or quietened (alt_irq_handler.c:128-157).
ArmedStep == pc.at = "scan" /\ pc'.at = "isr" => pc'.irq \in handler \cap Pending

OnlyArmed == [][ArmedStep]_vars

\* "It is used to allow higer priority interrupts to interrupt the current ISR"
\* (alt_legacy_irq.h:102-103): a handler runs above another only with a smaller
\* interrupt number.
Code(k) == IF k <= Len(frames) THEN frames[k].pc ELSE pc

OnlyHigher == \A k, l \in 1 .. (Len(frames) + 1) :
  k < l /\ Code(k).at = "isr" /\ Code(l).at = "isr" => Code(l).irq < Code(k).irq

\* main() runs on Machine: however interrupts, emulation and repaired faults fall,
\* each of its instructions takes effect once, in order, with the result the
\* instruction set gives it, and its registers are its own
\* (alt_exception_entry.S:134-232, 288, 345-393; alt_exception_muldiv.S).  What the
\* configuration leaves to the debugger has no effect.
Lost(ins) == \/ ins.op \in Emulable /\ ~setup.emulates
             \/ ins.op = "load" /\ ins.cause # "none" /\ ~setup.api

Effective == [k \in DOMAIN setup.program |->
                IF Lost(setup.program[k]) THEN Nothing ELSE setup.program[k]]

MainAt == IF frames # << >> /\ frames[1].after THEN pos + 1 ELSE pos
MainRegs == IF frames # << >> THEN frames[1].regs ELSE regs

M == INSTANCE Machine WITH program <- Effective, at <- MainAt, regs <- MainRegs,
                           Repairable <- GeneratedBadAddr

IsMachine == M!Spec

Served == \A i \in Irqs : i \in Pending ~> (i \notin Pending \/ pc.at = "break")

MainEnds == <>(pos > Len(setup.program) \/ pc.at = "break")

\* A request that is enabled is served or disabled, and main() reaches its end:
\* no handler is forgotten behind another one's and none keeps main() away for
\* ever (alt_irq_handler.c:128-159), unless the debugger has taken over.
Progress == Served /\ MainEnds
=============================================================================
