----------------------------- MODULE LockedRing -----------------------------
(***************************************************************************)
(* One ring buffer shared by the main program and an interrupt handler,    *)
(* each operation bracketed by EquiniosLock.enter() and exit(), at the     *)
(* grain of the loads and stores of EquiniosLock.c and RingBuffer.c.  An   *)
(* interrupt is taken between any two steps of the main program at which   *)
(* status.PIE is set; the exception saves status and clears PIE, and eret  *)
(* restores it.  The handler runs to its end before the main program goes  *)
(* on (no nested interrupts).                                              *)
(***************************************************************************)
EXTENDS RingBuffer

Contexts == {"main", "isr"}

VARIABLES pie,      \* status.PIE: TRUE when interrupts are enabled
          estatus,  \* the PIE saved by the exception
          active,   \* the context on the processor
          pc,       \* where each context is in its call
          op,       \* the call each context makes: "push" or "pop"
          data,     \* the byte each context pushes or has popped
          state,    \* each context's lock_state
          loaded,   \* the count each context has loaded into a register
          region    \* the caller of the main program masked interrupts itself

ring == <<head, tail, count, buffer>>
locals == <<op, data, state, loaded>>
vars == <<ring, reply, pie, estatus, active, pc, locals, region>>

At(c, from, to) == /\ active = c
                   /\ pc[c] = from
                   /\ pc' = [pc EXCEPT ![c] = to]

Init == /\ head = 0 /\ tail = 0 /\ count = 0
        /\ buffer = [i \in Slots |-> 0]
        /\ reply = Reply("none", TRUE, 0)
        /\ pie = TRUE
        /\ estatus = FALSE
        /\ active = "main"
        /\ pc = [c \in Contexts |-> "idle"]
        /\ op = [c \in Contexts |-> "push"]
        /\ data = [c \in Contexts |-> 0]
        /\ state = [c \in Contexts |-> FALSE]
        /\ loaded = [c \in Contexts |-> 0]
        /\ region = FALSE
-----------------------------------------------------------------------------
(* EquiniosLock.c *)

\* A caller enters the critical section of a push or of a pop.
Call(c) == /\ At(c, "idle", "rdctl")
           /\ \E o \in {"push", "pop"}, b \in Byte :
                 /\ op' = [op EXCEPT ![c] = o]
                 /\ data' = [data EXCEPT ![c] = IF o = "push" THEN b ELSE 0]
           /\ UNCHANGED <<ring, reply, pie, estatus, active, state, loaded, region>>

\* enter(): rdctl status
EnterRead(c) == /\ At(c, "rdctl", "wrctl")
                /\ state' = [state EXCEPT ![c] = pie]
                /\ UNCHANGED <<ring, reply, pie, estatus, active, op, data, loaded, region>>

\* Mutant: enter() reads status but does not clear PIE.
EnterNoMask(c) == /\ At(c, "wrctl", "test")
                  /\ UNCHANGED <<ring, reply, pie, estatus, active, locals, region>>

\* enter(): wrctl status, zero
EnterMask(c) == /\ At(c, "wrctl", "test")
                /\ pie' = FALSE
                /\ UNCHANGED <<ring, reply, estatus, active, locals, region>>

\* Mutant: exit() enables interrupts instead of restoring what enter() read.
ExitEnable(c) == /\ At(c, "exit", IF c = "main" THEN "idle" ELSE "done")
                 /\ pie' = TRUE
                 /\ UNCHANGED <<ring, reply, estatus, active, locals, region>>

\* Mutant: exit() leaves interrupts masked.
ExitMasked(c) == /\ At(c, "exit", IF c = "main" THEN "idle" ELSE "done")
                 /\ UNCHANGED <<ring, reply, pie, estatus, active, locals, region>>

\* exit(): wrctl status, state.  A handler makes one call per interrupt.
Exit(c) == /\ At(c, "exit", IF c = "main" THEN "idle" ELSE "done")
           /\ pie' = state[c]
           /\ UNCHANGED <<ring, reply, estatus, active, locals, region>>
-----------------------------------------------------------------------------
(* RingBuffer.c, one load or store at a time *)

\* Mutant: push() tests for a full ring one byte too late.
PushTestLate(c) == /\ op[c] = "push"
                   /\ IF count > Size THEN At(c, "test", "exit") ELSE At(c, "test", "copy")
                   /\ UNCHANGED <<ring, reply, pie, estatus, active, locals, region>>

PushTest(c) == /\ op[c] = "push"
               /\ \/ /\ is_full
                     /\ At(c, "test", "exit")
                     /\ reply' = Reply("push", FALSE, 0)
                  \/ /\ ~is_full
                     /\ At(c, "test", "copy")
                     /\ UNCHANGED reply
               /\ UNCHANGED <<ring, pie, estatus, active, locals, region>>

PopTest(c) == /\ op[c] = "pop"
              /\ \/ /\ is_empty
                    /\ At(c, "test", "exit")
                    /\ reply' = Reply("pop", FALSE, 0)
                 \/ /\ ~is_empty
                    /\ At(c, "test", "copy")
                    /\ UNCHANGED reply
              /\ UNCHANGED <<ring, pie, estatus, active, locals, region>>

\* buffer[head] = data
Store(c) == /\ op[c] = "push"
            /\ At(c, "copy", "advance")
            /\ buffer' = [buffer EXCEPT ![head] = data[c]]
            /\ UNCHANGED <<head, tail, count, reply, pie, estatus, active, locals, region>>

\* *data = buffer[tail]
Fetch(c) == /\ op[c] = "pop"
            /\ At(c, "copy", "advance")
            /\ data' = [data EXCEPT ![c] = buffer[tail]]
            /\ UNCHANGED <<ring, reply, pie, estatus, active, op, state, loaded, region>>

AdvanceHead(c) == /\ op[c] = "push"
                  /\ At(c, "advance", "load")
                  /\ head' = Wrap(head + 1)
                  /\ UNCHANGED <<tail, count, buffer, reply, pie, estatus, active, locals, region>>

AdvanceTail(c) == /\ op[c] = "pop"
                  /\ At(c, "advance", "load")
                  /\ tail' = Wrap(tail + 1)
                  /\ UNCHANGED <<head, count, buffer, reply, pie, estatus, active, locals, region>>

\* count++ and count-- load the count ...
Load(c) == /\ At(c, "load", "bump")
           /\ loaded' = [loaded EXCEPT ![c] = count]
           /\ UNCHANGED <<ring, reply, pie, estatus, active, op, data, state, region>>

\* ... and store it back.
CountUp(c) == /\ op[c] = "push"
              /\ At(c, "bump", "exit")
              /\ count' = loaded[c] + 1
              /\ reply' = Reply("push", TRUE, 0)
              /\ UNCHANGED <<head, tail, buffer, pie, estatus, active, locals, region>>

CountDown(c) == /\ op[c] = "pop"
                /\ At(c, "bump", "exit")
                /\ count' = loaded[c] - 1
                /\ reply' = Reply("pop", TRUE, data[c])
                /\ UNCHANGED <<head, tail, buffer, pie, estatus, active, locals, region>>
-----------------------------------------------------------------------------
(* The processor and the HAL's global mask (alt_irq.h, alt_irq_entry.S) *)

Interrupt == /\ active = "main"
             /\ pie
             /\ estatus' = pie
             /\ pie' = FALSE
             /\ active' = "isr"
             /\ UNCHANGED <<ring, reply, pc, locals, region>>

Eret == /\ active = "isr"
        /\ pc["isr"] \in {"idle", "done"}
        /\ pc' = [pc EXCEPT !["isr"] = "idle"]
        /\ pie' = estatus
        /\ active' = "main"
        /\ UNCHANGED <<ring, reply, estatus, locals, region>>

\* alt_irq_disable_all() around calls of the main program ...
DisableAll == /\ active = "main" /\ pc["main"] = "idle" /\ ~region
              /\ pie' = FALSE
              /\ region' = TRUE
              /\ UNCHANGED <<ring, reply, estatus, active, pc, locals>>

\* ... and alt_irq_enable_all(context) with the context it returned: PIE was set.
EnableAll == /\ active = "main" /\ pc["main"] = "idle" /\ region
             /\ pie' = TRUE
             /\ region' = FALSE
             /\ UNCHANGED <<ring, reply, estatus, active, pc, locals>>

Body(c) == \/ EnterRead(c) \/ EnterMask(c) \/ Exit(c)
           \/ PushTest(c) \/ Store(c) \/ AdvanceHead(c) \/ CountUp(c)
           \/ PopTest(c) \/ Fetch(c) \/ AdvanceTail(c) \/ CountDown(c)
           \/ Load(c)

Next == \/ \E c \in Contexts : Call(c) \/ Body(c)
        \/ Interrupt \/ Eret
        \/ DisableAll \/ EnableAll

\* The processor never stops executing, a handler returns, and a program that
\* masks interrupts unmasks them.
Fairness == /\ \A c \in Contexts : WF_vars(Body(c))
            /\ WF_vars(Eret)
            /\ SF_vars(EnableAll)

Spec == Init /\ [][Next]_vars

FairSpec == Spec /\ Fairness
-----------------------------------------------------------------------------
\* Inside the critical section: after PIE was cleared, before it is restored.
InSection(c) == pc[c] \notin {"idle", "rdctl", "wrctl", "done"}

\* A context is between the store to its index and the store to the count.
Moved(c, o) == op[c] = o /\ pc[c] \in {"load", "bump"}

\* The read index as of the last completed pop.
First == IF \E c \in Contexts : Moved(c, "pop") THEN Wrap(tail + Size - 1) ELSE tail

\* What completed operations have left in the ring, oldest first.
Committed == [i \in 1 .. count |-> buffer[Wrap(First + i - 1)]]

Queue == INSTANCE BoundedFifo WITH queue <- Committed

LockedTypeOK ==
  /\ head \in Slots /\ tail \in Slots /\ count \in 0 .. Size
  /\ buffer \in [Slots -> Byte]
  /\ reply \in [op : {"none", "push", "pop"}, ok : BOOLEAN, data : Byte]
  /\ pie \in BOOLEAN /\ estatus \in BOOLEAN /\ region \in BOOLEAN
  /\ active \in Contexts
  /\ pc \in [Contexts -> {"idle", "rdctl", "wrctl", "test", "copy", "advance",
                          "load", "bump", "exit", "done"}]
  /\ op \in [Contexts -> {"push", "pop"}]
  /\ data \in [Contexts -> Byte]
  /\ state \in [Contexts -> BOOLEAN]
  /\ loaded \in [Contexts -> 0 .. Size]

\* The two contexts are never both between enter() and exit(): the mask of
\* EquiniosLock.c keeps the handler out of the main program's section.
MutualExclusion == ~(InSection("main") /\ InSection("isr"))

\* enter() and exit() leave the mask as they found it: in the main program
\* outside a call interrupts are masked exactly when the program masked them
\* itself, and inside a handler they stay masked throughout.
MaskRestored == /\ active = "isr" => ~pie
                /\ active = "main" /\ pc["main"] = "idle" => pie = ~region

\* With the lock around it the ring is one bounded queue for both contexts: no
\* interleaving of the loads and stores of push() and pop() loses, doubles or
\* reorders a byte or returns a wrong result.
SharedFifo == Queue!FifoSpec

\* Interrupts are not held off for ever: every critical section ends.
MaskEnds == []<>pie
=============================================================================
