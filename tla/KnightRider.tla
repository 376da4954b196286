---------------------------- MODULE KnightRider ----------------------------
(***************************************************************************)
(* The program of RadonHelloWorld: its loop, the running light, the four   *)
(* LEDs behind one output register, the reset button, and the waits that   *)
(* poll the interval timer's sticky time-out bit.  The timer and the       *)
(* button act between any two accesses to their registers.  What the       *)
(* program logs is left to EquiniosLogger.                                 *)
(***************************************************************************)
EXTENDS Naturals, Sequences

CONSTANTS LED_DELAY,      \* microseconds a LED is shown
          UsPerMs,        \* 1000
          IterationsPerMs \* iterations a wait makes at most for each of them

VARIABLES pc,          \* where main is: "new", "loop", or the routine it calls
          todo,        \* what is left of that routine
          wait,        \* timer_wait_us: "none", "poll", or "clear" when it saw TO
          ms_count, iteration_count,
          started,     \* the timer's START
          timeout,     \* STATUS.TO
          outputs,     \* the bits of the PIO that are 1; a LED is lit by a 0
          pressed,     \* the reset button is held down
          elapsed,     \* periods of the timer since the wait began, capped
          shown        \* the LED shown last

waiting == <<wait, ms_count, iteration_count>>
board == <<started, timeout, outputs, pressed>>
vars == <<pc, todo, waiting, board, elapsed, shown>>

Leds == 0 .. 3
Lit == Leds \ outputs

\* The steps of a routine: a call of set_ledN_state, a call of timer_wait_us
On(n) == <<[do |-> "set", leds |-> {n}]>>
Off(n) == <<[do |-> "set", leds |-> {}]>>
Wait == <<[do |-> "wait", leds |-> {}]>>

Pass(n) == On(n) \o Wait \o Off(n)
Show(n) == On(n) \o Wait

\* run_knight_rider_cycle keeps its last LED on.
Cycle == Pass(0) \o Pass(1) \o Pass(2) \o Pass(3) \o Pass(2) \o Show(1)

\* run_knight_rider_cycle_smooth
Smooth == Show(0) \o Show(1) \o Show(2) \o Show(3) \o Show(2) \o Show(1) \o Show(0)

Target == (LED_DELAY + UsPerMs - 1) \div UsPerMs
MaxIterations == Target * IterationsPerMs

\* The output register after reset, PIO_RESET_VALUE
Init == /\ pc = "new" /\ todo = <<>>
        /\ wait = "none" /\ ms_count = 0 /\ iteration_count = 0
        /\ started = FALSE /\ timeout = FALSE
        /\ outputs = {1, 3}
        /\ pressed \in BOOLEAN
        /\ elapsed = 0 /\ shown = {}
-----------------------------------------------------------------------------
(* main *)

\* KnightRiderLight.new starts the timer.
New == /\ pc = "new"
       /\ started' = TRUE
       /\ pc' = "loop"
       /\ UNCHANGED <<todo, waiting, timeout, outputs, pressed, elapsed, shown>>

RunCycle == /\ pc = "loop"
            /\ pc' = "cycle" /\ todo' = Cycle
            /\ UNCHANGED <<waiting, board, elapsed, shown>>

\* The bits of the input register that are 1; the program looks at the reset
\* button only.
Inputs == {1, 2} \cup (IF pressed THEN {} ELSE {0})

get_button_status(bit) == IF bit \notin Inputs THEN "BUTTON_PRESSED" ELSE "BUTTON_RELEASED"

get_reset_button_status == get_button_status(0)

\* After a cycle the button is looked at once.
ReadButton == /\ pc = "cycle" /\ todo = <<>>
              /\ \/ /\ get_reset_button_status = "BUTTON_PRESSED"
                    /\ pc' = "smooth" /\ todo' = Smooth
                 \/ /\ get_reset_button_status # "BUTTON_PRESSED"
                    /\ pc' = "loop" /\ UNCHANGED todo
              /\ UNCHANGED <<waiting, board, elapsed, shown>>

SmoothEnd == /\ pc = "smooth" /\ todo = <<>>
             /\ pc' = "loop"
             /\ UNCHANGED <<todo, waiting, board, elapsed, shown>>

\* set_ledN_state writes the outputs of all four LEDs.
SetLed == /\ todo # <<>> /\ Head(todo).do = "set"
          /\ outputs' = Leds \ Head(todo).leds
          /\ todo' = Tail(todo)
          /\ UNCHANGED <<pc, waiting, started, timeout, pressed, elapsed, shown>>
-----------------------------------------------------------------------------
(* timer_wait_us *)

WaitBegin == /\ todo # <<>> /\ Head(todo).do = "wait"
             /\ wait = "none"
             /\ wait' = "poll" /\ ms_count' = 0 /\ iteration_count' = 0
             /\ elapsed' = 0 /\ shown' = Lit
             /\ UNCHANGED <<pc, todo, board>>

\* Mutant: one time-out more than asked for.
GoesOnTo == ms_count <= Target /\ iteration_count <= MaxIterations

GoesOn == ms_count < Target /\ iteration_count <= MaxIterations

\* Mutant: the iterations are not counted.
PollNothingForever == /\ wait = "poll" /\ GoesOn
                      /\ ~timeout
                      /\ UNCHANGED vars

PollNothing == /\ wait = "poll" /\ GoesOn
               /\ ~timeout
               /\ iteration_count' = iteration_count + 1
               /\ UNCHANGED <<pc, todo, wait, ms_count, board, elapsed, shown>>

PollTimeout == /\ wait = "poll" /\ GoesOn
               /\ timeout
               /\ wait' = "clear"
               /\ UNCHANGED <<pc, todo, ms_count, iteration_count, board, elapsed, shown>>

\* Mutant: TO is left set.
ClearNot == /\ wait = "clear"
            /\ ms_count' = ms_count + 1
            /\ iteration_count' = iteration_count + 1
            /\ wait' = "poll"
            /\ UNCHANGED <<pc, todo, board, elapsed, shown>>

Clear == /\ wait = "clear"
         /\ timeout' = FALSE
         /\ ms_count' = ms_count + 1
         /\ iteration_count' = iteration_count + 1
         /\ wait' = "poll"
         /\ UNCHANGED <<pc, todo, started, outputs, pressed, elapsed, shown>>

WaitEnd == /\ wait = "poll" /\ ~GoesOn
           /\ wait' = "none" /\ ms_count' = 0 /\ iteration_count' = 0
           /\ todo' = Tail(todo)
           /\ elapsed' = 0
           /\ UNCHANGED <<pc, board, shown>>
-----------------------------------------------------------------------------
(* The board *)

\* More periods than any property asks for
Cap == Target + LED_DELAY

\* The timer runs continuously and sets TO at the end of every period.
TimerPeriod == /\ started
               /\ timeout' = TRUE
               /\ elapsed' = IF wait = "none" \/ elapsed = Cap THEN elapsed ELSE elapsed + 1
               /\ UNCHANGED <<pc, todo, waiting, started, outputs, pressed, shown>>

Button == /\ pressed' = ~pressed
          /\ UNCHANGED <<pc, todo, waiting, started, timeout, outputs, elapsed, shown>>

Main == \/ New \/ RunCycle \/ ReadButton \/ SmoothEnd \/ SetLed
        \/ WaitBegin \/ PollNothing \/ PollTimeout \/ Clear \/ WaitEnd

Next == Main \/ TimerPeriod \/ Button

Spec == Init /\ [][Next]_vars

\* The processor keeps executing, and the printf of a wait returns: that takes a
\* host that reads, see JtagUartSmall.  The timer need not keep running.
FairSpec == Spec /\ WF_vars(Main)
-----------------------------------------------------------------------------
(* Properties *)

LightTypeOK == /\ pc \in {"new", "loop", "cycle", "smooth"}
               /\ todo \in Seq([do : {"set", "wait"}, leds : SUBSET Leds])
               /\ wait \in {"none", "poll", "clear"}
               /\ ms_count \in 0 .. Target
               /\ iteration_count \in 0 .. (MaxIterations + 1)
               /\ started \in BOOLEAN /\ timeout \in BOOLEAN /\ pressed \in BOOLEAN
               /\ outputs \subseteq Leds
               /\ elapsed \in 0 .. Cap
               /\ shown \subseteq Leds

\* Exactly one LED is lit during every wait and between two cycles, although
\* each set_ledN_state writes all four: "no dark pause between cycles"
\* (KnightRiderLight.c:129).
OneLit == wait # "none" \/ (pc = "loop" /\ shown # {}) => \E n \in Leds : Lit = {n}

\* The light moves by one LED or stays, within a cycle and from any cycle to
\* the next, smooth or not.
MoveStep == shown # {} => \A n \in shown, m \in shown' : m \in {n, n + 1} \/ n = m + 1

RunsAlong == [][MoveStep]_vars

\* The light keeps running whatever the timer does: the limit on a wait's
\* iterations ends it (KnightRiderLight.c:95-99).
LightRuns == []<>(pc = "loop")

\* A reset button that is held down is answered.
ButtonAnswered == <>[]pressed => []<>(pc = "smooth")

\* A wait that is not given up takes no time-out for two: as many periods ended as
\* it counted, but for one before it began whose bit was still set
\* (KnightRiderLight.c:85-89).  How long that is MCKnightRider asks.
CountedStep == wait = "poll" /\ wait' = "none" /\ ms_count = Target
               => elapsed + 1 >= Target

TimeoutsCounted == [][CountedStep]_vars
=============================================================================
