------------------------------- MODULE DemoMain ------------------------------
(***************************************************************************)
(* The demo application (src/demo_aoa_can/src/main.c) and the PWM driver   *)
(* calls it makes (src/demo_aoa_can/src/pwm.c): PWM_Init and PWM_Set for   *)
(* each LED port, PWM_Start, then six fades of the RGB LED on PWM1.4       *)
(* (green), PWM1.5 (blue) and PWM1.6 (red), each step waiting one SysTick  *)
(* on msTicks; and PWM1_IRQHandler, which PWM_Init installs.               *)
(*                                                                         *)
(* The PWM block is the environment: PWM_Set writes a match register MRn   *)
(* and the latch enable register LER.  Before PWM_Start the block is not   *)
(* in PWM mode and a write to MRn is the value the output uses.  In PWM    *)
(* mode, at each Match 0 (the end of a PWM period) the block copies each   *)
(* MRn whose LER bit is set into the shadow register that drives the       *)
(* output, clears LER, and sets the Match 0 interrupt flag in IR.          *)
(*                                                                         *)
(* msTicks is not volatile, and main spins on it while SysTick_Handler     *)
(* changes it (a data race).  What the build makes of while(msTicks) is    *)
(* chosen in the initial state from LoadOutcomes: FALSE, the load is      *)
(* repeated on every pass (an unoptimised build); TRUE, the load is        *)
(* hoisted out of the loop after the store msTicks = 1, so main spins      *)
(* forever.                                                                *)
(***************************************************************************)
EXTENDS Naturals

CONSTANTS
  Full,           \* the PWM cycle and fade start (1000 in main.c)
  CounterWidth,   \* bits of the uint32_t loop counters green, blue, red
  LoadOutcomes    \* builds of while(msTicks): a subset of BOOLEAN

ASSUME Full > 2 /\ Full < 2^CounterWidth /\ LoadOutcomes \subseteq BOOLEAN

Ports == {4, 5, 6}

Phases == 1 .. 6

VARIABLES
  pc,         \* main: "init", "preset", "start" (the calls before while
              \* (1)), "set" (loop test and body), "wait" (while(msTicks)),
              \* "hang" (the hoisted spin)
  port,       \* the port of main's next PWM_Init or PWM_Set before while (1)
  phase,      \* which of the six for loops main is in
  level,      \* that loop's counter (green, blue or red)
  msTicks,
  hoisted,    \* the build's while(msTicks)
  MR,         \* match registers MR4..MR6
  shadow,     \* the values the PWM outputs use
  LER,        \* latch enable bits set since the last Match 0
  written,    \* history: ports written since the last Match 0
  started,    \* TCR counter and PWM mode enabled (PWM_Start)
  IR          \* the Match 0 interrupt flag

vars == <<pc, port, phase, level, msTicks, hoisted, MR, shadow, LER, written,
          started, IR>>

\* The six for loops of while (1): green, blue, red down, then up.
FadePort(p) == IF p <= 3 THEN 3 + p ELSE p

FadeDown(p) == p <= 3

FadeStart(p) == IF FadeDown(p) THEN Full ELSE 0

\* Mutant: the fade-down loop tests counter >= 0, always true for a uint32_t.
FadeContinuesUnsigned(p, v) == IF FadeDown(p) THEN v >= 0 ELSE v < Full

\* for (x = 1000; x > 1; x--) and for (x = 0; x < 1000; x++).
FadeContinues(p, v) == IF FadeDown(p) THEN v > 1 ELSE v < Full

FadeStep(p, v) ==
  (IF FadeDown(p) THEN v + 2^CounterWidth - 1 ELSE v + 1) % 2^CounterWidth

(***************************************************************************)
(* Reset: main starts with green = 1000; SysTick_Config starts SysTick,    *)
(* whose handler finds msTicks = 0.  The PWM registers are at their reset  *)
(* values: match registers 0, no latch enabled, counter stopped.           *)
(***************************************************************************)
Init ==
  /\ pc = "init" /\ port = 4 /\ phase = 1 /\ level = Full
  /\ msTicks = 0
  /\ hoisted \in LoadOutcomes
  /\ MR = [n \in Ports |-> 0] /\ shadow = [n \in Ports |-> 0]
  /\ LER = {} /\ written = {}
  /\ started = FALSE /\ IR = FALSE

\* The next port of the three calls for ports 4, 5 and 6.
NextPort(p) == IF p = 6 THEN 4 ELSE p + 1

(***************************************************************************)
(* PWM_Init(1, port, 1000): the pin select, TCR = TCR_RESET, MCR =         *)
(* PWMMR0I (interrupt on Match 0), MR0 = cycle, all latches enabled, the   *)
(* interrupt enabled in the NVIC.  match_counter1 = 0 is not modelled      *)
(* (nothing reads it).                                                     *)
(***************************************************************************)
PWM_Init ==
  /\ pc = "init"
  /\ LER' = Ports
  /\ port' = NextPort(port)
  /\ pc' = IF port = 6 THEN "preset" ELSE "init"
  /\ UNCHANGED <<phase, level, msTicks, hoisted, MR, shadow, written, started,
                 IR>>

\* PWM_Set(1, port, offset): MRport = offset; LER = LERport_EN.
PWM_Set(p, offset) ==
  /\ MR' = [MR EXCEPT ![p] = offset]
  /\ LER' = {p}
  /\ written' = written \cup {p}

\* PWM_Set(1, port, 1000) before PWM_Start: not yet in PWM mode, so the
\* match value is in use at once.
MainPreset ==
  /\ pc = "preset"
  /\ PWM_Set(port, Full)
  /\ shadow' = [shadow EXCEPT ![port] = Full]
  /\ port' = NextPort(port)
  /\ pc' = IF port = 6 THEN "start" ELSE "preset"
  /\ UNCHANGED <<phase, level, msTicks, hoisted, started, IR>>

\* PWM_Start(1): PCR enables the six outputs, TCR = TCR_CNT_EN | TCR_PWM_EN.
PWM_Start ==
  /\ pc = "start"
  /\ started' = TRUE
  /\ pc' = "set"
  /\ UNCHANGED <<port, phase, level, msTicks, hoisted, MR, shadow, LER, written,
                 IR>>

\* The loop test holds: PWM_Set(1, port, x); msTicks = 1; then the wait.
MainSet ==
  /\ pc = "set"
  /\ FadeContinues(phase, level)
  /\ PWM_Set(FadePort(phase), level)
  /\ msTicks' = 1
  /\ pc' = IF hoisted THEN "hang" ELSE "wait"
  /\ UNCHANGED <<port, phase, level, hoisted, shadow, started, IR>>

\* The loop test fails: the next for loop (after the sixth, the first
\* again) initialises its counter.
MainNextFade ==
  /\ pc = "set"
  /\ ~FadeContinues(phase, level)
  /\ phase' = (phase % 6) + 1
  /\ level' = FadeStart(phase')
  /\ UNCHANGED <<pc, port, msTicks, hoisted, MR, shadow, LER, written, started,
                 IR>>

\* while(msTicks) reads 0: the loop's x-- or x++, back to the loop test.
MainWait ==
  /\ pc = "wait"
  /\ msTicks = 0
  /\ pc' = "set"
  /\ level' = FadeStep(phase, level)
  /\ UNCHANGED <<port, phase, msTicks, hoisted, MR, shadow, LER, written,
                 started, IR>>

\* Mutant: the handler decrements without testing msTicks first.
SysTickUnguarded ==
  /\ msTicks' = (msTicks + 2^CounterWidth - 1) % 2^CounterWidth
  /\ UNCHANGED <<pc, port, phase, level, hoisted, MR, shadow, LER, written,
                 started, IR>>

\* SysTick_Handler: if (msTicks) msTicks--.  With msTicks = 0 it changes
\* nothing.
SysTick_Handler ==
  /\ msTicks > 0
  /\ msTicks' = msTicks - 1
  /\ UNCHANGED <<pc, port, phase, level, hoisted, MR, shadow, LER, written,
                 started, IR>>

\* PWM1_IRQHandler: regVal = IR; match_counter1++ for the Match 0 flag;
\* IR |= regVal writes the set flags back, which clears them.  Match 0 is
\* the only interrupt MCR enables, so IR holds no other flag.
PWM1_IRQHandler ==
  /\ IR
  /\ IR' = FALSE
  /\ UNCHANGED <<pc, port, phase, level, msTicks, hoisted, MR, shadow, LER,
                 written, started>>

\* Match 0 of the PWM block in PWM mode: the latch-enabled match registers
\* reach the outputs, LER clears and the interrupt flag is set.
PwmMatch0 ==
  /\ started
  /\ shadow' = [n \in Ports |-> IF n \in LER THEN MR[n] ELSE shadow[n]]
  /\ LER' = {}
  /\ written' = {}
  /\ IR' = TRUE
  /\ UNCHANGED <<pc, port, phase, level, msTicks, hoisted, MR, started>>

Main == PWM_Init \/ MainPreset \/ PWM_Start \/ MainSet \/ MainNextFade \/ MainWait

Next == Main \/ SysTick_Handler \/ PWM1_IRQHandler \/ PwmMatch0

\* main owns the CPU outside interrupts; SysTick and the PWM counter are
\* free-running hardware timers, and the NVIC takes a pending interrupt.
Spec == Init /\ [][Next]_vars
        /\ WF_vars(Main) /\ WF_vars(SysTick_Handler) /\ WF_vars(PwmMatch0)
        /\ WF_vars(PWM1_IRQHandler)

-----------------------------------------------------------------------------
TypeOK ==
  /\ pc \in {"init", "preset", "start", "set", "wait", "hang"}
  /\ port \in Ports /\ phase \in Phases
  /\ level \in 0 .. Full /\ msTicks \in 0 .. 1 /\ hoisted \in BOOLEAN
  /\ MR \in [Ports -> 0 .. Full] /\ shadow \in [Ports -> 0 .. Full]
  /\ LER \subseteq Ports /\ written \subseteq Ports
  /\ started \in BOOLEAN /\ IR \in BOOLEAN

(***************************************************************************)
(* The demo keeps fading: every one of the six loops of main's while (1)   *)
(* is entered again and again.  It needs each loop to end and each         *)
(* while(msTicks) to see SysTick_Handler's decrement.                      *)
(***************************************************************************)
MainProgress == \A p \in Phases : []<>(phase = p)

(***************************************************************************)
(* The comment in PWM_Set: after Match 0 clears LER, every match register  *)
(* written must be latched again for its new value to be used.  So at      *)
(* each Match 0, every port PWM_Set wrote since the last one shows the     *)
(* value last written to it.                                               *)
(***************************************************************************)
EveryWriteLatched ==
  [][PwmMatch0 => \A n \in written : shadow'[n] = MR[n]]_vars
====
