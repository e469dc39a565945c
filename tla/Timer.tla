-------------------------------- MODULE Timer --------------------------------
(***************************************************************************)
(* The clock of the firmware (atusb/fw/board_app.c): timer 1 of the        *)
(* ATmega32U2, a 16 bit counter of CPU cycles that goes on all the time,   *)
(* the flag TOV1 it sets when it overflows, and timer_h, which counts the  *)
(* overflows.  The flag is served by an interrupt, or by timer_read() when *)
(* a TIMER request is being handled and interrupts are off.                *)
(***************************************************************************)
EXTENDS Naturals

CONSTANTS
    ROUND,      \* counts of TCNT1 per overflow, 2^16
    HIGH,       \* values of timer_h, 2^32
    Ticks       \* bound: how many cycles pass

ASSUME TimerAssumption ==
    /\ ROUND \in Nat \ {0, 1}
    /\ HIGH \in Nat \ {0, 1}
    /\ Ticks \in Nat

VARIABLES
    tcnt,       \* TCNT1
    tov1,       \* TOV1 in TIFR1
    timer_h,
    at,         \* where timer_read() is: "idle" if it is not called
    hi, low,    \* its variables "high" and "low"; "low" has both bytes of TCNT1
    result,     \* what it returned last
    overflows,  \* history: overflows since power-up, modulo HIGH
    instant,    \* history: the time when timer_read() took TCNT1
    ticks       \* cycles so far, for the bound
timerVars == <<tcnt, tov1, timer_h, at, hi, low, result, overflows, instant, ticks>>

Succ(n, size) == IF n = size - 1 THEN 0 ELSE n + 1

Times == [high : 0..HIGH - 1, low : 0..ROUND - 1]

TimerInit ==
    /\ tcnt = 0 /\ tov1 = FALSE /\ timer_h = 0
    /\ at = "idle" /\ hi = 0 /\ low = 0
    /\ result = [high |-> 0, low |-> 0]
    /\ instant = [high |-> 0, low |-> 0]
    /\ overflows = 0 /\ ticks = 0

\* A cycle passes.  No interrupt handler runs for a whole round (8 ms), so that
\* TOV1 is served before the next overflow; the 100 ms delay of EUI64_WRITE does,
\* and ends in a reset.
Tick ==
    /\ ticks < Ticks
    /\ ~(tov1 /\ tcnt = ROUND - 1)
    /\ ticks' = ticks + 1
    /\ tcnt' = Succ(tcnt, ROUND)
    /\ tov1' = (tov1 \/ tcnt = ROUND - 1)
    /\ overflows' = IF tcnt = ROUND - 1 THEN Succ(overflows, HIGH) ELSE overflows
    /\ UNCHANGED <<timer_h, at, hi, low, result, instant>>

\* TIMER1_OVF_vect; the hardware clears the flag.
Overflow ==
    /\ at = "idle" /\ tov1
    /\ tov1' = FALSE
    /\ timer_h' = Succ(timer_h, HIGH)
    /\ UNCHANGED <<tcnt, at, hi, low, result, overflows, instant, ticks>>

\* A TIMER request calls timer_read() from USB_COM_vect.
TimerRead ==
    /\ at = "idle"
    /\ at' = "flag"
    /\ UNCHANGED <<tcnt, tov1, timer_h, hi, low, result, overflows, instant, ticks>>

TestFlag ==
    /\ at = "flag"
    /\ timer_h' = IF tov1 THEN Succ(timer_h, HIGH) ELSE timer_h
    /\ tov1' = FALSE
    /\ at' = "high"
    /\ UNCHANGED <<tcnt, hi, low, result, overflows, instant, ticks>>

ReadHigh ==
    /\ at = "high"
    /\ hi' = timer_h
    /\ at' = "low"
    /\ UNCHANGED <<tcnt, tov1, timer_h, low, result, overflows, instant, ticks>>

\* Reading TCNT1L makes the hardware keep TCNT1H for the read that follows.
ReadLow ==
    /\ at = "low"
    /\ low' = tcnt
    /\ instant' = [high |-> overflows, low |-> tcnt]
    /\ at' = "again"
    /\ UNCHANGED <<tcnt, tov1, timer_h, hi, result, overflows, ticks>>

\* The mutant returns without another look at the flag.
Return_NoLoopMutant ==
    /\ at = "again"
    /\ at' = "idle"
    /\ result' = [high |-> hi, low |-> low]
    /\ UNCHANGED <<tcnt, tov1, timer_h, hi, low, overflows, instant, ticks>>

Return ==
    /\ at = "again"
    /\ IF tov1
         THEN at' = "flag" /\ UNCHANGED result
         ELSE at' = "idle" /\ result' = [high |-> hi, low |-> low]
    /\ UNCHANGED <<tcnt, tov1, timer_h, hi, low, overflows, instant, ticks>>

TimerNext ==
    \/ Tick \/ Overflow
    \/ TimerRead \/ TestFlag \/ ReadHigh \/ ReadLow \/ Return

TimerSpec == TimerInit /\ [][TimerNext]_timerVars
-----------------------------------------------------------------------------
(* Properties                                                              *)

\* Every variable has its type.
TimerTypeOK ==
    /\ tcnt \in 0..ROUND - 1 /\ low \in 0..ROUND - 1
    /\ timer_h \in 0..HIGH - 1 /\ hi \in 0..HIGH - 1 /\ overflows \in 0..HIGH - 1
    /\ tov1 \in BOOLEAN
    /\ at \in {"idle", "flag", "high", "low", "again"}
    /\ result \in Times /\ instant \in Times
    /\ ticks \in 0..Ticks

\* timer_read() returns the time of one moment during the call: its two halves
\* belong together, however the overflow falls between the reads, and whether
\* the interrupt or timer_read() itself counted the overflow.
TimerExact == at = "idle" => result = instant
=============================================================================
