----------------------------- MODULE TimerMmio ------------------------------
(***************************************************************************)
(* rtl/peripherals/timer_mmio.sv: the instruction-time timer.  tick is the *)
(* wire retire_tick; read and write are the enables that the bus raises    *)
(* for at most one of the two at an edge.                                  *)
(***************************************************************************)
EXTENDS Mini32Pkg

VARIABLES timer_counter, timer_compare, timer_enabled, timer_read_data

timerVars == <<timer_counter, timer_compare, timer_enabled, timer_read_data>>

\* Every register of timer_mmio.sv keeps its width.
TimerTypeOK ==
  /\ timer_counter \in Word
  /\ timer_compare \in Word
  /\ timer_enabled \in BOOLEAN
  /\ timer_read_data \in Word

TimerInit ==
  /\ timer_counter = Zero
  /\ timer_compare = Zero
  /\ timer_enabled = FALSE
  /\ timer_read_data = Zero

TimerReset ==
  /\ timer_counter' = Zero
  /\ timer_compare' = Zero
  /\ timer_enabled' = FALSE
  /\ timer_read_data' = Zero

BoolWord(b) == IF b THEN One ELSE Zero

\* Mutant: the match flag ignores the enable.
TimerRegister_MatchUngated(offset) ==
  CASE offset = 0  -> timer_counter
    [] offset = 4  -> timer_compare
    [] offset = 8  -> BoolWord(timer_enabled)
    [] offset = 12 -> BoolWord(timer_counter = timer_compare)
    [] OTHER       -> Zero

TimerRegister(offset) ==
  CASE offset = 0  -> timer_counter
    [] offset = 4  -> timer_compare
    [] offset = 8  -> BoolWord(timer_enabled)
    [] offset = 12 -> BoolWord(timer_enabled /\ timer_counter = timer_compare)
    [] OTHER       -> Zero

\* The value after an edge of each register, before any write to it is
\* seen by a read at the same edge.
TimerEnabledNext(write, offset, wdata) ==
  IF write /\ offset = 8 THEN wdata.lo % 2 = 1 ELSE timer_enabled

TimerCompareNext(write, offset, wdata) ==
  IF write /\ offset = 4 THEN wdata ELSE timer_compare

\* A tick counts with the enable that a write to CONTROL installs, and on
\* top of the value that a write to COUNTER installs.
TimerCounterNext(tick, write, offset, wdata) ==
  LET base    == IF write /\ offset = 0 THEN wdata ELSE timer_counter
      enabled == IF write /\ offset = 8 THEN wdata.lo % 2 = 1
                                        ELSE timer_enabled
  IN  IF tick /\ enabled THEN Add(base, One) ELSE base

TimerEdge(tick, read, write, offset, wdata) ==
  /\ timer_read_data' = IF read THEN TimerRegister(offset)
                                ELSE timer_read_data
  /\ timer_counter' = TimerCounterNext(tick, write, offset, wdata)
  /\ timer_compare' = TimerCompareNext(write, offset, wdata)
  /\ timer_enabled' = TimerEnabledNext(write, offset, wdata)
=============================================================================
