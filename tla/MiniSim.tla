------------------------------ MODULE MiniSim -------------------------------
(***************************************************************************)
(* simulator/app/main.cpp: the command-line simulator.  It checks its      *)
(* arguments and the image, then calls step() until the program halts,     *)
(* faults or has retired as many instructions as it may.  step() is the    *)
(* loop over tick() of cpu_core.cpp.                                       *)
(***************************************************************************)
EXTENDS GoldenCpu

CONSTANTS
  Commands,                 \* argument vectors: argc, and for argc = 4 whether
                            \* the option is --max-instructions, whether its
                            \* text is a number, and the number
  kDefaultInstructionLimit

\* Limits are std::size_t.
ASSUME LimitsAreNat ==
  /\ kDefaultInstructionLimit \in Nat
  /\ \A c \in Commands : c.limit \in Nat

VARIABLES
  command, file_readable,   \* what the caller gave; image is the file
  phase,                    \* "start", "loop", "step" or "exited"
  instruction_limit, retired_before,
  exit_code

mainVars == <<command, file_readable, phase, instruction_limit,
              retired_before, exit_code>>
vars == <<cpuVars, mainVars>>

Init ==
  /\ CpuInit
  /\ command \in Commands
  /\ file_readable \in BOOLEAN
  /\ phase = "start"
  /\ instruction_limit = kDefaultInstructionLimit
  /\ retired_before = 0
  /\ exit_code = -1

\* The whole text is a number that fits.
parse_limit == command.number_ok

UsageError ==
  \/ command.argc \notin {2, 4}
  \/ command.argc = 4 /\ ~(command.option_known /\ parse_limit)

ImageError ==
  ~file_readable \/ Len(image) > 4 * ROM_WORD_COUNT \/ Len(image) % 4 # 0

exit(code) ==
  /\ phase' = "exited"
  /\ exit_code' = code
  /\ UNCHANGED <<cpuVars, command, file_readable, retired_before>>

Reject ==
  /\ phase = "start"
  /\ UsageError \/ ImageError
  /\ exit(2)
  /\ UNCHANGED instruction_limit

Start ==
  /\ phase = "start"
  /\ ~UsageError /\ ~ImageError
  /\ instruction_limit' = IF command.argc = 4 THEN command.limit
                                              ELSE instruction_limit
  /\ phase' = "loop"
  /\ UNCHANGED <<cpuVars, command, file_readable, retired_before, exit_code>>

\* Mutant: the limit is checked only after a step.
LimitReached_OneMore == retired_instructions > instruction_limit

LimitReached == retired_instructions >= instruction_limit

LimitExit ==
  /\ phase = "loop"
  /\ ~halted /\ ~faulted
  /\ LimitReached
  /\ exit(1)
  /\ UNCHANGED instruction_limit

CallStep ==
  /\ phase = "loop"
  /\ ~halted /\ ~faulted
  /\ ~LimitReached
  /\ retired_before' = retired_instructions
  /\ phase' = "step"
  /\ UNCHANGED <<cpuVars, command, file_readable, instruction_limit,
                 exit_code>>

\* Mutant: step() waits for a retirement or a halt only.
StepEnded_FaultUnseen == halted \/ retired_instructions # retired_before

StepEnded == halted \/ faulted \/ retired_instructions # retired_before

StepTick ==
  /\ phase = "step"
  /\ ~StepEnded
  /\ tick
  /\ UNCHANGED <<command, file_readable, phase, instruction_limit,
                 retired_before, exit_code>>

StepReturns ==
  /\ phase = "step"
  /\ StepEnded
  /\ \/ halted /\ exit(0)
     \/ /\ ~halted
        /\ phase' = "loop"
        /\ UNCHANGED <<cpuVars, exit_code, command, file_readable,
                       retired_before>>
  /\ UNCHANGED instruction_limit

FaultReport ==
  /\ phase = "loop"
  /\ halted \/ faulted
  /\ exit(1)
  /\ UNCHANGED instruction_limit

Next == \/ Reject \/ Start \/ LimitExit \/ CallStep \/ StepTick \/ StepReturns
        \/ FaultReport

------------------------------------------------------------------------------
\* The exit code tells the outcome.  0: the program halted, its HALT being
\* at the latest the last instruction the limit allows.  1: it faulted, or
\* it retired exactly the limit and has neither halted nor faulted.  2: it
\* was not run at all.  No run retires more than the limit (main.cpp
\* 123-143).
ExitCodeTellsOutcome ==
  /\ phase # "start" => retired_instructions <= instruction_limit
  /\ exit_code = 0 => halted /\ fault_info.code = "NONE"
  /\ exit_code = 1 => \/ faulted /\ fault_info.code # "NONE"
                      \/ Status = "RUNNING"
                           /\ retired_instructions = instruction_limit
  /\ exit_code = 2 => retired_instructions = 0 /\ uart_log = <<>>
=============================================================================
