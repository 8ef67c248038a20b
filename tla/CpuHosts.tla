------------------------------ MODULE CpuHosts ------------------------------
(***************************************************************************)
(* The two kinds of program that own a CpuCore: the command-line simulator *)
(* (MiniSim), which only calls step(), and an embedder such as the unit    *)
(* tests, which calls tick() and reset() in any order, so that a reset may *)
(* fall between any two microstates.                                       *)
(***************************************************************************)
EXTENDS MiniSim

CONSTANTS
  EmbedderImages,
  MaxRetired,   \* bound: instructions the embedder lets retire
  MaxResets     \* bound: resets the embedder asks for

VARIABLES
  host,         \* "simulator" or "embedder"
  resets        \* the calls of reset() so far

hostVars == <<vars, host, resets>>

\* The embedder has no command line: phase and its like never change.
HostInit ==
  /\ host \in {"simulator", "embedder"}
  /\ resets = 0
  /\ Init
  /\ host = "embedder" => /\ command = CHOOSE c \in Commands : TRUE
                          /\ file_readable
                          /\ image \in EmbedderImages

Simulate ==
  /\ host = "simulator"
  /\ Next
  /\ UNCHANGED <<host, resets>>

EmbedderTick ==
  /\ host = "embedder"
  /\ retired_instructions < MaxRetired
  /\ tick
  /\ UNCHANGED <<mainVars, host, resets>>

EmbedderReset ==
  /\ host = "embedder"
  /\ resets < MaxResets
  /\ reset
  /\ resets' = resets + 1
  /\ UNCHANGED <<mainVars, host>>

HostNext == Simulate \/ EmbedderTick \/ EmbedderReset

\* The simulator is a process that runs until it exits; an embedder owes
\* nobody a call.
HostSpec == HostInit /\ [][HostNext]_hostVars /\ WF_hostVars(Simulate)

------------------------------------------------------------------------------
\* CpuCore::reset() as the golden model's state sees it.
CpuResetOnly ==
  /\ pc' = Zero
  /\ registers' = [r \in Register |-> Zero]
  /\ Status' = "RUNNING"
  /\ fault_info' = Golden!NoFaultInfo
  /\ UNCHANGED <<image, devices, timer>>

\* Every tick is one whole step() of the golden model or invisible to it, the
\* ticks after a reset in mid-instruction included: no latch of the abandoned
\* instruction (cpu_core.hpp 75-86) reaches registers, memory, a device or a
\* fault record, and the core's reset() leaves memory and devices alone.
TicksImplementStep ==
  Golden!Init /\ [][Golden!Step \/ CpuResetOnly]_(Golden!vars)

\* Whatever the program does, the simulator exits: step() always returns
\* (its loop at cpu_core.cpp 192 has no other way out than a retirement, a
\* halt or a fault), and a guest that loops runs into the limit.
AlwaysExits == host = "simulator" => <>(phase = "exited")
=============================================================================
