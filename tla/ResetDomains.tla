---------------------------- MODULE ResetDomains ----------------------------
(***************************************************************************)
(* The registers behind reset_sync in mini32_fpga_platform.sv.  Each       *)
(* clocked block of the core, the bus, the devices, the FIFO and the       *)
(* transmitter samples reset for itself and has a synchronous reset only.  *)
(* The button may be pressed and released at any moment, also at an edge.  *)
(***************************************************************************)
EXTENDS ResetSync

CONSTANTS Blocks,
          MaxAge   \* bound: edges counted since a block was reset

VARIABLES
  age,      \* for each block, the edges since it last saw reset
  missed    \* the blocks that have not seen the reset of the last press

domainVars == <<syncVars, age, missed>>

\* At power-up no block has seen a reset; the button may be held.
DomainInit ==
  /\ SyncInit
  /\ age = [b \in Blocks |-> MaxAge]
  /\ missed = IF reset_n_async THEN {} ELSE Blocks

Older(n) == IF n < MaxAge THEN n + 1 ELSE n

\* At an edge each block in resets sees reset high, the others see it low.
BlocksSample(resets) ==
  /\ age' = [b \in Blocks |-> IF b \in resets THEN 0 ELSE Older(age[b])]
  /\ missed' = missed \ resets

SomeSampling(level) ==
  CASE level = "0" -> {Blocks}
    [] level = "1" -> {{}}
    [] level = "X" -> SUBSET Blocks

Press   == AssertReset /\ missed' = Blocks /\ UNCHANGED age
Release == ReleaseReset /\ UNCHANGED <<age, missed>>

Edge ==
  /\ SyncEdge
  /\ \E resets \in SomeSampling(reset_level) : BlocksSample(resets)

\* Reset rises at an edge: every block may or may not see it yet.
PressAtEdge ==
  /\ AssertReset
  /\ \E resets \in SomeSampling(IF reset_level = "0" THEN "0" ELSE "X") :
       /\ age' = [b \in Blocks |-> IF b \in resets THEN 0 ELSE Older(age[b])]
       /\ missed' = Blocks \ resets

ReleaseAtEdge ==
  /\ ReleaseResetAtEdge
  /\ \E resets \in SomeSampling(reset_level) : BlocksSample(resets)

DomainNext == Press \/ Release \/ Edge \/ PressAtEdge \/ ReleaseAtEdge

DomainSpec == DomainInit /\ [][DomainNext]_domainVars

\* The clock runs while the button is left alone.
DomainFairSpec == DomainSpec /\ WF_domainVars(Edge)

------------------------------------------------------------------------------
\* No press is lost, however short: when reset is low every block has been
\* reset since the last press (reset_sync.sv 9-10; the blocks themselves look
\* at reset only at clock edges).
EveryPressResets == reset_level = "1" => missed = {}

\* All blocks leave reset at the same edge, although the button is released
\* at any moment: the core never starts while the bus is still held.
BlocksStartTogether ==
  reset_level # "0" => \A b, c \in Blocks : age[b] = age[c]

\* A released button means a running machine, two edges later.
ReleaseCompletes == <>[]reset_n_async => <>[](reset_level = "1")
=============================================================================
