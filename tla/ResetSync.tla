----------------------------- MODULE ResetSync ------------------------------
(***************************************************************************)
(* rtl/platform/reset_sync.sv: reset is asserted by the button at once and *)
(* released by two flip-flops.  A flip-flop that samples an input just as  *)
(* it changes is metastable: its output is "X" until the next edge, and    *)
(* whoever samples it may see either value.                                *)
(***************************************************************************)
EXTENDS Integers

VARIABLES
  reset_n_async,
  release_sync     \* <<bit 0, bit 1>>, each 0, 1 or "X"

syncVars == <<reset_n_async, release_sync>>

\* Neither flip-flop has an initial value, but a pressed button clears both.
SyncInit ==
  /\ reset_n_async \in BOOLEAN
  /\ release_sync \in {"0", "1"} \X {"0", "1"}
  /\ ~reset_n_async => release_sync = <<"0", "0">>

\* What one flip-flop may sample from a wire.
Seen(level) == IF level = "X" THEN {"0", "1"} ELSE {level}

\* Mutant: one flip-flop only.
reset_level_OneStage == release_sync[1]

\* The complement of reset.
reset_level == release_sync[2]

\* Mutant: the button is only looked at by the clock.
AssertReset_Synchronous ==
  reset_n_async /\ reset_n_async' = FALSE /\ UNCHANGED release_sync

\* negedge reset_n_async.
AssertReset ==
  /\ reset_n_async
  /\ reset_n_async' = FALSE
  /\ release_sync' = <<"0", "0">>

ReleaseReset ==
  /\ ~reset_n_async
  /\ reset_n_async' = TRUE
  /\ UNCHANGED release_sync

\* Mutant: the second flip-flop shifts in itself.
SyncEdge_HoldsStage ==
  /\ release_sync' = IF reset_n_async THEN <<"1", release_sync[2]>>
                                      ELSE <<"0", "0">>
  /\ UNCHANGED reset_n_async

\* posedge clk.
SyncEdge ==
  /\ \E bit \in Seen(release_sync[1]) :
       release_sync' = IF reset_n_async THEN <<"1", bit>> ELSE <<"0", "0">>
  /\ UNCHANGED reset_n_async

\* posedge clk while the button is released: whether bit 0 takes the 1 is open.
ReleaseResetAtEdge ==
  /\ ~reset_n_async
  /\ reset_n_async' = TRUE
  /\ release_sync' = <<"X", "0">>
=============================================================================
