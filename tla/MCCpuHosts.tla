----------------------------- MODULE MCCpuHosts -----------------------------
(***************************************************************************)
(* Instances of CpuHosts for TLC.                                          *)
(***************************************************************************)
EXTENDS CpuHosts, Programs

\* Programs that halt at once, after 2 or 5 instructions, loop, fault in
\* every microstate or send bytes; and files that are no ROM image.
SimulatorImages ==
  ImagesOf(<<IFormat(OP_LUI, 1, 0, 8192)>>,
           {HALT, JFormat(OP_J, -1), SFormat(1, 1, 0), W(24 * 1024, 0),
            LW_(2, 1, 2)},
           {HALT, JFormat(OP_J, -2), BFormat(OP_JR, 1, 0, 0), SFormat(1, 0, 0),
            JFormat(OP_JAL, 0)},
           {HALT, BFormat(OP_BEQ, 0, 0, -3)})
    \cup {<<>>, <<0, 0, 0>>, [k \in 1 .. 24 |-> 0]}

MCEmbedderImages ==
  ImagesOf(<<IFormat(OP_LUI, 1, 0, 4096)>>,
           {SFormat(1, 1, 0), LW_(2, 1, 4)}, MemoryPool, MemoryPool)
    \cup ImagesOf(<<IFormat(OP_LUI, 1, 0, 8192), IFormat(OP_ADDI, 2, 0, -1)>>,
                  DevicePool, {SFormat(2, 1, 264)}, DevicePool)
    \cup ImagesOf(<<IFormat(OP_ADDI, 1, 0, -1), IFormat(OP_ADDI, 2, 0, 3)>>,
                  ControlPool, {JFormat(OP_JAL, 1), BFormat(OP_BNE, 1, 3, 1),
                                RFormat(OP_SUB, 3, 0, 2)},
                  {HALT, JFormat(OP_J, -3), BFormat(OP_JR, 31, 0, 0)})

MCImages == SimulatorImages \cup MCEmbedderImages

MCCommands ==
  [argc : {4}, option_known : BOOLEAN, number_ok : BOOLEAN, limit : 0 .. 5]
    \cup [argc : {1, 2, 3}, option_known : {FALSE}, number_ok : {FALSE},
          limit : {0}]

MCGpioInputs == {Zero, W(0, 32768)}
=============================================================================
