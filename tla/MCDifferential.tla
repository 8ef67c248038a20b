--------------------------- MODULE MCDifferential ---------------------------
(***************************************************************************)
(* Instances of Differential for TLC.  RAM powers up with other contents   *)
(* than the C++ RAM, so every program that reads RAM has written it before *)
(* and none fetches from the STM32 window: they are Comparable.            *)
(***************************************************************************)
EXTENDS Differential, Programs

MCImages ==
  ImagesOf(<<IFormat(OP_LUI, 1, 0, 4096), SFormat(1, 1, 0), SFormat(1, 1, 4)>>,
           MemoryPool \ StoppingPool, MemoryPool, {HALT})
    \cup ImagesOf(<<IFormat(OP_LUI, 1, 0, 4096), IFormat(OP_ADDI, 3, 1, 8)>>,
                  {SFormat(1, 1, 0), SFormat(2, 1, 4), RFormat(OP_ADD, 2, 1, 2)},
                  {SFormat(1, 3, -4), SFormat(3, 3, -8)},
                  {SFormat(3, 3, -4), LW_(0, 3, -4), HALT})
    \cup ImagesOf(<<IFormat(OP_LUI, 1, 0, 8192), IFormat(OP_ADDI, 2, 0, -1)>>,
                  {SFormat(2, 1, 264)}, DevicePool \ {HALT},
                  {SFormat(2, 1, 0), SFormat(2, 1, 256), LW_(2, 1, 268), HALT})
    \cup ImagesOf(<<IFormat(OP_LUI, 1, 0, 8192), SFormat(1, 1, 0)>>,
                  {SFormat(1, 1, 0)}, {SFormat(1, 1, 0), SFormat(3, 1, 768)},
                  {HALT})
    \cup ImagesOf(<<IFormat(OP_ADDI, 1, 0, -1), IFormat(OP_ADDI, 2, 0, 3)>>,
                  ControlPool \ {HALT},
                  {JFormat(OP_JAL, 1), JFormat(OP_J, -1)}, {HALT})

MCPowerUpWords == {Zero, W(57005, 48879)}
MCGpioInputs   == {Zero}
=============================================================================
