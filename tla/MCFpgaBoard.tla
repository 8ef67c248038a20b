---------------------------- MODULE MCFpgaBoard -----------------------------
(***************************************************************************)
(* Instances of FpgaBoard: programs/fpga_bringup.asm cut down to a message *)
(* of two bytes, with its GPIO pattern and its HALT.                       *)
(***************************************************************************)
EXTENDS FpgaBoard, Programs

BringupImage ==
  ImageOf(<<IFormat(OP_LUI, 1, 0, 8192), IFormat(OP_ADDI, 2, 0, 15),
            SFormat(2, 1, 520),                        \* DIRECTION := 15
            IFormat(OP_ADDI, 2, 0, 77), SFormat(2, 1, 0),
            IFormat(OP_ADDI, 2, 0, 10), SFormat(2, 1, 0),
            SFormat(2, 1, 516),                        \* OUTPUT := 10
            HALT>>)

\* Bytes faster than the line takes them: the fourth finds the FIFO full.
HastyImage ==
  ImageOf(<<IFormat(OP_LUI, 1, 0, 8192), IFormat(OP_ADDI, 2, 0, 77),
            SFormat(2, 1, 0), SFormat(2, 1, 0), SFormat(2, 1, 0),
            SFormat(2, 1, 0), HALT>>)

MCImages       == {BringupImage, HastyImage}
MCPowerUpWords == {Zero}
MCGpioInputs   == {Zero}
MCMessage      == [i \in MCImages |-> IF i = BringupImage THEN <<77, 10>>
                                                         ELSE <<77, 77, 77>>]
MCFinalLeds    == [i \in MCImages |-> IF i = BringupImage THEN {1, 3, 4}
                                                         ELSE {4, 5}]
MCData         == 0 .. 255
MCPowerUpData  == {10, 77}
=============================================================================
