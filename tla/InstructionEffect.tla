------------------------- MODULE InstructionEffect --------------------------
(***************************************************************************)
(* What one instruction does to the machine, once as the wires of the RTL  *)
(* core compute it (decoder.sv, control_unit.sv, immediate_generator.sv,   *)
(* alu.sv and the execute and write-back states of cpu_core.sv) and once   *)
(* as the C++ model does (decoder.cpp, alu.cpp, cpu_core.cpp).  Two        *)
(* decoders, two control tables and two displacement computations, written *)
(* by hand, must agree on every instruction word.  file holds the          *)
(* registers, r0 being zero.                                               *)
(***************************************************************************)
EXTENDS CpuDatapath, GoldenIsa

Plus4(pc) == Add(pc, Four)

\* An effect: the decode error; or the next pc, the register written (0:
\* none) with its value unless that is loaded, the access to memory and halt.
NoEffect(error, pc) ==
  [error |-> error, next_pc |-> pc, rd |-> 0, value |-> Zero,
   memory |-> "None", address |-> Zero, data |-> Zero, halt |-> FALSE]

------------------------------------------------------------------------------
RtlError(i) ==
  CASE DecodeValid(i)                           -> "None"
    [] ~DecodeValid(i) /\ DecodeMalformed(i)    -> "MalformedEncoding"
    [] ~DecodeValid(i) /\ ~DecodeMalformed(i)   -> "IllegalOpcode"

RtlNextPc(i, pc, lhs, rhs) ==
  CASE ControlFlow(i) = "CONDITIONAL_BRANCH" ->
         IF BranchTaken(i, lhs, rhs) THEN Add(Plus4(pc), BranchDisplacement(i))
                                     ELSE Plus4(pc)
    [] ControlFlow(i) = "RELATIVE_JUMP" -> Add(Plus4(pc), JumpDisplacement(i))
    [] ControlFlow(i) = "REGISTER_JUMP" -> lhs
    [] ControlFlow(i) = "SEQUENTIAL"    -> Plus4(pc)

RtlEffect(i, file, pc) ==
  LET lhs    == file[DecodedRs1(i)]
      rs2    == file[DecodedRs2(i)]
      rhs    == IF ControlAluSrcImmediate(i) THEN ImmediateValue(i) ELSE rs2
      alu    == AluResult(ControlAluOperation(i), lhs, rhs)
      access == ControlMemoryOperation(i)
      writes == ControlRegWrite(i) /\ WritebackDestination(i) # 0
  IN  IF RtlError(i) # "None" THEN NoEffect(RtlError(i), pc)
      ELSE [error |-> "None", next_pc |-> RtlNextPc(i, pc, lhs, rhs),
            rd      |-> IF writes THEN WritebackDestination(i) ELSE 0,
            value   |-> CASE ~writes \/ access = "LOAD" -> Zero
                          [] writes /\ ControlWritebackSource(i) = "PC_PLUS_4" ->
                               Plus4(pc)
                          [] OTHER -> alu,
            memory  |-> CASE access = "LOAD"  -> "Load"
                          [] access = "STORE" -> "Store"
                          [] access = "NONE"  -> "None",
            address |-> IF access = "NONE" THEN Zero ELSE alu,
            data    |-> IF access = "STORE" THEN rs2 ELSE Zero,
            halt    |-> ControlHalt(i)]

------------------------------------------------------------------------------
CppNextPc(d, control, pc, lhs, rhs) ==
  CASE control.control_flow = "ConditionalBranch" ->
         IF branch_taken(control.branch_predicate, lhs, rhs)
           THEN Add(Plus4(pc), branch_displacement(d.imm16)) ELSE Plus4(pc)
    [] control.control_flow = "RelativeJump" ->
         Add(Plus4(pc), jump_displacement(d.imm26))
    [] control.control_flow = "RegisterJump" -> lhs
    [] control.control_flow = "Sequential"   -> Plus4(pc)

CppEffect(i, file, pc) ==
  LET d       == Decode(i)
      control == control_for(d.opcode)
      lhs     == file[d.rs1]
      rhs     == IF control.alu_src_immediate
                   THEN immediate_value(control.immediate_kind, d.imm16)
                   ELSE file[d.rs2]
      alu     == Execute(control.alu_operation, lhs, rhs)
      access  == control.memory_operation
      target  == IF control.register_destination = "ReturnAddress" THEN 31
                                                                   ELSE d.rd
      writes  == control.reg_write /\ target # 0
  IN  IF DecodeError(i) # "None" THEN NoEffect(DecodeError(i), pc)
      ELSE [error |-> "None", next_pc |-> CppNextPc(d, control, pc, lhs, rhs),
            rd      |-> IF writes THEN target ELSE 0,
            value   |-> CASE ~writes \/ access = "Load" -> Zero
                          [] writes /\ control.writeback_source = "PcPlus4" ->
                               Plus4(pc)
                          [] OTHER -> alu,
            memory  |-> access,
            address |-> IF access = "None" THEN Zero ELSE alu,
            data    |-> IF access = "Store" THEN file[d.rs2] ELSE Zero,
            halt    |-> control.halt]

------------------------------------------------------------------------------
SameEffect(i, file, pc) == RtlEffect(i, file, pc) = CppEffect(i, file, pc)
=============================================================================
