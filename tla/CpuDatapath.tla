---------------------------- MODULE CpuDatapath -----------------------------
(***************************************************************************)
(* The combinational datapath of the RTL core: decoder.sv, control_unit.sv,*)
(* immediate_generator.sv and alu.sv.  An operator of an instruction word  *)
(* i stands for the wire of the same name while instruction_register = i.  *)
(***************************************************************************)
EXTENDS Mini32Pkg

------------------------------------------------------------------------------
\* decoder.sv: field extraction and the encodings it refuses.

RTypeOps  == OP_ADD .. OP_SHR
BranchOps == OP_BEQ .. OP_BGE
KnownOps  == OP_NOP .. OP_HALT

Opcode(i)      == i.hi \div 1024
Bits25_21(i)   == (i.hi \div 32) % 32
Bits20_16(i)   == i.hi % 32
Bits15_11(i)   == i.lo \div 2048
DecodedRd(i)   == Bits25_21(i)
DecodedImm16(i) == i.lo

\* Mutant: JR takes its register from the usual field.
DecodedRs1_JrUsualField(i) ==
  IF Opcode(i) \in BranchOps THEN Bits25_21(i) ELSE Bits20_16(i)

DecodedRs1(i) ==
  IF Opcode(i) \in BranchOps \cup {OP_JR} THEN Bits25_21(i) ELSE Bits20_16(i)

DecodedRs2(i) ==
  CASE Opcode(i) = OP_SW       -> Bits25_21(i)
    [] Opcode(i) \in BranchOps -> Bits20_16(i)
    [] OTHER                   -> Bits15_11(i)

DecodeMalformed(i) ==
  \/ Opcode(i) \in {OP_NOP, OP_HALT} /\ (i.hi % 1024 # 0 \/ i.lo # 0)
  \/ Opcode(i) \in RTypeOps /\ i.lo % 2048 # 0
  \/ Opcode(i) = OP_LUI /\ Bits20_16(i) # 0
  \/ Opcode(i) = OP_JR /\ (Bits20_16(i) # 0 \/ i.lo # 0)

DecodeValid(i) == Opcode(i) \in KnownOps /\ ~DecodeMalformed(i)

------------------------------------------------------------------------------
\* control_unit.sv: each control signal as a function of the opcode.

ControlSupported(i) == Opcode(i) \in KnownOps
ControlRegWrite(i)  ==
  Opcode(i) \in (OP_ADD .. OP_LW) \cup {OP_JAL}
ControlAluSrcImmediate(i) == Opcode(i) \in OP_ADDI .. OP_SW
ControlHalt(i) == Opcode(i) = OP_HALT

ControlAluOperation(i) ==
  CASE Opcode(i) = OP_SUB             -> "SUB"
    [] Opcode(i) \in {OP_AND, OP_ANDI} -> "AND"
    [] Opcode(i) \in {OP_OR, OP_ORI}   -> "OR"
    [] Opcode(i) \in {OP_XOR, OP_XORI} -> "XOR"
    [] Opcode(i) = OP_SLT             -> "SLT"
    [] Opcode(i) = OP_SHL             -> "SHL"
    [] Opcode(i) = OP_SHR             -> "SHR"
    [] OTHER                          -> "ADD"

ControlImmediateKind(i) ==
  CASE Opcode(i) \in {OP_ADDI, OP_LW, OP_SW}     -> "SIGNED16"
    [] Opcode(i) \in {OP_ANDI, OP_ORI, OP_XORI} -> "ZERO_EXTENDED16"
    [] Opcode(i) = OP_LUI                        -> "UPPER16"
    [] OTHER                                     -> "NONE"

ControlMemoryOperation(i) ==
  CASE Opcode(i) = OP_LW -> "LOAD"
    [] Opcode(i) = OP_SW -> "STORE"
    [] OTHER             -> "NONE"

ControlWritebackSource(i) ==
  CASE Opcode(i) = OP_LW  -> "MEMORY"
    [] Opcode(i) = OP_JAL -> "PC_PLUS_4"
    [] OTHER              -> "ALU"

ControlFlow(i) ==
  CASE Opcode(i) \in BranchOps      -> "CONDITIONAL_BRANCH"
    [] Opcode(i) \in {OP_J, OP_JAL} -> "RELATIVE_JUMP"
    [] Opcode(i) = OP_JR            -> "REGISTER_JUMP"
    [] OTHER                        -> "SEQUENTIAL"

\* control_register_destination selects r31 for JAL only.
WritebackDestination(i) == IF Opcode(i) = OP_JAL THEN 31 ELSE DecodedRd(i)

------------------------------------------------------------------------------
\* immediate_generator.sv and the two displacements of cpu_core.sv.

ImmediateValue(i) ==
  LET imm == DecodedImm16(i)
  IN  CASE ControlImmediateKind(i) = "SIGNED16" ->
             W(IF imm >= 32768 THEN 65535 ELSE 0, imm)
        [] ControlImmediateKind(i) = "ZERO_EXTENDED16" -> W(0, imm)
        [] ControlImmediateKind(i) = "UPPER16"         -> W(imm, 0)
        [] OTHER                                       -> Zero

\* Mutant: the branch immediate is zero-extended.
BranchDisplacement_ZeroExtended(i) ==
  W(DecodedImm16(i) \div 16384, (DecodedImm16(i) % 16384) * 4)

\* {{14{imm16[15]}}, imm16, 2'b00}: two bits of the immediate reach the
\* upper half, above them fourteen copies of its sign.
BranchDisplacement(i) ==
  LET imm == DecodedImm16(i)
  IN  W((IF imm >= 32768 THEN 65532 ELSE 0) + (imm \div 16384),
        (imm % 16384) * 4)

\* {{4{imm26[25]}}, imm26, 2'b00}
JumpDisplacement(i) ==
  LET high == i.hi % 1024
  IN  W((IF high >= 512 THEN 61440 ELSE 0) + high * 4 + (i.lo \div 16384),
        (i.lo % 16384) * 4)

------------------------------------------------------------------------------
\* alu.sv and the branch comparison of cpu_core.sv.

\* $signed(a) < $signed(b)
SignedLess(a, b) ==
  IF SignBit(a) # SignBit(b) THEN SignBit(a) ELSE ULess(a, b)

AluResult(operation, lhs, rhs) ==
  CASE operation = "ADD" -> Add(lhs, rhs)
    [] operation = "SUB" -> Sub(lhs, rhs)
    [] operation = "AND" -> And(lhs, rhs)
    [] operation = "OR"  -> Or(lhs, rhs)
    [] operation = "XOR" -> Xor(lhs, rhs)
    [] operation = "SLT" -> IF SignedLess(lhs, rhs) THEN One ELSE Zero
    [] operation = "SHL" -> ShiftLeft(lhs, rhs.lo % 32)
    [] operation = "SHR" -> ShiftRight(lhs, rhs.lo % 32)

BranchTaken(i, lhs, rhs) ==
  CASE Opcode(i) = OP_BEQ -> lhs = rhs
    [] Opcode(i) = OP_BNE -> lhs # rhs
    [] Opcode(i) = OP_BLT -> SignedLess(lhs, rhs)
    [] Opcode(i) = OP_BGE -> ~SignedLess(lhs, rhs)
    [] OTHER              -> FALSE
=============================================================================
