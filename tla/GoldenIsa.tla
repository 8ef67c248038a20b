----------------------------- MODULE GoldenIsa ------------------------------
(***************************************************************************)
(* Decoding and execution as the C++ golden model defines them:            *)
(* simulator/src/decoder.cpp and alu.cpp.  Written from the C++, not from  *)
(* the RTL datapath of CpuDatapath, so that the two can be compared.       *)
(***************************************************************************)
EXTENDS Mini32Pkg

is_r_format(opcode) == opcode \in (OP_NOP .. OP_SHR) \cup {OP_HALT}

format_for(opcode) ==
  CASE is_r_format(opcode)             -> "R"
    [] opcode \in OP_ADDI .. OP_LW     -> "I"
    [] opcode = OP_SW                  -> "S"
    [] opcode \in OP_BEQ .. OP_BGE     -> "B"
    [] opcode \in {OP_J, OP_JAL}       -> "J"
    [] opcode = OP_JR                  -> "Jr"

\* The instruction shifted right by 21, 16 and 11 places, masked to 5 bits.
Field21(i) == (i.hi \div 32) % 32
Field16(i) == i.hi % 32
Field11(i) == (i.lo \div 2048) % 32

\* decode: the error, or the fields that the format defines (others are 0).
Malformed(opcode, i) ==
  \/ opcode \in {OP_NOP, OP_HALT} /\ (i.hi % 1024 # 0 \/ i.lo # 0)
  \/ format_for(opcode) = "R" /\ i.lo % 2048 # 0
  \/ format_for(opcode) = "Jr" /\ (i.hi % 32 # 0 \/ i.lo # 0)
  \/ opcode = OP_LUI /\ Field16(i) # 0

DecodeError(i) ==
  LET opcode == i.hi \div 1024
  IN  CASE opcode > OP_HALT                             -> "IllegalOpcode"
        [] opcode <= OP_HALT /\ Malformed(opcode, i)    -> "MalformedEncoding"
        [] OTHER                                        -> "None"

\* The fields of an instruction with DecodeError(i) = "None".
Decode(i) ==
  LET opcode == i.hi \div 1024
      format == format_for(opcode)
  IN  [opcode |-> opcode,
       rd     |-> IF format \in {"R", "I"} THEN Field21(i) ELSE 0,
       rs1    |-> CASE format \in {"R", "I", "S"} -> Field16(i)
                    [] format \in {"B", "Jr"}     -> Field21(i)
                    [] OTHER                      -> 0,
       rs2    |-> CASE format = "R" -> Field11(i)
                    [] format = "S" -> Field21(i)
                    [] format = "B" -> Field16(i)
                    [] OTHER        -> 0,
       imm16  |-> IF format \in {"I", "S", "B"} THEN i.lo ELSE 0,
       imm26  |-> IF format = "J" THEN W(i.hi % 1024, i.lo) ELSE Zero]

------------------------------------------------------------------------------
\* control_for.

DefaultControl ==
  [reg_write |-> FALSE, alu_src_immediate |-> FALSE, alu_operation |-> "Add",
   writeback_source |-> "Alu", register_destination |-> "DecodedRd",
   immediate_kind |-> "None", memory_operation |-> "None",
   control_flow |-> "Sequential", branch_predicate |-> "None",
   halt |-> FALSE]

RegisterControl(operation) ==
  [DefaultControl EXCEPT !.reg_write = TRUE, !.alu_operation = operation]

ImmediateControl(operation, kind) ==
  [RegisterControl(operation) EXCEPT !.alu_src_immediate = TRUE,
                                     !.immediate_kind = kind]

BranchControl(predicate) ==
  [DefaultControl EXCEPT !.control_flow = "ConditionalBranch",
                         !.branch_predicate = predicate]

control_for(opcode) ==
  CASE opcode = OP_NOP  -> DefaultControl
    [] opcode = OP_ADD  -> RegisterControl("Add")
    [] opcode = OP_SUB  -> RegisterControl("Sub")
    [] opcode = OP_AND  -> RegisterControl("And")
    [] opcode = OP_OR   -> RegisterControl("Or")
    [] opcode = OP_XOR  -> RegisterControl("Xor")
    [] opcode = OP_SLT  -> RegisterControl("Slt")
    [] opcode = OP_SHL  -> RegisterControl("ShiftLeft")
    [] opcode = OP_SHR  -> RegisterControl("ShiftRight")
    [] opcode = OP_ADDI -> ImmediateControl("Add", "Signed16")
    [] opcode = OP_ANDI -> ImmediateControl("And", "ZeroExtended16")
    [] opcode = OP_ORI  -> ImmediateControl("Or", "ZeroExtended16")
    [] opcode = OP_XORI -> ImmediateControl("Xor", "ZeroExtended16")
    [] opcode = OP_LUI  -> ImmediateControl("Add", "Upper16")
    [] opcode = OP_LW   -> [ImmediateControl("Add", "Signed16") EXCEPT
                              !.writeback_source = "Memory",
                              !.memory_operation = "Load"]
    [] opcode = OP_SW   -> [ImmediateControl("Add", "Signed16") EXCEPT
                              !.reg_write = FALSE,
                              !.memory_operation = "Store"]
    [] opcode = OP_BEQ  -> BranchControl("Equal")
    [] opcode = OP_BNE  -> BranchControl("NotEqual")
    [] opcode = OP_BLT  -> BranchControl("SignedLessThan")
    [] opcode = OP_BGE  -> BranchControl("SignedGreaterEqual")
    [] opcode = OP_J    -> [DefaultControl EXCEPT
                              !.control_flow = "RelativeJump"]
    [] opcode = OP_JAL  -> [DefaultControl EXCEPT
                              !.reg_write = TRUE,
                              !.writeback_source = "PcPlus4",
                              !.register_destination = "ReturnAddress",
                              !.control_flow = "RelativeJump"]
    [] opcode = OP_JR   -> [DefaultControl EXCEPT
                              !.control_flow = "RegisterJump"]
    [] opcode = OP_HALT -> [DefaultControl EXCEPT !.halt = TRUE]

------------------------------------------------------------------------------
\* Immediates, displacements, ALU and branch predicates.

immediate_value(kind, immediate) ==
  CASE kind = "None"           -> Zero
    [] kind = "Signed16"       -> IF immediate < 32768 THEN W(0, immediate)
                                                       ELSE W(65535, immediate)
    [] kind = "ZeroExtended16" -> W(0, immediate)
    [] kind = "Upper16"        -> W(immediate, 0)

\* A product by 4U, modulo 2^32.
Times4(w) == LET twice == Add(w, w) IN Add(twice, twice)

branch_displacement(immediate) ==
  Times4(immediate_value("Signed16", immediate))

\* The bits 0xFC000000 sign-extend an immediate whose bit 25 is set.
jump_displacement(imm26) ==
  Times4(IF imm26.hi < 512 THEN imm26 ELSE W(imm26.hi + 64512, imm26.lo))

signed_less_than(lhs, rhs) ==
  IF SignBit(lhs) # SignBit(rhs) THEN SignBit(lhs) ELSE ULess(lhs, rhs)

Execute(operation, lhs, rhs) ==
  CASE operation = "Add"        -> Add(lhs, rhs)
    [] operation = "Sub"        -> Sub(lhs, rhs)
    [] operation = "And"        -> And(lhs, rhs)
    [] operation = "Or"         -> Or(lhs, rhs)
    [] operation = "Xor"        -> Xor(lhs, rhs)
    [] operation = "Slt"        -> IF signed_less_than(lhs, rhs) THEN One
                                                                 ELSE Zero
    [] operation = "ShiftLeft"  -> ShiftLeft(lhs, rhs.lo % 32)
    [] operation = "ShiftRight" -> ShiftRight(lhs, rhs.lo % 32)

branch_taken(predicate, lhs, rhs) ==
  CASE predicate = "Equal"              -> lhs = rhs
    [] predicate = "NotEqual"           -> lhs # rhs
    [] predicate = "SignedLessThan"     -> signed_less_than(lhs, rhs)
    [] predicate = "SignedGreaterEqual" -> ~signed_less_than(lhs, rhs)
    [] predicate = "None"               -> FALSE
=============================================================================
