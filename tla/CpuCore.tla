------------------------------ MODULE CpuCore -------------------------------
(***************************************************************************)
(* rtl/core/cpu_core.sv with its register_file.sv: the multi-cycle core.   *)
(* Each action below is one rising clock edge; the arguments rdata and     *)
(* bus_fault are the values of the bus response wires at that edge.        *)
(***************************************************************************)
EXTENDS CpuDatapath

VARIABLES
  cpu_state,             \* the FSM state
  pc,
  instruction_register,
  operand_lhs_latch, operand_rhs_latch,
  alu_result_latch, store_data_latch, memory_data_latch, next_pc_latch,
  registers,             \* r1 .. r31; r0 is not a register
  fault,                 \* fault_code, fault_pc, ... as one record
  retire                 \* retire_valid, retire_pc, ... as one record

latches == <<operand_lhs_latch, operand_rhs_latch, alu_result_latch,
             store_data_latch, memory_data_latch, next_pc_latch>>
cpuVars == <<cpu_state, pc, instruction_register, latches, registers, fault,
             retire>>

CpuState == {"FETCH", "DECODE", "EXECUTE", "MEMORY", "WRITEBACK", "HALTED",
             "FAULT"}

FaultRecord ==
  [code : CpuFault, pc : Word, instruction : Word, address_valid : BOOLEAN,
   address : Word]

RetireRecord ==
  [valid : BOOLEAN, pc : Word, instruction : Word, next_pc : Word,
   reg_write : BOOLEAN, rd : Register, value : Word,
   mem_write : BOOLEAN, mem_addr : Word, mem_value : Word]

NoFault ==
  [code |-> "NONE", pc |-> Zero, instruction |-> Zero,
   address_valid |-> FALSE, address |-> Zero]

NoRetirement ==
  [valid |-> FALSE, pc |-> Zero, instruction |-> Zero, next_pc |-> Zero,
   reg_write |-> FALSE, rd |-> 0, value |-> Zero,
   mem_write |-> FALSE, mem_addr |-> Zero, mem_value |-> Zero]

\* Every register of cpu_core.sv holds a value of its declared width.
CpuTypeOK ==
  /\ cpu_state \in CpuState
  /\ pc \in Word
  /\ instruction_register \in Word
  /\ operand_lhs_latch \in Word
  /\ operand_rhs_latch \in Word
  /\ alu_result_latch \in Word
  /\ store_data_latch \in Word
  /\ memory_data_latch \in Word
  /\ next_pc_latch \in Word
  /\ registers \in [1 .. 31 -> Word]
  /\ fault \in FaultRecord
  /\ retire \in RetireRecord

CpuInit ==
  /\ cpu_state = "FETCH"
  /\ pc = Zero
  /\ instruction_register = Zero
  /\ operand_lhs_latch = Zero
  /\ operand_rhs_latch = Zero
  /\ alu_result_latch = Zero
  /\ store_data_latch = Zero
  /\ memory_data_latch = Zero
  /\ next_pc_latch = Zero
  /\ registers = [r \in 1 .. 31 |-> Zero]
  /\ fault = NoFault
  /\ retire = NoRetirement

------------------------------------------------------------------------------
\* Combinational outputs and internal wires.

IR == instruction_register

RegisterData(r) == IF r = 0 THEN Zero ELSE registers[r]

\* Mutant: a request whenever the core does not compute.
bus_valid_UnlessBusy ==
  cpu_state \notin {"DECODE", "EXECUTE", "WRITEBACK"}

bus_valid  == cpu_state \in {"FETCH", "MEMORY"}
bus_access ==
  IF cpu_state # "MEMORY" THEN "FETCH"
  ELSE IF ControlMemoryOperation(IR) = "STORE" THEN "WRITE" ELSE "READ"
bus_addr ==
  CASE cpu_state = "FETCH"  -> pc
    [] cpu_state = "MEMORY" -> alu_result_latch
    [] OTHER                -> Zero
bus_wdata == IF cpu_state = "MEMORY" THEN store_data_latch ELSE Zero

PcPlus4       == Add(pc, Four)
BranchTarget  == Add(PcPlus4, BranchDisplacement(IR))
JumpTarget    == Add(PcPlus4, JumpDisplacement(IR))

WritebackValue ==
  CASE ControlWritebackSource(IR) = "MEMORY"    -> memory_data_latch
    [] ControlWritebackSource(IR) = "PC_PLUS_4" -> PcPlus4
    [] OTHER                                    -> alu_result_latch

fetch_fault(f) ==
  CASE f = "MISALIGNED"     -> "MISALIGNED_INSTRUCTION_FETCH"
    [] f = "NON_EXECUTABLE" -> "NON_EXECUTABLE_INSTRUCTION_FETCH"
    [] OTHER                -> "UNMAPPED_INSTRUCTION_FETCH"

load_fault(f) ==
  IF f = "MISALIGNED" THEN "MISALIGNED_LOAD" ELSE "UNMAPPED_LOAD"

store_fault(f) ==
  CASE f = "MISALIGNED" -> "MISALIGNED_STORE"
    [] f = "READ_ONLY"  -> "READ_ONLY_STORE"
    [] OTHER            -> "UNMAPPED_STORE"

decode_fault ==
  CASE DecodeMalformed(IR)                     -> "MALFORMED_INSTRUCTION"
    [] ~DecodeMalformed(IR) /\ ~DecodeValid(IR) -> "ILLEGAL_INSTRUCTION"
    [] OTHER                                   -> "UNSUPPORTED_INSTRUCTION"

------------------------------------------------------------------------------
\* The two tasks of cpu_core.sv, and the pulses every edge without a
\* retirement clears.

\* Mutant: the default assignments before the case are missing.
RetirePulsesCleared_Sticky == retire

RetirePulsesCleared ==
  [retire EXCEPT !.valid = FALSE, !.reg_write = FALSE, !.mem_write = FALSE]

\* Mutant: an attempted write counts as a write.
record_retirement_Tried(reg, destination, value, next, mem, address, wdata) ==
  retire' =
    [valid |-> TRUE, pc |-> pc, instruction |-> IR, next_pc |-> next,
     reg_write |-> reg /\ destination # 0,
     rd |-> destination, value |-> value,
     mem_write |-> mem, mem_addr |-> address,
     mem_value |-> wdata]

record_retirement(reg, destination, value, next, mem, address, wdata) ==
  retire' =
    [valid |-> TRUE, pc |-> pc, instruction |-> IR, next_pc |-> next,
     reg_write |-> /\ reg
                   /\ destination # 0
                   /\ value # RegisterData(WritebackDestination(IR)),
     rd |-> destination, value |-> value,
     mem_write |-> mem, mem_addr |-> address,
     mem_value |-> wdata]

retire_jump(next) ==
  /\ pc' = next
  /\ record_retirement(FALSE, 0, Zero, next, FALSE, Zero, Zero)
  /\ cpu_state' = "FETCH"

enter_fault(error, error_instruction, address_is_valid, error_address) ==
  /\ fault' = [code |-> error, pc |-> pc, instruction |-> error_instruction,
               address_valid |-> address_is_valid, address |-> error_address]
  /\ cpu_state' = "FAULT"
  /\ retire' = RetirePulsesCleared

------------------------------------------------------------------------------
\* Clock edges.

CpuReset ==
  /\ cpu_state' = "FETCH"
  /\ pc' = Zero
  /\ instruction_register' = Zero
  /\ operand_lhs_latch' = Zero
  /\ operand_rhs_latch' = Zero
  /\ alu_result_latch' = Zero
  /\ store_data_latch' = Zero
  /\ memory_data_latch' = Zero
  /\ next_pc_latch' = Zero
  /\ registers' = [r \in 1 .. 31 |-> Zero]
  /\ fault' = NoFault
  /\ retire' = NoRetirement

\* FETCH or MEMORY without bus_ready: the core waits and holds its request.
CpuWait ==
  /\ bus_valid
  /\ retire' = RetirePulsesCleared
  /\ UNCHANGED <<cpu_state, pc, instruction_register, latches, registers,
                 fault>>

FetchComplete(rdata, bus_fault) ==
  /\ cpu_state = "FETCH"
  /\ bus_fault = "NONE"
  /\ instruction_register' = rdata
  /\ cpu_state' = "DECODE"
  /\ retire' = RetirePulsesCleared
  /\ UNCHANGED <<pc, latches, registers, fault>>

FetchFaulted(bus_fault) ==
  /\ cpu_state = "FETCH"
  /\ bus_fault # "NONE"
  /\ enter_fault(fetch_fault(bus_fault), Zero, FALSE, Zero)
  /\ UNCHANGED <<pc, instruction_register, latches, registers>>

DecodeReject ==
  /\ cpu_state = "DECODE"
  /\ ~(DecodeValid(IR) /\ ControlSupported(IR))
  /\ enter_fault(decode_fault, IR, FALSE, Zero)
  /\ UNCHANGED <<pc, instruction_register, latches, registers>>

DecodeOperands ==
  /\ cpu_state = "DECODE"
  /\ DecodeValid(IR)
  /\ ControlSupported(IR)
  /\ operand_lhs_latch' = RegisterData(DecodedRs1(IR))
  /\ operand_rhs_latch' = IF ControlAluSrcImmediate(IR)
                            THEN ImmediateValue(IR)
                            ELSE RegisterData(DecodedRs2(IR))
  /\ store_data_latch' = RegisterData(DecodedRs2(IR))
  /\ next_pc_latch' = PcPlus4
  /\ cpu_state' = "EXECUTE"
  /\ retire' = RetirePulsesCleared
  /\ UNCHANGED <<pc, instruction_register, alu_result_latch,
                 memory_data_latch, registers, fault>>

\* What every EXECUTE edge does.
ExecuteAlu ==
  /\ cpu_state = "EXECUTE"
  /\ alu_result_latch' = AluResult(ControlAluOperation(IR),
                                   operand_lhs_latch, operand_rhs_latch)
  /\ UNCHANGED <<instruction_register, operand_lhs_latch, operand_rhs_latch,
                 store_data_latch, memory_data_latch, registers, fault>>

ExecuteBranch ==
  /\ ExecuteAlu
  /\ ControlFlow(IR) = "CONDITIONAL_BRANCH"
  /\ retire_jump(IF BranchTaken(IR, operand_lhs_latch, operand_rhs_latch)
                   THEN BranchTarget ELSE PcPlus4)
  /\ UNCHANGED next_pc_latch

ExecuteJump ==
  /\ ExecuteAlu
  /\ ControlFlow(IR) = "RELATIVE_JUMP"
  /\ ~ControlRegWrite(IR)
  /\ next_pc_latch' = JumpTarget
  /\ retire_jump(JumpTarget)

ExecuteJumpAndLink ==
  /\ ExecuteAlu
  /\ ControlFlow(IR) = "RELATIVE_JUMP"
  /\ ControlRegWrite(IR)
  /\ next_pc_latch' = JumpTarget
  /\ cpu_state' = "WRITEBACK"
  /\ retire' = RetirePulsesCleared
  /\ UNCHANGED pc

ExecuteJumpRegister ==
  /\ ExecuteAlu
  /\ ControlFlow(IR) = "REGISTER_JUMP"
  /\ retire_jump(operand_lhs_latch)
  /\ UNCHANGED next_pc_latch

ExecuteSequential ==
  /\ ExecuteAlu
  /\ ControlFlow(IR) = "SEQUENTIAL"
  /\ cpu_state' = IF ControlMemoryOperation(IR) # "NONE"
                    THEN "MEMORY" ELSE "WRITEBACK"
  /\ retire' = RetirePulsesCleared
  /\ UNCHANGED <<pc, next_pc_latch>>

MemoryFaulted(bus_fault) ==
  /\ cpu_state = "MEMORY"
  /\ bus_fault # "NONE"
  /\ enter_fault(IF ControlMemoryOperation(IR) = "LOAD"
                   THEN load_fault(bus_fault) ELSE store_fault(bus_fault),
                 IR, TRUE, alu_result_latch)
  /\ UNCHANGED <<pc, instruction_register, latches, registers>>

MemoryLoad(rdata, bus_fault) ==
  /\ cpu_state = "MEMORY"
  /\ bus_fault = "NONE"
  /\ ControlMemoryOperation(IR) = "LOAD"
  /\ memory_data_latch' = rdata
  /\ cpu_state' = "WRITEBACK"
  /\ retire' = RetirePulsesCleared
  /\ UNCHANGED <<pc, instruction_register, operand_lhs_latch,
                 operand_rhs_latch, alu_result_latch, store_data_latch,
                 next_pc_latch, registers, fault>>

MemoryStore(bus_fault) ==
  /\ cpu_state = "MEMORY"
  /\ bus_fault = "NONE"
  /\ ControlMemoryOperation(IR) # "LOAD"
  /\ pc' = next_pc_latch
  /\ record_retirement(FALSE, 0, Zero, next_pc_latch,
                       TRUE, alu_result_latch, store_data_latch)
  /\ cpu_state' = "FETCH"
  /\ UNCHANGED <<instruction_register, latches, registers, fault>>

\* The register file's write port is open in this state only.
Writeback ==
  /\ cpu_state = "WRITEBACK"
  /\ registers' =
       IF ControlRegWrite(IR) /\ WritebackDestination(IR) # 0
         THEN [registers EXCEPT ![WritebackDestination(IR)] = WritebackValue]
         ELSE registers
  /\ pc' = next_pc_latch
  /\ record_retirement(ControlRegWrite(IR), WritebackDestination(IR),
                       WritebackValue, next_pc_latch, FALSE, Zero, Zero)
  /\ cpu_state' = IF ControlHalt(IR) THEN "HALTED" ELSE "FETCH"
  /\ UNCHANGED <<instruction_register, latches, fault>>

CpuStopped ==
  /\ cpu_state \in {"HALTED", "FAULT"}
  /\ retire' = RetirePulsesCleared
  /\ UNCHANGED <<cpu_state, pc, instruction_register, latches, registers,
                 fault>>

\* One edge outside reset.
CpuEdge(ready, rdata, bus_fault) ==
  \/ ~ready /\ CpuWait
  \/ ready /\ FetchComplete(rdata, bus_fault)
  \/ ready /\ FetchFaulted(bus_fault)
  \/ DecodeReject
  \/ DecodeOperands
  \/ ExecuteBranch
  \/ ExecuteJump
  \/ ExecuteJumpAndLink
  \/ ExecuteJumpRegister
  \/ ExecuteSequential
  \/ ready /\ MemoryFaulted(bus_fault)
  \/ ready /\ MemoryLoad(rdata, bus_fault)
  \/ ready /\ MemoryStore(bus_fault)
  \/ Writeback
  \/ CpuStopped
=============================================================================
