----------------------------- MODULE GoldenCpu ------------------------------
(***************************************************************************)
(* CpuCore::tick() of the C++ simulator, one action per microstate, with   *)
(* every latch that one microstate leaves for a later one.  The bus and    *)
(* the devices are those of GoldenModel, whose step() these ticks must     *)
(* implement (module CpuHosts).                                            *)
(***************************************************************************)
EXTENDS GoldenIsa, Sequences

CONSTANTS Images, GpioInputs

\* A file is bytes, of whatever length; pins carry words.
ASSUME ImagesAreBytes == Images \subseteq Seq(Byte)
ASSUME GpioInputsAreWords == GpioInputs \subseteq Word

VARIABLES
  image, pc, registers, fault_info, ram, timer, gpio, debug_value, uart_log,
  microstate,
  latch,                \* the latches between microstates, as one record
  retired_instructions

devices == <<ram, gpio, debug_value, uart_log>>
cpuVars == <<image, pc, registers, fault_info, devices, timer, microstate,
             latch, retired_instructions>>

halted  == microstate = "Halted"
faulted == microstate = "Fault"

Status == CASE halted  -> "HALTED"
            [] faulted -> "FAULT"
            [] OTHER   -> "RUNNING"

\* Ram clears its bytes_: this is the golden model with memory all zero.
Golden == INSTANCE GoldenModel WITH status <- Status, PowerUpWords <- {Zero}

\* control_signals_ is no field: it is always control_for the decoded opcode.
NoLatch ==
  [instruction_register |-> Zero, decoded_instruction |-> "nullopt",
   operand_lhs |-> Zero, operand_rhs |-> Zero, store_data |-> Zero,
   alu_result |-> Zero, memory_data |-> Zero, pc_plus_4 |-> Zero,
   next_pc |-> Zero]

CpuInit ==
  /\ image \in Images
  /\ pc = Zero
  /\ registers = [r \in Register |-> Zero]
  /\ fault_info = Golden!NoFaultInfo
  /\ ram = [k \in Golden!RamBytes |-> 0]
  /\ timer = Golden!TimerOff
  /\ gpio = Golden!GpioOff
  /\ debug_value = Zero
  /\ uart_log = <<>>
  /\ microstate = "Fetch"
  /\ latch = NoLatch
  /\ retired_instructions = 0

\* Mutant: reset() forgets the microstate, so the abandoned instruction is
\* finished by the next tick.
reset_KeepsMicrostate ==
  /\ pc' = Zero
  /\ registers' = [r \in Register |-> Zero]
  /\ fault_info' = Golden!NoFaultInfo
  /\ retired_instructions' = 0
  /\ microstate' = IF halted \/ faulted THEN "Fetch" ELSE microstate
  /\ UNCHANGED <<image, devices, timer, latch>>

\* CpuCore::reset(): the core alone; memories and devices keep their state.
reset ==
  /\ pc' = Zero
  /\ registers' = [r \in Register |-> Zero]
  /\ fault_info' = Golden!NoFaultInfo
  /\ microstate' = "Fetch"
  /\ latch' = NoLatch
  /\ retired_instructions' = 0
  /\ UNCHANGED <<image, devices, timer>>

------------------------------------------------------------------------------
decoded == latch.decoded_instruction
control == control_for(decoded.opcode)

fetch_fault_code(f) ==
  CASE f = "MISALIGNED"     -> "MISALIGNED_INSTRUCTION_FETCH"
    [] f = "NON_EXECUTABLE" -> "NON_EXECUTABLE_INSTRUCTION_FETCH"
    [] OTHER                -> "UNMAPPED_INSTRUCTION_FETCH"
load_fault_code(f) ==
  IF f = "MISALIGNED" THEN "MISALIGNED_LOAD" ELSE "UNMAPPED_LOAD"
store_fault_code(f) ==
  CASE f = "MISALIGNED" -> "MISALIGNED_STORE"
    [] f = "READ_ONLY"  -> "READ_ONLY_STORE"
    [] OTHER            -> "UNMAPPED_STORE"

\* The instruction recorded is what the latch holds after this tick.
enter_fault(code, has_address, address) ==
  /\ fault_info' = [code |-> code, pc |-> pc,
                    instruction |-> latch'.instruction_register,
                    has_address |-> has_address, data_address |-> address]
  /\ microstate' = "Fault"
  /\ UNCHANGED <<image, pc, registers, devices, timer, retired_instructions>>

go_to(next_microstate) ==
  /\ microstate' = next_microstate
  /\ UNCHANGED <<image, pc, registers, fault_info, devices, timer,
                 retired_instructions>>

\* written_timer is the timer after the instruction's own store, if any.
retire_to(next, written_timer) ==
  /\ pc' = next
  /\ retired_instructions' = retired_instructions + 1
  /\ timer' = Golden!RetireTick(written_timer)
  /\ UNCHANGED <<image, fault_info>>

TickFetch ==
  LET fault == Golden!fetch32_fault(pc)
  IN  /\ microstate = "Fetch"
      /\ latch' = [latch EXCEPT
           !.instruction_register = IF fault = "NONE" THEN Golden!RomRead(pc)
                                                      ELSE Zero,
           !.pc_plus_4 = Add(pc, Four),
           !.next_pc = Add(pc, Four)]
      /\ \/ fault = "NONE" /\ go_to("Decode")
         \/ fault # "NONE" /\ enter_fault(fetch_fault_code(fault), FALSE, Zero)

\* No decodable opcode lacks control signals, so the UnsupportedInstruction
\* exit of the code is never taken.
TickDecode ==
  LET ins == latch.instruction_register
      d   == Decode(ins)
      c   == control_for(d.opcode)
      rs2 == Golden!ReadRegister(d.rs2)
  IN  /\ microstate = "Decode"
      /\ \/ /\ DecodeError(ins) # "None"
            /\ UNCHANGED latch
            /\ enter_fault(IF DecodeError(ins) = "IllegalOpcode"
                             THEN "ILLEGAL_INSTRUCTION"
                             ELSE "MALFORMED_INSTRUCTION", FALSE, Zero)
         \/ /\ DecodeError(ins) = "None"
            /\ latch' = [latch EXCEPT
                 !.decoded_instruction = d,
                 !.operand_lhs = Golden!ReadRegister(d.rs1),
                 !.operand_rhs = IF c.alu_src_immediate
                                   THEN immediate_value(c.immediate_kind,
                                                        d.imm16)
                                   ELSE rs2,
                 !.store_data = rs2]
            /\ go_to("Execute")

TickExecute ==
  LET flow   == control.control_flow
      jumped == Add(latch.pc_plus_4, jump_displacement(decoded.imm26))
      target ==
        CASE flow = "ConditionalBranch" ->
               IF branch_taken(control.branch_predicate, latch.operand_lhs,
                               latch.operand_rhs)
                 THEN Add(latch.pc_plus_4, branch_displacement(decoded.imm16))
                 ELSE latch.pc_plus_4
          [] flow = "RelativeJump" -> jumped
          [] flow = "RegisterJump" -> latch.operand_lhs
  IN  /\ microstate = "Execute"
      /\ latch' = [latch EXCEPT
           !.alu_result = Execute(control.alu_operation, latch.operand_lhs,
                                  latch.operand_rhs),
           !.next_pc = IF flow = "RelativeJump" THEN jumped ELSE @]
      /\ \/ /\ flow # "Sequential" /\ ~control.reg_write
            /\ retire_to(target, timer)
            /\ microstate' = "Fetch"
            /\ UNCHANGED <<registers, devices>>
         \/ /\ flow = "Sequential" \/ control.reg_write
            /\ go_to(IF control.memory_operation = "None" THEN "Writeback"
                                                          ELSE "Memory")

TickLoad ==
  LET fault == Golden!read32_fault(latch.alu_result)
  IN  /\ microstate = "Memory"
      /\ control.memory_operation = "Load"
      /\ \/ /\ fault = "NONE"
            /\ \E input \in GpioInputs :
                 latch' = [latch EXCEPT !.memory_data =
                             Golden!read32(latch.alu_result, input)]
            /\ go_to("Writeback")
         \/ /\ fault # "NONE"
            /\ UNCHANGED latch
            /\ enter_fault(load_fault_code(fault), TRUE, latch.alu_result)

TickStore ==
  LET address == latch.alu_result
      data    == latch.store_data
      fault   == Golden!write32_fault(address)
  IN  /\ microstate = "Memory"
      /\ control.memory_operation = "Store"
      /\ UNCHANGED latch
      /\ \/ /\ fault = "NONE"
            /\ ram' = Golden!RamWritten(address, data)
            /\ gpio' = Golden!GpioWritten(address, data)
            /\ debug_value' = Golden!DebugWritten(address, data)
            /\ uart_log' = Golden!UartWritten(address, data)
            /\ retire_to(latch.next_pc, Golden!TimerWritten(address, data))
            /\ microstate' = "Fetch"
            /\ UNCHANGED registers
         \/ /\ fault # "NONE"
            /\ enter_fault(store_fault_code(fault), TRUE, address)

TickWriteback ==
  LET value == CASE control.writeback_source = "Memory"  -> latch.memory_data
                 [] control.writeback_source = "PcPlus4" -> latch.pc_plus_4
                 [] OTHER                                -> latch.alu_result
      destination == IF control.register_destination = "ReturnAddress"
                       THEN 31 ELSE decoded.rd
  IN  /\ microstate = "Writeback"
      /\ registers' = IF control.reg_write
                        THEN Golden!WriteRegister(destination, value)
                        ELSE registers
      /\ retire_to(latch.next_pc, timer)
      /\ microstate' = IF control.halt THEN "Halted" ELSE "Fetch"
      /\ UNCHANGED <<latch, devices>>

\* tick() does nothing once the core is halted or faulted.
tick == \/ TickFetch \/ TickDecode \/ TickExecute \/ TickLoad \/ TickStore
        \/ TickWriteback
=============================================================================
