---------------------------- MODULE GoldenModel -----------------------------
(***************************************************************************)
(* The C++ golden model, one action per CpuCore::step(): the architectural *)
(* machine that the RTL must implement.  step() runs tick() until an       *)
(* instruction retires or faults; the intermediate latches of tick() are   *)
(* private to it, so an instruction is one atomic step here.               *)
(***************************************************************************)
EXTENDS GoldenIsa, Sequences

CONSTANTS Images, PowerUpWords, GpioInputs

VARIABLES
  image,       \* the program image that Rom::load_bytes copied to address 0
  pc, registers,
  status,      \* "RUNNING", "HALTED" or "FAULT" (the final microstates)
  fault_info,
  ram,         \* Ram::bytes_
  timer, gpio, \* Timer and Gpio members; Gpio::input_ is the host's
  debug_value,
  uart_log     \* the bytes given to the Uart's tx_callback since reset

vars == <<image, pc, registers, status, fault_info, ram, timer, gpio,
          debug_value, uart_log>>

RamBytes == 0 .. 4 * RAM_WORD_COUNT - 1
NoFaultInfo == [code |-> "NONE", pc |-> Zero, instruction |-> Zero,
                has_address |-> FALSE, data_address |-> Zero]
TimerOff == [counter |-> Zero, compare |-> Zero, enabled |-> FALSE]
GpioOff  == [output |-> Zero, direction |-> Zero]

\* Byte number k (0 is the least significant) of a word.
ByteOf(w, k) ==
  LET half == IF k < 2 THEN w.lo ELSE w.hi
  IN  IF k % 2 = 0 THEN half % 256 ELSE half \div 256

WordOfBytes(b0, b1, b2, b3) == W(b3 * 256 + b2, b1 * 256 + b0)

\* C++ clears bytes_; the RTL's RAM powers up unspecified, and the machine
\* is compared with a golden model that starts from the same contents.
Init ==
  /\ image \in Images
  /\ pc = Zero
  /\ registers = [r \in Register |-> Zero]
  /\ status = "RUNNING"
  /\ fault_info = NoFaultInfo
  /\ \E words \in [0 .. RAM_WORD_COUNT - 1 -> PowerUpWords] :
       ram = [k \in RamBytes |-> ByteOf(words[k \div 4], k % 4)]
  /\ timer = TimerOff
  /\ gpio = GpioOff
  /\ debug_value = Zero
  /\ uart_log = <<>>

------------------------------------------------------------------------------
\* bus.cpp and the devices behind it.

ReadRegister(r)     == IF r = 0 THEN Zero ELSE registers[r]
WriteRegister(r, v) == IF r = 0 THEN registers ELSE [registers EXCEPT ![r] = v]

InRom(a)   == ULeq(a, ROM_LAST)
InRam(a)   == InWindow(a, RAM_BASE, RAM_LAST)
InUart(a)  == InWindow(a, UART_BASE, UART_LAST)
InTimer(a) == InWindow(a, TIMER_BASE, TIMER_LAST)
InGpio(a)  == InWindow(a, GPIO_BASE, GPIO_LAST)
InDebug(a) == InWindow(a, DEBUG_BASE, DEBUG_LAST)

RomByte(k) == IF k < Len(image) THEN image[k + 1] ELSE 0
RomRead(a) == WordOfBytes(RomByte(a.lo), RomByte(a.lo + 1),
                          RomByte(a.lo + 2), RomByte(a.lo + 3))
RamRead(a) == WordOfBytes(ram[a.lo], ram[a.lo + 1], ram[a.lo + 2],
                          ram[a.lo + 3])

TimerRead(offset) ==
  LET flag(b) == IF b THEN One ELSE Zero
  IN  CASE offset = 0  -> timer.counter
        [] offset = 4  -> timer.compare
        [] offset = 8  -> flag(timer.enabled)
        [] offset = 12 -> flag(timer.enabled /\ timer.counter = timer.compare)

GpioRead(offset, input) ==
  CASE offset = 0 -> input
    [] offset = 4 -> gpio.output
    [] offset = 8 -> gpio.direction
    [] OTHER      -> Zero

UartRead(offset)  == IF offset = 4 THEN One ELSE Zero
DebugRead(offset) == IF offset = 0 THEN debug_value ELSE Zero

fetch32_fault(a) ==
  CASE a.lo % 4 # 0                                       -> "MISALIGNED"
    [] a.lo % 4 = 0 /\ InRom(a)                           -> "NONE"
    [] a.lo % 4 = 0 /\ (InRam(a) \/ InUart(a) \/ InTimer(a) \/ InGpio(a)
                        \/ InDebug(a))                    -> "NON_EXECUTABLE"
    [] OTHER                                              -> "UNMAPPED"

data_fault(a) ==
  CASE a.lo % 4 # 0 -> "MISALIGNED"
    [] a.lo % 4 = 0 /\ (InRom(a) \/ InRam(a) \/ InUart(a) \/ InTimer(a)
                        \/ InGpio(a) \/ InDebug(a)) -> "NONE"
    [] OTHER -> "UNMAPPED"

read32_fault(a)  == data_fault(a)
write32_fault(a) ==
  IF a.lo % 4 = 0 /\ InRom(a) THEN "READ_ONLY" ELSE data_fault(a)

\* The value read at an address with read32_fault(a) = "NONE".
read32(a, input) ==
  CASE InRom(a)   -> RomRead(a)
    [] InRam(a)   -> RamRead(a)
    [] InUart(a)  -> UartRead(a.lo % 16)
    [] InTimer(a) -> TimerRead(a.lo % 16)
    [] InGpio(a)  -> GpioRead(a.lo % 16, input)
    [] InDebug(a) -> DebugRead(a.lo % 16)

RetireTick(t) == IF t.enabled THEN [t EXCEPT !.counter = Add(@, One)] ELSE t

\* The effect of write32 at an address with write32_fault(a) = "NONE".
RamWritten(a, v) ==
  [k \in RamBytes |-> IF InRam(a) /\ k \in a.lo .. a.lo + 3
                        THEN ByteOf(v, k - a.lo) ELSE ram[k]]

TimerWritten(a, v) ==
  CASE InTimer(a) /\ a.lo % 16 = 0 -> [timer EXCEPT !.counter = v]
    [] InTimer(a) /\ a.lo % 16 = 4 -> [timer EXCEPT !.compare = v]
    [] InTimer(a) /\ a.lo % 16 = 8 -> [timer EXCEPT !.enabled = v.lo % 2 = 1]
    [] OTHER                       -> timer

GpioWritten(a, v) ==
  CASE InGpio(a) /\ a.lo % 16 = 4 -> [gpio EXCEPT !.output = v]
    [] InGpio(a) /\ a.lo % 16 = 8 -> [gpio EXCEPT !.direction = v]
    [] OTHER                      -> gpio

DebugWritten(a, v) ==
  IF InDebug(a) /\ a.lo % 16 = 0 THEN v ELSE debug_value

UartWritten(a, v) ==
  IF InUart(a) /\ a.lo % 16 = 0 THEN Append(uart_log, LowByte(v))
                                ELSE uart_log

------------------------------------------------------------------------------
\* What tick() computes for the instruction at pc.

instruction == RomRead(pc)
decoded     == Decode(instruction)
control     == control_for(decoded.opcode)
operand_lhs == ReadRegister(decoded.rs1)
store_data  == ReadRegister(decoded.rs2)
operand_rhs == IF control.alu_src_immediate
                 THEN immediate_value(control.immediate_kind, decoded.imm16)
                 ELSE store_data
alu_result  == Execute(control.alu_operation, operand_lhs, operand_rhs)
pc_plus_4   == Add(pc, Four)

Fetches  == status = "RUNNING" /\ fetch32_fault(pc) = "NONE"
Decodes  == Fetches /\ DecodeError(instruction) = "None"

enter_fault(code, ins, has_address, address) ==
  /\ fault_info' = [code |-> code, pc |-> pc, instruction |-> ins,
                    has_address |-> has_address, data_address |-> address]
  /\ status' = "FAULT"
  /\ UNCHANGED <<image, pc, registers, ram, timer, gpio, debug_value,
                 uart_log>>

\* retire_to, for instructions that write neither a register nor memory.
retire_to(next) ==
  /\ pc' = next
  /\ timer' = RetireTick(timer)
  /\ UNCHANGED <<image, registers, status, fault_info, ram, gpio,
                 debug_value, uart_log>>

------------------------------------------------------------------------------
\* The steps.

FetchFault ==
  /\ status = "RUNNING"
  /\ fetch32_fault(pc) # "NONE"
  /\ enter_fault(CASE fetch32_fault(pc) = "MISALIGNED" ->
                        "MISALIGNED_INSTRUCTION_FETCH"
                   [] fetch32_fault(pc) = "NON_EXECUTABLE" ->
                        "NON_EXECUTABLE_INSTRUCTION_FETCH"
                   [] OTHER -> "UNMAPPED_INSTRUCTION_FETCH",
                 Zero, FALSE, Zero)

DecodeFault ==
  /\ Fetches
  /\ DecodeError(instruction) # "None"
  /\ enter_fault(IF DecodeError(instruction) = "IllegalOpcode"
                   THEN "ILLEGAL_INSTRUCTION" ELSE "MALFORMED_INSTRUCTION",
                 instruction, FALSE, Zero)

Branch ==
  /\ Decodes
  /\ control.control_flow = "ConditionalBranch"
  /\ retire_to(IF branch_taken(control.branch_predicate, operand_lhs,
                               operand_rhs)
                 THEN Add(pc_plus_4, branch_displacement(decoded.imm16))
                 ELSE pc_plus_4)

Jump ==
  /\ Decodes
  /\ control.control_flow = "RelativeJump"
  /\ ~control.reg_write
  /\ retire_to(Add(pc_plus_4, jump_displacement(decoded.imm26)))

JumpRegister ==
  /\ Decodes
  /\ control.control_flow = "RegisterJump"
  /\ retire_to(operand_lhs)

LoadFault ==
  /\ Decodes
  /\ control.memory_operation = "Load"
  /\ read32_fault(alu_result) # "NONE"
  /\ enter_fault(IF read32_fault(alu_result) = "MISALIGNED"
                   THEN "MISALIGNED_LOAD" ELSE "UNMAPPED_LOAD",
                 instruction, TRUE, alu_result)

StoreFault ==
  /\ Decodes
  /\ control.memory_operation = "Store"
  /\ write32_fault(alu_result) # "NONE"
  /\ enter_fault(CASE write32_fault(alu_result) = "MISALIGNED" ->
                        "MISALIGNED_STORE"
                   [] write32_fault(alu_result) = "READ_ONLY" ->
                        "READ_ONLY_STORE"
                   [] OTHER -> "UNMAPPED_STORE",
                 instruction, TRUE, alu_result)

Store ==
  /\ Decodes
  /\ control.memory_operation = "Store"
  /\ write32_fault(alu_result) = "NONE"
  /\ ram' = RamWritten(alu_result, store_data)
  /\ timer' = RetireTick(TimerWritten(alu_result, store_data))
  /\ gpio' = GpioWritten(alu_result, store_data)
  /\ debug_value' = DebugWritten(alu_result, store_data)
  /\ uart_log' = UartWritten(alu_result, store_data)
  /\ pc' = pc_plus_4
  /\ UNCHANGED <<image, registers, status, fault_info>>

\* The writeback microstate: loads, ALU instructions, JAL, NOP and HALT.
Writeback(writeback_value, next) ==
  LET destination == IF control.register_destination = "ReturnAddress"
                       THEN 31 ELSE decoded.rd
  IN  /\ registers' = IF control.reg_write
                        THEN WriteRegister(destination, writeback_value)
                        ELSE registers
      /\ pc' = next
      /\ timer' = RetireTick(timer)
      /\ status' = IF control.halt THEN "HALTED" ELSE "RUNNING"
      /\ UNCHANGED <<image, fault_info, ram, gpio, debug_value, uart_log>>

Load ==
  /\ Decodes
  /\ control.memory_operation = "Load"
  /\ read32_fault(alu_result) = "NONE"
  /\ \E input \in GpioInputs :
       Writeback(read32(alu_result, input), pc_plus_4)

JumpAndLink ==
  /\ Decodes
  /\ control.control_flow = "RelativeJump"
  /\ control.reg_write
  /\ Writeback(pc_plus_4,
               Add(pc_plus_4, jump_displacement(decoded.imm26)))

Compute ==
  /\ Decodes
  /\ control.control_flow = "Sequential"
  /\ control.memory_operation = "None"
  /\ Writeback(alu_result, pc_plus_4)

\* The reset() of the CPU and of every device; Ram has none.
Reset ==
  /\ pc' = Zero
  /\ registers' = [r \in Register |-> Zero]
  /\ status' = "RUNNING"
  /\ fault_info' = NoFaultInfo
  /\ timer' = TimerOff
  /\ gpio' = GpioOff
  /\ debug_value' = Zero
  /\ uart_log' = <<>>
  /\ UNCHANGED <<image, ram>>

Step == \/ FetchFault \/ DecodeFault \/ Branch \/ Jump \/ JumpRegister
        \/ LoadFault \/ StoreFault \/ Store \/ Load \/ JumpAndLink \/ Compute

Next == Step \/ Reset

Spec == Init /\ [][Next]_vars
=============================================================================
