------------------------- MODULE Mini32SystemProofs -------------------------
(***************************************************************************)
(* Proofs about the RTL system for every memory size, program image,       *)
(* power-up content and sequence of resets and GPIO inputs.                *)
(***************************************************************************)
EXTENDS Mini32System, InstructionEffectProofs

------------------------------------------------------------------------------
\* The datapath.

\* Register fields of an instruction are register numbers.
LEMMA FieldsInRegister ==
  ASSUME NEW i \in Word
  PROVE  /\ DecodedRd(i) \in Register
         /\ DecodedRs1(i) \in Register
         /\ DecodedRs2(i) \in Register
         /\ WritebackDestination(i) \in Register
<1>1. i.hi \in Half /\ i.lo \in Half
  BY WordHalves, SMT
<1>2. ASSUME NEW n \in Half
      PROVE  /\ (n \div 32) % 32 \in Register
             /\ n % 32 \in Register
             /\ n \div 2048 \in Register
  <2>1. n \in Int /\ 0 <= n /\ n <= 65535
    BY HalfRange, SMT
  <2> QED BY <2>1, SMT DEF Register
<1>3. /\ Bits25_21(i) \in Register
      /\ Bits20_16(i) \in Register
      /\ Bits15_11(i) \in Register
  BY <1>1, <1>2, SMT DEF Bits25_21, Bits20_16, Bits15_11
<1>4. DecodedRd(i) \in Register
  BY <1>3, Zenon DEF DecodedRd
<1>5. DecodedRs1(i) \in Register
  BY <1>3, Zenon DEF DecodedRs1
<1>6. DecodedRs2(i) \in Register
  BY <1>3, Zenon DEF DecodedRs2
<1>7. 31 \in Register
  BY SMT DEF Register
<1>8. WritebackDestination(i) \in Register
  BY <1>4, <1>7, Zenon DEF WritebackDestination
<1> QED BY <1>4, <1>5, <1>6, <1>8

\* The immediate generator drives a word.
LEMMA ImmediateInWord ==
  ASSUME NEW i \in Word
  PROVE  ImmediateValue(i) \in Word
<1>1. i.lo \in Half /\ 0 \in Half /\ 65535 \in Half
  BY WordHalves, InHalf, SMT
<1>2. W(0, i.lo) \in Word /\ W(65535, i.lo) \in Word /\ W(i.lo, 0) \in Word
  BY <1>1, WInWord, SMT
<1> QED BY <1>2, ConstantsAreWords, SMT DEF ImmediateValue, DecodedImm16

\* Both displacements are words.
LEMMA DisplacementsInWord ==
  ASSUME NEW i \in Word
  PROVE  BranchDisplacement(i) \in Word /\ JumpDisplacement(i) \in Word
<1>1. ASSUME NEW n \in Half
      PROVE  /\ (IF n >= 32768 THEN 65532 ELSE 0) + (n \div 16384) \in Half
             /\ (n % 16384) * 4 \in Half
  <2> DEFINE a == (IF n >= 32768 THEN 65532 ELSE 0) + (n \div 16384)
             b == (n % 16384) * 4
  <2>1. n \in Int /\ 0 <= n /\ n <= 65535
    BY HalfRange, SMT
  <2>2. a \in Int /\ 0 <= a /\ a <= 65535 /\ b \in Int /\ 0 <= b /\ b <= 65535
    BY <2>1, SMT
  <2> HIDE DEF a, b
  <2>3. a \in Half /\ b \in Half
    BY <2>2, InHalf, SMT
  <2> QED BY <2>3, SMT DEF a, b
<1>2. BranchDisplacement(i) \in Word
  BY <1>1, WordHalves, WInWord, SMT DEF BranchDisplacement, DecodedImm16
<1>3. JumpDisplacement(i) \in Word
  <2> DEFINE h == (IF i.hi % 1024 >= 512 THEN 61440 ELSE 0)
                    + (i.hi % 1024) * 4 + (i.lo \div 16384)
             l == (i.lo % 16384) * 4
  <2>1. h \in Int /\ 0 <= h /\ h <= 65535 /\ l \in Int /\ 0 <= l /\ l <= 65535
    BY WordParts, SMT
  <2>2. JumpDisplacement(i) = W(h, l)
    BY SMT DEF JumpDisplacement
  <2> HIDE DEF h, l
  <2>3. h \in Half /\ l \in Half
    BY <2>1, InHalf, SMT
  <2> QED BY <2>2, <2>3, WInWord, SMT
<1> QED BY <1>2, <1>3

\* Whatever the control unit selects, the ALU drives a word.
LEMMA AluInWord ==
  ASSUME NEW i \in Word, NEW l \in Word, NEW r \in Word
  PROVE  AluResult(ControlAluOperation(i), l, r) \in Word
<1>1. ControlAluOperation(i)
        \in {"ADD", "SUB", "AND", "OR", "XOR", "SLT", "SHL", "SHR"}
  BY Zenon DEF ControlAluOperation
<1>2. r.lo % 32 \in 0 .. 31
  BY WordParts, SMT
<1>3. /\ Add(l, r) \in Word /\ Sub(l, r) \in Word
      /\ And(l, r) \in Word /\ Or(l, r) \in Word /\ Xor(l, r) \in Word
      /\ ShiftLeft(l, r.lo % 32) \in Word
      /\ ShiftRight(l, r.lo % 32) \in Word
      /\ (IF SignedLess(l, r) THEN One ELSE Zero) \in Word
  BY <1>2, AddInWord, SubInWord, BitwiseInWord, ShiftLeftInWord,
     ShiftRightInWord, ConstantsAreWords, Zenon
<1> QED BY <1>1, <1>3, SMT DEF AluResult

------------------------------------------------------------------------------
\* The core.

\* Reading a register gives a word, r0 included.
LEMMA RegisterDataInWord ==
  ASSUME CpuTypeOK, NEW r \in Register
  PROVE  RegisterData(r) \in Word
<1>1. r = 0 \/ r \in 1 .. 31
  BY SMT DEF Register
<1>2. registers \in [1 .. 31 -> Word]
  BY Zenon DEF CpuTypeOK
<1> QED BY <1>1, <1>2, ConstantsAreWords, Zenon DEF RegisterData

\* The wires of the core carry words.
LEMMA CpuWires ==
  ASSUME CpuTypeOK
  PROVE  /\ IR \in Word
         /\ PcPlus4 \in Word
         /\ BranchTarget \in Word
         /\ JumpTarget \in Word
         /\ WritebackValue \in Word
         /\ CpuRequest \in Request
<1>1. /\ IR \in Word /\ pc \in Word /\ alu_result_latch \in Word
      /\ memory_data_latch \in Word /\ store_data_latch \in Word
  BY Zenon DEF CpuTypeOK, IR
<1>2. PcPlus4 \in Word
  BY <1>1, AddInWord, ConstantsAreWords, Zenon DEF PcPlus4
<1>3. BranchTarget \in Word /\ JumpTarget \in Word
  BY <1>1, <1>2, AddInWord, DisplacementsInWord, Zenon
     DEF BranchTarget, JumpTarget
<1>4. WritebackValue \in Word
  BY <1>1, <1>2, Zenon DEF WritebackValue
<1>5. bus_addr \in Word /\ bus_wdata \in Word
  BY <1>1, ConstantsAreWords, Zenon DEF bus_addr, bus_wdata
<1>6. bus_access \in BusAccess
  BY Zenon DEF bus_access, BusAccess
<1>7. CpuRequest \in Request
  BY <1>5, <1>6, SMT DEF CpuRequest, RequestOf, Request
<1> QED BY <1>1, <1>2, <1>3, <1>4, <1>7

\* The pulses that every edge without a retirement clears.
LEMMA RetireCleared ==
  ASSUME retire \in RetireRecord
  PROVE  /\ RetirePulsesCleared \in RetireRecord
         /\ RetirePulsesCleared.valid = FALSE
BY Zenon DEF RetirePulsesCleared, RetireRecord

\* Every fault that the core raises is a fault code.
LEMMA FaultCodes ==
  ASSUME NEW f
  PROVE  /\ fetch_fault(f) \in CpuFault
         /\ load_fault(f) \in CpuFault
         /\ store_fault(f) \in CpuFault
         /\ decode_fault \in CpuFault
BY Zenon DEF fetch_fault, load_fault, store_fault, decode_fault, CpuFault

\* The two tasks keep the types of what they assign.
LEMMA EnterFaultTyped ==
  ASSUME CpuTypeOK, NEW e \in CpuFault, NEW ins \in Word,
         NEW av \in BOOLEAN, NEW addr \in Word,
         enter_fault(e, ins, av, addr)
  PROVE  fault' \in FaultRecord /\ cpu_state' \in CpuState
         /\ retire' \in RetireRecord
<1>1. pc \in Word /\ retire \in RetireRecord
  BY Zenon DEF CpuTypeOK
<1>2. fault' \in FaultRecord
  BY <1>1, Zenon DEF enter_fault, FaultRecord
<1> QED BY <1>1, <1>2, RetireCleared, Zenon DEF enter_fault, CpuState

\* The record_retirement task of cpu_core.sv leaves a well-typed record.
LEMMA RecordRetirementTyped ==
  ASSUME CpuTypeOK, NEW wr \in BOOLEAN, NEW rd \in Register,
         NEW v \in Word, NEW n \in Word, NEW wm \in BOOLEAN,
         NEW ma \in Word, NEW mv \in Word,
         record_retirement(wr, rd, v, n, wm, ma, mv)
  PROVE  retire' \in RetireRecord
<1>1. pc \in Word /\ IR \in Word
  BY Zenon DEF CpuTypeOK, IR
<1> DEFINE rw == wr /\ rd # 0 /\ v # RegisterData(WritebackDestination(IR))
<1>2. rw \in BOOLEAN
  BY Zenon
<1>3. retire' = [valid |-> TRUE, pc |-> pc, instruction |-> IR,
                 next_pc |-> n, reg_write |-> rw, rd |-> rd, value |-> v,
                 mem_write |-> wm, mem_addr |-> ma, mem_value |-> mv]
  BY Zenon DEF record_retirement
<1> HIDE DEF rw
<1> QED BY <1>1, <1>2, <1>3, Zenon DEF RetireRecord

\* The parts of the type invariant that a step assigns one by one.
LEMMA CpuTypeParts ==
  ASSUME cpu_state' \in CpuState, pc' \in Word,
         instruction_register' \in Word, operand_lhs_latch' \in Word,
         operand_rhs_latch' \in Word, alu_result_latch' \in Word,
         store_data_latch' \in Word, memory_data_latch' \in Word,
         next_pc_latch' \in Word, registers' \in [1 .. 31 -> Word],
         fault' \in FaultRecord, retire' \in RetireRecord
  PROVE  CpuTypeOK'
BY Zenon DEF CpuTypeOK

\* An edge of the core outside reset keeps its types.
LEMMA CpuStep ==
  ASSUME CpuTypeOK, NEW ready \in BOOLEAN, NEW rdata \in Word, NEW f,
         CpuEdge(ready, rdata, f)
  PROVE  CpuTypeOK'
<1> USE ConstantsAreWords, CpuWires
<1>1. /\ cpu_state \in CpuState /\ pc \in Word
      /\ instruction_register \in Word /\ operand_lhs_latch \in Word
      /\ operand_rhs_latch \in Word /\ alu_result_latch \in Word
      /\ store_data_latch \in Word /\ memory_data_latch \in Word
      /\ next_pc_latch \in Word /\ registers \in [1 .. 31 -> Word]
      /\ fault \in FaultRecord /\ retire \in RetireRecord
      /\ RetirePulsesCleared \in RetireRecord
  BY RetireCleared, Zenon DEF CpuTypeOK
<1>2. 0 \in Register /\ TRUE \in BOOLEAN /\ FALSE \in BOOLEAN
  BY SMT DEF Register
<1>3. CASE CpuWait \/ CpuStopped
  BY <1>1, <1>3, CpuTypeParts, Zenon DEF CpuWait, CpuStopped, latches
<1>4. CASE FetchComplete(rdata, f)
  <2>1. "DECODE" \in CpuState
    BY Zenon DEF CpuState
  <2> QED BY <1>1, <1>4, <2>1, CpuTypeParts, Zenon DEF FetchComplete, latches
<1>5. CASE FetchFaulted(f)
  <2>1. fault' \in FaultRecord /\ cpu_state' \in CpuState
        /\ retire' \in RetireRecord
    BY <1>2, <1>5, EnterFaultTyped, FaultCodes, Zenon DEF FetchFaulted
  <2> QED BY <1>1, <1>5, <2>1, CpuTypeParts, Zenon DEF FetchFaulted, latches
<1>6. CASE DecodeReject
  <2>1. fault' \in FaultRecord /\ cpu_state' \in CpuState
        /\ retire' \in RetireRecord
    BY <1>2, <1>6, EnterFaultTyped, FaultCodes, Zenon DEF DecodeReject
  <2> QED BY <1>1, <1>6, <2>1, CpuTypeParts, Zenon DEF DecodeReject, latches
<1>7. CASE DecodeOperands
  <2>1. "EXECUTE" \in CpuState
    BY Zenon DEF CpuState
  <2>2. /\ RegisterData(DecodedRs1(IR)) \in Word
        /\ RegisterData(DecodedRs2(IR)) \in Word
        /\ ImmediateValue(IR) \in Word
    BY FieldsInRegister, RegisterDataInWord, ImmediateInWord, Zenon
  <2>3. /\ operand_lhs_latch' \in Word /\ operand_rhs_latch' \in Word
        /\ store_data_latch' \in Word /\ next_pc_latch' \in Word
    BY <1>7, <2>2, Zenon DEF DecodeOperands
  <2> QED BY <1>1, <1>7, <2>1, <2>3, CpuTypeParts, Zenon DEF DecodeOperands
<1>8. ASSUME ExecuteAlu PROVE alu_result_latch' \in Word
  BY <1>1, <1>8, AluInWord, Zenon DEF ExecuteAlu
<1>9. ASSUME NEW n \in Word, retire_jump(n)
      PROVE  pc' \in Word /\ retire' \in RetireRecord
             /\ cpu_state' \in CpuState
  <2>1. "FETCH" \in CpuState
    BY Zenon DEF CpuState
  <2> QED BY <1>2, <1>9, <2>1, RecordRetirementTyped, Zenon DEF retire_jump
<1>10. CASE ExecuteBranch
  <2>1. pc' \in Word /\ retire' \in RetireRecord /\ cpu_state' \in CpuState
    BY <1>9, <1>10, Zenon DEF ExecuteBranch
  <2> QED BY <1>1, <1>8, <1>10, <2>1, CpuTypeParts, Zenon
             DEF ExecuteBranch, ExecuteAlu
<1>11. CASE ExecuteJump
  <2>1. pc' \in Word /\ retire' \in RetireRecord /\ cpu_state' \in CpuState
        /\ next_pc_latch' \in Word
    BY <1>9, <1>11, Zenon DEF ExecuteJump
  <2> QED BY <1>1, <1>8, <1>11, <2>1, CpuTypeParts, Zenon
             DEF ExecuteJump, ExecuteAlu
<1>12. CASE ExecuteJumpAndLink
  <2>1. "WRITEBACK" \in CpuState
    BY Zenon DEF CpuState
  <2> QED BY <1>1, <1>8, <1>12, <2>1, CpuTypeParts, Zenon
             DEF ExecuteJumpAndLink, ExecuteAlu
<1>13. CASE ExecuteJumpRegister
  <2>1. pc' \in Word /\ retire' \in RetireRecord /\ cpu_state' \in CpuState
    BY <1>1, <1>9, <1>13, Zenon DEF ExecuteJumpRegister
  <2> QED BY <1>1, <1>8, <1>13, <2>1, CpuTypeParts, Zenon
             DEF ExecuteJumpRegister, ExecuteAlu
<1>14. CASE ExecuteSequential
  <2>1. cpu_state' \in CpuState
    BY <1>14, Zenon DEF ExecuteSequential, CpuState
  <2> QED BY <1>1, <1>8, <1>14, <2>1, CpuTypeParts, Zenon
             DEF ExecuteSequential, ExecuteAlu
<1>15. CASE MemoryFaulted(f)
  <2>1. fault' \in FaultRecord /\ cpu_state' \in CpuState
        /\ retire' \in RetireRecord
    BY <1>1, <1>2, <1>15, EnterFaultTyped, FaultCodes, Zenon
       DEF MemoryFaulted
  <2> QED BY <1>1, <1>15, <2>1, CpuTypeParts, Zenon
             DEF MemoryFaulted, latches
<1>16. CASE MemoryLoad(rdata, f)
  <2>1. "WRITEBACK" \in CpuState
    BY Zenon DEF CpuState
  <2> QED BY <1>1, <1>16, <2>1, CpuTypeParts, Zenon DEF MemoryLoad
<1>17. CASE MemoryStore(f)
  <2>1. cpu_state' \in CpuState /\ pc' \in Word
    BY <1>1, <1>17, Zenon DEF MemoryStore, CpuState
  <2>2. retire' \in RetireRecord
    BY <1>1, <1>2, <1>17, RecordRetirementTyped, Zenon DEF MemoryStore
  <2> QED BY <1>1, <1>17, <2>1, <2>2, CpuTypeParts, Zenon
             DEF MemoryStore, latches
<1>18. CASE Writeback
  <2>1. cpu_state' \in CpuState /\ pc' \in Word
    BY <1>1, <1>18, Zenon DEF Writeback, CpuState
  <2>2. /\ ControlRegWrite(IR) \in BOOLEAN
        /\ WritebackDestination(IR) \in Register
    <3>1. ControlRegWrite(IR) = TRUE \/ ControlRegWrite(IR) = FALSE
      BY SMT DEF ControlRegWrite
    <3> QED BY <3>1, FieldsInRegister, Zenon
  <2>3. retire' \in RetireRecord
    BY <1>1, <1>2, <1>18, <2>2, RecordRetirementTyped, Zenon DEF Writeback
  <2>4. registers' \in [1 .. 31 -> Word]
    <3>1. ASSUME NEW d PROVE [registers EXCEPT ![d] = WritebackValue]
                               \in [1 .. 31 -> Word]
      BY <1>1, Zenon
    <3> QED BY <1>1, <1>18, <3>1, Zenon DEF Writeback
  <2> QED BY <1>1, <1>18, <2>1, <2>3, <2>4, CpuTypeParts, Zenon
             DEF Writeback, latches
<1> QED BY <1>3, <1>4, <1>5, <1>6, <1>7, <1>10, <1>11, <1>12, <1>13, <1>14,
           <1>15, <1>16, <1>17, <1>18, Zenon DEF CpuEdge

------------------------------------------------------------------------------
\* The bus, its memories and devices.

\* An access that does not fault selects one of the six regions.
LEMMA RegionWhenNoFault ==
  ASSUME NEW access, NEW a, FaultOf(access, a) = "NONE"
  PROVE  /\ ~Misaligned(a)
         /\ RegionOf(a) \in {"ROM", "RAM", "UART", "TIMER", "GPIO", "DEBUG"}
         /\ RegionOf(a) = "ROM" => access # "WRITE"
         /\ RegionOf(a) # "ROM" => access # "FETCH"
<1>1. ~Misaligned(a)
  BY Zenon DEF FaultOf, RegionOf
<1>2. RegionOf(a) \in {"ROM", "RAM", "UART", "TIMER", "GPIO", "DEBUG"}
  BY <1>1, Zenon DEF FaultOf
<1>3. RegionOf(a) = "ROM" => access # "WRITE"
  BY <1>1, Zenon DEF FaultOf
<1>4. RegionOf(a) # "ROM" => access # "FETCH"
  BY <1>1, <1>2, Zenon DEF FaultOf
<1> QED BY <1>1, <1>2, <1>3, <1>4

\* The word index of a RAM access is inside the memory.
LEMMA RamIndex ==
  ASSUME NEW a \in Word, RegionOf(a) = "RAM"
  PROVE  a.lo \div 4 \in 0 .. RAM_WORD_COUNT - 1
<1>1. InWindow(a, RAM_BASE, RAM_LAST)
  BY Zenon DEF RegionOf, WindowOf
<1>2. a.hi = 4096 /\ 0 <= a.lo /\ a.lo <= 4 * RAM_WORD_COUNT - 1
  BY <1>1, WordParts, MemorySizes, SMT
     DEF InWindow, ULeq, ULess, RAM_BASE, RAM_LAST, W
<1> QED BY <1>2, WordParts, MemorySizes, SMT

\* rom.sv holds words.
LEMMA RomWordInWord ==
  ASSUME BusTypeOK, NEW i \in Nat
  PROVE  RomWord(i) \in Word
<1>1. image \in Seq(Byte)
  BY Zenon DEF BusTypeOK
<1>2. ASSUME NEW x \in Byte, NEW y \in Byte
      PROVE  x * 256 + y \in Half
  <2>1. /\ x * 256 + y \in Int /\ 0 <= x * 256 + y
        /\ x * 256 + y <= 65535
    BY SMT DEF Byte
  <2> DEFINE h == x * 256 + y
  <2>2. h \in Int /\ 0 <= h /\ h <= 65535
    BY <2>1, SMT
  <2> HIDE DEF h
  <2>3. h \in Half
    BY <2>2, InHalf, SMT
  <2> QED BY <2>3, SMT DEF h
<1>3. CASE 4 * i + 4 <= Len(image)
  <2>1. /\ image[4 * i + 1] \in Byte /\ image[4 * i + 2] \in Byte
        /\ image[4 * i + 3] \in Byte /\ image[4 * i + 4] \in Byte
    BY <1>1, <1>3, SMT
  <2>2. /\ image[4 * i + 4] * 256 + image[4 * i + 3] \in Half
        /\ image[4 * i + 2] * 256 + image[4 * i + 1] \in Half
    BY <2>1, <1>2, SMT
  <2> QED BY <1>3, <2>2, WInWord, SMT DEF RomWord
<1>4. CASE ~(4 * i + 4 <= Len(image))
  BY <1>4, ConstantsAreWords, SMT DEF RomWord
<1> QED BY <1>3, <1>4

\* What the core receives.
LEMMA ResponseTyped ==
  ASSUME BusTypeOK
  PROVE  response_rdata \in Word /\ response_ready \in BOOLEAN
<1>1. /\ rom_read_data \in Word /\ ram_read_data \in Word
      /\ uart_read_data \in Word /\ timer_read_data \in Word
      /\ gpio_read_data \in Word /\ debug_read_data \in Word
  BY Zenon DEF BusTypeOK, TimerTypeOK, MmioTypeOK
<1>2. pending_fault = "NONE" =>
        pending_region \in {"ROM", "RAM", "UART", "TIMER", "GPIO", "DEBUG"}
  BY RegionWhenNoFault, Zenon DEF pending_fault, pending_region
<1>3. response_rdata \in Word
  BY <1>1, <1>2, ConstantsAreWords, SMT DEF response_rdata
<1> QED BY <1>3, Zenon DEF response_ready

\* The pending request, by fields.
LEMMA PendingTyped ==
  ASSUME BusTypeOK
  PROVE  /\ pending.access \in BusAccess
         /\ pending.addr \in Word
         /\ pending.wdata \in Word
         /\ word_address \in Nat
         /\ Performs("RAM", "READ") => word_address \in 0 .. RAM_WORD_COUNT - 1
<1>1. /\ pending.access \in BusAccess
      /\ pending.addr \in Word
      /\ pending.wdata \in Word
  BY Zenon DEF BusTypeOK, Request
<1>2. word_address \in Nat
  BY <1>1, WordParts, SMT DEF word_address
<1>3. Performs("RAM", "READ") => word_address \in 0 .. RAM_WORD_COUNT - 1
  BY <1>1, RamIndex, Zenon DEF Performs, word_address, pending_region
<1> QED BY <1>1, <1>2, <1>3

\* rom.sv and ram.sv keep their types at every edge, reset or not.
LEMMA MemoryTyped ==
  ASSUME BusTypeOK, MemoryEdge
  PROVE  /\ image' \in Seq(Byte)
         /\ rom_read_data' \in Word
         /\ ram' \in [0 .. RAM_WORD_COUNT - 1 -> Word]
         /\ ram_read_data' \in Word
<1>1. /\ image \in Seq(Byte) /\ rom_read_data \in Word
      /\ ram \in [0 .. RAM_WORD_COUNT - 1 -> Word] /\ ram_read_data \in Word
  BY Zenon DEF BusTypeOK
<1>2. RomWord(word_address) \in Word
  BY PendingTyped, RomWordInWord, Zenon
<1>3. rom_read_data' \in Word
  BY <1>1, <1>2, Zenon DEF MemoryEdge
<1>4. [ram EXCEPT ![word_address] = pending.wdata]
        \in [0 .. RAM_WORD_COUNT - 1 -> Word]
  BY <1>1, PendingTyped, Zenon
<1>5. ram' \in [0 .. RAM_WORD_COUNT - 1 -> Word]
  BY <1>1, <1>4, Zenon DEF MemoryEdge, RamNext
<1>6. ram_read_data' \in Word
  BY <1>1, PendingTyped, Zenon DEF MemoryEdge, read_enable
<1> QED BY <1>1, <1>3, <1>5, <1>6, Zenon DEF MemoryEdge

\* The devices keep their types.
LEMMA DevicesTyped ==
  ASSUME BusTypeOK, NEW tick, NEW gpio_input \in Word,
         DeviceEdge(tick, gpio_input)
  PROVE  TimerTypeOK' /\ MmioTypeOK'
<1> DEFINE offset == register_offset
           wdata  == pending.wdata
<1> USE ConstantsAreWords
<1>1. wdata \in Word
  BY PendingTyped, Zenon
<1>2. TimerTypeOK /\ MmioTypeOK
  BY Zenon DEF BusTypeOK
<1>3. /\ TimerEdge(tick, read_enable("TIMER"), write_enable("TIMER"),
                   offset, wdata)
      /\ UartEdge(read_enable("UART"), write_enable("UART"), offset, wdata)
      /\ GpioEdge(read_enable("GPIO"), write_enable("GPIO"), offset, wdata,
                  gpio_input)
      /\ DebugEdge(read_enable("DEBUG"), write_enable("DEBUG"), offset, wdata)
  BY Zenon DEF DeviceEdge
<1> HIDE DEF offset, wdata
<1>4. timer_read_data' \in Word
  <2>1. TimerRegister(offset) \in Word
    BY <1>2, Zenon DEF TimerRegister, BoolWord, TimerTypeOK
  <2> QED BY <1>2, <1>3, <2>1, Zenon DEF TimerEdge, TimerTypeOK
<1>5. timer_counter' \in Word
  BY <1>1, <1>2, <1>3, AddInWord, Zenon
     DEF TimerEdge, TimerTypeOK, TimerCounterNext
<1>6. timer_compare' \in Word
  BY <1>1, <1>2, <1>3, Zenon DEF TimerEdge, TimerTypeOK, TimerCompareNext
<1>7. timer_enabled' \in BOOLEAN
  BY <1>1, <1>2, <1>3, Zenon DEF TimerEdge, TimerTypeOK, TimerEnabledNext
<1>8. uart_read_data' \in Word
  BY <1>2, <1>3, Zenon DEF UartEdge, MmioTypeOK
<1>9. uart_tx_valid' \in BOOLEAN
  BY <1>3, Zenon DEF UartEdge
<1>10. uart_tx_data' \in Byte
  <2>1. LowByte(wdata) \in Byte
    BY <1>1, WordParts, SMT DEF LowByte, Byte
  <2> QED BY <1>2, <1>3, <2>1, Zenon DEF UartEdge, MmioTypeOK
<1>11. gpio_read_data' \in Word
  <2>1. GpioRegister(offset, gpio_input) \in Word
    BY <1>2, Zenon DEF GpioRegister, MmioTypeOK
  <2> QED BY <1>2, <1>3, <2>1, Zenon DEF GpioEdge, MmioTypeOK
<1>12. gpio_output' \in Word /\ gpio_direction' \in Word
  BY <1>1, <1>2, <1>3, Zenon
     DEF GpioEdge, MmioTypeOK, GpioOutputNext, GpioDirectionNext
<1>13. debug_read_data' \in Word /\ debug_value' \in Word
  BY <1>1, <1>2, <1>3, Zenon DEF DebugEdge, MmioTypeOK, DebugValueNext
<1> QED BY <1>4, <1>5, <1>6, <1>7, <1>8, <1>9, <1>10, <1>11, <1>12, <1>13,
           Zenon DEF TimerTypeOK, MmioTypeOK

\* An edge of the bus outside reset keeps its types.
LEMMA BusStep ==
  ASSUME BusTypeOK, NEW valid, NEW request \in Request, NEW tick,
         NEW gpio_input \in Word, BusEdge(valid, request, tick, gpio_input)
  PROVE  BusTypeOK'
<1>1. MemoryEdge /\ DeviceEdge(tick, gpio_input)
  BY Zenon DEF BusEdge
<1>2. bus_state' \in {"IDLE", "MEMORY", "RESPONSE"} /\ pending' \in Request
  BY Zenon DEF BusEdge, BusTypeOK, CaptureRequest, NoRequest, AccessMemory,
               FinishResponse
<1>3. TimerTypeOK' /\ MmioTypeOK'
  BY <1>1, DevicesTyped, Zenon
<1> QED BY <1>1, <1>2, <1>3, MemoryTyped, Zenon DEF BusTypeOK

\* An edge in reset keeps the types of the bus.
LEMMA BusResetTyped ==
  ASSUME BusTypeOK, BusReset
  PROVE  BusTypeOK'
<1> USE ConstantsAreWords
<1>1. RequestOf("FETCH", Zero, Zero) \in Request
  BY Zenon DEF RequestOf, Request, BusAccess
<1>2. bus_state' \in {"IDLE", "MEMORY", "RESPONSE"} /\ pending' \in Request
  BY <1>1, Zenon DEF BusReset
<1>3. 0 \in Byte
  BY SMT DEF Byte
<1>4. TimerTypeOK' /\ MmioTypeOK'
  BY <1>3, Zenon DEF BusReset, TimerReset, UartReset, GpioReset, DebugReset,
                     TimerTypeOK, MmioTypeOK
<1>5. MemoryEdge
  BY Zenon DEF BusReset
<1> QED BY <1>2, <1>4, <1>5, MemoryTyped, Zenon DEF BusTypeOK

\* The core out of reset is typed.
LEMMA CpuResetTyped ==
  /\ CpuInit => CpuTypeOK
  /\ CpuReset => CpuTypeOK'
<1> USE ConstantsAreWords
<1>1. 0 \in Register
  BY SMT DEF Register
<1>2. NoFault \in FaultRecord
  BY Zenon DEF NoFault, FaultRecord, CpuFault
<1>3. NoRetirement \in RetireRecord
  BY <1>1, Zenon DEF NoRetirement, RetireRecord
<1>4. "FETCH" \in CpuState
  BY Zenon DEF CpuState
<1>5. [r \in 1 .. 31 |-> Zero] \in [1 .. 31 -> Word]
  BY Zenon
<1>6. CpuInit => CpuTypeOK
  BY <1>2, <1>3, <1>4, <1>5, Zenon DEF CpuInit, CpuTypeOK
<1>7. CpuReset => CpuTypeOK'
  BY <1>2, <1>3, <1>4, <1>5, Zenon DEF CpuReset, CpuTypeOK
<1> QED BY <1>6, <1>7

------------------------------------------------------------------------------
\* After the first edge that samples reset; the next may sample it or not.
PowerUp == CpuInit /\ BusInit /\ reset \in BOOLEAN /\ uart_log = <<>>

LEMMA InitIsPowerUp == Init => PowerUp
BY Zenon DEF Init, PowerUp

\* Every register powers up or leaves reset with a value of its width.
LEMMA TypeInit == PowerUp => TypeOK
<1> USE ConstantsAreWords
<1> SUFFICES ASSUME PowerUp PROVE TypeOK
  OBVIOUS
<1>1. CpuTypeOK
  BY CpuResetTyped, Zenon DEF PowerUp
<1>2. RequestOf("FETCH", Zero, Zero) \in Request
  BY Zenon DEF RequestOf, Request, BusAccess
<1>3. 0 \in Byte
  BY SMT DEF Byte
<1>4. image \in Seq(Byte)
  BY ImagesFit, Zenon DEF PowerUp, BusInit
<1>5. /\ rom_read_data \in PowerUpWords
      /\ ram \in [0 .. RAM_WORD_COUNT - 1 -> PowerUpWords]
      /\ ram_read_data \in PowerUpWords
  BY Zenon DEF PowerUp, BusInit
<1>6. rom_read_data \in Word /\ ram_read_data \in Word
  BY <1>5, PowerUpIsWords, Zenon
<1>7. ram \in [0 .. RAM_WORD_COUNT - 1 -> Word]
  BY <1>5, PowerUpIsWords
<1>8. TimerTypeOK /\ MmioTypeOK
  BY <1>3, Zenon DEF PowerUp, BusInit, TimerInit, MmioInit, TimerTypeOK,
                     MmioTypeOK
<1>9. BusTypeOK
  BY <1>2, <1>4, <1>6, <1>7, <1>8, Zenon DEF PowerUp, BusInit, BusTypeOK
<1>10. uart_log \in Seq(Byte)
  BY SMT DEF PowerUp
<1> QED BY <1>1, <1>9, <1>10, Zenon DEF PowerUp, TypeOK

\* Every edge keeps the types.
LEMMA TypeStep ==
  ASSUME TypeOK, [Next]_vars
  PROVE  TypeOK'
<1> USE ConstantsAreWords
<1>1. CpuTypeOK /\ BusTypeOK /\ uart_log \in Seq(Byte)
  BY Zenon DEF TypeOK
<1>2. CASE RunEdge
  <2>1. CpuTypeOK'
    BY <1>1, <1>2, CpuStep, ResponseTyped, Zenon DEF RunEdge
  <2>2. PICK gpio_input \in GpioInputs :
               BusEdge(bus_valid, CpuRequest, retire.valid, gpio_input)
    BY <1>2, Zenon DEF RunEdge
  <2>3. gpio_input \in Word
    BY GpioInputsAreWords, Zenon
  <2>4. BusTypeOK'
    BY <1>1, <2>2, <2>3, BusStep, CpuWires, Zenon
  <2>5. uart_log' \in Seq(Byte)
    <3>1. uart_tx_data \in Byte
      BY <1>1, Zenon DEF BusTypeOK, MmioTypeOK
    <3>2. Append(uart_log, uart_tx_data) \in Seq(Byte)
      BY <1>1, <3>1, SMT
    <3> QED BY <1>1, <1>2, <3>2, Zenon DEF RunEdge
  <2> QED BY <1>2, <2>1, <2>4, <2>5, Zenon DEF RunEdge, TypeOK
<1>3. CASE ResetEdge
  <2>1. CpuTypeOK' /\ BusTypeOK'
    BY <1>1, <1>3, CpuResetTyped, BusResetTyped, Zenon DEF ResetEdge
  <2>2. uart_log' \in Seq(Byte)
    BY <1>3, SMT DEF ResetEdge
  <2> QED BY <1>3, <2>1, <2>2, Zenon DEF ResetEdge, TypeOK
<1>4. CASE UNCHANGED vars
  BY <1>4, Zenon DEF vars, cpuVars, busVars, latches, memoryVars, timerVars,
     mmioVars, TypeOK, CpuTypeOK, BusTypeOK, TimerTypeOK, MmioTypeOK
<1> QED BY <1>2, <1>3, <1>4 DEF Next

\* The type invariant of the system: no register, latch, memory cell or
\* device register of the RTL leaves its width, whatever program runs,
\* although intermediate sums, shifts and displacements do.
THEOREM TypeCorrect == Spec => []TypeOK
<1>1. TypeOK /\ [Next]_vars => TypeOK'
  BY TypeStep
<1> QED BY <1>1, TypeInit, InitIsPowerUp, PTL DEF Spec

------------------------------------------------------------------------------
(***************************************************************************)
(* The handshake between core and bus.  PendingIsCurrentRequest and        *)
(* NoTickDuringAccess are inductive together, given the types: the bus     *)
(* leaves IDLE only while the core waits, and a waiting core changes       *)
(* nothing and retires nothing until the bus answers.                      *)
(***************************************************************************)
Handshake == PendingIsCurrentRequest /\ NoTickDuringAccess

\* A core that waits keeps its request and retires nothing.
LEMMA WaitHoldsRequest ==
  ASSUME TypeOK, CpuWait
  PROVE  bus_valid' /\ CpuRequest' = CpuRequest /\ ~(retire.valid)'
<1>1. retire \in RetireRecord
  BY Zenon DEF TypeOK, CpuTypeOK
<1>2. ~(retire.valid)'
  BY <1>1, RetireCleared, Zenon DEF CpuWait
<1>3. UNCHANGED <<cpu_state, pc, instruction_register, alu_result_latch,
                  store_data_latch>>
  BY Zenon DEF CpuWait, latches
<1> QED BY <1>2, <1>3, Zenon
           DEF CpuWait, bus_valid, CpuRequest, RequestOf, bus_access,
               bus_addr, bus_wdata, IR

\* A core that asks and gets no answer waits.
LEMMA AskingCoreWaits ==
  ASSUME bus_valid, NEW rdata, NEW f, CpuEdge(FALSE, rdata, f)
  PROVE  CpuWait
BY Zenon DEF bus_valid, CpuEdge, DecodeReject, DecodeOperands, ExecuteAlu,
   ExecuteBranch, ExecuteJump, ExecuteJumpAndLink, ExecuteJumpRegister,
   ExecuteSequential, Writeback, CpuStopped

\* Every step keeps the handshake.
LEMMA HandshakeStep ==
  ASSUME TypeOK, Handshake, [Next]_vars
  PROVE  Handshake'
<1>1. CASE RunEdge
  <2>1. CpuEdge(response_ready, response_rdata, response_fault)
    BY <1>1, Zenon DEF RunEdge
  <2>2. PICK gpio_input \in GpioInputs :
               BusEdge(bus_valid, CpuRequest, retire.valid, gpio_input)
    BY <1>1, Zenon DEF RunEdge
  <2>3. CASE CaptureRequest(bus_valid, CpuRequest)
    <3>1. bus_valid /\ response_ready = FALSE /\ pending' = CpuRequest
      BY <2>3, Zenon DEF CaptureRequest, response_ready
    <3>2. CpuWait
      BY <2>1, <3>1, AskingCoreWaits, Zenon
    <3> QED BY <3>1, <3>2, WaitHoldsRequest, Zenon
               DEF Handshake, PendingIsCurrentRequest, NoTickDuringAccess
  <2>4. CASE NoRequest(bus_valid) \/ FinishResponse
    <3>1. bus_state' = "IDLE"
      BY <2>4, Zenon DEF NoRequest, FinishResponse
    <3> QED BY <3>1, Zenon DEF Handshake, PendingIsCurrentRequest,
                               NoTickDuringAccess
  <2>5. CASE AccessMemory
    <3>1. bus_valid /\ response_ready = FALSE /\ pending' = CpuRequest
      BY <2>5, Zenon DEF AccessMemory, response_ready, Handshake,
                         PendingIsCurrentRequest
    <3>2. CpuWait
      BY <2>1, <3>1, AskingCoreWaits, Zenon
    <3> QED BY <3>1, <3>2, WaitHoldsRequest, Zenon
               DEF Handshake, PendingIsCurrentRequest, NoTickDuringAccess
  <2> QED BY <2>2, <2>3, <2>4, <2>5, Zenon DEF BusEdge
<1>2. CASE ResetEdge
  BY <1>2, Zenon DEF ResetEdge, BusReset, Handshake, PendingIsCurrentRequest,
                     NoTickDuringAccess
<1>3. CASE UNCHANGED vars
  BY <1>3, Zenon DEF vars, cpuVars, busVars, latches, Handshake,
     PendingIsCurrentRequest, NoTickDuringAccess, bus_valid, CpuRequest,
     RequestOf, bus_access, bus_addr, bus_wdata, IR
<1> QED BY <1>1, <1>2, <1>3 DEF Next

\* The handshake is an invariant.
LEMMA HandshakeInvariant == Spec => []Handshake
<1>1. Init => Handshake
  BY Zenon DEF Init, BusInit, Handshake, PendingIsCurrentRequest,
               NoTickDuringAccess
<1>2. TypeOK /\ Handshake /\ [Next]_vars => Handshake'
  BY HandshakeStep
<1> QED BY <1>1, <1>2, TypeCorrect, PTL DEF Spec

\* While the bus is busy the core asserts exactly the request that the bus
\* works on, across every reset: no response answers another request.
THEOREM RequestHeld == Spec => []PendingIsCurrentRequest
<1>1. Handshake => PendingIsCurrentRequest
  BY DEF Handshake
<1> QED BY <1>1, HandshakeInvariant, PTL

\* A retirement tick never meets a device access in timer_mmio.sv.
THEOREM TickOutsideAccess == Spec => []NoTickDuringAccess
<1>1. Handshake => NoTickDuringAccess
  BY DEF Handshake
<1> QED BY <1>1, HandshakeInvariant, PTL

------------------------------------------------------------------------------
\* A bus that is not in MEMORY touches no memory and no device.
LEMMA NothingPerformed ==
  ASSUME bus_state # "MEMORY"
  PROVE  \A region, access : ~Performs(region, access)
BY Zenon DEF Performs

\* A core that has stopped takes no step but the one that clears its pulses.
LEMMA StoppedCoreSteps ==
  ASSUME cpu_state \in {"HALTED", "FAULT"}, NEW ready, NEW rdata, NEW f,
         CpuEdge(ready, rdata, f)
  PROVE  CpuStopped
BY Zenon DEF CpuEdge, bus_valid, CpuWait, FetchComplete, FetchFaulted,
   DecodeReject, DecodeOperands, ExecuteAlu, ExecuteBranch, ExecuteJump,
   ExecuteJumpAndLink, ExecuteJumpRegister, ExecuteSequential, MemoryFaulted,
   MemoryLoad, MemoryStore, Writeback

\* After HALT or a fault nothing happens until reset, for every program: the
\* bus is idle when the core stops, and stays idle.
THEOREM StoppedStaysQuiet == Spec => StoppedIsQuiet
<1> DEFINE Quiet ==
      (cpu_state \in {"HALTED", "FAULT"} /\ ~reset) =>
        (/\ UNCHANGED <<cpu_state, pc, registers, fault, ram, bus_state,
                        timer_compare, timer_enabled, gpio_output,
                        gpio_direction, debug_value>>
         /\ ~uart_tx_valid'
         /\ (timer_counter' # timer_counter) => retire.valid)
<1>1. Handshake /\ [Next]_vars => [Quiet]_vars
  <2> SUFFICES ASSUME Handshake, Next, cpu_state \in {"HALTED", "FAULT"},
                      ~reset
               PROVE  /\ UNCHANGED <<cpu_state, pc, registers, fault, ram,
                             bus_state, timer_compare, timer_enabled,
                             gpio_output, gpio_direction, debug_value>>
                      /\ ~uart_tx_valid'
                      /\ (timer_counter' # timer_counter) => retire.valid
    BY Zenon
  <2>1. RunEdge
    BY Zenon DEF Next, ResetEdge
  <2>2. CpuStopped
    BY <2>1, StoppedCoreSteps, Zenon DEF RunEdge
  <2>3. ~bus_valid /\ bus_state = "IDLE"
    BY Zenon DEF bus_valid, Handshake, PendingIsCurrentRequest
  <2>4. PICK gpio_input \in GpioInputs :
               BusEdge(bus_valid, CpuRequest, retire.valid, gpio_input)
    BY <2>1, Zenon DEF RunEdge
  <2>5. bus_state' = bus_state
    BY <2>3, <2>4, Zenon DEF BusEdge, CaptureRequest, NoRequest, AccessMemory,
                             FinishResponse
  <2>6. \A region, access : ~Performs(region, access)
    BY <2>3, NothingPerformed, Zenon
  <2>7. MemoryEdge /\ DeviceEdge(retire.valid, gpio_input)
    BY <2>4, Zenon DEF BusEdge
  <2>8. ram' = ram
    BY <2>6, <2>7, Zenon DEF MemoryEdge, RamNext, write_enable
  <2>9. /\ timer_compare' = timer_compare
        /\ timer_enabled' = timer_enabled
        /\ ~retire.valid => timer_counter' = timer_counter
    BY <2>6, <2>7, Zenon DEF DeviceEdge, TimerEdge, TimerCompareNext,
                             TimerEnabledNext, TimerCounterNext, write_enable
  <2>10. ~uart_tx_valid'
    BY <2>6, <2>7, Zenon DEF DeviceEdge, UartEdge, write_enable
  <2>11. gpio_output' = gpio_output /\ gpio_direction' = gpio_direction
    BY <2>6, <2>7, Zenon DEF DeviceEdge, GpioEdge, GpioOutputNext,
                             GpioDirectionNext, write_enable
  <2>12. debug_value' = debug_value
    BY <2>6, <2>7, Zenon DEF DeviceEdge, DebugEdge, DebugValueNext,
                             write_enable
  <2>13. UNCHANGED <<cpu_state, pc, registers, fault>>
    BY <2>2, Zenon DEF CpuStopped
  <2> QED BY <2>5, <2>8, <2>9, <2>10, <2>11, <2>12, <2>13, Zenon
<1> QED BY <1>1, HandshakeInvariant, PTL DEF Spec, StoppedIsQuiet

\* The edge that leaves MEMORY loads the read register of the selected
\* memory or device, and nothing else changes what was read.
LEMMA ResponseStep ==
  ASSUME TypeOK, Handshake, ResponseIsCurrent, [Next]_vars
  PROVE  ResponseIsCurrent'
<1>1. CASE RunEdge
  <2> SUFFICES ASSUME response_ready', pending_fault' = "NONE"
               PROVE  ResponseIsCurrent'
    BY Zenon DEF ResponseIsCurrent
  <2>1. PICK gpio_input \in GpioInputs :
               BusEdge(bus_valid, CpuRequest, retire.valid, gpio_input)
    BY <1>1, Zenon DEF RunEdge
  <2>2. bus_state = "MEMORY" /\ pending' = pending
    BY <2>1, Zenon DEF BusEdge, CaptureRequest, NoRequest, AccessMemory,
                       FinishResponse, response_ready
  <2>3. ~retire.valid
    BY <2>2, Zenon DEF Handshake, NoTickDuringAccess
  <2>4. /\ pending_fault' = pending_fault
        /\ pending_region' = pending_region
        /\ word_address' = word_address
        /\ register_offset' = register_offset
    BY <2>2, Zenon DEF pending_fault, pending_region, word_address,
                       register_offset
  <2>5. pending_fault = "NONE"
    BY <2>4, Zenon
  <2>6. /\ pending_region
             \in {"ROM", "RAM", "UART", "TIMER", "GPIO", "DEBUG"}
        /\ pending_region = "ROM" => pending.access # "WRITE"
    BY <2>5, RegionWhenNoFault, Zenon DEF pending_fault, pending_region
  <2>7. pending.access \in {"FETCH", "READ", "WRITE"}
    BY PendingTyped, Zenon DEF TypeOK, BusAccess
  <2>8. MemoryEdge /\ DeviceEdge(retire.valid, gpio_input)
    BY <2>1, Zenon DEF BusEdge
  <2>9. ASSUME pending_region = "ROM"
        PROVE  response_rdata' = RomWord(word_address)'
    <3>1. read_enable("ROM") \/ Performs("ROM", "FETCH")
      BY <2>2, <2>5, <2>6, <2>7, <2>9, Zenon DEF read_enable, Performs
    <3>2. rom_read_data' = RomWord(word_address) /\ image' = image
      BY <2>8, <3>1, Zenon DEF MemoryEdge
    <3>3. RomWord(word_address)' = RomWord(word_address)
      BY <2>4, <3>2, Zenon DEF RomWord
    <3> QED BY <2>4, <2>5, <2>9, <3>2, <3>3, Zenon DEF response_rdata
  <2>10. ASSUME pending_region = "RAM", pending.access = "READ"
         PROVE  response_rdata' = ram[word_address]'
    <3>1. read_enable("RAM") /\ ~write_enable("RAM")
      BY <2>2, <2>5, <2>10, Zenon DEF read_enable, write_enable, Performs
    <3>2. ram_read_data' = ram[word_address] /\ ram' = ram
      BY <2>8, <3>1, Zenon DEF MemoryEdge, RamNext
    <3> QED BY <2>4, <2>5, <2>10, <3>2, Zenon DEF response_rdata
  <2>11. ASSUME pending_region = "TIMER", pending.access = "READ"
         PROVE  response_rdata' = TimerRegister(register_offset)'
    <3>1. read_enable("TIMER") /\ ~write_enable("TIMER")
      BY <2>2, <2>5, <2>11, Zenon DEF read_enable, write_enable, Performs
    <3>2. /\ timer_read_data' = TimerRegister(register_offset)
          /\ timer_counter' = timer_counter
          /\ timer_compare' = timer_compare
          /\ timer_enabled' = timer_enabled
      BY <2>3, <2>8, <3>1, Zenon DEF DeviceEdge, TimerEdge, TimerCounterNext,
                                     TimerCompareNext, TimerEnabledNext
    <3>3. TimerRegister(register_offset)' = TimerRegister(register_offset)
      BY <2>4, <3>2, Zenon DEF TimerRegister
    <3> QED BY <2>4, <2>5, <2>11, <3>2, <3>3, Zenon DEF response_rdata
  <2>12. ASSUME pending_region = "DEBUG", pending.access = "READ"
         PROVE  response_rdata'
                  = (IF register_offset = 0 THEN debug_value ELSE Zero)'
    <3>1. read_enable("DEBUG") /\ ~write_enable("DEBUG")
      BY <2>2, <2>5, <2>12, Zenon DEF read_enable, write_enable, Performs
    <3>2. /\ debug_read_data' = IF register_offset = 0 THEN debug_value
                                                       ELSE Zero
          /\ debug_value' = debug_value
      BY <2>8, <3>1, Zenon DEF DeviceEdge, DebugEdge, DebugValueNext
    <3> QED BY <2>4, <2>5, <2>12, <3>2, Zenon DEF response_rdata
  <2>13. (pending.access)' = pending.access
    BY <2>2, Zenon
  <2> QED BY <2>4, <2>9, <2>10, <2>11, <2>12, <2>13, Zenon
             DEF ResponseIsCurrent
<1>2. CASE ResetEdge
  BY <1>2, Zenon DEF ResetEdge, BusReset, ResponseIsCurrent, response_ready
<1>3. CASE UNCHANGED vars
  BY <1>3, Zenon DEF vars, cpuVars, busVars, memoryVars, timerVars, mmioVars,
     ResponseIsCurrent, response_ready, pending_fault, pending_region,
     response_rdata, RomWord, word_address, register_offset, TimerRegister
<1> QED BY <1>1, <1>2, <1>3 DEF Next

\* What the core takes from the bus is what the addressed cell holds at that
\* moment, for every memory size and program.
THEOREM ResponsesCurrent == Spec => []ResponseIsCurrent
<1>1. Init => ResponseIsCurrent
  BY Zenon DEF Init, BusInit, ResponseIsCurrent, response_ready
<1>2. TypeOK /\ Handshake /\ ResponseIsCurrent /\ [Next]_vars
        => ResponseIsCurrent'
  BY ResponseStep
<1> QED BY <1>1, <1>2, TypeCorrect, HandshakeInvariant, PTL DEF Spec

------------------------------------------------------------------------------
(***************************************************************************)
(* The golden model is an instance: its copies of the operators of Word32, *)
(* Mini32Pkg and GoldenIsa are the operators themselves.                   *)
(***************************************************************************)

\* Words.
LEMMA GoldenWords ==
  /\ Golden!Zero = Zero /\ Golden!One = One /\ Golden!Four = Four
  /\ Golden!Register = Register
  /\ \A h, l : Golden!W(h, l) = W(h, l)
  /\ \A a, b : /\ Golden!Add(a, b) = Add(a, b)
               /\ Golden!Sub(a, b) = Sub(a, b)
               /\ Golden!ULess(a, b) = ULess(a, b)
               /\ Golden!ULeq(a, b) = ULeq(a, b)
  /\ \A a : Golden!SignBit(a) = SignBit(a) /\ Golden!LowByte(a) = LowByte(a)
<1>1. Golden!HalfMod = HalfMod
  BY DEF Golden!HalfMod, HalfMod
<1>2. \A h, l : Golden!W(h, l) = W(h, l)
  BY DEF Golden!W, W
<1>3. \A a, b : Golden!ULess(a, b) = ULess(a, b)
  BY DEF Golden!ULess, ULess
<1>4. \A a, b : Golden!ULeq(a, b) = ULeq(a, b)
  BY <1>3 DEF Golden!ULeq, ULeq
<1>5. \A a, b : Golden!Add(a, b) = Add(a, b) /\ Golden!Sub(a, b) = Sub(a, b)
  BY <1>1, <1>2 DEF Golden!Add, Add, Golden!Sub, Sub
<1>6. /\ Golden!Zero = Zero /\ Golden!One = One /\ Golden!Four = Four
      /\ Golden!Register = Register
  BY <1>2 DEF Golden!Zero, Zero, Golden!One, One, Golden!Four, Four,
     Golden!Register, Register
<1>7. \A a : Golden!SignBit(a) = SignBit(a) /\ Golden!LowByte(a) = LowByte(a)
  BY DEF Golden!SignBit, SignBit, Golden!LowByte, LowByte
<1> QED BY <1>2, <1>3, <1>4, <1>5, <1>6, <1>7

\* Bitwise operators and shifts.
LEMMA GoldenBits ==
  \A a, b : /\ Golden!And(a, b) = And(a, b)
            /\ Golden!Or(a, b) = Or(a, b)
            /\ Golden!Xor(a, b) = Xor(a, b)
            /\ Golden!ShiftLeft(a, b) = ShiftLeft(a, b)
            /\ Golden!ShiftRight(a, b) = ShiftRight(a, b)
<1>1. \A a, b : Golden!And(a, b) = And(a, b)
  BY SMT DEF Golden!And, And, Golden!AndHalf, AndHalf, Golden!W, W,
     Golden!Bit, Bit, Golden!HalfOf, HalfOf, Golden!Weights, Weights
<1>2. \A a, b : Golden!Or(a, b) = Or(a, b)
  BY SMT DEF Golden!Or, Or, Golden!OrHalf, OrHalf, Golden!W, W,
     Golden!Bit, Bit, Golden!HalfOf, HalfOf, Golden!Weights, Weights
<1>3. \A a, b : Golden!Xor(a, b) = Xor(a, b)
  BY SMT DEF Golden!Xor, Xor, Golden!XorHalf, XorHalf, Golden!W, W,
     Golden!Bit, Bit, Golden!HalfOf, HalfOf, Golden!Weights, Weights
<1>4. \A n : Golden!Pow2(n) = Pow2(n)
  BY SMT DEF Golden!Pow2, Pow2
<1>5. /\ Golden!HalfMod = HalfMod
      /\ \A h, l : Golden!W(h, l) = W(h, l)
  BY SMT DEF Golden!HalfMod, HalfMod, Golden!W, W
<1>6. \A a, b : Golden!ShiftLeft(a, b) = ShiftLeft(a, b)
  BY <1>4, <1>5, SMT DEF Golden!ShiftLeft, ShiftLeft
<1>7. \A a, b : Golden!ShiftRight(a, b) = ShiftRight(a, b)
  BY <1>4, <1>5, SMT DEF Golden!ShiftRight, ShiftRight
<1> QED BY <1>1, <1>2, <1>3, <1>6, <1>7

\* The opcodes.
LEMMA GoldenOpcodes ==
  /\ Golden!OP_NOP = OP_NOP /\ Golden!OP_ADD = OP_ADD /\ Golden!OP_SUB = OP_SUB
  /\ Golden!OP_AND = OP_AND /\ Golden!OP_OR = OP_OR /\ Golden!OP_XOR = OP_XOR
  /\ Golden!OP_SLT = OP_SLT /\ Golden!OP_SHL = OP_SHL /\ Golden!OP_SHR = OP_SHR
  /\ Golden!OP_ADDI = OP_ADDI /\ Golden!OP_ANDI = OP_ANDI
     /\ Golden!OP_ORI = OP_ORI
  /\ Golden!OP_XORI = OP_XORI /\ Golden!OP_LUI = OP_LUI /\ Golden!OP_LW = OP_LW
  /\ Golden!OP_SW = OP_SW /\ Golden!OP_BEQ = OP_BEQ /\ Golden!OP_BNE = OP_BNE
  /\ Golden!OP_BLT = OP_BLT /\ Golden!OP_BGE = OP_BGE /\ Golden!OP_J = OP_J
  /\ Golden!OP_JAL = OP_JAL /\ Golden!OP_JR = OP_JR /\ Golden!OP_HALT = OP_HALT
BY DEF Golden!OP_NOP, OP_NOP, Golden!OP_ADD, OP_ADD, Golden!OP_SUB, OP_SUB,
       Golden!OP_AND, OP_AND, Golden!OP_OR, OP_OR, Golden!OP_XOR, OP_XOR,
       Golden!OP_SLT, OP_SLT, Golden!OP_SHL, OP_SHL, Golden!OP_SHR, OP_SHR,
       Golden!OP_ADDI, OP_ADDI, Golden!OP_ANDI, OP_ANDI, Golden!OP_ORI,
       OP_ORI, Golden!OP_XORI, OP_XORI, Golden!OP_LUI, OP_LUI,
       Golden!OP_LW, OP_LW, Golden!OP_SW, OP_SW, Golden!OP_BEQ, OP_BEQ,
       Golden!OP_BNE, OP_BNE, Golden!OP_BLT, OP_BLT, Golden!OP_BGE, OP_BGE,
       Golden!OP_J, OP_J, Golden!OP_JAL, OP_JAL, Golden!OP_JR, OP_JR,
       Golden!OP_HALT, OP_HALT

\* The decoder.
LEMMA GoldenDecoder ==
  \A i : /\ Golden!Decode(i) = Decode(i)
         /\ Golden!DecodeError(i) = DecodeError(i)
         /\ Golden!control_for(i) = control_for(i)
<1>1. \A op : Golden!format_for(op) = format_for(op)
  BY GoldenOpcodes DEF Golden!format_for, format_for, Golden!is_r_format,
     is_r_format
<1>2. \A i : /\ Golden!Field21(i) = Field21(i)
             /\ Golden!Field16(i) = Field16(i)
             /\ Golden!Field11(i) = Field11(i)
  BY DEF Golden!Field21, Field21, Golden!Field16, Field16, Golden!Field11,
     Field11
<1>3. \A op, i : Golden!Malformed(op, i) = Malformed(op, i)
  BY <1>1, <1>2, GoldenOpcodes DEF Golden!Malformed, Malformed
<1>4. \A i : Golden!DecodeError(i) = DecodeError(i)
  BY <1>3, GoldenOpcodes DEF Golden!DecodeError, DecodeError
<1>5. \A i : Golden!Decode(i) = Decode(i)
  BY <1>1, <1>2, GoldenWords DEF Golden!Decode, Decode
<1>6. /\ Golden!DefaultControl = DefaultControl
      /\ \A o : Golden!RegisterControl(o) = RegisterControl(o)
      /\ \A o, k : Golden!ImmediateControl(o, k) = ImmediateControl(o, k)
      /\ \A p : Golden!BranchControl(p) = BranchControl(p)
  BY DEF Golden!DefaultControl, DefaultControl, Golden!RegisterControl,
     RegisterControl, Golden!ImmediateControl, ImmediateControl,
     Golden!BranchControl, BranchControl
<1>7. \A op : Golden!control_for(op) = control_for(op)
  BY <1>6, GoldenOpcodes DEF Golden!control_for, control_for
<1> QED BY <1>4, <1>5, <1>7

\* Immediates, displacements, ALU and branch predicates.
LEMMA GoldenExecution ==
  /\ \A k, n : Golden!immediate_value(k, n) = immediate_value(k, n)
  /\ \A n : /\ Golden!branch_displacement(n) = branch_displacement(n)
            /\ Golden!jump_displacement(n) = jump_displacement(n)
  /\ \A o, a, b : /\ Golden!Execute(o, a, b) = Execute(o, a, b)
                  /\ Golden!branch_taken(o, a, b) = branch_taken(o, a, b)
<1>1. \A k, n : Golden!immediate_value(k, n) = immediate_value(k, n)
  BY GoldenWords DEF Golden!immediate_value, immediate_value
<1>2. \A w : Golden!Times4(w) = Times4(w)
  BY GoldenWords DEF Golden!Times4, Times4
<1>3. \A n : Golden!branch_displacement(n) = branch_displacement(n)
  BY <1>1, <1>2 DEF Golden!branch_displacement, branch_displacement
<1>4. \A n : Golden!jump_displacement(n) = jump_displacement(n)
  BY <1>2, GoldenWords DEF Golden!jump_displacement, jump_displacement
<1>5. \A a, b : Golden!signed_less_than(a, b) = signed_less_than(a, b)
  BY GoldenWords DEF Golden!signed_less_than, signed_less_than
<1>6. \A o, a, b : Golden!Execute(o, a, b) = Execute(o, a, b)
  BY <1>5, GoldenWords, GoldenBits DEF Golden!Execute, Execute
<1>7. \A o, a, b : Golden!branch_taken(o, a, b) = branch_taken(o, a, b)
  BY <1>5 DEF Golden!branch_taken, branch_taken
<1> QED BY <1>1, <1>3, <1>4, <1>6, <1>7

\* The constants of the address map.
LEMMA GoldenWindows ==
  \A a : /\ Golden!InRom(a) = ULeq(a, ROM_LAST)
         /\ Golden!InRam(a) = InWindow(a, RAM_BASE, RAM_LAST)
         /\ Golden!InUart(a) = InWindow(a, UART_BASE, UART_LAST)
         /\ Golden!InTimer(a) = InWindow(a, TIMER_BASE, TIMER_LAST)
         /\ Golden!InGpio(a) = InWindow(a, GPIO_BASE, GPIO_LAST)
         /\ Golden!InDebug(a) = InWindow(a, DEBUG_BASE, DEBUG_LAST)
<1>1. \A a, b, l : Golden!InWindow(a, b, l) = InWindow(a, b, l)
  BY GoldenWords, Zenon DEF Golden!InWindow, InWindow
<1>2. Golden!ROM_LAST = ROM_LAST
  BY GoldenWords DEF Golden!ROM_LAST, ROM_LAST
<1>3. Golden!RAM_BASE = RAM_BASE /\ Golden!RAM_LAST = RAM_LAST
  BY GoldenWords DEF Golden!RAM_BASE, RAM_BASE, Golden!RAM_LAST, RAM_LAST
<1>4. Golden!UART_BASE = UART_BASE /\ Golden!UART_LAST = UART_LAST
  BY GoldenWords DEF Golden!UART_BASE, UART_BASE, Golden!UART_LAST, UART_LAST
<1>5. Golden!TIMER_BASE = TIMER_BASE /\ Golden!TIMER_LAST = TIMER_LAST
  BY GoldenWords DEF Golden!TIMER_BASE, TIMER_BASE, Golden!TIMER_LAST,
     TIMER_LAST
<1>6. Golden!GPIO_BASE = GPIO_BASE /\ Golden!GPIO_LAST = GPIO_LAST
  BY GoldenWords DEF Golden!GPIO_BASE, GPIO_BASE, Golden!GPIO_LAST, GPIO_LAST
<1>7. Golden!DEBUG_BASE = DEBUG_BASE /\ Golden!DEBUG_LAST = DEBUG_LAST
  BY GoldenWords DEF Golden!DEBUG_BASE, DEBUG_BASE, Golden!DEBUG_LAST,
     DEBUG_LAST
<1> QED BY <1>1, <1>2, <1>3, <1>4, <1>5, <1>6, <1>7, GoldenWords, Zenon
        DEF Golden!InRom, Golden!InRam, Golden!InUart, Golden!InTimer,
            Golden!InGpio, Golden!InDebug

\* The windows as ranges of the two halves of an address.
LEMMA WindowRanges ==
  ASSUME NEW a \in Word
  PROVE  /\ ULeq(a, ROM_LAST) <=> a.hi = 0 /\ a.lo < 4 * ROM_WORD_COUNT
         /\ InWindow(a, RAM_BASE, RAM_LAST) <=>
              a.hi = 4096 /\ a.lo < 4 * RAM_WORD_COUNT
         /\ InWindow(a, UART_BASE, UART_LAST) <=>
              a.hi = 8192 /\ 0 <= a.lo /\ a.lo <= 15
         /\ InWindow(a, TIMER_BASE, TIMER_LAST) <=>
              a.hi = 8192 /\ 256 <= a.lo /\ a.lo <= 271
         /\ InWindow(a, GPIO_BASE, GPIO_LAST) <=>
              a.hi = 8192 /\ 512 <= a.lo /\ a.lo <= 527
         /\ InWindow(a, DEBUG_BASE, DEBUG_LAST) <=>
              a.hi = 8192 /\ 768 <= a.lo /\ a.lo <= 783
         /\ InWindow(a, STM32_BASE, STM32_LAST) <=>
              a.hi = 8192 /\ 1024 <= a.lo /\ a.lo <= 1279
<1>1. /\ a.hi \in Int /\ 0 <= a.hi /\ a.hi <= 65535
      /\ a.lo \in Int /\ 0 <= a.lo /\ a.lo <= 65535
  BY WordParts, SMT
<1>2. \A h, l : a = W(h, l) <=> a.hi = h /\ a.lo = l
  BY SMT DEF W, Word
<1>3. \A h, l : W(h, l).hi = h /\ W(h, l).lo = l
  BY SMT DEF W
<1>4. ASSUME NEW h \in Int, NEW l \in Int
      PROVE  /\ ULeq(a, W(h, l)) <=> a.hi < h \/ (a.hi = h /\ a.lo <= l)
             /\ ULeq(W(h, l), a) <=> h < a.hi \/ (h = a.hi /\ l <= a.lo)
  BY <1>1, <1>2, <1>3, SMT DEF ULeq, ULess
<1>5. ROM_WORD_COUNT \in Nat /\ RAM_WORD_COUNT \in Nat
  BY MemorySizes
<1>6. ULeq(a, ROM_LAST) <=> a.hi = 0 /\ a.lo < 4 * ROM_WORD_COUNT
  BY <1>1, <1>4, <1>5, SMT DEF ROM_LAST
<1>7. InWindow(a, RAM_BASE, RAM_LAST) <=>
        a.hi = 4096 /\ a.lo < 4 * RAM_WORD_COUNT
  BY <1>1, <1>4, <1>5, SMT DEF InWindow, RAM_BASE, RAM_LAST
<1>8. InWindow(a, UART_BASE, UART_LAST) <=>
        a.hi = 8192 /\ 0 <= a.lo /\ a.lo <= 15
  BY <1>1, <1>4, SMT DEF InWindow, UART_BASE, UART_LAST
<1>9. InWindow(a, TIMER_BASE, TIMER_LAST) <=>
        a.hi = 8192 /\ 256 <= a.lo /\ a.lo <= 271
  BY <1>1, <1>4, SMT DEF InWindow, TIMER_BASE, TIMER_LAST
<1>10. InWindow(a, GPIO_BASE, GPIO_LAST) <=>
         a.hi = 8192 /\ 512 <= a.lo /\ a.lo <= 527
  BY <1>1, <1>4, SMT DEF InWindow, GPIO_BASE, GPIO_LAST
<1>11. InWindow(a, DEBUG_BASE, DEBUG_LAST) <=>
         a.hi = 8192 /\ 768 <= a.lo /\ a.lo <= 783
  BY <1>1, <1>4, SMT DEF InWindow, DEBUG_BASE, DEBUG_LAST
<1>12. InWindow(a, STM32_BASE, STM32_LAST) <=>
         a.hi = 8192 /\ 1024 <= a.lo /\ a.lo <= 1279
  BY <1>1, <1>4, SMT DEF InWindow, STM32_BASE, STM32_LAST
<1> QED BY <1>6, <1>7, <1>8, <1>9, <1>10, <1>11, <1>12, SMT

\* The address decode picks the window that holds the address.
LEMMA WindowTable ==
  ASSUME NEW a \in Word
  PROVE  /\ WindowOf(a) \in {"ROM", "RAM", "UART", "TIMER", "GPIO", "DEBUG",
                             "NO_REGION"}
         /\ WindowOf(a) = "ROM" <=> Golden!InRom(a)
         /\ WindowOf(a) = "RAM" <=> Golden!InRam(a)
         /\ WindowOf(a) = "UART" <=> Golden!InUart(a)
         /\ WindowOf(a) = "TIMER" <=> Golden!InTimer(a)
         /\ WindowOf(a) = "GPIO" <=> Golden!InGpio(a)
         /\ WindowOf(a) = "DEBUG" <=> Golden!InDebug(a)
         /\ InWindow(a, STM32_BASE, STM32_LAST) => WindowOf(a) = "NO_REGION"
<1> DEFINE rom   == ULeq(a, ROM_LAST)
           mem   == InWindow(a, RAM_BASE, RAM_LAST)
           uart  == InWindow(a, UART_BASE, UART_LAST)
           timr  == InWindow(a, TIMER_BASE, TIMER_LAST)
           gpi   == InWindow(a, GPIO_BASE, GPIO_LAST)
           debug == InWindow(a, DEBUG_BASE, DEBUG_LAST)
           stm   == InWindow(a, STM32_BASE, STM32_LAST)
<1>1. /\ a.hi \in Int /\ a.lo \in Int
  BY WordParts, SMT
<1>2. /\ rom => ~mem /\ ~uart /\ ~timr /\ ~gpi /\ ~debug /\ ~stm
      /\ mem => ~uart /\ ~timr /\ ~gpi /\ ~debug /\ ~stm
      /\ uart => ~timr /\ ~gpi /\ ~debug /\ ~stm
      /\ timr => ~gpi /\ ~debug /\ ~stm
      /\ gpi => ~debug /\ ~stm
      /\ debug => ~stm
  <2> HIDE DEF rom, mem, uart, timr, gpi, debug, stm
  <2>1. /\ rom <=> a.hi = 0 /\ a.lo < 4 * ROM_WORD_COUNT
        /\ mem <=> a.hi = 4096 /\ a.lo < 4 * RAM_WORD_COUNT
        /\ uart <=> a.hi = 8192 /\ 0 <= a.lo /\ a.lo <= 15
        /\ timr <=> a.hi = 8192 /\ 256 <= a.lo /\ a.lo <= 271
        /\ gpi <=> a.hi = 8192 /\ 512 <= a.lo /\ a.lo <= 527
        /\ debug <=> a.hi = 8192 /\ 768 <= a.lo /\ a.lo <= 783
        /\ stm <=> a.hi = 8192 /\ 1024 <= a.lo /\ a.lo <= 1279
    BY WindowRanges DEF rom, mem, uart, timr, gpi, debug, stm
  <2> QED BY <1>1, <2>1, SMT
<1>3. WindowOf(a) =
        CASE rom -> "ROM" [] mem -> "RAM" [] uart -> "UART"
          [] timr -> "TIMER" [] gpi -> "GPIO" [] debug -> "DEBUG"
          [] OTHER -> "NO_REGION"
  BY DEF WindowOf
<1>4. /\ Golden!InRom(a) = rom /\ Golden!InRam(a) = mem
      /\ Golden!InUart(a) = uart /\ Golden!InTimer(a) = timr
      /\ Golden!InGpio(a) = gpi /\ Golden!InDebug(a) = debug
  BY GoldenWindows, Zenon
<1> HIDE DEF rom, mem, uart, timr, gpi, debug, stm
<1>5. stm => WindowOf(a) = "NO_REGION"
  BY <1>2, <1>3, SMT
<1>6. /\ WindowOf(a) \in {"ROM", "RAM", "UART", "TIMER", "GPIO", "DEBUG",
                          "NO_REGION"}
      /\ WindowOf(a) = "ROM" <=> rom
      /\ WindowOf(a) = "RAM" <=> mem
      /\ WindowOf(a) = "UART" <=> uart
      /\ WindowOf(a) = "TIMER" <=> timr
      /\ WindowOf(a) = "GPIO" <=> gpi
      /\ WindowOf(a) = "DEBUG" <=> debug
  BY <1>2, <1>3, SMT
<1> QED BY <1>4, <1>5, <1>6 DEF stm

------------------------------------------------------------------------------
(***************************************************************************)
(* The invariant of the refinement.  An instruction takes several edges;   *)
(* the golden model takes it at once, when the RTL retires it or commits   *)
(* its store.  RefInv says that what the latches hold by then is what the  *)
(* golden model would compute now from pc, registers, memory and devices.  *)
(***************************************************************************)
\* What the bus reads at an address without fault.
BusRead(a, gpio_input) ==
  CASE RegionOf(a) = "ROM"   -> RomWord(a.lo \div 4)
    [] RegionOf(a) = "RAM"   -> ram[a.lo \div 4]
    [] RegionOf(a) = "UART"  -> IF a.lo % 16 = 4 THEN One ELSE Zero
    [] RegionOf(a) = "TIMER" -> TimerRegister(a.lo % 16)
    [] RegionOf(a) = "GPIO"  -> GpioRegister(a.lo % 16, gpio_input)
    [] RegionOf(a) = "DEBUG" -> IF a.lo % 16 = 0 THEN debug_value ELSE Zero

OperandRhs == IF ControlAluSrcImmediate(IR) THEN ImmediateValue(IR)
                                            ELSE RegisterData(DecodedRs2(IR))

\* The instruction register holds the instruction at pc.
HasFetched ==
  /\ FaultOf("FETCH", pc) = "NONE"
  /\ IR = RomWord(pc.lo \div 4)

\* The operand latches hold the operands of a legal instruction.
HasDecoded ==
  /\ HasFetched
  /\ DecodeValid(IR)
  /\ operand_lhs_latch = RegisterData(DecodedRs1(IR))
  /\ operand_rhs_latch = OperandRhs
  /\ store_data_latch = RegisterData(DecodedRs2(IR))

\* The ALU result is latched as well.
HasExecuted ==
  /\ HasDecoded
  /\ alu_result_latch = AluResult(ControlAluOperation(IR), operand_lhs_latch,
                                  operand_rhs_latch)

\* The word that a load returned is what the addressed cell still holds.
HasLoaded ==
  /\ FaultOf("READ", alu_result_latch) = "NONE"
  /\ \E gpio_input \in GpioInputs :
       memory_data_latch = BusRead(alu_result_latch, gpio_input)

\* The two ways into WRITEBACK.
ReadyToWrite ==
  \/ /\ ControlFlow(IR) = "SEQUENTIAL"
     /\ ControlMemoryOperation(IR) # "STORE"
     /\ ControlMemoryOperation(IR) = "LOAD" => HasLoaded
     /\ next_pc_latch = PcPlus4
  \/ /\ ControlFlow(IR) = "RELATIVE_JUMP"
     /\ ControlRegWrite(IR)
     /\ next_pc_latch = JumpTarget

\* In each state of the FSM, what the latches filled so far hold.
Underway ==
  /\ cpu_state = "DECODE" => HasFetched
  /\ cpu_state = "EXECUTE" => HasDecoded /\ next_pc_latch = PcPlus4
  /\ cpu_state = "MEMORY" =>
       /\ HasExecuted
       /\ ControlMemoryOperation(IR) # "NONE"
       /\ next_pc_latch = PcPlus4
  /\ cpu_state = "WRITEBACK" => HasExecuted /\ ReadyToWrite

\* The response on the bus is what the addressed cell holds.
ResponseIsRead ==
  (bus_state = "RESPONSE" /\ pending_fault = "NONE"
     /\ pending.access # "WRITE") =>
    \E gpio_input \in GpioInputs :
      response_rdata = BusRead(pending.addr, gpio_input)

\* An instruction that is still in flight has not ticked.
TickAfterRetirement == retire.valid => cpu_state \in {"FETCH", "HALTED"}

\* All of it, with the types and the handshake.
RefInv ==
  /\ TypeOK
  /\ Handshake
  /\ image \in Images
  /\ Underway
  /\ ResponseIsRead
  /\ TickAfterRetirement

\* The fault code of a fetch fault, after the correction of AbsFaultInfo.
FetchCode(a) ==
  LET code == fetch_fault(FaultOf("FETCH", a))
  IN  IF /\ code = "NON_EXECUTABLE_INSTRUCTION_FETCH"
         /\ InWindow(a, STM32_BASE, STM32_LAST)
        THEN "UNMAPPED_INSTRUCTION_FETCH" ELSE code

\* bus.cpp and system_bus.sv fault alike, except for the code of a fetch from
\* the STM32 window.
LEMMA FaultsAgree ==
  ASSUME NEW a \in Word
  PROVE  /\ Golden!read32_fault(a) = FaultOf("READ", a)
         /\ Golden!write32_fault(a) = FaultOf("WRITE", a)
         /\ Golden!fetch32_fault(a) = "NONE" <=> FaultOf("FETCH", a) = "NONE"
         /\ FetchCode(a) =
              CASE Golden!fetch32_fault(a) = "MISALIGNED" ->
                     "MISALIGNED_INSTRUCTION_FETCH"
                [] Golden!fetch32_fault(a) = "NON_EXECUTABLE" ->
                     "NON_EXECUTABLE_INSTRUCTION_FETCH"
                [] OTHER -> "UNMAPPED_INSTRUCTION_FETCH"
<1> DEFINE window  == WindowOf(a)
           stm     == InWindow(a, STM32_BASE, STM32_LAST)
           Devices == {"RAM", "UART", "TIMER", "GPIO", "DEBUG"}
<1>1. /\ window \in {"ROM", "RAM", "UART", "TIMER", "GPIO", "DEBUG",
                     "NO_REGION"}
      /\ Golden!InRom(a) <=> window = "ROM"
      /\ stm => window = "NO_REGION"
      /\ (Golden!InRam(a) \/ Golden!InUart(a) \/ Golden!InTimer(a)
          \/ Golden!InGpio(a) \/ Golden!InDebug(a)) <=> window \in Devices
  BY WindowTable, Zenon
<1>2. CASE a.lo % 4 # 0
  <2>0. RegionOf(a) = "NO_REGION" /\ Misaligned(a)
    BY <1>2, Zenon DEF RegionOf, Misaligned
  <2>1. /\ FaultOf("READ", a) = "MISALIGNED"
        /\ FaultOf("WRITE", a) = "MISALIGNED"
        /\ FaultOf("FETCH", a) = "MISALIGNED"
    BY <2>0, SMT DEF FaultOf
  <2>2. /\ Golden!data_fault(a) = "MISALIGNED"
        /\ Golden!fetch32_fault(a) = "MISALIGNED"
    BY <1>2, Zenon DEF Golden!data_fault, Golden!fetch32_fault
  <2>3. FetchCode(a) = "MISALIGNED_INSTRUCTION_FETCH"
    BY <2>1, SMT DEF FetchCode, fetch_fault
  <2> QED BY <1>2, <2>1, <2>2, <2>3, Zenon
          DEF Golden!read32_fault, Golden!write32_fault
<1>3. CASE a.lo % 4 = 0
  <2>1. RegionOf(a) = window /\ ~Misaligned(a)
    BY <1>3, Zenon DEF RegionOf, Misaligned
  <2> HIDE DEF window, stm
  <2>2. CASE window = "ROM"
    <3>1. /\ FaultOf("READ", a) = "NONE"
          /\ FaultOf("WRITE", a) = "READ_ONLY"
          /\ FaultOf("FETCH", a) = "NONE"
      BY <2>1, <2>2, Zenon DEF FaultOf
    <3>2. /\ Golden!data_fault(a) = "NONE"
          /\ Golden!fetch32_fault(a) = "NONE"
      BY <1>1, <1>3, <2>2, Zenon DEF Golden!data_fault, Golden!fetch32_fault
    <3>3. FetchCode(a) = "UNMAPPED_INSTRUCTION_FETCH"
      BY <3>1, SMT DEF FetchCode, fetch_fault
    <3> QED BY <1>1, <1>3, <2>2, <3>1, <3>2, <3>3, SMT
            DEF Golden!read32_fault, Golden!write32_fault
  <2>3. CASE window \in Devices
    <3>1. /\ FaultOf("READ", a) = "NONE"
          /\ FaultOf("WRITE", a) = "NONE"
          /\ FaultOf("FETCH", a) = "NON_EXECUTABLE"
      BY <2>1, <2>3, SMT DEF FaultOf
    <3>2. /\ Golden!data_fault(a) = "NONE"
          /\ Golden!fetch32_fault(a) = "NON_EXECUTABLE"
          /\ ~Golden!InRom(a) /\ ~stm
      BY <1>1, <1>3, <2>3, SMT DEF Golden!data_fault, Golden!fetch32_fault
    <3>3. FetchCode(a) = "NON_EXECUTABLE_INSTRUCTION_FETCH"
      BY <3>1, <3>2, SMT DEF FetchCode, fetch_fault, stm
    <3> QED BY <1>3, <3>1, <3>2, <3>3, SMT
            DEF Golden!read32_fault, Golden!write32_fault
  <2>4. CASE window = "NO_REGION"
    <3>1. /\ FaultOf("READ", a) = "UNMAPPED"
          /\ FaultOf("WRITE", a) = "UNMAPPED"
          /\ FaultOf("FETCH", a) = IF stm THEN "NON_EXECUTABLE"
                                          ELSE "UNMAPPED"
      BY <2>1, <2>4, SMT DEF FaultOf, stm
    <3>2. /\ Golden!data_fault(a) = "UNMAPPED"
          /\ Golden!fetch32_fault(a) = "UNMAPPED"
          /\ ~Golden!InRom(a)
      BY <1>1, <1>3, <2>4, SMT DEF Golden!data_fault, Golden!fetch32_fault
    <3>3. FetchCode(a) = "UNMAPPED_INSTRUCTION_FETCH"
      BY <3>1, SMT DEF FetchCode, fetch_fault, stm
    <3> QED BY <3>1, <3>2, <3>3, SMT
            DEF Golden!read32_fault, Golden!write32_fault
  <2> QED BY <1>1, <2>2, <2>3, <2>4, Zenon
<1> QED BY <1>2, <1>3, Zenon

------------------------------------------------------------------------------
(***************************************************************************)
(* The mapped memory and devices when no write is being performed.         *)
(***************************************************************************)
RamImage(words) ==
  [k \in 0 .. 4 * RAM_WORD_COUNT - 1 |->
     LET word == words[k \div 4]
         half == IF k % 4 < 2 THEN word.lo ELSE word.hi
     IN  IF k % 2 = 0 THEN half % 256 ELSE half \div 256]

TimerNow == [counter |-> timer_counter, compare |-> timer_compare,
             enabled |-> timer_enabled]

GpioNow == [output |-> gpio_output, direction |-> gpio_direction]

\* The bytes taken from uart_mmio.sv, the one on its output included.
UartNow == uart_log \o (IF uart_tx_valid THEN <<uart_tx_data>> ELSE <<>>)

\* What the golden model's memory and devices are, read off the RTL's.
AtRest ==
  /\ AbsRam = RamImage(ram)
  /\ AbsTimer = (IF retire.valid \/ StoreCommitted
                   THEN Golden!RetireTick(TimerNow) ELSE TimerNow)
  /\ AbsGpio = GpioNow
  /\ AbsDebugValue = debug_value
  /\ AbsUartLog = UartNow

\* RetireTick by fields.
LEMMA TickFields ==
  ASSUME NEW c, NEW m, NEW e \in BOOLEAN, NEW tick
  PROVE  LET t == [counter |-> c, compare |-> m, enabled |-> e]
         IN  [counter |-> IF tick /\ e THEN Add(c, One) ELSE c,
              compare |-> m, enabled |-> e]
               = IF tick THEN Golden!RetireTick(t) ELSE t
<1>1. Golden!Add(c, Golden!One) = Add(c, One)
  BY GoldenWords, Zenon
<1> QED BY <1>1, SMT DEF Golden!RetireTick

\* Without a write in progress the mapped state is the state itself, but for
\* the tick that is due.
LEMMA RestingState ==
  ASSUME TypeOK, \A region : ~write_enable(region)
  PROVE  AtRest
<1>1. AbsRam = RamImage(ram)
  BY Zenon DEF AbsRam, RamImage, RamNext
<1>2. AbsGpio = GpioNow /\ AbsDebugValue = debug_value
  BY Zenon DEF AbsGpio, GpioNow, AbsDebugValue, GpioOutputNext,
     GpioDirectionNext, DebugValueNext
<1>3. UartNow \in Seq(Byte)
  <2>1. uart_log \in Seq(Byte) /\ uart_tx_data \in Byte
    BY Zenon DEF TypeOK, BusTypeOK, MmioTypeOK
  <2> QED BY <2>1, SMT DEF UartNow
<1>4. AbsUartLog = UartNow \o <<>>
  BY Zenon DEF AbsUartLog, UartNow
<1>5. AbsUartLog = UartNow
  BY <1>3, <1>4, SMT
<1>6. timer_enabled \in BOOLEAN
  BY Zenon DEF TypeOK, BusTypeOK, TimerTypeOK
<1>7. AbsTimer =
        [counter |-> IF (retire.valid \/ StoreCommitted) /\ timer_enabled
                       THEN Add(timer_counter, One) ELSE timer_counter,
         compare |-> timer_compare, enabled |-> timer_enabled]
  BY Zenon DEF AbsTimer, TimerCounterNext, TimerCompareNext, TimerEnabledNext
<1>8. AbsTimer = (IF retire.valid \/ StoreCommitted
                    THEN Golden!RetireTick(TimerNow) ELSE TimerNow)
  BY <1>6, <1>7, TickFields, Zenon DEF TimerNow
<1> QED BY <1>1, <1>2, <1>5, <1>8, Zenon DEF AtRest

\* The same after a step.
LEMMA RestingNext ==
  ASSUME TypeOK', \A region : ~write_enable(region)'
  PROVE  AtRest'
<1>1. AbsRam' = RamImage(ram')
  BY Zenon DEF AbsRam, RamImage, RamNext
<1>2. AbsGpio' = GpioNow' /\ AbsDebugValue' = debug_value'
  BY Zenon DEF AbsGpio, GpioNow, AbsDebugValue, GpioOutputNext,
     GpioDirectionNext, DebugValueNext
<1>3. UartNow' \in Seq(Byte)
  <2>1. uart_log' \in Seq(Byte) /\ uart_tx_data' \in Byte
    BY Zenon DEF TypeOK, BusTypeOK, MmioTypeOK
  <2> QED BY <2>1, SMT DEF UartNow
<1>4. AbsUartLog' = UartNow' \o <<>>
  BY Zenon DEF AbsUartLog, UartNow
<1>5. AbsUartLog' = UartNow'
  BY <1>3, <1>4, SMT
<1>6. timer_enabled' \in BOOLEAN
  BY Zenon DEF TypeOK, BusTypeOK, TimerTypeOK
<1>7. AbsTimer' =
        [counter |-> IF ((retire.valid)' \/ StoreCommitted')
                          /\ timer_enabled'
                       THEN Add(timer_counter', One) ELSE timer_counter',
         compare |-> timer_compare', enabled |-> timer_enabled']
  BY Zenon DEF AbsTimer, TimerCounterNext, TimerCompareNext, TimerEnabledNext
<1>8. AbsTimer' = (IF (retire.valid)' \/ StoreCommitted'
                     THEN Golden!RetireTick(TimerNow') ELSE TimerNow')
  BY <1>6, <1>7, TickFields, Zenon DEF TimerNow
<1>9. Golden!RetireTick(TimerNow') = Golden!RetireTick(TimerNow)'
  BY SMT DEF Golden!RetireTick
<1> QED BY <1>1, <1>2, <1>5, <1>8, <1>9, Zenon DEF AtRest

\* Four bytes of the image are the word that bin_to_mem.py makes of them.
LEMMA RomAgrees ==
  ASSUME image \in Images, NEW a \in Word, a.lo % 4 = 0
  PROVE  Golden!RomRead(a) = RomWord(a.lo \div 4)
<1> DEFINE n == a.lo
<1>1. n \in Int /\ 0 <= n
  BY WordParts, SMT
<1>2. n \in Nat /\ n % 4 = 0
  BY <1>1, SMT
<1>3. image \in Seq(Byte) /\ Len(image) % 4 = 0
  BY ImagesFit, Zenon
<1>4. Len(image) \in Nat
  BY <1>3, SMT
<1>5. 4 * (n \div 4) = n
  BY <1>2, SMT
<1> HIDE DEF n
<1>6. Golden!RomRead(a) =
        W(Golden!RomByte(n + 3) * 256 + Golden!RomByte(n + 2),
          Golden!RomByte(n + 1) * 256 + Golden!RomByte(n))
  BY GoldenWords, Zenon DEF Golden!RomRead, Golden!WordOfBytes, n
<1>7. CASE n + 4 <= Len(image)
  <2>1. /\ Golden!RomByte(n) = image[n + 1]
        /\ Golden!RomByte(n + 1) = image[n + 2]
        /\ Golden!RomByte(n + 2) = image[n + 3]
        /\ Golden!RomByte(n + 3) = image[n + 4]
    BY <1>2, <1>4, <1>7, SMT DEF Golden!RomByte
  <2>2. RomWord(n \div 4) = W(image[n + 4] * 256 + image[n + 3],
                             image[n + 2] * 256 + image[n + 1])
    BY <1>5, <1>7, SMT DEF RomWord
  <2> QED BY <1>6, <2>1, <2>2, Zenon DEF n
<1>8. CASE ~(n + 4 <= Len(image))
  <2>1. Len(image) <= n
    BY <1>2, <1>3, <1>4, <1>8, SMT
  <2>2. /\ Golden!RomByte(n) = 0 /\ Golden!RomByte(n + 1) = 0
        /\ Golden!RomByte(n + 2) = 0 /\ Golden!RomByte(n + 3) = 0
    BY <1>2, <1>4, <2>1, SMT DEF Golden!RomByte
  <2>3. RomWord(n \div 4) = Zero
    BY <1>5, <1>8, SMT DEF RomWord
  <2>4. Golden!RomRead(a) = W(0, 0)
    BY <1>6, <2>2, SMT
  <2> QED BY <2>3, <2>4, Zenon DEF n, Zero
<1> QED BY <1>7, <1>8

\* The two bytes of a half make the half again.
LEMMA HalfOfBytes ==
  ASSUME NEW h \in Half
  PROVE  (h \div 256) * 256 + (h % 256) = h
BY HalfRange, SMT

\* Four bytes of the mapped RAM are the word at their address.
LEMMA RamAgrees ==
  ASSUME TypeOK, AbsRam = RamImage(ram), NEW a \in Word, a.lo % 4 = 0,
         Golden!InRam(a)
  PROVE  Golden!RamRead(a) = ram[a.lo \div 4]
<1> DEFINE n == a.lo
           q == a.lo \div 4
           w == ram[q]
<1>1. n \in Int /\ 0 <= n /\ n % 4 = 0
  BY WordParts, SMT
<1>2. n < 4 * RAM_WORD_COUNT
  BY GoldenWindows, WindowRanges, SMT
<1>3. RAM_WORD_COUNT \in Nat
  BY MemorySizes
<1>4. q \in 0 .. RAM_WORD_COUNT - 1 /\ n = 4 * q
  BY <1>1, <1>2, <1>3, SMT
<1>5. ram \in [0 .. RAM_WORD_COUNT - 1 -> Word]
  BY Zenon DEF TypeOK, BusTypeOK
<1>6. w \in Word
  BY <1>4, <1>5, Zenon
<1> HIDE DEF n, q, w
<1>7. /\ n \in 0 .. 4 * RAM_WORD_COUNT - 1
      /\ n + 1 \in 0 .. 4 * RAM_WORD_COUNT - 1
      /\ n + 2 \in 0 .. 4 * RAM_WORD_COUNT - 1
      /\ n + 3 \in 0 .. 4 * RAM_WORD_COUNT - 1
  BY <1>3, <1>4, SMT
<1>8. /\ n \div 4 = q /\ n % 4 = 0 /\ n % 2 = 0
      /\ (n + 1) \div 4 = q /\ (n + 1) % 4 = 1 /\ (n + 1) % 2 = 1
      /\ (n + 2) \div 4 = q /\ (n + 2) % 4 = 2 /\ (n + 2) % 2 = 0
      /\ (n + 3) \div 4 = q /\ (n + 3) % 4 = 3 /\ (n + 3) % 2 = 1
  BY <1>3, <1>4, SMT
<1>9. /\ AbsRam[n] = w.lo % 256
      /\ AbsRam[n + 1] = w.lo \div 256
      /\ AbsRam[n + 2] = w.hi % 256
      /\ AbsRam[n + 3] = w.hi \div 256
  <2>1. ASSUME NEW k \in 0 .. 4 * RAM_WORD_COUNT - 1, k \div 4 = q
        PROVE  AbsRam[k] =
                 LET half == IF k % 4 < 2 THEN w.lo ELSE w.hi
                 IN  IF k % 2 = 0 THEN half % 256 ELSE half \div 256
    BY <2>1, Zenon DEF RamImage, w
  <2> QED BY <1>7, <1>8, <2>1, SMT
<1>10. Golden!RamRead(a) =
         W(AbsRam[n + 3] * 256 + AbsRam[n + 2],
           AbsRam[n + 1] * 256 + AbsRam[n])
  BY GoldenWords, Zenon DEF Golden!RamRead, Golden!WordOfBytes, n
<1>11. w.hi \in Half /\ w.lo \in Half /\ w = W(w.hi, w.lo)
  BY <1>6, WordHalves, SMT DEF Word, W
<1>12. /\ (w.hi \div 256) * 256 + (w.hi % 256) = w.hi
       /\ (w.lo \div 256) * 256 + (w.lo % 256) = w.lo
  BY <1>11, HalfOfBytes, Zenon
<1> QED BY <1>9, <1>10, <1>11, <1>12, SMT DEF w, q

\* The register offsets of an aligned address.
LEMMA Offsets ==
  ASSUME NEW a \in Word, a.lo % 4 = 0
  PROVE  a.lo % 16 \in {0, 4, 8, 12}
BY WordParts, SMT

\* bus.cpp and system_bus.sv read the same word.
LEMMA ReadAgrees ==
  ASSUME TypeOK, image \in Images, AtRest, ~retire.valid, ~StoreCommitted,
         NEW a \in Word, FaultOf("READ", a) = "NONE", NEW gpio_input
  PROVE  Golden!read32(a, gpio_input) = BusRead(a, gpio_input)
<1> DEFINE window == WindowOf(a)
<1>1. ~Misaligned(a) /\ RegionOf(a) \in {"ROM", "RAM", "UART", "TIMER",
                                         "GPIO", "DEBUG"}
  BY RegionWhenNoFault, Zenon
<1>2. a.lo % 4 = 0 /\ RegionOf(a) = window
  BY <1>1, Zenon DEF Misaligned, RegionOf
<1>3. /\ window \in {"ROM", "RAM", "UART", "TIMER", "GPIO", "DEBUG"}
      /\ Golden!InRom(a) <=> window = "ROM"
      /\ Golden!InRam(a) <=> window = "RAM"
      /\ Golden!InUart(a) <=> window = "UART"
      /\ Golden!InTimer(a) <=> window = "TIMER"
      /\ Golden!InGpio(a) <=> window = "GPIO"
      /\ Golden!InDebug(a) <=> window = "DEBUG"
  BY <1>1, <1>2, WindowTable, Zenon
<1>4. /\ AbsRam = RamImage(ram) /\ AbsTimer = TimerNow
      /\ AbsGpio = GpioNow /\ AbsDebugValue = debug_value
  BY Zenon DEF AtRest
<1>5. Golden!Zero = Zero /\ Golden!One = One
  BY GoldenWords, Zenon
<1>6. a.lo % 16 \in {0, 4, 8, 12}
  BY <1>2, Offsets, Zenon
<1> HIDE DEF window
<1>7. CASE window = "ROM"
  <2>1. Golden!read32(a, gpio_input) = Golden!RomRead(a)
    BY <1>3, <1>7, SMT DEF Golden!read32
  <2>2. BusRead(a, gpio_input) = RomWord(a.lo \div 4)
    BY <1>2, <1>7, SMT DEF BusRead
  <2> QED BY <1>2, <2>1, <2>2, RomAgrees, Zenon
<1>8. CASE window = "RAM"
  <2>1. Golden!read32(a, gpio_input) = Golden!RamRead(a)
    BY <1>3, <1>8, SMT DEF Golden!read32
  <2>2. BusRead(a, gpio_input) = ram[a.lo \div 4]
    BY <1>2, <1>8, SMT DEF BusRead
  <2> QED BY <1>2, <1>3, <1>4, <1>8, <2>1, <2>2, RamAgrees, Zenon
<1>9. CASE window = "UART"
  <2>1. Golden!read32(a, gpio_input) = Golden!UartRead(a.lo % 16)
    BY <1>3, <1>9, SMT DEF Golden!read32
  <2>2. BusRead(a, gpio_input) = IF a.lo % 16 = 4 THEN One ELSE Zero
    BY <1>2, <1>9, SMT DEF BusRead
  <2> QED BY <1>5, <2>1, <2>2, SMT DEF Golden!UartRead
<1>10. CASE window = "TIMER"
  <2>1. Golden!read32(a, gpio_input) = Golden!TimerRead(a.lo % 16)
    BY <1>3, <1>10, SMT DEF Golden!read32
  <2>2. BusRead(a, gpio_input) = TimerRegister(a.lo % 16)
    BY <1>2, <1>10, SMT DEF BusRead
  <2>3. /\ AbsTimer.counter = timer_counter
        /\ AbsTimer.compare = timer_compare
        /\ AbsTimer.enabled = timer_enabled
    BY <1>4, SMT DEF TimerNow
  <2>4. ASSUME NEW o \in {0, 4, 8, 12}
        PROVE  Golden!TimerRead(o) = TimerRegister(o)
    BY <1>5, <2>3, SMT DEF Golden!TimerRead, TimerRegister, BoolWord
  <2> QED BY <1>6, <2>1, <2>2, <2>4, Zenon
<1>11. CASE window = "GPIO"
  <2>1. Golden!read32(a, gpio_input) = Golden!GpioRead(a.lo % 16, gpio_input)
    BY <1>3, <1>11, SMT DEF Golden!read32
  <2>2. BusRead(a, gpio_input) = GpioRegister(a.lo % 16, gpio_input)
    BY <1>2, <1>11, SMT DEF BusRead
  <2>3. AbsGpio.output = gpio_output /\ AbsGpio.direction = gpio_direction
    BY <1>4, SMT DEF GpioNow
  <2>4. ASSUME NEW o \in {0, 4, 8, 12}
        PROVE  Golden!GpioRead(o, gpio_input) = GpioRegister(o, gpio_input)
    BY <1>5, <2>3, SMT DEF Golden!GpioRead, GpioRegister
  <2> QED BY <1>6, <2>1, <2>2, <2>4, Zenon
<1>12. CASE window = "DEBUG"
  <2>1. Golden!read32(a, gpio_input) = Golden!DebugRead(a.lo % 16)
    BY <1>3, <1>12, SMT DEF Golden!read32
  <2>2. BusRead(a, gpio_input) =
          IF a.lo % 16 = 0 THEN debug_value ELSE Zero
    BY <1>2, <1>12, SMT DEF BusRead
  <2> QED BY <1>4, <1>5, <2>1, <2>2, SMT DEF Golden!DebugRead
<1> QED BY <1>3, <1>7, <1>8, <1>9, <1>10, <1>11, <1>12, Zenon

\* An edge performs the pending write and the pending tick: what the mapping
\* anticipates is what the registers hold afterwards.
LEMMA EdgeLands ==
  ASSUME TypeOK, Handshake, RunEdge
  PROVE  /\ image' = image
         /\ AbsRam = RamImage(ram')
         /\ AbsTimer = (IF StoreCommitted THEN Golden!RetireTick(TimerNow')
                                          ELSE TimerNow')
         /\ AbsGpio = GpioNow'
         /\ AbsDebugValue = debug_value'
         /\ AbsUartLog = UartNow'
<1>1. PICK gpio_input \in GpioInputs :
             BusEdge(bus_valid, CpuRequest, retire.valid, gpio_input)
  BY Zenon DEF RunEdge
<1>2. MemoryEdge /\ DeviceEdge(retire.valid, gpio_input)
  BY <1>1, Zenon DEF BusEdge
<1>3. image' = image /\ AbsRam = RamImage(ram')
  BY <1>2, Zenon DEF MemoryEdge, AbsRam, RamImage
<1>4. AbsGpio = GpioNow' /\ AbsDebugValue = debug_value'
  BY <1>2, Zenon DEF DeviceEdge, GpioEdge, DebugEdge, AbsGpio, GpioNow,
     AbsDebugValue
<1>5. AbsUartLog = UartNow'
  <2> DEFINE Sent == write_enable("UART") /\ register_offset = 0
             Out  == IF uart_tx_valid THEN <<uart_tx_data>> ELSE <<>>
             New  == IF Sent THEN <<LowByte(pending.wdata)>> ELSE <<>>
  <2>1. uart_log \in Seq(Byte) /\ uart_tx_data \in Byte
    BY Zenon DEF TypeOK, BusTypeOK, MmioTypeOK
  <2>2. /\ uart_tx_valid' = Sent
        /\ uart_tx_data' = IF Sent THEN LowByte(pending.wdata)
                                   ELSE uart_tx_data
    BY <1>2, Zenon DEF DeviceEdge, UartEdge
  <2>3. uart_log' = IF uart_tx_valid THEN Append(uart_log, uart_tx_data)
                                     ELSE uart_log
    BY Zenon DEF RunEdge
  <2>4. AbsUartLog = uart_log \o Out \o New
    BY Zenon DEF AbsUartLog
  <2>5. (IF uart_tx_valid' THEN <<uart_tx_data'>> ELSE <<>>) = New
    <3> HIDE DEF Sent
    <3> QED BY <2>2, Zenon
  <2>6. uart_log' = uart_log \o Out
    BY <2>1, <2>3, SMT
  <2> QED BY <2>4, <2>5, <2>6, Zenon DEF UartNow
<1>6. AbsTimer = (IF StoreCommitted THEN Golden!RetireTick(TimerNow')
                                    ELSE TimerNow')
  <2> DEFINE write == write_enable("TIMER")
             o     == register_offset
             v     == pending.wdata
             base  == IF write /\ o = 0 THEN v ELSE timer_counter
             e     == IF write /\ o = 8 THEN v.lo % 2 = 1 ELSE timer_enabled
             m     == IF write /\ o = 4 THEN v ELSE timer_compare
             due   == retire.valid
  <2>1. /\ timer_counter' = IF due /\ e THEN Add(base, One) ELSE base
        /\ timer_compare' = m
        /\ timer_enabled' = e
    BY <1>2, Zenon DEF DeviceEdge, TimerEdge, TimerCounterNext,
       TimerCompareNext, TimerEnabledNext
  <2>2. AbsTimer = [counter |-> IF (due \/ StoreCommitted) /\ e
                                  THEN Add(base, One) ELSE base,
                    compare |-> m, enabled |-> e]
    BY Zenon DEF AbsTimer, TimerCounterNext, TimerCompareNext,
       TimerEnabledNext
  <2>3. StoreCommitted => ~due
    BY Zenon DEF StoreCommitted, Handshake, NoTickDuringAccess
  <2>4. e \in BOOLEAN
    <3>1. timer_enabled \in BOOLEAN
      BY Zenon DEF TypeOK, BusTypeOK, TimerTypeOK
    <3> QED BY <3>1, Zenon
  <2> HIDE DEF write, o, v, base, e, m, due
  <2>5. CASE StoreCommitted
    <3>1. TimerNow' = [counter |-> base, compare |-> m, enabled |-> e]
      BY <2>1, <2>3, <2>5, Zenon DEF TimerNow
    <3>2. AbsTimer = [counter |-> IF TRUE /\ e THEN Add(base, One) ELSE base,
                      compare |-> m, enabled |-> e]
      BY <2>2, <2>5, Zenon
    <3>3. AbsTimer = Golden!RetireTick([counter |-> base, compare |-> m,
                                        enabled |-> e])
      BY <2>4, <3>2, TickFields, Zenon
    <3> QED BY <2>5, <3>1, <3>3, Zenon
  <2>6. CASE ~StoreCommitted
    BY <2>1, <2>2, <2>6, Zenon DEF TimerNow
  <2> QED BY <2>5, <2>6
<1> QED BY <1>3, <1>4, <1>5, <1>6, Zenon

\* The bytes of RAM after a word v is written at a.
BytesStored(bytes, a, v) ==
  [k \in 0 .. 4 * RAM_WORD_COUNT - 1 |->
     IF k \in a.lo .. a.lo + 3 THEN Golden!ByteOf(v, k - a.lo)
                               ELSE bytes[k]]

\* A word written to RAM is four bytes written to the mapped RAM.
LEMMA RamStoreBytes ==
  ASSUME NEW m \in [0 .. RAM_WORD_COUNT - 1 -> Word], NEW a \in Word,
         a.lo % 4 = 0, a.lo < 4 * RAM_WORD_COUNT, NEW v \in Word
  PROVE  RamImage([m EXCEPT ![a.lo \div 4] = v]) =
           BytesStored(RamImage(m), a, v)
<1> DEFINE n == a.lo
           q == a.lo \div 4
           m2 == [m EXCEPT ![q] = v]
<1>1. n \in Int /\ 0 <= n /\ n % 4 = 0 /\ n < 4 * RAM_WORD_COUNT
  BY WordParts, SMT
<1>2. RAM_WORD_COUNT \in Nat
  BY MemorySizes
<1>3. q \in 0 .. RAM_WORD_COUNT - 1 /\ n = 4 * q
  BY <1>1, <1>2, SMT
<1> HIDE DEF n, q
<1>4. ASSUME NEW k \in 0 .. 4 * RAM_WORD_COUNT - 1
      PROVE  RamImage(m2)[k] =
               IF k \in n .. n + 3 THEN Golden!ByteOf(v, k - n)
                                   ELSE RamImage(m)[k]
  <2>1. /\ k \div 4 \in 0 .. RAM_WORD_COUNT - 1
        /\ k \div 4 = q <=> k \in n .. n + 3
        /\ k \in n .. n + 3 => k % 4 = k - n /\ k % 2 = (k - n) % 2
    BY <1>2, <1>3, SMT
  <2> DEFINE Lane(w) ==
        LET half == IF k % 4 < 2 THEN w.lo ELSE w.hi
        IN  IF k % 2 = 0 THEN half % 256 ELSE half \div 256
  <2>2. /\ RamImage(m)[k] = Lane(m[k \div 4])
        /\ RamImage(m2)[k] = Lane(m2[k \div 4])
    BY Zenon DEF RamImage
  <2>3. m2[k \div 4] = IF k \div 4 = q THEN v ELSE m[k \div 4]
    BY <2>1, SMT
  <2> HIDE DEF m2, Lane
  <2>4. CASE k \in n .. n + 3
    <3>1. RamImage(m2)[k] = Lane(v)
      BY <2>1, <2>2, <2>3, <2>4, SMT
    <3>2. Lane(v) = Golden!ByteOf(v, k - n)
      BY <2>1, <2>4, SMT DEF Golden!ByteOf, Lane
    <3> QED BY <2>4, <3>1, <3>2, Zenon
  <2>5. CASE ~(k \in n .. n + 3)
    <3>1. m2[k \div 4] = m[k \div 4]
      BY <2>1, <2>3, <2>5, SMT
    <3> QED BY <2>2, <2>5, <3>1, SMT
  <2> QED BY <2>4, <2>5
<1>5. ASSUME NEW words
      PROVE  RamImage(words) =
               [k \in 0 .. 4 * RAM_WORD_COUNT - 1 |-> RamImage(words)[k]]
  BY SMT DEF RamImage
<1> HIDE DEF m2
<1>6. RamImage(m2) =
        [k \in 0 .. 4 * RAM_WORD_COUNT - 1 |->
              IF k \in n .. n + 3 THEN Golden!ByteOf(v, k - n)
                                  ELSE RamImage(m)[k]]
  BY <1>4, <1>5, Zenon
<1> QED BY <1>6, Zenon DEF m2, n, q, BytesStored

\* A store that the bus captures has, in the mapping, the effect of write32
\* followed by the tick of its retirement.
LEMMA StoreLands ==
  ASSUME TypeOK, TypeOK', Handshake, RunEdge, bus_state = "IDLE",
         NEW a \in Word, NEW v \in Word, FaultOf("WRITE", a) = "NONE",
         bus_state' = "MEMORY", pending' = RequestOf("WRITE", a, v)
  PROVE  /\ AbsRam' = Golden!RamWritten(a, v)
         /\ AbsTimer' = Golden!RetireTick(Golden!TimerWritten(a, v))
         /\ AbsGpio' = Golden!GpioWritten(a, v)
         /\ AbsDebugValue' = Golden!DebugWritten(a, v)
         /\ AbsUartLog' = Golden!UartWritten(a, v)
<1> DEFINE o == a.lo % 16
           window == WindowOf(a)
<1>1. /\ AbsRam = RamImage(ram') /\ AbsTimer = TimerNow'
      /\ AbsGpio = GpioNow' /\ AbsDebugValue = debug_value'
      /\ AbsUartLog = UartNow'
  <2>1. ~StoreCommitted
    BY Zenon DEF StoreCommitted
  <2> QED BY <2>1, EdgeLands, Zenon
<1>2. ~Misaligned(a) /\ RegionOf(a) \in {"ROM", "RAM", "UART", "TIMER",
                                         "GPIO", "DEBUG"}
  BY RegionWhenNoFault, Zenon
<1>3. a.lo % 4 = 0 /\ RegionOf(a) = window
  BY <1>2, Zenon DEF Misaligned, RegionOf
<1>4. /\ Golden!InRam(a) <=> window = "RAM"
      /\ Golden!InUart(a) <=> window = "UART"
      /\ Golden!InTimer(a) <=> window = "TIMER"
      /\ Golden!InGpio(a) <=> window = "GPIO"
      /\ Golden!InDebug(a) <=> window = "DEBUG"
  BY WindowTable, Zenon
<1>5. /\ (pending.access)' = "WRITE" /\ (pending.addr)' = a
      /\ (pending.wdata)' = v
  BY Zenon DEF RequestOf
<1>6. /\ register_offset' = o /\ word_address' = a.lo \div 4
      /\ pending_fault' = "NONE" /\ pending_region' = window
  BY <1>3, <1>5, Zenon DEF register_offset, word_address, pending_fault,
                          pending_region
<1>7. /\ StoreCommitted'
      /\ \A region : write_enable(region)' <=> window = region
  BY <1>5, <1>6, Zenon DEF StoreCommitted, write_enable, Performs
<1> HIDE DEF o, window
<1>8. AbsGpio' = Golden!GpioWritten(a, v)
  <2>1. AbsGpio' =
          [output    |-> IF window = "GPIO" /\ o = 4 THEN v ELSE gpio_output',
           direction |-> IF window = "GPIO" /\ o = 8 THEN v
                                                     ELSE gpio_direction']
    BY <1>5, <1>6, <1>7, Zenon DEF AbsGpio, GpioOutputNext, GpioDirectionNext
  <2>2. Golden!GpioWritten(a, v) =
          CASE window = "GPIO" /\ o = 4 -> [AbsGpio EXCEPT !.output = v]
            [] window = "GPIO" /\ o = 8 -> [AbsGpio EXCEPT !.direction = v]
            [] OTHER -> AbsGpio
    BY <1>4, Zenon DEF Golden!GpioWritten, o
  <2>3. AbsGpio = [output |-> gpio_output', direction |-> gpio_direction']
    BY <1>1, Zenon DEF GpioNow
  <2> QED BY <2>1, <2>2, <2>3, SMT
<1>9. AbsDebugValue' = Golden!DebugWritten(a, v)
  BY <1>1, <1>4, <1>5, <1>6, <1>7, Zenon
     DEF AbsDebugValue, DebugValueNext, Golden!DebugWritten, o
<1>10. AbsUartLog' = Golden!UartWritten(a, v)
  <2> DEFINE byte == LowByte(v)
  <2>1. AbsUartLog' =
          UartNow' \o (IF window = "UART" /\ o = 0 THEN <<byte>> ELSE <<>>)
    BY <1>5, <1>6, <1>7, Zenon DEF AbsUartLog, UartNow
  <2>2. Golden!UartWritten(a, v) =
          IF window = "UART" /\ o = 0 THEN Append(UartNow', byte)
                                      ELSE UartNow'
    BY <1>1, <1>4, GoldenWords, Zenon DEF Golden!UartWritten, o
  <2>3. UartNow' \in Seq(Byte)
    <3>1. uart_log' \in Seq(Byte) /\ uart_tx_data' \in Byte
      BY Zenon DEF TypeOK, BusTypeOK, MmioTypeOK
    <3> QED BY <3>1, SMT DEF UartNow
  <2> DEFINE log == UartNow'
  <2> HIDE DEF byte, log
  <2>4. log \o <<>> = log /\ log \o <<byte>> = Append(log, byte)
    BY <2>3, SMT DEF log
  <2> QED BY <2>1, <2>2, <2>4, Zenon DEF log
<1>11. AbsRam' = Golden!RamWritten(a, v)
  <2>1. AbsRam' = RamImage(RamNext')
    BY Zenon DEF AbsRam, RamImage
  <2>2. Golden!RamBytes = 0 .. 4 * RAM_WORD_COUNT - 1
    BY Zenon DEF Golden!RamBytes
  <2>3. CASE window = "RAM"
    <3>1. RamNext' = [ram' EXCEPT ![a.lo \div 4] = v]
      BY <1>5, <1>6, <1>7, <2>3, Zenon DEF RamNext
    <3>2. a.lo < 4 * RAM_WORD_COUNT
      <4>1. InWindow(a, RAM_BASE, RAM_LAST)
        BY <1>4, <2>3, GoldenWindows, Zenon
      <4> QED BY <4>1, WindowRanges, SMT
    <3>3. ram' \in [0 .. RAM_WORD_COUNT - 1 -> Word]
      BY Zenon DEF TypeOK, BusTypeOK
    <3> DEFINE m == ram'
    <3> HIDE DEF m
    <3>6. m \in [0 .. RAM_WORD_COUNT - 1 -> Word]
      BY <3>3 DEF m
    <3>7. RamImage([m EXCEPT ![a.lo \div 4] = v]) =
            BytesStored(RamImage(m), a, v)
      BY <1>3, <3>2, <3>6, RamStoreBytes, Zenon
    <3>4. RamImage(RamNext') = BytesStored(RamImage(ram'), a, v)
      BY <3>1, <3>7, Zenon DEF m
    <3>5. Golden!InRam(a)
      BY <1>4, <2>3, Zenon
    <3> QED BY <1>1, <2>1, <2>2, <3>4, <3>5, Zenon
            DEF Golden!RamWritten, BytesStored
  <2>4. CASE window # "RAM"
    <3>1. RamNext' = ram' /\ ~Golden!InRam(a)
      BY <1>4, <1>7, <2>4, Zenon DEF RamNext
    <3>2. AbsRam' = AbsRam
      BY <1>1, <2>1, <3>1, Zenon
    <3>3. AbsRam = [k \in 0 .. 4 * RAM_WORD_COUNT - 1 |-> AbsRam[k]]
      BY <1>1, Zenon DEF RamImage
    <3>4. Golden!RamWritten(a, v) =
            [k \in 0 .. 4 * RAM_WORD_COUNT - 1 |-> AbsRam[k]]
      BY <2>2, <3>1, Zenon DEF Golden!RamWritten
    <3> QED BY <3>2, <3>3, <3>4, Zenon
  <2> QED BY <2>3, <2>4
<1>12. AbsTimer' = Golden!RetireTick(Golden!TimerWritten(a, v))
  <2> DEFINE base == IF window = "TIMER" /\ o = 0 THEN v ELSE timer_counter'
             m    == IF window = "TIMER" /\ o = 4 THEN v ELSE timer_compare'
             e    == IF window = "TIMER" /\ o = 8 THEN v.lo % 2 = 1
                                                  ELSE timer_enabled'
  <2>1. AbsTimer' = [counter |-> IF TRUE /\ e THEN Add(base, One) ELSE base,
                     compare |-> m, enabled |-> e]
    BY <1>5, <1>6, <1>7, Zenon DEF AbsTimer, TimerCounterNext,
                                   TimerCompareNext, TimerEnabledNext
  <2>2. timer_enabled' \in BOOLEAN
    BY Zenon DEF TypeOK, BusTypeOK, TimerTypeOK
  <2>3. e \in BOOLEAN
    BY <2>2, Zenon
  <2>4. Golden!TimerWritten(a, v) =
          CASE window = "TIMER" /\ o = 0 -> [AbsTimer EXCEPT !.counter = v]
            [] window = "TIMER" /\ o = 4 -> [AbsTimer EXCEPT !.compare = v]
            [] window = "TIMER" /\ o = 8 ->
                 [AbsTimer EXCEPT !.enabled = v.lo % 2 = 1]
            [] OTHER -> AbsTimer
    BY <1>4, Zenon DEF Golden!TimerWritten, o
  <2>5. AbsTimer = [counter |-> timer_counter', compare |-> timer_compare',
                    enabled |-> timer_enabled']
    BY <1>1, Zenon DEF TimerNow
  <2> DEFINE set == v.lo % 2 = 1
  <2>6. Golden!TimerWritten(a, v) =
          [counter |-> base, compare |-> m, enabled |-> e]
    <3> HIDE DEF set
    <3>1. Golden!TimerWritten(a, v) =
            CASE window = "TIMER" /\ o = 0 -> [AbsTimer EXCEPT !.counter = v]
              [] window = "TIMER" /\ o = 4 -> [AbsTimer EXCEPT !.compare = v]
              [] window = "TIMER" /\ o = 8 ->
                   [AbsTimer EXCEPT !.enabled = set]
              [] OTHER -> AbsTimer
      BY <2>4, Zenon DEF set
    <3> QED BY <2>5, <3>1, SMT DEF set
  <2> HIDE DEF base, m, e
  <2>7. AbsTimer' = Golden!RetireTick([counter |-> base, compare |-> m,
                                       enabled |-> e])
    BY <2>1, <2>3, TickFields, Zenon
  <2> QED BY <2>6, <2>7, Zenon
<1> QED BY <1>8, <1>9, <1>10, <1>11, <1>12, Zenon

\* Both machines read r0 as zero.
LEMMA GoldenRegister ==
  ASSUME NEW r \in Register
  PROVE  Golden!ReadRegister(r) = RegisterData(r)
BY GoldenWords, Zenon DEF Golden!ReadRegister, AbsRegisters, RegisterData

\* The golden model fetches what the RTL has fetched.
LEMMA GoldenInstruction ==
  ASSUME TypeOK, image \in Images, HasFetched, ~StoreCommitted
  PROVE  /\ AbsPc = pc
         /\ Golden!fetch32_fault(AbsPc) = "NONE"
         /\ Golden!instruction = IR
         /\ Golden!decoded = Decode(IR)
         /\ Golden!control = control_for(Decode(IR).opcode)
         /\ Golden!pc_plus_4 = PcPlus4
<1>1. AbsPc = pc /\ pc \in Word
  BY Zenon DEF AbsPc, TypeOK, CpuTypeOK
<1>2. FaultOf("FETCH", pc) = "NONE" /\ IR = RomWord(pc.lo \div 4)
  BY Zenon DEF HasFetched
<1>3. pc.lo % 4 = 0
  BY <1>2, RegionWhenNoFault, Zenon DEF Misaligned
<1>4. Golden!fetch32_fault(pc) = "NONE"
  BY <1>1, <1>2, FaultsAgree, Zenon
<1>5. Golden!instruction = IR
  BY <1>1, <1>2, <1>3, RomAgrees, Zenon DEF Golden!instruction
<1>6. Golden!decoded = Decode(IR)
  BY <1>5, GoldenDecoder, Zenon DEF Golden!decoded
<1>7. Golden!control = control_for(Decode(IR).opcode)
  BY <1>6, GoldenDecoder, Zenon DEF Golden!control
<1>8. Golden!pc_plus_4 = PcPlus4
  BY <1>1, GoldenWords, Zenon DEF Golden!pc_plus_4, PcPlus4
<1> QED BY <1>1, <1>4, <1>5, <1>6, <1>7, <1>8, Zenon

\* The two control units select the same for a legal instruction.
LEMMA GoldenControl ==
  ASSUME TypeOK, image \in Images, HasFetched, ~StoreCommitted,
         DecodeValid(IR)
  PROVE  LET c == Golden!control
             flow == ControlFlow(IR)
             memory == ControlMemoryOperation(IR)
         IN  /\ Golden!DecodeError(Golden!instruction) = "None"
             /\ flow = "CONDITIONAL_BRANCH" =>
                  c.control_flow = "ConditionalBranch"
             /\ flow = "RELATIVE_JUMP" => c.control_flow = "RelativeJump"
             /\ flow = "REGISTER_JUMP" => c.control_flow = "RegisterJump"
             /\ flow = "SEQUENTIAL" => c.control_flow = "Sequential"
             /\ flow \in {"CONDITIONAL_BRANCH", "RELATIVE_JUMP",
                          "REGISTER_JUMP", "SEQUENTIAL"}
             /\ memory = "LOAD" => c.memory_operation = "Load"
             /\ memory = "STORE" => c.memory_operation = "Store"
             /\ memory = "NONE" => c.memory_operation = "None"
             /\ memory \in {"LOAD", "STORE", "NONE"}
             /\ c.reg_write <=> ControlRegWrite(IR)
             /\ ControlHalt(IR) => c.halt /\ ~ControlRegWrite(IR)
             /\ ~ControlHalt(IR) => ~c.halt
             /\ ControlRegWrite(IR) =>
                  WritebackDestination(IR) =
                    IF c.register_destination = "ReturnAddress"
                      THEN 31 ELSE Golden!decoded.rd
             /\ ControlWritebackSource(IR) =
                  IF memory = "LOAD" THEN "MEMORY"
                  ELSE IF flow = "RELATIVE_JUMP" /\ ControlRegWrite(IR)
                         THEN "PC_PLUS_4" ELSE "ALU"
             /\ memory # "NONE" => flow = "SEQUENTIAL"
<1> DEFINE op == Opcode(IR)
           c == Golden!control
           d == Golden!decoded
<1>1. IR \in Word
  BY CpuWires, Zenon DEF TypeOK
<1>2. Golden!DecodeError(Golden!instruction) = "None" /\ op \in Opcodes
  <2>1. RtlError(IR) = "None"
    BY Zenon DEF RtlError
  <2>2. DecodeError(IR) = "None"
    BY <1>1, <2>1, SameDecodeError, Zenon
  <2>3. Golden!instruction = IR
    BY GoldenInstruction, Zenon
  <2> QED BY <1>1, <2>2, <2>3, SameDecodeError, GoldenDecoder, Zenon
<1>3. op \in 0 .. 23
  BY <1>2, Zenon DEF Opcodes
<1>4. DecodedFields(IR, Decode(IR))
  BY <1>1, <1>2, DecodeTable, Zenon
<1>5. Decode(IR).opcode = op
  BY <1>4, Zenon DEF DecodedFields
<1>6. ControlColumns(op, c)
  BY <1>2, <1>5, GoldenInstruction, ControlTable, Zenon
<1>7. d.rd = IF op \in 0 .. 14 \/ op = 23 THEN Bits25_21(IR) ELSE 0
  BY <1>4, GoldenInstruction, Zenon DEF DecodedFields
<1>8. /\ ControlRegWrite(IR) <=> (op \in 1 .. 14 \/ op = 21)
      /\ op = 23 => ControlHalt(IR) = TRUE
      /\ op # 23 => ControlHalt(IR) = FALSE
      /\ ControlMemoryOperation(IR) =
           IF op = 14 THEN "LOAD" ELSE IF op = 15 THEN "STORE" ELSE "NONE"
      /\ ControlWritebackSource(IR) =
           IF op = 14 THEN "MEMORY" ELSE IF op = 21 THEN "PC_PLUS_4" ELSE "ALU"
      /\ ControlFlow(IR) =
           IF op \in 16 .. 19 THEN "CONDITIONAL_BRANCH"
           ELSE IF op \in {20, 21} THEN "RELATIVE_JUMP"
           ELSE IF op = 22 THEN "REGISTER_JUMP" ELSE "SEQUENTIAL"
      /\ WritebackDestination(IR) = IF op = 21 THEN 31 ELSE Bits25_21(IR)
  BY <1>1, <1>2, RtlColumns, Zenon
<1>9. /\ c.reg_write <=> (op \in 1 .. 14 \/ op = 21)
      /\ op = 23 => c.halt = TRUE
      /\ op # 23 => c.halt = FALSE
      /\ c.register_destination = IF op = 21 THEN "ReturnAddress"
                                             ELSE "DecodedRd"
      /\ c.memory_operation = IF op = 14 THEN "Load"
                              ELSE IF op = 15 THEN "Store" ELSE "None"
      /\ c.control_flow = IF op \in 16 .. 19 THEN "ConditionalBranch"
                          ELSE IF op \in {20, 21} THEN "RelativeJump"
                          ELSE IF op = 22 THEN "RegisterJump"
                          ELSE "Sequential"
  <2> HIDE DEF op, c
  <2> QED BY <1>6, Zenon DEF ControlColumns
<1> HIDE DEF op, c, d
<1> DEFINE flow == ControlFlow(IR)
           memory == ControlMemoryOperation(IR)
           writes == ControlRegWrite(IR)
           halts == ControlHalt(IR)
           source == ControlWritebackSource(IR)
           to == WritebackDestination(IR)
           rd == Bits25_21(IR)
<1> HIDE DEF flow, memory, writes, halts, source, to, rd
<1>10. /\ flow = "CONDITIONAL_BRANCH" => c.control_flow = "ConditionalBranch"
       /\ flow = "RELATIVE_JUMP" => c.control_flow = "RelativeJump"
       /\ flow = "REGISTER_JUMP" => c.control_flow = "RegisterJump"
       /\ flow = "SEQUENTIAL" => c.control_flow = "Sequential"
       /\ flow \in {"CONDITIONAL_BRANCH", "RELATIVE_JUMP", "REGISTER_JUMP",
                    "SEQUENTIAL"}
  BY <1>3, <1>8, <1>9, SMT DEF flow
<1>11. /\ memory = "LOAD" => c.memory_operation = "Load"
       /\ memory = "STORE" => c.memory_operation = "Store"
       /\ memory = "NONE" => c.memory_operation = "None"
       /\ memory \in {"LOAD", "STORE", "NONE"}
       /\ memory # "NONE" => flow = "SEQUENTIAL"
  BY <1>3, <1>8, <1>9, SMT DEF memory, flow
<1>12. /\ c.reg_write <=> writes
       /\ halts => c.halt /\ ~writes
       /\ ~halts => ~c.halt
  BY <1>3, <1>8, <1>9, SMT DEF writes, halts
<1>13. writes => to = IF c.register_destination = "ReturnAddress"
                        THEN 31 ELSE d.rd
  BY <1>3, <1>7, <1>8, <1>9, SMT DEF writes, to
<1>14. source = IF memory = "LOAD" THEN "MEMORY"
                ELSE IF flow = "RELATIVE_JUMP" /\ writes
                       THEN "PC_PLUS_4" ELSE "ALU"
  BY <1>3, <1>8, SMT DEF source, memory, flow, writes
<1> QED BY <1>2, <1>10, <1>11, <1>12, <1>13, <1>14, Zenon
        DEF c, d, flow, memory, writes, halts, source, to

\* The two datapaths compute the same for a legal instruction.
LEMMA GoldenOperands ==
  ASSUME TypeOK, image \in Images, HasFetched, ~StoreCommitted,
         DecodeValid(IR)
  PROVE  LET flow == ControlFlow(IR)
             lhs  == RegisterData(DecodedRs1(IR))
         IN  /\ flow # "RELATIVE_JUMP" => Golden!operand_lhs = lhs
             /\ ControlMemoryOperation(IR) = "STORE" =>
                  Golden!store_data = RegisterData(DecodedRs2(IR))
             /\ flow \in {"CONDITIONAL_BRANCH", "SEQUENTIAL"} =>
                  /\ Golden!operand_rhs = OperandRhs
                  /\ Golden!alu_result =
                       AluResult(ControlAluOperation(IR), lhs, OperandRhs)
             /\ flow = "CONDITIONAL_BRANCH" =>
                  /\ Golden!branch_taken(Golden!control.branch_predicate,
                                         lhs, OperandRhs)
                       <=> BranchTaken(IR, lhs, OperandRhs)
                  /\ Golden!Add(Golden!pc_plus_4,
                       Golden!branch_displacement(Golden!decoded.imm16))
                       = BranchTarget
             /\ flow = "RELATIVE_JUMP" =>
                  Golden!Add(Golden!pc_plus_4,
                    Golden!jump_displacement(Golden!decoded.imm26))
                    = JumpTarget
<1> DEFINE op == Opcode(IR)
           c == Golden!control
           d == Golden!decoded
           lhs == RegisterData(DecodedRs1(IR))
           rs2 == RegisterData(DecodedRs2(IR))
           flow == ControlFlow(IR)
<1>1. IR \in Word
  BY CpuWires, Zenon DEF TypeOK
<1>2. op \in Opcodes
  <2>1. RtlError(IR) = "None"
    BY Zenon DEF RtlError
  <2> QED BY <1>1, <2>1, SameDecodeError, Zenon
<1>3. op \in 0 .. 23
  BY <1>2, Zenon DEF Opcodes
<1>4. DecodedFields(IR, d)
  BY <1>1, <1>2, DecodeTable, GoldenInstruction, Zenon
<1>5. d = Decode(IR) /\ d.opcode = op /\ c = control_for(op)
  <2>1. Decode(IR).opcode = op
    BY <1>1, <1>2, DecodeTable, Zenon DEF DecodedFields
  <2> QED BY <2>1, GoldenInstruction, Zenon
<1>6. ControlColumns(op, c)
  BY <1>2, <1>5, ControlTable, Zenon
<1>7. /\ d.rs1 = IF op \in 0 .. 15 \/ op = 23 THEN Bits20_16(IR)
                 ELSE IF op \in 16 .. 19 \/ op = 22 THEN Bits25_21(IR) ELSE 0
      /\ d.rs2 = IF op \in 0 .. 8 \/ op = 23 THEN Bits15_11(IR)
                 ELSE IF op = 15 THEN Bits25_21(IR)
                 ELSE IF op \in 16 .. 19 THEN Bits20_16(IR) ELSE 0
      /\ d.imm16 = IF op \in 9 .. 19 THEN IR.lo ELSE 0
      /\ d.imm26 = IF op \in {20, 21} THEN W(IR.hi % 1024, IR.lo) ELSE Zero
  <2> HIDE DEF d
  <2> QED BY <1>4, Zenon DEF DecodedFields
<1>8. /\ ControlAluSrcImmediate(IR) <=> op \in 9 .. 15
      /\ ControlMemoryOperation(IR) =
           IF op = 14 THEN "LOAD" ELSE IF op = 15 THEN "STORE" ELSE "NONE"
      /\ flow = IF op \in 16 .. 19 THEN "CONDITIONAL_BRANCH"
                ELSE IF op \in {20, 21} THEN "RELATIVE_JUMP"
                ELSE IF op = 22 THEN "REGISTER_JUMP" ELSE "SEQUENTIAL"
      /\ DecodedRs1(IR) = IF op \in 16 .. 19 \/ op = 22
                            THEN Bits25_21(IR) ELSE Bits20_16(IR)
      /\ DecodedRs2(IR) = IF op = 15 THEN Bits25_21(IR)
                          ELSE IF op \in 16 .. 19 THEN Bits20_16(IR)
                          ELSE Bits15_11(IR)
  BY <1>1, <1>2, RtlColumns, Zenon
<1>9. /\ c.alu_src_immediate <=> op \in 9 .. 15
  <2> HIDE DEF op, c
  <2> QED BY <1>6, Zenon DEF ControlColumns
<1>10. /\ Golden!ReadRegister(DecodedRs1(IR)) = lhs
       /\ Golden!ReadRegister(DecodedRs2(IR)) = rs2
  BY <1>1, FieldsInRegister, GoldenRegister, Zenon
<1>11. /\ Golden!operand_lhs = Golden!ReadRegister(d.rs1)
       /\ Golden!store_data = Golden!ReadRegister(d.rs2)
       /\ Golden!operand_rhs = IF c.alu_src_immediate THEN ImmediateValue(IR)
                                                      ELSE Golden!store_data
  <2>1. Golden!operand_rhs =
          IF c.alu_src_immediate
            THEN immediate_value(c.immediate_kind, d.imm16)
            ELSE Golden!store_data
    BY GoldenExecution, Zenon DEF Golden!operand_rhs
  <2>2. ImmediateValue(IR) = immediate_value(c.immediate_kind, d.imm16)
    BY <1>1, <1>2, <1>5, SameImmediate, Zenon
  <2> QED BY <2>1, <2>2, Zenon DEF Golden!operand_lhs, Golden!store_data
<1>12. ASSUME NEW l, NEW r
       PROVE  Golden!Execute(c.alu_operation, l, r) =
                AluResult(ControlAluOperation(IR), l, r)
  BY <1>1, <1>2, <1>5, SameAlu, GoldenExecution, Zenon
<1> HIDE DEF op, c, d, lhs, rs2, flow
<1>13. flow # "RELATIVE_JUMP" => Golden!operand_lhs = lhs
  <2>1. flow # "RELATIVE_JUMP" => d.rs1 = DecodedRs1(IR)
    BY <1>3, <1>7, <1>8, SMT
  <2> QED BY <1>10, <1>11, <2>1, Zenon
<1>14. op \in 0 .. 8 \/ op = 15 \/ op \in 16 .. 19 \/ op = 23
         => Golden!store_data = rs2
  <2>1. op \in 0 .. 8 \/ op = 15 \/ op \in 16 .. 19 \/ op = 23
          => d.rs2 = DecodedRs2(IR)
    BY <1>3, <1>7, <1>8, SMT
  <2> QED BY <1>10, <1>11, <2>1, Zenon
<1>15. ControlMemoryOperation(IR) = "STORE" => Golden!store_data = rs2
  <2>1. ControlMemoryOperation(IR) = "STORE" => op = 15
    BY <1>3, <1>8, SMT
  <2> QED BY <1>14, <2>1, Zenon
<1>16. flow \in {"CONDITIONAL_BRANCH", "SEQUENTIAL"} =>
         Golden!operand_rhs = OperandRhs
  <2>1. flow \in {"CONDITIONAL_BRANCH", "SEQUENTIAL"} =>
          op \in 9 .. 15 \/ op \in 0 .. 8 \/ op = 15 \/ op \in 16 .. 19
             \/ op = 23
    BY <1>3, <1>8, SMT
  <2>2. OperandRhs = IF ControlAluSrcImmediate(IR) THEN ImmediateValue(IR)
                                                   ELSE rs2
    BY Zenon DEF OperandRhs, rs2
  <2> QED BY <1>8, <1>9, <1>11, <1>14, <2>1, <2>2, Zenon
<1>17. flow \in {"CONDITIONAL_BRANCH", "SEQUENTIAL"} =>
         Golden!alu_result = AluResult(ControlAluOperation(IR), lhs,
                                       OperandRhs)
  <2>1. Golden!alu_result = Golden!Execute(c.alu_operation,
                                           Golden!operand_lhs,
                                           Golden!operand_rhs)
    BY Zenon DEF Golden!alu_result, c
  <2>2. ASSUME flow \in {"CONDITIONAL_BRANCH", "SEQUENTIAL"}
        PROVE  Golden!operand_lhs = lhs /\ Golden!operand_rhs = OperandRhs
    BY <1>13, <1>16, <2>2, Zenon
  <2> QED BY <1>12, <2>1, <2>2, Zenon
<1>18. flow = "CONDITIONAL_BRANCH" =>
         (Golden!branch_taken(c.branch_predicate, lhs, OperandRhs)
            <=> BranchTaken(IR, lhs, OperandRhs))
  <2>1. flow = "CONDITIONAL_BRANCH" => op \in 16 .. 19
    BY <1>3, <1>8, SMT
  <2> QED BY <1>1, <1>5, <2>1, SameBranch, GoldenExecution, Zenon DEF op
<1>19. flow = "CONDITIONAL_BRANCH" =>
         Golden!Add(Golden!pc_plus_4, Golden!branch_displacement(d.imm16))
           = BranchTarget
  <2>1. flow = "CONDITIONAL_BRANCH" => d.imm16 = IR.lo
    BY <1>3, <1>7, <1>8, SMT
  <2>2. BranchDisplacement(IR) = Golden!branch_displacement(IR.lo)
    BY <1>1, DisplacementsAgree, GoldenExecution, Zenon
  <2> QED BY <2>1, <2>2, GoldenInstruction, GoldenWords, Zenon
          DEF BranchTarget
<1>20. flow = "RELATIVE_JUMP" =>
         Golden!Add(Golden!pc_plus_4, Golden!jump_displacement(d.imm26))
           = JumpTarget
  <2>1. flow = "RELATIVE_JUMP" => d.imm26 = W(IR.hi % 1024, IR.lo)
    BY <1>3, <1>7, <1>8, SMT
  <2>2. ASSUME NEW w, w = W(IR.hi % 1024, IR.lo)
        PROVE  JumpDisplacement(IR) = Golden!jump_displacement(w)
    BY <1>1, <2>2, DisplacementsAgree, GoldenExecution, SMT
  <2> QED BY <2>1, <2>2, GoldenInstruction, GoldenWords, Zenon
          DEF JumpTarget
<1> QED BY <1>13, <1>15, <1>16, <1>17, <1>18, <1>19, <1>20, Zenon
        DEF op, c, d, lhs, rs2, flow

------------------------------------------------------------------------------
(***************************************************************************)
(* RefInv is inductive.                                                    *)
(***************************************************************************)

\* Nothing that can be read changes at an edge without access and tick.
LEMMA QuietEdge ==
  ASSUME RunEdge, bus_state # "MEMORY", ~retire.valid
  PROVE  UNCHANGED <<image, ram, timer_counter, timer_compare, timer_enabled,
                     gpio_output, gpio_direction, debug_value>>
<1>1. PICK gpio_input \in GpioInputs :
             BusEdge(bus_valid, CpuRequest, retire.valid, gpio_input)
  BY Zenon DEF RunEdge
<1>2. \A region, access : ~Performs(region, access)
  BY NothingPerformed, Zenon
<1>3. MemoryEdge /\ DeviceEdge(retire.valid, gpio_input)
  BY <1>1, Zenon DEF BusEdge
<1>4. image' = image /\ ram' = ram
  BY <1>2, <1>3, Zenon DEF MemoryEdge, RamNext, write_enable
<1>5. /\ timer_counter' = timer_counter
      /\ timer_compare' = timer_compare
      /\ timer_enabled' = timer_enabled
  BY <1>2, <1>3, Zenon DEF DeviceEdge, TimerEdge, TimerCompareNext,
                           TimerEnabledNext, TimerCounterNext, write_enable
<1>6. gpio_output' = gpio_output /\ gpio_direction' = gpio_direction
  BY <1>2, <1>3, Zenon DEF DeviceEdge, GpioEdge, GpioOutputNext,
                           GpioDirectionNext, write_enable
<1>7. debug_value' = debug_value
  BY <1>2, <1>3, Zenon DEF DeviceEdge, DebugEdge, DebugValueNext,
                           write_enable
<1> QED BY <1>4, <1>5, <1>6, <1>7, Zenon

\* The edge that leaves MEMORY reads the addressed cell.
LEMMA ReadStep ==
  ASSUME TypeOK, Handshake, ResponseIsRead, [Next]_vars
  PROVE  ResponseIsRead'
<1>1. CASE RunEdge
  <2> SUFFICES ASSUME bus_state' = "RESPONSE", pending_fault' = "NONE",
                      (pending.access)' # "WRITE"
               PROVE  \E gpio_input \in GpioInputs :
                        response_rdata' = BusRead(pending.addr, gpio_input)'
    BY Zenon DEF ResponseIsRead
  <2>1. PICK gpio_input \in GpioInputs :
               BusEdge(bus_valid, CpuRequest, retire.valid, gpio_input)
    BY <1>1, Zenon DEF RunEdge
  <2>2. bus_state = "MEMORY" /\ pending' = pending
    BY <2>1, Zenon DEF BusEdge, CaptureRequest, NoRequest, AccessMemory,
                       FinishResponse
  <2>3. ~retire.valid
    BY <2>2, Zenon DEF Handshake, NoTickDuringAccess
  <2> DEFINE a == pending.addr
             o == pending.addr.lo % 16
             q == pending.addr.lo \div 4
  <2>4. /\ pending_fault = "NONE" /\ pending_fault' = "NONE"
        /\ pending_region' = pending_region /\ (pending.addr)' = a
        /\ register_offset = o /\ word_address = q
        /\ pending_region = RegionOf(a) /\ pending.access # "WRITE"
    BY <2>2, Zenon DEF pending_fault, pending_region, word_address,
                       register_offset
  <2>5. /\ RegionOf(a) \in {"ROM", "RAM", "UART", "TIMER", "GPIO", "DEBUG"}
        /\ RegionOf(a) # "ROM" => pending.access # "FETCH"
    BY <2>4, RegionWhenNoFault, Zenon DEF pending_fault
  <2>6. pending.access \in {"FETCH", "READ", "WRITE"}
    BY PendingTyped, Zenon DEF TypeOK, BusAccess
  <2>7. MemoryEdge /\ DeviceEdge(retire.valid, gpio_input)
    BY <2>1, Zenon DEF BusEdge
  <2>8. \A region : ~write_enable(region)
    BY <2>4, Zenon DEF write_enable, Performs
  <2>9. UNCHANGED <<image, ram, timer_counter, timer_compare, timer_enabled,
                    gpio_output, gpio_direction, debug_value>>
    BY <2>3, <2>7, <2>8, Zenon
       DEF MemoryEdge, RamNext, DeviceEdge, TimerEdge, TimerCompareNext,
           TimerEnabledNext, TimerCounterNext, GpioEdge, GpioOutputNext,
           GpioDirectionNext, DebugEdge, DebugValueNext
  <2>10. BusRead(pending.addr, gpio_input)' = BusRead(a, gpio_input)
    BY <2>4, <2>9, Zenon
       DEF BusRead, RomWord, TimerRegister, GpioRegister, RegionOf,
           WindowOf, Misaligned
  <2> HIDE DEF a, o, q
  <2>11. CASE RegionOf(a) = "ROM"
    <3>1. read_enable("ROM") \/ Performs("ROM", "FETCH")
      BY <2>2, <2>4, <2>6, <2>11, Zenon DEF read_enable, Performs
    <3>2. rom_read_data' = RomWord(q)
      BY <2>4, <2>7, <3>1, Zenon DEF MemoryEdge
    <3>3. response_rdata' = rom_read_data'
      BY <2>4, <2>11, SMT DEF response_rdata, response_ready
    <3>4. BusRead(a, gpio_input) = RomWord(q)
      BY <2>11, SMT DEF BusRead, a, q
    <3> QED BY <2>10, <3>2, <3>3, <3>4, Zenon
  <2>12. CASE RegionOf(a) # "ROM"
    <3>0. pending.access = "READ"
      BY <2>4, <2>5, <2>6, <2>12, Zenon
    <3>1. \A region : read_enable(region) <=> RegionOf(a) = region
      BY <2>2, <2>4, <3>0, Zenon DEF read_enable, Performs
    <3>2. CASE RegionOf(a) = "RAM"
      <4>1. ram_read_data' = ram[q]
        BY <2>4, <2>7, <3>1, <3>2, Zenon DEF MemoryEdge
      <4>2. response_rdata' = ram_read_data'
        BY <2>4, <3>2, SMT DEF response_rdata, response_ready
      <4>3. BusRead(a, gpio_input) = ram[q]
        BY <3>2, SMT DEF BusRead, a, q
      <4> QED BY <2>10, <4>1, <4>2, <4>3, Zenon
    <3>3. CASE RegionOf(a) = "UART"
      <4>1. uart_read_data' = IF o = 4 THEN One ELSE Zero
        BY <2>4, <2>7, <3>1, <3>3, Zenon DEF DeviceEdge, UartEdge
      <4>2. response_rdata' = uart_read_data'
        BY <2>4, <3>3, SMT DEF response_rdata, response_ready
      <4>3. BusRead(a, gpio_input) = IF o = 4 THEN One ELSE Zero
        BY <3>3, SMT DEF BusRead, a, o
      <4> QED BY <2>10, <4>1, <4>2, <4>3, Zenon
    <3>4. CASE RegionOf(a) = "TIMER"
      <4>1. timer_read_data' = TimerRegister(o)
        BY <2>4, <2>7, <3>1, <3>4, Zenon DEF DeviceEdge, TimerEdge
      <4>2. response_rdata' = timer_read_data'
        BY <2>4, <3>4, SMT DEF response_rdata, response_ready
      <4>3. BusRead(a, gpio_input) = TimerRegister(o)
        BY <3>4, SMT DEF BusRead, a, o
      <4> QED BY <2>10, <4>1, <4>2, <4>3, Zenon
    <3>5. CASE RegionOf(a) = "GPIO"
      <4>1. gpio_read_data' = GpioRegister(o, gpio_input)
        BY <2>4, <2>7, <3>1, <3>5, Zenon DEF DeviceEdge, GpioEdge
      <4>2. response_rdata' = gpio_read_data'
        BY <2>4, <3>5, SMT DEF response_rdata, response_ready
      <4>3. BusRead(a, gpio_input) = GpioRegister(o, gpio_input)
        BY <3>5, SMT DEF BusRead, a, o
      <4> QED BY <2>10, <4>1, <4>2, <4>3, Zenon
    <3>6. CASE RegionOf(a) = "DEBUG"
      <4>1. debug_read_data' = IF o = 0 THEN debug_value ELSE Zero
        BY <2>4, <2>7, <3>1, <3>6, Zenon DEF DeviceEdge, DebugEdge
      <4>2. response_rdata' = debug_read_data'
        BY <2>4, <3>6, SMT DEF response_rdata, response_ready
      <4>3. BusRead(a, gpio_input) = IF o = 0 THEN debug_value ELSE Zero
        BY <3>6, SMT DEF BusRead, a, o
      <4> QED BY <2>10, <4>1, <4>2, <4>3, Zenon
    <3> QED BY <2>5, <2>12, <3>2, <3>3, <3>4, <3>5, <3>6, Zenon
  <2> QED BY <2>11, <2>12
<1>2. CASE ResetEdge
  BY <1>2, Zenon DEF ResetEdge, BusReset, ResponseIsRead
<1>3. CASE UNCHANGED vars
  BY <1>3, Zenon DEF vars, cpuVars, busVars, memoryVars, timerVars, mmioVars,
     ResponseIsRead, response_ready, pending_fault, pending_region,
     response_rdata, BusRead, RomWord, TimerRegister, GpioRegister
<1> QED BY <1>1, <1>2, <1>3 DEF Next

\* The request that the bus answers in RESPONSE.
LEMMA Answered ==
  ASSUME Handshake, bus_state = "RESPONSE"
  PROVE  /\ bus_valid
         /\ pending = RequestOf(bus_access, bus_addr, bus_wdata)
         /\ response_fault = FaultOf(bus_access, bus_addr)
         /\ pending.access = bus_access /\ pending.addr = bus_addr
<1>1. bus_valid /\ pending = RequestOf(bus_access, bus_addr, bus_wdata)
  BY Zenon DEF Handshake, PendingIsCurrentRequest, CpuRequest
<1>2. pending.access = bus_access /\ pending.addr = bus_addr
  BY <1>1, Zenon DEF RequestOf
<1>3. response_fault = pending_fault
  BY Zenon DEF response_fault, response_ready
<1> QED BY <1>1, <1>2, <1>3, Zenon DEF pending_fault

\* The latches agree with the instruction after every edge of the core.
LEMMA UnderwayStep ==
  ASSUME RefInv, RunEdge
  PROVE  Underway'
<1>1. /\ CpuEdge(response_ready, response_rdata, response_fault)
      /\ image' = image
  BY EdgeLands, Zenon DEF RunEdge, RefInv
<1>2. Underway /\ Handshake /\ ResponseIsRead
  BY Zenon DEF RefInv
<1>3. ASSUME cpu_state' \notin {"DECODE", "EXECUTE", "MEMORY", "WRITEBACK"}
      PROVE  Underway'
  BY <1>3, Zenon DEF Underway
<1>4. ASSUME HasFetched, pc' = pc,
             instruction_register' = instruction_register
      PROVE  HasFetched'
  BY <1>1, <1>4, Zenon DEF HasFetched, RomWord, IR
<1>5. ASSUME HasDecoded,
             UNCHANGED <<pc, instruction_register, registers,
                         operand_lhs_latch, operand_rhs_latch,
                         store_data_latch>>
      PROVE  HasDecoded'
  <2>1. HasFetched'
    BY <1>4, <1>5, Zenon DEF HasDecoded
  <2> QED BY <1>5, <2>1, Zenon DEF HasDecoded, OperandRhs, RegisterData, IR
<1>6. ASSUME HasExecuted,
             UNCHANGED <<pc, instruction_register, registers,
                         operand_lhs_latch, operand_rhs_latch,
                         store_data_latch, alu_result_latch>>
      PROVE  HasExecuted'
  <2>1. HasDecoded'
    BY <1>5, <1>6, Zenon DEF HasExecuted
  <2> QED BY <1>6, <2>1, Zenon DEF HasExecuted, IR
<1>7. CASE CpuWait
  <2>1. cpu_state' = cpu_state /\ cpu_state \in {"FETCH", "MEMORY"}
    BY <1>7, Zenon DEF CpuWait, bus_valid
  <2>2. CASE cpu_state = "FETCH"
    BY <1>3, <2>1, <2>2, Zenon
  <2>3. CASE cpu_state = "MEMORY"
    <3>1. HasExecuted'
      BY <1>2, <1>6, <1>7, <2>3, Zenon DEF Underway, CpuWait, latches
    <3> QED BY <1>2, <1>7, <2>1, <2>3, <3>1, Zenon
            DEF Underway, CpuWait, latches, IR, PcPlus4
  <2> QED BY <2>1, <2>2, <2>3, Zenon
<1>8. CASE response_ready /\ FetchComplete(response_rdata, response_fault)
  <2>1. /\ cpu_state = "FETCH" /\ bus_state = "RESPONSE"
        /\ response_fault = "NONE" /\ cpu_state' = "DECODE" /\ pc' = pc
        /\ instruction_register' = response_rdata
    BY <1>8, Zenon DEF FetchComplete, response_ready
  <2>2. bus_access = "FETCH" /\ bus_addr = pc
    BY <2>1, Zenon DEF bus_access, bus_addr
  <2>3. FaultOf("FETCH", pc) = "NONE" /\ pending.access = "FETCH"
        /\ pending.addr = pc /\ pending_fault = "NONE"
    BY <1>2, <2>1, <2>2, Answered, Zenon DEF pending_fault
  <2>4. PICK gpio_input \in GpioInputs :
               response_rdata = BusRead(pc, gpio_input)
    BY <1>2, <2>1, <2>3, Zenon DEF ResponseIsRead
  <2>5. RegionOf(pc) = "ROM"
    BY <2>3, RegionWhenNoFault, Zenon
  <2>6. BusRead(pc, gpio_input) = RomWord(pc.lo \div 4)
    BY <2>5, SMT DEF BusRead
  <2>7. HasFetched'
    BY <1>1, <2>1, <2>3, <2>4, <2>6, Zenon DEF HasFetched, IR, RomWord
  <2> QED BY <2>1, <2>7, Zenon DEF Underway
<1>9. CASE FetchFaulted(response_fault) \/ DecodeReject
           \/ MemoryFaulted(response_fault)
  BY <1>3, <1>9, Zenon DEF FetchFaulted, DecodeReject, MemoryFaulted,
                           enter_fault
<1>10. CASE DecodeOperands
  <2>1. HasFetched'
    BY <1>2, <1>4, <1>10, Zenon DEF Underway, DecodeOperands
  <2>2. HasDecoded'
    BY <1>10, <2>1, Zenon DEF HasDecoded, DecodeOperands, OperandRhs,
                              RegisterData, IR
  <2> QED BY <1>10, <2>2, Zenon DEF Underway, DecodeOperands, PcPlus4
<1>11. CASE ExecuteBranch \/ ExecuteJump \/ ExecuteJumpRegister
  BY <1>3, <1>11, Zenon DEF ExecuteBranch, ExecuteJump, ExecuteJumpRegister,
                            retire_jump
<1>12. ASSUME ExecuteAlu, pc' = pc PROVE HasExecuted'
  <2>1. HasDecoded'
    BY <1>2, <1>5, <1>12, Zenon DEF Underway, ExecuteAlu
  <2> QED BY <1>12, <2>1, Zenon DEF HasExecuted, ExecuteAlu, IR
<1>13. CASE ExecuteJumpAndLink
  <2>1. HasExecuted'
    BY <1>12, <1>13, Zenon DEF ExecuteJumpAndLink
  <2>2. ReadyToWrite'
    BY <1>13, Zenon DEF ReadyToWrite, ExecuteJumpAndLink, ExecuteAlu, IR,
                        JumpTarget, PcPlus4
  <2> QED BY <1>13, <2>1, <2>2, Zenon DEF Underway, ExecuteJumpAndLink
<1>14. CASE ExecuteSequential
  <2>1. HasExecuted' /\ next_pc_latch' = PcPlus4' /\ IR' = IR
    BY <1>2, <1>12, <1>14, Zenon DEF ExecuteSequential, ExecuteAlu, Underway,
                                     PcPlus4, IR
  <2>2. CASE ControlMemoryOperation(IR) # "NONE"
    BY <1>14, <2>1, <2>2, Zenon DEF Underway, ExecuteSequential
  <2>3. CASE ControlMemoryOperation(IR) = "NONE"
    <3>1. ReadyToWrite'
      BY <1>14, <2>1, <2>3, Zenon DEF ReadyToWrite, ExecuteSequential
    <3> QED BY <1>14, <2>1, <2>3, <3>1, Zenon DEF Underway, ExecuteSequential
  <2> QED BY <2>2, <2>3
<1>15. CASE response_ready /\ MemoryLoad(response_rdata, response_fault)
  <2>1. /\ cpu_state = "MEMORY" /\ bus_state = "RESPONSE"
        /\ response_fault = "NONE" /\ ControlMemoryOperation(IR) = "LOAD"
        /\ cpu_state' = "WRITEBACK" /\ memory_data_latch' = response_rdata
        /\ UNCHANGED <<pc, instruction_register, operand_lhs_latch,
                       operand_rhs_latch, alu_result_latch, store_data_latch,
                       next_pc_latch, registers>>
    BY <1>15, Zenon DEF MemoryLoad, response_ready
  <2>2. bus_access = "READ" /\ bus_addr = alu_result_latch
    BY <2>1, SMT DEF bus_access, bus_addr
  <2>3. FaultOf("READ", alu_result_latch) = "NONE"
        /\ pending.access = "READ" /\ pending.addr = alu_result_latch
        /\ pending_fault = "NONE"
    BY <1>2, <2>1, <2>2, Answered, Zenon DEF pending_fault
  <2>4. PICK gpio_input \in GpioInputs :
               response_rdata = BusRead(alu_result_latch, gpio_input)
    BY <1>2, <2>1, <2>3, Zenon DEF ResponseIsRead
  <2>5. ~retire.valid
    BY <1>2, <2>1, Zenon DEF Handshake, NoTickDuringAccess
  <2>6. UNCHANGED <<image, ram, timer_counter, timer_compare, timer_enabled,
                    gpio_output, gpio_direction, debug_value>>
    BY <2>1, <2>5, QuietEdge, Zenon
  <2>7. BusRead(alu_result_latch, gpio_input)' =
          BusRead(alu_result_latch, gpio_input)
    BY <2>1, <2>6, Zenon
       DEF BusRead, RomWord, TimerRegister, GpioRegister, RegionOf,
           WindowOf, Misaligned
  <2>8. HasLoaded'
    BY <2>1, <2>3, <2>4, <2>7, Zenon DEF HasLoaded, FaultOf, RegionOf,
                                         WindowOf, Misaligned
  <2>9. HasExecuted' /\ next_pc_latch' = PcPlus4'
    BY <1>2, <1>6, <2>1, Zenon DEF Underway, PcPlus4
  <2>10. ControlFlow(IR) = "SEQUENTIAL"
    <3>1. Opcode(IR) = 14
      BY <2>1, SMT DEF ControlMemoryOperation, OP_LW, OP_SW
    <3> QED BY <3>1, SMT DEF ControlFlow, BranchOps, OP_BEQ, OP_BGE, OP_J,
                             OP_JAL, OP_JR
  <2>11. ReadyToWrite'
    BY <2>1, <2>8, <2>9, <2>10, Zenon DEF ReadyToWrite, IR
  <2> QED BY <2>1, <2>9, <2>11, Zenon DEF Underway
<1>16. CASE MemoryStore(response_fault) \/ Writeback \/ CpuStopped
  BY <1>3, <1>16, Zenon DEF MemoryStore, Writeback, CpuStopped
<1> QED BY <1>1, <1>7, <1>8, <1>9, <1>10, <1>11, <1>13, <1>14, <1>15, <1>16,
           Zenon DEF CpuEdge

\* A retirement ends the instruction.
LEMMA TickStep ==
  ASSUME RefInv, [Next]_vars
  PROVE  TickAfterRetirement'
<1>1. retire \in RetireRecord
  BY Zenon DEF RefInv, TypeOK, CpuTypeOK
<1>2. RetirePulsesCleared.valid = FALSE
  BY <1>1, RetireCleared, Zenon
<1>3. CASE RunEdge
  <2>1. CpuEdge(response_ready, response_rdata, response_fault)
    BY <1>3, Zenon DEF RunEdge
  <2>2. retire' = RetirePulsesCleared \/ cpu_state' \in {"FETCH", "HALTED"}
    BY <2>1, Zenon DEF CpuEdge, CpuWait, FetchComplete, FetchFaulted,
       DecodeReject, DecodeOperands, ExecuteBranch, ExecuteJump,
       ExecuteJumpAndLink, ExecuteJumpRegister, ExecuteSequential,
       MemoryFaulted, MemoryLoad, MemoryStore, Writeback, CpuStopped,
       retire_jump, enter_fault
  <2> QED BY <1>2, <2>2, Zenon DEF TickAfterRetirement
<1>4. CASE ResetEdge
  BY <1>4, Zenon DEF ResetEdge, CpuReset, TickAfterRetirement
<1>5. CASE UNCHANGED vars
  BY <1>5, Zenon DEF vars, cpuVars, RefInv, TickAfterRetirement
<1> QED BY <1>3, <1>4, <1>5 DEF Next

\* The strengthened invariant.
LEMMA RefStep ==
  ASSUME RefInv, [Next]_vars
  PROVE  RefInv'
<1>1. TypeOK' /\ Handshake' /\ ResponseIsRead' /\ TickAfterRetirement'
  BY TypeStep, HandshakeStep, ReadStep, TickStep, Zenon DEF RefInv
<1>2. image' = image
  <2>1. CASE RunEdge
    BY <2>1, EdgeLands, Zenon DEF RefInv
  <2>2. CASE ResetEdge
    BY <2>2, Zenon DEF ResetEdge, BusReset, MemoryEdge
  <2>3. CASE UNCHANGED vars
    BY <2>3, Zenon DEF vars, busVars, memoryVars
  <2> QED BY <2>1, <2>2, <2>3 DEF Next
<1>3. Underway'
  <2>1. CASE RunEdge
    BY <2>1, UnderwayStep, Zenon
  <2>2. CASE ResetEdge
    BY <2>2, Zenon DEF ResetEdge, CpuReset, Underway
  <2>3. CASE UNCHANGED vars
    BY <2>3, Zenon DEF RefInv, vars, cpuVars, latches, busVars, memoryVars,
       timerVars, mmioVars, Underway, HasFetched, HasDecoded, HasExecuted,
       HasLoaded, ReadyToWrite, RomWord, IR, OperandRhs, RegisterData,
       BusRead, TimerRegister, GpioRegister, PcPlus4, JumpTarget
  <2> QED BY <2>1, <2>2, <2>3 DEF Next
<1> QED BY <1>1, <1>2, <1>3, Zenon DEF RefInv

\* It holds from the start.
LEMMA RefInit == PowerUp => RefInv
<1> SUFFICES ASSUME PowerUp PROVE RefInv
  OBVIOUS
<1>1. TypeOK
  BY TypeInit, Zenon
<1>2. Handshake
  BY Zenon DEF PowerUp, CpuInit, BusInit, NoRetirement, Handshake,
               PendingIsCurrentRequest, NoTickDuringAccess
<1>3. image \in Images /\ Underway /\ ResponseIsRead /\ TickAfterRetirement
  BY Zenon DEF PowerUp, CpuInit, BusInit, Underway, ResponseIsRead,
               TickAfterRetirement
<1> QED BY <1>1, <1>2, <1>3, Zenon DEF RefInv

------------------------------------------------------------------------------
(***************************************************************************)
(* The steps of the refinement.                                            *)
(***************************************************************************)

\* The devices of the mapped state stay as they are, but for a tick.
DevicesKept ==
  /\ image' = image /\ AbsRam' = AbsRam /\ AbsGpio' = AbsGpio
  /\ AbsDebugValue' = AbsDebugValue /\ AbsUartLog' = AbsUartLog

\* An edge that captures no store, performs none and ends none: the mapped
\* devices are kept, and the timer ticks exactly when an instruction retires.
LEMMA EdgeKeeps ==
  ASSUME RefInv, RefInv', RunEdge, ~StoreCommitted, ~StoreCommitted'
  PROVE  /\ DevicesKept
         /\ (retire.valid)' => AbsTimer' = Golden!RetireTick(AbsTimer)
         /\ ~(retire.valid)' => AbsTimer' = AbsTimer
<1>1. TypeOK /\ Handshake /\ TypeOK'
  BY Zenon DEF RefInv
<1>2. /\ image' = image /\ AbsRam = RamImage(ram') /\ AbsTimer = TimerNow'
      /\ AbsGpio = GpioNow' /\ AbsDebugValue = debug_value'
      /\ AbsUartLog = UartNow'
  BY <1>1, EdgeLands, Zenon
<1>3. \A region : ~write_enable(region)'
  BY Zenon DEF StoreCommitted, write_enable, Performs
<1>4. AtRest'
  BY <1>1, <1>3, RestingNext, Zenon
<1>5. /\ AbsRam' = RamImage(ram') /\ AbsGpio' = GpioNow'
      /\ AbsDebugValue' = debug_value' /\ AbsUartLog' = UartNow'
      /\ AbsTimer' = (IF (retire.valid)' THEN Golden!RetireTick(TimerNow')
                                         ELSE TimerNow')
  <2>1. AbsTimer' = (IF (retire.valid)' \/ StoreCommitted'
                       THEN Golden!RetireTick(TimerNow') ELSE TimerNow')
    BY <1>4, Zenon DEF AtRest, Golden!RetireTick
  <2>2. AbsRam' = RamImage(ram')
    BY <1>4, Zenon DEF AtRest, RamImage
  <2> QED BY <1>4, <2>1, <2>2, Zenon DEF AtRest
<1> QED BY <1>2, <1>5, Zenon DEF DevicesKept

\* An edge at which a committed store goes through the bus changes nothing.
LEMMA StoreKeeps ==
  ASSUME RefInv, RefInv', RunEdge, StoreCommitted,
         (retire.valid)' \/ StoreCommitted', bus_state' # "MEMORY"
  PROVE  DevicesKept /\ AbsTimer' = AbsTimer
<1>1. TypeOK /\ Handshake /\ TypeOK'
  BY Zenon DEF RefInv
<1>2. /\ image' = image /\ AbsRam = RamImage(ram')
      /\ AbsTimer = Golden!RetireTick(TimerNow')
      /\ AbsGpio = GpioNow' /\ AbsDebugValue = debug_value'
      /\ AbsUartLog = UartNow'
  BY <1>1, EdgeLands, Zenon
<1>3. \A region : ~write_enable(region)'
  BY Zenon DEF write_enable, Performs
<1>4. AtRest'
  BY <1>1, <1>3, RestingNext, Zenon
<1>5. /\ AbsRam' = RamImage(ram') /\ AbsGpio' = GpioNow'
      /\ AbsDebugValue' = debug_value' /\ AbsUartLog' = UartNow'
      /\ AbsTimer' = Golden!RetireTick(TimerNow')
  <2>1. AbsTimer' = (IF (retire.valid)' \/ StoreCommitted'
                       THEN Golden!RetireTick(TimerNow') ELSE TimerNow')
    BY <1>4, Zenon DEF AtRest, Golden!RetireTick
  <2>2. AbsRam' = RamImage(ram')
    BY <1>4, Zenon DEF AtRest, RamImage
  <2> QED BY <1>4, <2>1, <2>2, Zenon DEF AtRest
<1> QED BY <1>2, <1>5, Zenon DEF DevicesKept

\* An edge outside any store that neither retires nor faults.
LEMMA StutterStep ==
  ASSUME RefInv, RefInv', RunEdge, ~StoreCommitted, ~StoreCommitted',
         UNCHANGED <<pc, registers, fault>>, ~(retire.valid)',
         AbsStatus' = AbsStatus
  PROVE  UNCHANGED Golden!vars
<1>1. DevicesKept /\ AbsTimer' = AbsTimer
  BY EdgeKeeps, Zenon
<1>2. AbsPc' = AbsPc
  BY Zenon DEF AbsPc
<1>3. AbsRegisters' = AbsRegisters
  BY Zenon DEF AbsRegisters, RegisterData
<1>4. AbsFaultInfo' = AbsFaultInfo
  BY Zenon DEF AbsFaultInfo
<1> QED BY <1>1, <1>2, <1>3, <1>4, Zenon DEF DevicesKept, Golden!vars

\* The enter_fault tasks of the two machines.
LEMMA FaultStep ==
  ASSUME RefInv, RefInv', RunEdge, ~StoreCommitted, ~StoreCommitted',
         NEW e, NEW ins, NEW valid, NEW address, NEW code,
         enter_fault(e, ins, valid, address), UNCHANGED <<pc, registers>>,
         code = IF /\ e = "NON_EXECUTABLE_INSTRUCTION_FETCH"
                   /\ InWindow(pc, STM32_BASE, STM32_LAST)
                  THEN "UNMAPPED_INSTRUCTION_FETCH" ELSE e
  PROVE  Golden!enter_fault(code, ins, valid, address)
<1>1. ~(retire.valid)'
  <2>1. retire \in RetireRecord
    BY Zenon DEF RefInv, TypeOK, CpuTypeOK
  <2> QED BY <2>1, RetireCleared, Zenon DEF enter_fault
<1>2. DevicesKept /\ AbsTimer' = AbsTimer
  BY <1>1, EdgeKeeps, Zenon
<1>3. AbsPc' = AbsPc /\ AbsPc = pc
  BY Zenon DEF AbsPc
<1>4. AbsRegisters' = AbsRegisters
  BY Zenon DEF AbsRegisters, RegisterData
<1>5. AbsStatus' = "FAULT"
  BY Zenon DEF AbsStatus, enter_fault
<1>6. /\ (fault.code)' = e /\ (fault.pc)' = pc
      /\ (fault.instruction)' = ins /\ (fault.address_valid)' = valid
      /\ (fault.address)' = address
  BY Zenon DEF enter_fault
<1>7. AbsFaultInfo' =
        [code |-> code, pc |-> pc, instruction |-> ins,
         has_address |-> valid, data_address |-> address]
  BY <1>6, Zenon DEF AbsFaultInfo
<1> QED BY <1>2, <1>3, <1>4, <1>5, <1>7, Zenon
        DEF DevicesKept, Golden!enter_fault

\* The retirement of an instruction that writes neither register nor memory.
LEMMA RetireStep ==
  ASSUME RefInv, RefInv', RunEdge, ~StoreCommitted, ~StoreCommitted',
         NEW next, retire_jump(next), UNCHANGED <<registers, fault>>,
         cpu_state \notin {"HALTED", "FAULT"}
  PROVE  Golden!retire_to(next)
<1>1. (retire.valid)' /\ pc' = next /\ cpu_state' = "FETCH"
  BY Zenon DEF retire_jump, record_retirement
<1>2. DevicesKept /\ AbsTimer' = Golden!RetireTick(AbsTimer)
  BY <1>1, EdgeKeeps, Zenon
<1>3. AbsPc' = next
  BY <1>1, Zenon DEF AbsPc
<1>4. AbsRegisters' = AbsRegisters
  BY Zenon DEF AbsRegisters, RegisterData
<1>5. AbsFaultInfo' = AbsFaultInfo
  BY Zenon DEF AbsFaultInfo
<1>6. AbsStatus' = AbsStatus
  BY <1>1, Zenon DEF AbsStatus
<1> QED BY <1>2, <1>3, <1>4, <1>5, <1>6, Zenon
        DEF DevicesKept, Golden!retire_to

\* The golden model decodes what the RTL executes.
LEMMA GoldenDecodes ==
  ASSUME RefInv, HasFetched, ~StoreCommitted,
         cpu_state \notin {"HALTED", "FAULT"}
  PROVE  /\ Golden!Fetches
         /\ DecodeValid(IR) => Golden!Decodes
<1>1. TypeOK /\ image \in Images
  BY Zenon DEF RefInv
<1>2. AbsStatus = "RUNNING"
  BY Zenon DEF AbsStatus
<1>3. Golden!fetch32_fault(AbsPc) = "NONE"
  BY <1>1, GoldenInstruction, Zenon
<1>4. DecodeValid(IR) => Golden!DecodeError(Golden!instruction) = "None"
  BY <1>1, GoldenControl, Zenon
<1> QED BY <1>2, <1>3, <1>4, Zenon DEF Golden!Fetches, Golden!Decodes

\* DECODE, when the decoder refuses the word.
LEMMA RejectStep ==
  ASSUME RefInv, RefInv', RunEdge, ~StoreCommitted, ~StoreCommitted',
         DecodeReject
  PROVE  Golden!DecodeFault
<1>1. /\ TypeOK /\ image \in Images /\ HasFetched
      /\ cpu_state \notin {"HALTED", "FAULT"}
  BY Zenon DEF RefInv, Underway, DecodeReject
<1>2. IR \in Word
  BY <1>1, CpuWires, Zenon DEF TypeOK
<1>3. ~DecodeValid(IR)
  BY Zenon DEF DecodeReject, DecodeValid, ControlSupported
<1>4. RtlError(IR) = IF DecodeMalformed(IR) THEN "MalformedEncoding"
                                            ELSE "IllegalOpcode"
  BY <1>3, Zenon DEF RtlError
<1>5. decode_fault = IF DecodeMalformed(IR) THEN "MALFORMED_INSTRUCTION"
                                            ELSE "ILLEGAL_INSTRUCTION"
  BY <1>3, Zenon DEF decode_fault
<1>6. Golden!instruction = IR /\ Golden!DecodeError(IR) = RtlError(IR)
  BY <1>1, <1>2, GoldenInstruction, SameDecodeError, GoldenDecoder, Zenon
<1>7. /\ Golden!DecodeError(IR) # "None"
      /\ decode_fault = IF Golden!DecodeError(IR) = "IllegalOpcode"
                          THEN "ILLEGAL_INSTRUCTION"
                          ELSE "MALFORMED_INSTRUCTION"
      /\ decode_fault # "NON_EXECUTABLE_INSTRUCTION_FETCH"
  BY <1>4, <1>5, <1>6, SMT
<1>8. enter_fault(decode_fault, IR, FALSE, Zero)
      /\ UNCHANGED <<pc, registers>>
  BY Zenon DEF DecodeReject
<1>9. Golden!enter_fault(decode_fault, IR, FALSE, Zero)
  BY <1>7, <1>8, FaultStep, Zenon
<1>10. Golden!Fetches
  BY <1>1, GoldenDecodes, Zenon
<1> QED BY <1>6, <1>7, <1>9, <1>10, GoldenWords, Zenon
        DEF Golden!DecodeFault

\* EXECUTE, for the instructions that end there.
LEMMA ExecuteSteps ==
  ASSUME RefInv, RefInv', RunEdge, ~StoreCommitted, ~StoreCommitted'
  PROVE  /\ ExecuteBranch => Golden!Branch
         /\ ExecuteJump => Golden!Jump
         /\ ExecuteJumpRegister => Golden!JumpRegister
<1>1. TypeOK /\ image \in Images
  BY Zenon DEF RefInv
<1>2. ASSUME ExecuteAlu
      PROVE  /\ cpu_state \notin {"HALTED", "FAULT"}
             /\ HasFetched /\ DecodeValid(IR) /\ Golden!Decodes
             /\ operand_lhs_latch = RegisterData(DecodedRs1(IR))
             /\ operand_rhs_latch = OperandRhs
             /\ UNCHANGED <<registers, fault>>
  <2>1. cpu_state = "EXECUTE"
    BY <1>2, Zenon DEF ExecuteAlu
  <2>2. HasDecoded
    BY <2>1, Zenon DEF RefInv, Underway
  <2>3. HasFetched /\ DecodeValid(IR)
        /\ operand_lhs_latch = RegisterData(DecodedRs1(IR))
        /\ operand_rhs_latch = OperandRhs
    BY <2>2, Zenon DEF HasDecoded
  <2>4. Golden!Decodes
    BY <2>1, <2>3, GoldenDecodes, Zenon
  <2> QED BY <1>2, <2>1, <2>3, <2>4, Zenon DEF ExecuteAlu
<1>3. ASSUME ExecuteBranch PROVE Golden!Branch
  <2>1. ExecuteAlu /\ ControlFlow(IR) = "CONDITIONAL_BRANCH"
    BY <1>3, Zenon DEF ExecuteBranch
  <2> DEFINE lhs  == RegisterData(DecodedRs1(IR))
             next == IF BranchTaken(IR, lhs, OperandRhs)
                       THEN BranchTarget ELSE PcPlus4
  <2>2. retire_jump(next)
    BY <1>2, <1>3, <2>1, Zenon DEF ExecuteBranch
  <2>3. Golden!retire_to(next)
    <3> HIDE DEF next
    <3> QED BY <1>2, <2>1, <2>2, RetireStep, Zenon
  <2>4. Golden!control.control_flow = "ConditionalBranch"
    BY <1>1, <1>2, <2>1, GoldenControl, Zenon
  <2>5. Golden!operand_lhs = lhs /\ Golden!operand_rhs = OperandRhs
    BY <1>1, <1>2, <2>1, GoldenOperands, Zenon
  <2>6. /\ Golden!branch_taken(Golden!control.branch_predicate, lhs,
                               OperandRhs)
             <=> BranchTaken(IR, lhs, OperandRhs)
        /\ Golden!Add(Golden!pc_plus_4,
             Golden!branch_displacement(Golden!decoded.imm16)) = BranchTarget
        /\ Golden!pc_plus_4 = PcPlus4
    BY <1>1, <1>2, <2>1, GoldenOperands, GoldenInstruction, Zenon
  <2> DEFINE target == Golden!Add(Golden!pc_plus_4,
                         Golden!branch_displacement(Golden!decoded.imm16))
             taken == Golden!branch_taken(Golden!control.branch_predicate,
                        Golden!operand_lhs, Golden!operand_rhs)
  <2>7. next = IF taken THEN target ELSE Golden!pc_plus_4
    BY <2>5, <2>6, Zenon
  <2> HIDE DEF next, lhs
  <2>8. Golden!retire_to(IF taken THEN target ELSE Golden!pc_plus_4)
    BY <2>3, <2>7, Zenon
  <2> QED BY <1>2, <2>1, <2>4, <2>8, Zenon DEF Golden!Branch
<1>4. ASSUME ExecuteJump PROVE Golden!Jump
  <2>1. /\ ExecuteAlu /\ ControlFlow(IR) = "RELATIVE_JUMP"
        /\ ~ControlRegWrite(IR) /\ retire_jump(JumpTarget)
    BY <1>4, Zenon DEF ExecuteJump
  <2>2. Golden!retire_to(JumpTarget)
    BY <1>2, <2>1, RetireStep, Zenon
  <2>3. Golden!control.control_flow = "RelativeJump"
        /\ ~Golden!control.reg_write
    BY <1>1, <1>2, <2>1, GoldenControl, Zenon
  <2>4. Golden!Add(Golden!pc_plus_4,
          Golden!jump_displacement(Golden!decoded.imm26)) = JumpTarget
    BY <1>1, <1>2, <2>1, GoldenOperands, Zenon
  <2> QED BY <1>2, <2>1, <2>2, <2>3, <2>4, Zenon DEF Golden!Jump
<1>5. ASSUME ExecuteJumpRegister PROVE Golden!JumpRegister
  <2>1. /\ ExecuteAlu /\ ControlFlow(IR) = "REGISTER_JUMP"
        /\ retire_jump(operand_lhs_latch)
    BY <1>5, Zenon DEF ExecuteJumpRegister
  <2>2. Golden!retire_to(operand_lhs_latch)
    BY <1>2, <2>1, RetireStep, Zenon
  <2>3. Golden!control.control_flow = "RegisterJump"
    BY <1>1, <1>2, <2>1, GoldenControl, Zenon
  <2>4. Golden!operand_lhs = operand_lhs_latch
    <3>1. ControlFlow(IR) # "RELATIVE_JUMP"
      BY <2>1, Zenon
    <3> QED BY <1>1, <1>2, <2>1, <3>1, GoldenOperands, Zenon
  <2> QED BY <1>2, <2>1, <2>2, <2>3, <2>4, Zenon DEF Golden!JumpRegister
<1> QED BY <1>3, <1>4, <1>5, Zenon

\* The register file after a write-back.
LEMMA RegistersWritten ==
  ASSUME TypeOK, NEW r \in Register, NEW value,
         registers' = IF r # 0 THEN [registers EXCEPT ![r] = value]
                               ELSE registers
  PROVE  AbsRegisters' = Golden!WriteRegister(r, value)
<1>1. registers \in [1 .. 31 -> Word]
  BY Zenon DEF TypeOK, CpuTypeOK
<1>2. CASE r = 0
  <2>1. registers' = registers
    BY <1>2, Zenon
  <2>2. AbsRegisters' = AbsRegisters
    BY <2>1, Zenon DEF AbsRegisters, RegisterData
  <2> QED BY <1>2, <2>2, Zenon DEF Golden!WriteRegister
<1>3. CASE r # 0
  <2>1. registers' = [registers EXCEPT ![r] = value]
    BY <1>3, Zenon
  <2>2. r \in 1 .. 31
    BY <1>3, SMT DEF Register
  <2>3. ASSUME NEW n \in Register
        PROVE  RegisterData(n)' = IF n = r THEN value ELSE RegisterData(n)
    <3>1. n = 0 \/ n \in 1 .. 31
      BY SMT DEF Register
    <3>2. CASE n = 0
      BY <1>3, <3>2, Zenon DEF RegisterData
    <3>3. CASE n \in 1 .. 31 /\ n # 0
      BY <1>1, <2>1, <2>2, <3>3, Zenon DEF RegisterData
    <3> QED BY <3>1, <3>2, <3>3
  <2>4. AbsRegisters' = [n \in Register |-> IF n = r THEN value
                                                     ELSE RegisterData(n)]
    BY <2>3, Zenon DEF AbsRegisters
  <2>5. Golden!WriteRegister(r, value) = [AbsRegisters EXCEPT ![r] = value]
    BY <1>3, Zenon DEF Golden!WriteRegister
  <2>6. [AbsRegisters EXCEPT ![r] = value] =
          [n \in Register |-> IF n = r THEN value ELSE RegisterData(n)]
    BY Zenon DEF AbsRegisters
  <2> QED BY <2>4, <2>5, <2>6, Zenon
<1> QED BY <1>2, <1>3

\* WRITEBACK retires a load, a JAL or a computation.
LEMMA WritebackStep ==
  ASSUME RefInv, RefInv', RunEdge, ~StoreCommitted, ~StoreCommitted',
         Writeback
  PROVE  Golden!Load \/ Golden!JumpAndLink \/ Golden!Compute
<1> DEFINE value == WritebackValue
           flow == ControlFlow(IR)
           memory == ControlMemoryOperation(IR)
<1>1. TypeOK /\ image \in Images
  BY Zenon DEF RefInv
<1>2. cpu_state = "WRITEBACK" /\ HasExecuted /\ ReadyToWrite
  BY Zenon DEF RefInv, Underway, Writeback
<1>3. HasFetched /\ DecodeValid(IR)
      /\ operand_lhs_latch = RegisterData(DecodedRs1(IR))
      /\ operand_rhs_latch = OperandRhs
      /\ alu_result_latch = AluResult(ControlAluOperation(IR),
                                      operand_lhs_latch, operand_rhs_latch)
  BY <1>2, Zenon DEF HasExecuted, HasDecoded
<1>4. Golden!Decodes
  BY <1>2, <1>3, GoldenDecodes, Zenon
<1>5. /\ registers' = IF ControlRegWrite(IR) /\ WritebackDestination(IR) # 0
                        THEN [registers EXCEPT
                                ![WritebackDestination(IR)] = WritebackValue]
                        ELSE registers
      /\ pc' = next_pc_latch /\ (retire.valid)' /\ fault' = fault
      /\ cpu_state' = IF ControlHalt(IR) THEN "HALTED" ELSE "FETCH"
  BY Zenon DEF Writeback, record_retirement
<1>6. IR \in Word /\ WritebackDestination(IR) \in Register
  BY <1>1, CpuWires, FieldsInRegister, Zenon DEF TypeOK
<1>7. Golden!Writeback(value, next_pc_latch)
  <2> DEFINE c == Golden!control
             to == IF c.register_destination = "ReturnAddress" THEN 31
                                                  ELSE Golden!decoded.rd
             writes == ControlRegWrite(IR)
  <2>1. /\ writes => WritebackDestination(IR) = to
        /\ c.reg_write <=> writes
        /\ ControlHalt(IR) <=> c.halt
    BY <1>1, <1>3, GoldenControl, Zenon
  <2>2. AbsRegisters' = IF c.reg_write THEN Golden!WriteRegister(to, value)
                                       ELSE AbsRegisters
    <3>1. CASE writes
      <4>1. registers' = IF WritebackDestination(IR) # 0
                           THEN [registers EXCEPT
                                   ![WritebackDestination(IR)] = value]
                           ELSE registers
        BY <1>5, <3>1, Zenon
      <4> HIDE DEF value
      <4>2. AbsRegisters' = Golden!WriteRegister(WritebackDestination(IR),
                                                 value)
        BY <1>1, <1>6, <4>1, RegistersWritten, Zenon
      <4> QED BY <2>1, <3>1, <4>2, Zenon
    <3>2. CASE ~writes
      <4>1. registers' = registers
        BY <1>5, <3>2, Zenon
      <4> QED BY <2>1, <3>2, <4>1, Zenon DEF AbsRegisters, RegisterData
    <3> QED BY <3>1, <3>2
  <2>3. AbsPc' = next_pc_latch
    BY <1>5, Zenon DEF AbsPc
  <2>4. DevicesKept /\ AbsTimer' = Golden!RetireTick(AbsTimer)
    BY <1>5, EdgeKeeps, Zenon
  <2>5. AbsStatus' = IF c.halt THEN "HALTED" ELSE "RUNNING"
    BY <1>5, <2>1, Zenon DEF AbsStatus
  <2>6. AbsFaultInfo' = AbsFaultInfo
    BY <1>5, Zenon DEF AbsFaultInfo
  <2> HIDE DEF value
  <2> QED BY <2>2, <2>3, <2>4, <2>5, <2>6, Zenon
          DEF DevicesKept, Golden!Writeback
<1>8. Golden!pc_plus_4 = PcPlus4
  BY <1>1, <1>3, GoldenInstruction, Zenon
<1>9. flow = "SEQUENTIAL" => Golden!alu_result = alu_result_latch
  BY <1>1, <1>3, GoldenOperands, Zenon
<1>10. /\ ControlWritebackSource(IR) =
            IF memory = "LOAD" THEN "MEMORY"
            ELSE IF flow = "RELATIVE_JUMP" /\ ControlRegWrite(IR)
                   THEN "PC_PLUS_4" ELSE "ALU"
       /\ memory \in {"LOAD", "STORE", "NONE"}
       /\ memory # "NONE" => flow = "SEQUENTIAL"
  BY <1>1, <1>3, GoldenControl, Zenon
<1>11. CASE flow = "SEQUENTIAL" /\ memory = "LOAD"
  <2>1. HasLoaded /\ next_pc_latch = PcPlus4
    BY <1>2, <1>11, Zenon DEF ReadyToWrite
  <2>2. PICK input \in GpioInputs :
               memory_data_latch = BusRead(alu_result_latch, input)
    BY <2>1, Zenon DEF HasLoaded
  <2>3. alu_result_latch \in Word /\ FaultOf("READ", alu_result_latch) = "NONE"
    BY <1>1, <2>1, Zenon DEF HasLoaded, TypeOK, CpuTypeOK
  <2>4. AtRest /\ ~retire.valid
    <3>1. \A region : ~write_enable(region)
      BY Zenon DEF StoreCommitted, write_enable, Performs
    <3>2. ~retire.valid
      BY <1>2, Zenon DEF RefInv, TickAfterRetirement
    <3> QED BY <1>1, <3>1, <3>2, RestingState, Zenon
  <2>5. Golden!read32(alu_result_latch, input) = memory_data_latch
    BY <1>1, <2>2, <2>3, <2>4, ReadAgrees, Zenon
  <2>6. value = memory_data_latch
    BY <1>10, <1>11, Zenon DEF WritebackValue
  <2>7. Golden!alu_result = alu_result_latch
    BY <1>9, <1>11, Zenon
  <2>8. Golden!read32_fault(Golden!alu_result) = "NONE"
    BY <2>3, <2>7, FaultsAgree, Zenon
  <2>9. Golden!control.memory_operation = "Load"
    BY <1>1, <1>3, <1>11, GoldenControl, Zenon
  <2>10. Golden!Writeback(Golden!read32(Golden!alu_result, input),
                          Golden!pc_plus_4)
    BY <1>7, <1>8, <2>1, <2>5, <2>6, <2>7, Zenon
  <2> QED BY <1>4, <2>8, <2>9, <2>10, Zenon DEF Golden!Load
<1>12. CASE flow = "RELATIVE_JUMP"
  <2>1. ControlRegWrite(IR) /\ next_pc_latch = JumpTarget
    BY <1>2, <1>12, Zenon DEF ReadyToWrite
  <2>2. value = PcPlus4
    <3>1. ControlWritebackSource(IR) = "PC_PLUS_4"
      BY <1>10, <1>12, <2>1, SMT
    <3> QED BY <3>1, Zenon DEF WritebackValue
  <2>3. Golden!control.control_flow = "RelativeJump"
        /\ Golden!control.reg_write
    BY <1>1, <1>3, <1>12, <2>1, GoldenControl, Zenon
  <2>4. Golden!Add(Golden!pc_plus_4,
          Golden!jump_displacement(Golden!decoded.imm26)) = JumpTarget
    BY <1>1, <1>3, <1>12, GoldenOperands, Zenon
  <2>5. Golden!Writeback(Golden!pc_plus_4,
          Golden!Add(Golden!pc_plus_4,
            Golden!jump_displacement(Golden!decoded.imm26)))
    BY <1>7, <1>8, <2>1, <2>2, <2>4, Zenon
  <2> QED BY <1>4, <2>3, <2>5, Zenon DEF Golden!JumpAndLink
<1>13. CASE flow = "SEQUENTIAL" /\ memory = "NONE"
  <2>1. next_pc_latch = PcPlus4
    BY <1>2, <1>13, Zenon DEF ReadyToWrite
  <2>2. value = alu_result_latch
    <3>1. ControlWritebackSource(IR) = "ALU"
      BY <1>10, <1>13, SMT
    <3> QED BY <3>1, Zenon DEF WritebackValue
  <2>3. Golden!control.control_flow = "Sequential"
        /\ Golden!control.memory_operation = "None"
    BY <1>1, <1>3, <1>13, GoldenControl, Zenon
  <2>4. Golden!Writeback(Golden!alu_result, Golden!pc_plus_4)
    BY <1>7, <1>8, <1>9, <1>13, <2>1, <2>2, Zenon
  <2> QED BY <1>4, <2>3, <2>4, Zenon DEF Golden!Compute
<1>14. flow = "RELATIVE_JUMP" \/ (flow = "SEQUENTIAL" /\ memory # "STORE")
  BY <1>2, Zenon DEF ReadyToWrite
<1> QED BY <1>10, <1>11, <1>12, <1>13, <1>14, Zenon

\* An edge at which the core asks for nothing.
LEMMA IdleStep ==
  ASSUME RefInv, RefInv', RunEdge, NoRequest(bus_valid)
  PROVE  Golden!Step \/ UNCHANGED Golden!vars
<1>1. ~StoreCommitted /\ ~StoreCommitted' /\ ~bus_valid /\ ~response_ready
  BY Zenon DEF NoRequest, StoreCommitted, response_ready
<1>2. CpuEdge(response_ready, response_rdata, response_fault)
  BY Zenon DEF RunEdge
<1>3. RetirePulsesCleared.valid = FALSE
  BY RetireCleared, Zenon DEF RefInv, TypeOK, CpuTypeOK
<1>4. CASE DecodeReject
  BY <1>1, <1>4, RejectStep, Zenon DEF Golden!Step
<1>5. CASE ExecuteBranch \/ ExecuteJump \/ ExecuteJumpRegister
  BY <1>1, <1>5, ExecuteSteps, Zenon DEF Golden!Step
<1>6. CASE Writeback
  BY <1>1, <1>6, WritebackStep, Zenon DEF Golden!Step
<1>7. CASE DecodeOperands \/ ExecuteJumpAndLink \/ ExecuteSequential
           \/ CpuStopped
  <2>1. UNCHANGED <<pc, registers, fault>> /\ retire' = RetirePulsesCleared
    BY <1>7, Zenon DEF DecodeOperands, ExecuteJumpAndLink,
       ExecuteSequential, ExecuteAlu, CpuStopped
  <2>2. AbsStatus' = AbsStatus
    BY <1>7, Zenon DEF AbsStatus, DecodeOperands, ExecuteJumpAndLink,
       ExecuteSequential, ExecuteAlu, CpuStopped
  <2>3. ~(retire.valid)'
    BY <1>3, <2>1, Zenon
  <2> QED BY <1>1, <2>1, <2>2, <2>3, StutterStep, Zenon
<1> QED BY <1>1, <1>2, <1>4, <1>5, <1>6, <1>7, Zenon DEF CpuEdge, CpuWait

\* What a core that waits leaves alone.
LEMMA WaitKeeps ==
  ASSUME RefInv, CpuWait
  PROVE  /\ UNCHANGED <<pc, registers, fault, next_pc_latch>>
         /\ AbsRegisters' = AbsRegisters /\ AbsStatus' = AbsStatus
         /\ AbsFaultInfo' = AbsFaultInfo /\ ~(retire.valid)'
<1>1. UNCHANGED <<cpu_state, pc, registers, fault, next_pc_latch>>
  BY Zenon DEF CpuWait, latches
<1>2. ~(retire.valid)'
  BY WaitHoldsRequest, Zenon DEF RefInv
<1> QED BY <1>1, <1>2, Zenon DEF AbsRegisters, RegisterData, AbsStatus,
                                 AbsFaultInfo

\* The bus captures a request: a store that cannot fault takes effect.
LEMMA CaptureStep ==
  ASSUME RefInv, RefInv', RunEdge, CaptureRequest(bus_valid, CpuRequest)
  PROVE  Golden!Step \/ UNCHANGED Golden!vars
<1>1. /\ bus_state = "IDLE" /\ bus_valid /\ pending' = CpuRequest
      /\ bus_state' = "MEMORY" /\ ~StoreCommitted
      /\ response_ready = FALSE
  BY Zenon DEF CaptureRequest, StoreCommitted, response_ready
<1>2. CpuWait
  BY <1>1, AskingCoreWaits, Zenon DEF RunEdge
<1>3. /\ UNCHANGED <<pc, registers, fault, next_pc_latch>>
      /\ AbsRegisters' = AbsRegisters /\ AbsStatus' = AbsStatus
      /\ AbsFaultInfo' = AbsFaultInfo /\ ~(retire.valid)'
  BY <1>2, WaitKeeps, Zenon
<1>4. CASE ~StoreCommitted'
  BY <1>1, <1>3, <1>4, StutterStep, Zenon
<1>5. CASE StoreCommitted'
  <2> DEFINE a == alu_result_latch
             v == store_data_latch
  <2>1. pending' = RequestOf(bus_access, bus_addr, bus_wdata)
    BY <1>1, Zenon DEF CpuRequest
  <2>2. bus_access = "WRITE" /\ FaultOf(bus_access, bus_addr) = "NONE"
    <3>1. (pending.access)' = "WRITE" /\ pending_fault' = "NONE"
      BY <1>5, Zenon DEF StoreCommitted
    <3>2. (pending.access)' = bus_access /\ (pending.addr)' = bus_addr
      BY <2>1, Zenon DEF RequestOf
    <3>3. pending_fault' = FaultOf(bus_access, bus_addr)
      BY <3>2, Zenon DEF pending_fault, FaultOf, RegionOf, WindowOf,
                         Misaligned
    <3> QED BY <3>1, <3>2, <3>3, Zenon
  <2>3. cpu_state = "MEMORY" /\ ControlMemoryOperation(IR) = "STORE"
    BY <2>2, SMT DEF bus_access
  <2>4. bus_addr = a /\ bus_wdata = v
    BY <2>3, SMT DEF bus_addr, bus_wdata
  <2>5. TypeOK /\ TypeOK' /\ Handshake /\ image \in Images
        /\ a \in Word /\ v \in Word
    BY Zenon DEF RefInv, TypeOK, CpuTypeOK
  <2>6. FaultOf("WRITE", a) = "NONE" /\ pending' = RequestOf("WRITE", a, v)
    BY <2>1, <2>2, <2>4, Zenon
  <2>7. HasExecuted /\ next_pc_latch = PcPlus4
    BY <2>3, Zenon DEF RefInv, Underway
  <2>8. /\ HasFetched /\ DecodeValid(IR)
        /\ v = RegisterData(DecodedRs2(IR))
        /\ a = AluResult(ControlAluOperation(IR),
                         RegisterData(DecodedRs1(IR)), OperandRhs)
    BY <2>7, Zenon DEF HasExecuted, HasDecoded
  <2>9. Golden!Decodes
    BY <1>1, <2>3, <2>8, GoldenDecodes, Zenon
  <2>10. /\ Golden!control.memory_operation = "Store"
         /\ ControlFlow(IR) = "SEQUENTIAL"
    BY <1>1, <2>3, <2>5, <2>8, GoldenControl, Zenon
  <2>11. Golden!alu_result = a /\ Golden!store_data = v
    BY <1>1, <2>3, <2>5, <2>8, <2>10, GoldenOperands, Zenon
  <2>12. Golden!pc_plus_4 = PcPlus4
    BY <1>1, <2>5, <2>8, GoldenInstruction, Zenon
  <2>13. Golden!write32_fault(a) = "NONE"
    BY <2>5, <2>6, FaultsAgree, Zenon
  <2> HIDE DEF a, v
  <2>14. /\ AbsRam' = Golden!RamWritten(a, v)
         /\ AbsTimer' = Golden!RetireTick(Golden!TimerWritten(a, v))
         /\ AbsGpio' = Golden!GpioWritten(a, v)
         /\ AbsDebugValue' = Golden!DebugWritten(a, v)
         /\ AbsUartLog' = Golden!UartWritten(a, v)
    BY <1>1, <2>5, <2>6, StoreLands, Zenon
  <2>15. image' = image
    BY <2>5, EdgeLands, Zenon
  <2>16. AbsPc' = Golden!pc_plus_4
    BY <1>3, <1>5, <2>7, <2>12, Zenon DEF AbsPc
  <2>17. Golden!Store
    BY <1>3, <2>9, <2>10, <2>11, <2>13, <2>14, <2>15, <2>16, Zenon
       DEF Golden!Store
  <2> QED BY <2>17, Zenon DEF Golden!Step
<1> QED BY <1>4, <1>5

\* The edge that performs the access: the mapped state has had it already.
LEMMA AccessStep ==
  ASSUME RefInv, RefInv', RunEdge, AccessMemory
  PROVE  UNCHANGED Golden!vars
<1>1. /\ bus_state = "MEMORY" /\ bus_state' = "RESPONSE"
      /\ pending' = pending /\ response_ready = FALSE
  BY Zenon DEF AccessMemory, response_ready
<1>2. bus_valid
  BY <1>1, Zenon DEF RefInv, Handshake, PendingIsCurrentRequest
<1>3. CpuWait
  BY <1>1, <1>2, AskingCoreWaits, Zenon DEF RunEdge
<1>4. /\ UNCHANGED <<pc, registers, fault, next_pc_latch>>
      /\ AbsRegisters' = AbsRegisters /\ AbsStatus' = AbsStatus
      /\ AbsFaultInfo' = AbsFaultInfo /\ ~(retire.valid)'
  BY <1>3, WaitKeeps, Zenon
<1>5. StoreCommitted' <=> StoreCommitted
  <2>1. pending_fault' = pending_fault
    BY <1>1, Zenon DEF pending_fault
  <2> QED BY <1>1, <2>1, Zenon DEF StoreCommitted
<1>6. CASE ~StoreCommitted
  BY <1>4, <1>5, <1>6, StutterStep, Zenon
<1>7. CASE StoreCommitted
  <2>1. DevicesKept /\ AbsTimer' = AbsTimer
    BY <1>1, <1>5, <1>7, StoreKeeps, Zenon
  <2>2. AbsPc' = AbsPc
    BY <1>4, <1>5, <1>7, Zenon DEF AbsPc
  <2> QED BY <1>4, <2>1, <2>2, Zenon DEF DevicesKept, Golden!vars
<1> QED BY <1>6, <1>7

\* The edge at which the core takes the response.
LEMMA FinishStep ==
  ASSUME RefInv, RefInv', RunEdge, FinishResponse
  PROVE  Golden!Step \/ UNCHANGED Golden!vars
<1>1. bus_state = "RESPONSE" /\ bus_state' = "IDLE" /\ response_ready
      /\ ~StoreCommitted'
  BY Zenon DEF FinishResponse, response_ready, StoreCommitted
<1>2. TypeOK /\ Handshake /\ image \in Images /\ Underway
  BY Zenon DEF RefInv
<1>3. /\ bus_valid
      /\ response_fault = FaultOf(bus_access, bus_addr)
      /\ pending.access = bus_access /\ pending.addr = bus_addr
  BY <1>1, <1>2, Answered, Zenon
<1>4. StoreCommitted <=> bus_access = "WRITE" /\ response_fault = "NONE"
  BY <1>1, <1>3, Zenon DEF StoreCommitted, pending_fault
<1>5. cpu_state \in {"FETCH", "MEMORY"}
  BY <1>3, Zenon DEF bus_valid
<1>6. CpuEdge(response_ready, response_rdata, response_fault)
  BY Zenon DEF RunEdge
<1>7. RetirePulsesCleared.valid = FALSE
  BY <1>2, RetireCleared, Zenon DEF TypeOK, CpuTypeOK
<1>8. CASE cpu_state = "FETCH"
  <2>1. bus_access = "FETCH" /\ bus_addr = pc /\ ~StoreCommitted
    BY <1>4, <1>8, Zenon DEF bus_access, bus_addr
  <2>2. response_fault = FaultOf("FETCH", pc) /\ pc \in Word
    BY <1>2, <1>3, <2>1, Zenon DEF TypeOK, CpuTypeOK
  <2>3. CASE FetchComplete(response_rdata, response_fault)
    <3>1. UNCHANGED <<pc, registers, fault>> /\ ~(retire.valid)'
          /\ AbsStatus' = AbsStatus
      BY <1>7, <2>3, Zenon DEF FetchComplete, AbsStatus
    <3> QED BY <1>1, <2>1, <3>1, StutterStep, Zenon
  <2>4. CASE FetchFaulted(response_fault)
    <3> DEFINE e == fetch_fault(response_fault)
    <3>1. /\ response_fault # "NONE" /\ enter_fault(e, Zero, FALSE, Zero)
          /\ UNCHANGED <<pc, registers>>
      BY <2>4, Zenon DEF FetchFaulted
    <3>2. FetchCode(pc) = IF /\ e = "NON_EXECUTABLE_INSTRUCTION_FETCH"
                             /\ InWindow(pc, STM32_BASE, STM32_LAST)
                            THEN "UNMAPPED_INSTRUCTION_FETCH" ELSE e
      BY <2>2, Zenon DEF FetchCode
    <3> HIDE DEF e
    <3>3. Golden!enter_fault(FetchCode(pc), Zero, FALSE, Zero)
      BY <1>1, <2>1, <3>1, <3>2, FaultStep, Zenon
    <3>4. AbsPc = pc /\ AbsStatus = "RUNNING"
      BY <1>8, <2>1, Zenon DEF AbsPc, AbsStatus
    <3>5. Golden!fetch32_fault(pc) # "NONE"
      BY <2>2, <3>1, FaultsAgree, Zenon
    <3> DEFINE g == Golden!fetch32_fault(pc)
               code == CASE g = "MISALIGNED" ->
                              "MISALIGNED_INSTRUCTION_FETCH"
                         [] g = "NON_EXECUTABLE" ->
                              "NON_EXECUTABLE_INSTRUCTION_FETCH"
                         [] OTHER -> "UNMAPPED_INSTRUCTION_FETCH"
    <3>6. FetchCode(pc) = code
      BY <2>2, FaultsAgree, Zenon
    <3>7. Golden!enter_fault(code, Golden!Zero, FALSE, Golden!Zero)
      <4> HIDE DEF code
      <4> QED BY <3>3, <3>6, GoldenWords, Zenon
    <3>8. Golden!FetchFault
      BY <3>4, <3>5, <3>7, Zenon DEF Golden!FetchFault
    <3> QED BY <3>8, Zenon DEF Golden!Step
  <2> QED BY <1>1, <1>6, <1>8, <2>3, <2>4, Zenon
          DEF CpuEdge, CpuWait, DecodeReject, DecodeOperands, ExecuteAlu,
              ExecuteBranch, ExecuteJump, ExecuteJumpAndLink,
              ExecuteJumpRegister, ExecuteSequential, MemoryFaulted,
              MemoryLoad, MemoryStore, Writeback, CpuStopped
<1>9. CASE cpu_state = "MEMORY"
  <2> DEFINE a == alu_result_latch
             memory == ControlMemoryOperation(IR)
  <2>1. /\ bus_access = IF memory = "STORE" THEN "WRITE" ELSE "READ"
        /\ bus_addr = a /\ a \in Word
    <3>1. cpu_state # "FETCH"
      BY <1>9, Zenon
    <3>2. bus_addr = a
      BY <1>9, <3>1, SMT DEF bus_addr
    <3> QED BY <1>2, <1>9, <3>2, Zenon DEF bus_access, TypeOK, CpuTypeOK
  <2>2. HasExecuted /\ memory # "NONE" /\ next_pc_latch = PcPlus4
    BY <1>2, <1>9, Zenon DEF Underway
  <2>3. /\ HasFetched /\ DecodeValid(IR)
        /\ a = AluResult(ControlAluOperation(IR),
                         RegisterData(DecodedRs1(IR)), OperandRhs)
    BY <2>2, Zenon DEF HasExecuted, HasDecoded
  <2>4. memory \in {"LOAD", "STORE"}
    <3>1. memory \in {"LOAD", "STORE", "NONE"}
      BY Zenon DEF ControlMemoryOperation
    <3> QED BY <2>2, <3>1, Zenon
  <2>5. CASE MemoryLoad(response_rdata, response_fault)
    <3>1. memory = "LOAD" /\ UNCHANGED <<pc, registers, fault>>
          /\ ~(retire.valid)' /\ AbsStatus' = AbsStatus
      BY <1>7, <2>5, Zenon DEF MemoryLoad, AbsStatus
    <3>2. ~StoreCommitted
      BY <1>4, <2>1, <3>1, Zenon
    <3> QED BY <1>1, <3>1, <3>2, StutterStep, Zenon
  <2>6. CASE MemoryStore(response_fault)
    <3>1. /\ memory # "LOAD" /\ response_fault = "NONE"
          /\ pc' = next_pc_latch /\ (retire.valid)' /\ cpu_state' = "FETCH"
          /\ UNCHANGED <<registers, fault>>
      BY <2>6, Zenon DEF MemoryStore, record_retirement
    <3>2. StoreCommitted
      BY <1>4, <2>1, <2>4, <3>1, Zenon
    <3>3. bus_state' # "MEMORY"
      BY <1>1, Zenon
    <3>4. DevicesKept /\ AbsTimer' = AbsTimer
      BY <3>1, <3>2, <3>3, StoreKeeps, Zenon
    <3>5. AbsPc' = AbsPc
      BY <1>1, <3>1, <3>2, Zenon DEF AbsPc
    <3>6. AbsRegisters' = AbsRegisters /\ AbsStatus' = AbsStatus
          /\ AbsFaultInfo' = AbsFaultInfo
      BY <1>9, <3>1, Zenon DEF AbsRegisters, RegisterData, AbsStatus,
                               AbsFaultInfo
    <3> QED BY <3>4, <3>5, <3>6, Zenon DEF DevicesKept, Golden!vars
  <2>7. CASE MemoryFaulted(response_fault)
    <3> DEFINE f == response_fault
               e == IF memory = "LOAD" THEN load_fault(f) ELSE store_fault(f)
    <3>1. /\ f # "NONE" /\ enter_fault(e, IR, TRUE, a)
          /\ UNCHANGED <<pc, registers>> /\ ~StoreCommitted
      BY <1>4, <2>7, Zenon DEF MemoryFaulted
    <3>2. e # "NON_EXECUTABLE_INSTRUCTION_FETCH"
      BY Zenon DEF load_fault, store_fault
    <3>3. Golden!enter_fault(e, IR, TRUE, a)
      <4> HIDE DEF e, a
      <4> QED BY <1>1, <3>1, <3>2, FaultStep, Zenon
    <3>4. Golden!Decodes
      BY <1>9, <2>3, <3>1, GoldenDecodes, Zenon
    <3>5. /\ memory = "LOAD" => Golden!control.memory_operation = "Load"
          /\ memory = "STORE" => Golden!control.memory_operation = "Store"
          /\ ControlFlow(IR) = "SEQUENTIAL"
      BY <1>2, <2>2, <2>3, <3>1, GoldenControl, Zenon
    <3>6. Golden!instruction = IR /\ Golden!alu_result = a
      BY <1>2, <2>3, <3>1, <3>5, GoldenInstruction, GoldenOperands, Zenon
    <3>7. CASE memory = "LOAD"
      <4>1. f = Golden!read32_fault(a)
        BY <1>3, <2>1, <3>7, FaultsAgree, Zenon
      <4>2. e = IF f = "MISALIGNED" THEN "MISALIGNED_LOAD"
                                    ELSE "UNMAPPED_LOAD"
        BY <3>7, Zenon DEF load_fault
      <4> HIDE DEF e, f, a
      <4>3. Golden!LoadFault
        BY <3>1, <3>3, <3>4, <3>5, <3>6, <3>7, <4>1, <4>2, Zenon
           DEF Golden!LoadFault
      <4> QED BY <4>3, Zenon DEF Golden!Step
    <3>8. CASE memory = "STORE"
      <4>1. f = Golden!write32_fault(a)
        BY <1>3, <2>1, <3>8, FaultsAgree, Zenon
      <4> DEFINE code == CASE f = "MISALIGNED" -> "MISALIGNED_STORE"
                           [] f = "READ_ONLY" -> "READ_ONLY_STORE"
                           [] OTHER -> "UNMAPPED_STORE"
      <4>2. e = code
        BY <3>8, Zenon DEF store_fault
      <4>3. Golden!enter_fault(code, IR, TRUE, a)
        <5> HIDE DEF e, code, a
        <5> QED BY <3>3, <4>2, Zenon
      <4> HIDE DEF e, f, a
      <4>4. Golden!StoreFault
        BY <3>1, <3>4, <3>5, <3>6, <3>8, <4>1, <4>3, Zenon
           DEF Golden!StoreFault
      <4> QED BY <4>4, Zenon DEF Golden!Step
    <3> QED BY <2>4, <3>7, <3>8, Zenon
  <2> QED BY <1>1, <1>6, <1>9, <2>5, <2>6, <2>7, Zenon
          DEF CpuEdge, CpuWait, FetchComplete, FetchFaulted, DecodeReject,
              DecodeOperands, ExecuteAlu, ExecuteBranch, ExecuteJump,
              ExecuteJumpAndLink, ExecuteJumpRegister, ExecuteSequential,
              Writeback, CpuStopped
<1> QED BY <1>5, <1>8, <1>9, Zenon

\* What a reset leaves in the registers of the RTL.
ResetValues ==
  /\ bus_state = "IDLE" /\ cpu_state = "FETCH" /\ pc = Zero
  /\ registers = [r \in 1 .. 31 |-> Zero]
  /\ fault = NoFault /\ retire = NoRetirement
  /\ TimerInit /\ MmioInit /\ uart_log = <<>>

\* What it leaves of the golden model; Ram has no reset.
GoldenReset ==
  /\ AbsPc = Golden!Zero
  /\ AbsRegisters = [r \in Golden!Register |-> Golden!Zero]
  /\ AbsStatus = "RUNNING"
  /\ AbsFaultInfo = Golden!NoFaultInfo
  /\ AbsTimer = Golden!TimerOff
  /\ AbsGpio = Golden!GpioOff
  /\ AbsDebugValue = Golden!Zero
  /\ AbsUartLog = <<>>
  /\ AbsRam = RamImage(ram)

\* Zeros in the RTL's registers are the golden model's reset state.
LEMMA ResetMaps == ResetValues => GoldenReset
<1> SUFFICES ASSUME ResetValues PROVE GoldenReset
  OBVIOUS
<1> USE DEF ResetValues
<1>1. ~StoreCommitted /\ ~retire.valid /\ \A region : ~write_enable(region)
  BY Zenon DEF StoreCommitted, write_enable, Performs, NoRetirement
<1>2. AbsPc = Golden!Zero /\ AbsStatus = "RUNNING"
  BY <1>1, GoldenWords, Zenon DEF AbsPc, AbsStatus
<1>3. AbsRegisters = [r \in Golden!Register |-> Golden!Zero]
  <2>1. ASSUME NEW r \in Register PROVE RegisterData(r) = Zero
    <3>1. r = 0 \/ r \in 1 .. 31
      BY SMT DEF Register
    <3> QED BY <3>1, Zenon DEF RegisterData
  <2> QED BY <2>1, GoldenWords, Zenon DEF AbsRegisters
<1>4. AbsFaultInfo = Golden!NoFaultInfo
  BY GoldenWords, Zenon DEF AbsFaultInfo, NoFault, Golden!NoFaultInfo
<1>5. AbsTimer = Golden!TimerOff
  BY <1>1, GoldenWords, Zenon
     DEF AbsTimer, TimerCounterNext, TimerCompareNext, TimerEnabledNext,
         TimerInit, Golden!TimerOff
<1>6. AbsGpio = Golden!GpioOff /\ AbsDebugValue = Golden!Zero
  BY <1>1, GoldenWords, Zenon
     DEF AbsGpio, GpioOutputNext, GpioDirectionNext, AbsDebugValue,
         DebugValueNext, MmioInit, Golden!GpioOff
<1>7. AbsUartLog = <<>>
  <2>1. ~uart_tx_valid /\ ~write_enable("UART")
    BY <1>1, Zenon DEF MmioInit
  <2>2. AbsUartLog = <<>> \o <<>> \o <<>>
    BY <2>1, Zenon DEF AbsUartLog
  <2> QED BY <2>2, SMT
<1>8. AbsRam = RamImage(ram)
  BY <1>1, Zenon DEF AbsRam, RamImage, RamNext
<1> QED BY <1>2, <1>3, <1>4, <1>5, <1>6, <1>7, <1>8, Zenon
        DEF GoldenReset

\* An edge in reset is the reset() of the golden model: a store that the bus
\* has captured still reaches the RAM, where the mapped state has it already.
LEMMA ResetStep ==
  ASSUME RefInv, ResetEdge
  PROVE  Golden!Reset
<1>1. /\ bus_state' = "IDLE" /\ cpu_state' = "FETCH" /\ pc' = Zero
      /\ registers' = [r \in 1 .. 31 |-> Zero] /\ fault' = NoFault
      /\ retire' = NoRetirement /\ uart_log' = <<>>
      /\ image' = image /\ ram' = RamNext
  BY Zenon DEF ResetEdge, CpuReset, BusReset, MemoryEdge
<1>2. TimerInit' /\ MmioInit'
  BY Zenon DEF ResetEdge, BusReset, TimerReset, UartReset, GpioReset,
               DebugReset, TimerInit, MmioInit
<1>3. ResetValues'
  BY <1>1, <1>2, Zenon DEF ResetValues
<1>4. ResetValues' => GoldenReset'
  BY ResetMaps, PTL
<1>5. AbsRam' = AbsRam
  BY <1>1, <1>3, <1>4, Zenon DEF GoldenReset, AbsRam, RamImage
<1> QED BY <1>1, <1>3, <1>4, <1>5, Zenon DEF GoldenReset, Golden!Reset

\* The machines start in the same state.
LEMMA InitMaps == PowerUp => Golden!Init
<1> SUFFICES ASSUME PowerUp PROVE Golden!Init
  OBVIOUS
<1>1. ResetValues /\ image \in Images
  BY Zenon DEF PowerUp, CpuInit, BusInit, ResetValues
<1>2. ram \in [0 .. RAM_WORD_COUNT - 1 -> PowerUpWords]
  BY Zenon DEF PowerUp, BusInit
<1>3. GoldenReset
  BY <1>1, ResetMaps, Zenon
<1>4. AbsRam = [k \in Golden!RamBytes |-> Golden!ByteOf(ram[k \div 4], k % 4)]
  <2>1. ASSUME NEW k \in 0 .. 4 * RAM_WORD_COUNT - 1
        PROVE  Golden!ByteOf(ram[k \div 4], k % 4) =
                 LET word == ram[k \div 4]
                     half == IF k % 4 < 2 THEN word.lo ELSE word.hi
                 IN  IF k % 2 = 0 THEN half % 256 ELSE half \div 256
    <3>1. (k % 4) % 2 = k % 2
      BY MemorySizes, SMT
    <3> QED BY <3>1, Zenon DEF Golden!ByteOf
  <2>2. Golden!RamBytes = 0 .. 4 * RAM_WORD_COUNT - 1
    BY Zenon DEF Golden!RamBytes
  <2> QED BY <1>3, <2>1, <2>2, Zenon DEF GoldenReset, RamImage
<1> QED BY <1>1, <1>2, <1>3, <1>4, Zenon DEF GoldenReset, Golden!Init

\* What holds still in the RTL holds still in the mapped state.
LEMMA GoldenKept ==
  ASSUME UNCHANGED vars
  PROVE  UNCHANGED Golden!vars /\ StoreCommitted' = StoreCommitted
<1>1. /\ UNCHANGED <<cpu_state, pc, registers, fault, retire,
                     next_pc_latch>>
      /\ UNCHANGED <<bus_state, pending, image, ram, timer_counter,
                     timer_compare, timer_enabled, uart_tx_valid,
                     uart_tx_data, gpio_output, gpio_direction,
                     debug_value, uart_log>>
  BY Zenon DEF vars, cpuVars, latches, busVars, memoryVars,
                     timerVars, mmioVars
<1>2. StoreCommitted' = StoreCommitted
  BY <1>1, Zenon DEF StoreCommitted, pending_fault
<1>3. AbsPc' = AbsPc /\ AbsStatus' = AbsStatus
  BY <1>1, <1>2, Zenon DEF AbsPc, AbsStatus
<1>4. AbsRegisters' = AbsRegisters
  BY <1>1, Zenon DEF AbsRegisters, RegisterData
<1>5. AbsFaultInfo' = AbsFaultInfo
  BY <1>1, Zenon DEF AbsFaultInfo
<1>6. /\ write_enable("RAM")' = write_enable("RAM")
      /\ write_enable("TIMER")' = write_enable("TIMER")
      /\ write_enable("GPIO")' = write_enable("GPIO")
      /\ write_enable("DEBUG")' = write_enable("DEBUG")
      /\ write_enable("UART")' = write_enable("UART")
      /\ register_offset' = register_offset
      /\ word_address' = word_address
  BY <1>1, Zenon DEF write_enable, Performs, pending_fault,
                     pending_region, register_offset, word_address
<1>7. RamNext' = RamNext
  BY <1>1, <1>6, Zenon DEF RamNext
<1>8. AbsRam' = AbsRam
  BY <1>7, Zenon DEF AbsRam
<1>9. AbsTimer' = AbsTimer
  BY <1>1, <1>2, <1>6, Zenon DEF AbsTimer, TimerCounterNext,
     TimerCompareNext, TimerEnabledNext
<1>10. AbsGpio' = AbsGpio /\ AbsDebugValue' = AbsDebugValue
  BY <1>1, <1>6, Zenon DEF AbsGpio, GpioOutputNext, GpioDirectionNext,
     AbsDebugValue, DebugValueNext
<1>11. AbsUartLog' = AbsUartLog
  BY <1>1, <1>6, Zenon DEF AbsUartLog
<1> QED BY <1>1, <1>2, <1>3, <1>4, <1>5, <1>8, <1>9, <1>10, <1>11, Zenon
        DEF Golden!vars

\* Every step of the RTL is a step of the golden model or leaves its state
\* alone.
LEMMA StepMaps ==
  ASSUME RefInv, [Next]_vars
  PROVE  [Golden!Next]_(Golden!vars)
<1>1. RefInv'
  BY RefStep
<1>2. CASE RunEdge
  <2>1. \/ CaptureRequest(bus_valid, CpuRequest) \/ NoRequest(bus_valid)
        \/ AccessMemory \/ FinishResponse
    BY <1>2, Zenon DEF RunEdge, BusEdge
  <2>2. Golden!Step \/ UNCHANGED Golden!vars
    BY <1>1, <1>2, <2>1, CaptureStep, IdleStep, AccessStep, FinishStep,
       Zenon
  <2> QED BY <2>2, Zenon DEF Golden!Next
<1>3. CASE ResetEdge
  BY <1>3, ResetStep, Zenon DEF Golden!Next
<1>4. CASE UNCHANGED vars
  BY <1>4, GoldenKept
<1> QED BY <1>2, <1>3, <1>4 DEF Next

\* The RTL of core, bus, memories and devices implements the C++ golden
\* model: every clock edge, for every program, memory size, power-up content,
\* GPIO input and reset pattern, is one instruction, fault or reset of
\* cpu_core.cpp or changes nothing that it can see.
THEOREM RtlImplementsGolden == Spec => ImplementsGolden
<1>1. RefInv /\ [Next]_vars => RefInv'
  BY RefStep
<1>2. RefInv /\ [Next]_vars => [Golden!Next]_(Golden!vars)
  BY StepMaps
<1> QED BY <1>1, <1>2, RefInit, InitMaps, InitIsPowerUp, PTL
        DEF Spec, ImplementsGolden, Golden!Spec
=============================================================================
