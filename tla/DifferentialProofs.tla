------------------------ MODULE DifferentialProofs --------------------------
(***************************************************************************)
(* Proofs about the differential check for every program image, every      *)
(* limit and every memory size: what ref_trace.cpp prints rebuilds the     *)
(* machine it stepped, its exit code says whether the trace is complete,   *)
(* a pass would not survive a change of the trace, only a bound fails a    *)
(* case, and no comparable program makes the two traces differ.            *)
(***************************************************************************)
EXTENDS Differential, Mini32SystemProofs

(***************************************************************************)
(* The golden model that ref_trace.cpp steps is an instance: its copies of *)
(* the operators of Word32, Mini32Pkg and GoldenIsa are the operators.     *)
(***************************************************************************)

\* Words.
LEMMA RefWords ==
  /\ Ref!Zero = Zero /\ Ref!One = One /\ Ref!Four = Four
  /\ Ref!Register = Register
  /\ \A h, l : Ref!W(h, l) = W(h, l)
  /\ \A a, b : /\ Ref!Add(a, b) = Add(a, b)
               /\ Ref!Sub(a, b) = Sub(a, b)
               /\ Ref!ULess(a, b) = ULess(a, b)
               /\ Ref!ULeq(a, b) = ULeq(a, b)
  /\ \A a : Ref!SignBit(a) = SignBit(a) /\ Ref!LowByte(a) = LowByte(a)
<1>1. Ref!HalfMod = HalfMod
  BY DEF Ref!HalfMod, HalfMod
<1>2. \A h, l : Ref!W(h, l) = W(h, l)
  BY DEF Ref!W, W
<1>3. \A a, b : Ref!ULess(a, b) = ULess(a, b)
  BY DEF Ref!ULess, ULess
<1>4. \A a, b : Ref!ULeq(a, b) = ULeq(a, b)
  BY <1>3 DEF Ref!ULeq, ULeq
<1>5. \A a, b : Ref!Add(a, b) = Add(a, b) /\ Ref!Sub(a, b) = Sub(a, b)
  BY <1>1, <1>2 DEF Ref!Add, Add, Ref!Sub, Sub
<1>6. /\ Ref!Zero = Zero /\ Ref!One = One /\ Ref!Four = Four
      /\ Ref!Register = Register
  BY <1>2 DEF Ref!Zero, Zero, Ref!One, One, Ref!Four, Four,
     Ref!Register, Register
<1>7. \A a : Ref!SignBit(a) = SignBit(a) /\ Ref!LowByte(a) = LowByte(a)
  BY DEF Ref!SignBit, SignBit, Ref!LowByte, LowByte
<1> QED BY <1>2, <1>3, <1>4, <1>5, <1>6, <1>7

\* Bitwise operators and shifts.
LEMMA RefBits ==
  \A a, b : /\ Ref!And(a, b) = And(a, b)
            /\ Ref!Or(a, b) = Or(a, b)
            /\ Ref!Xor(a, b) = Xor(a, b)
            /\ Ref!ShiftLeft(a, b) = ShiftLeft(a, b)
            /\ Ref!ShiftRight(a, b) = ShiftRight(a, b)
<1>1. \A a, b : Ref!And(a, b) = And(a, b)
  BY SMT DEF Ref!And, And, Ref!AndHalf, AndHalf, Ref!W, W,
     Ref!Bit, Bit, Ref!HalfOf, HalfOf, Ref!Weights, Weights
<1>2. \A a, b : Ref!Or(a, b) = Or(a, b)
  BY SMT DEF Ref!Or, Or, Ref!OrHalf, OrHalf, Ref!W, W,
     Ref!Bit, Bit, Ref!HalfOf, HalfOf, Ref!Weights, Weights
<1>3. \A a, b : Ref!Xor(a, b) = Xor(a, b)
  BY SMT DEF Ref!Xor, Xor, Ref!XorHalf, XorHalf, Ref!W, W,
     Ref!Bit, Bit, Ref!HalfOf, HalfOf, Ref!Weights, Weights
<1>4. \A n : Ref!Pow2(n) = Pow2(n)
  BY SMT DEF Ref!Pow2, Pow2
<1>5. /\ Ref!HalfMod = HalfMod
      /\ \A h, l : Ref!W(h, l) = W(h, l)
  BY SMT DEF Ref!HalfMod, HalfMod, Ref!W, W
<1>6. \A a, b : Ref!ShiftLeft(a, b) = ShiftLeft(a, b)
  BY <1>4, <1>5, SMT DEF Ref!ShiftLeft, ShiftLeft
<1>7. \A a, b : Ref!ShiftRight(a, b) = ShiftRight(a, b)
  BY <1>4, <1>5, SMT DEF Ref!ShiftRight, ShiftRight
<1> QED BY <1>1, <1>2, <1>3, <1>6, <1>7

\* The opcodes.
LEMMA RefOpcodes ==
  /\ Ref!OP_NOP = OP_NOP /\ Ref!OP_ADD = OP_ADD /\ Ref!OP_SUB = OP_SUB
  /\ Ref!OP_AND = OP_AND /\ Ref!OP_OR = OP_OR /\ Ref!OP_XOR = OP_XOR
  /\ Ref!OP_SLT = OP_SLT /\ Ref!OP_SHL = OP_SHL /\ Ref!OP_SHR = OP_SHR
  /\ Ref!OP_ADDI = OP_ADDI /\ Ref!OP_ANDI = OP_ANDI
     /\ Ref!OP_ORI = OP_ORI
  /\ Ref!OP_XORI = OP_XORI /\ Ref!OP_LUI = OP_LUI /\ Ref!OP_LW = OP_LW
  /\ Ref!OP_SW = OP_SW /\ Ref!OP_BEQ = OP_BEQ /\ Ref!OP_BNE = OP_BNE
  /\ Ref!OP_BLT = OP_BLT /\ Ref!OP_BGE = OP_BGE /\ Ref!OP_J = OP_J
  /\ Ref!OP_JAL = OP_JAL /\ Ref!OP_JR = OP_JR /\ Ref!OP_HALT = OP_HALT
BY DEF Ref!OP_NOP, OP_NOP, Ref!OP_ADD, OP_ADD, Ref!OP_SUB, OP_SUB,
       Ref!OP_AND, OP_AND, Ref!OP_OR, OP_OR, Ref!OP_XOR, OP_XOR,
       Ref!OP_SLT, OP_SLT, Ref!OP_SHL, OP_SHL, Ref!OP_SHR, OP_SHR,
       Ref!OP_ADDI, OP_ADDI, Ref!OP_ANDI, OP_ANDI, Ref!OP_ORI,
       OP_ORI, Ref!OP_XORI, OP_XORI, Ref!OP_LUI, OP_LUI,
       Ref!OP_LW, OP_LW, Ref!OP_SW, OP_SW, Ref!OP_BEQ, OP_BEQ,
       Ref!OP_BNE, OP_BNE, Ref!OP_BLT, OP_BLT, Ref!OP_BGE, OP_BGE,
       Ref!OP_J, OP_J, Ref!OP_JAL, OP_JAL, Ref!OP_JR, OP_JR,
       Ref!OP_HALT, OP_HALT

\* The decoder.
LEMMA RefDecoder ==
  \A i : /\ Ref!Decode(i) = Decode(i)
         /\ Ref!DecodeError(i) = DecodeError(i)
         /\ Ref!control_for(i) = control_for(i)
<1>1. \A op : Ref!format_for(op) = format_for(op)
  BY RefOpcodes DEF Ref!format_for, format_for, Ref!is_r_format,
     is_r_format
<1>2. \A i : /\ Ref!Field21(i) = Field21(i)
             /\ Ref!Field16(i) = Field16(i)
             /\ Ref!Field11(i) = Field11(i)
  BY DEF Ref!Field21, Field21, Ref!Field16, Field16, Ref!Field11,
     Field11
<1>3. \A op, i : Ref!Malformed(op, i) = Malformed(op, i)
  BY <1>1, <1>2, RefOpcodes DEF Ref!Malformed, Malformed
<1>4. \A i : Ref!DecodeError(i) = DecodeError(i)
  BY <1>3, RefOpcodes DEF Ref!DecodeError, DecodeError
<1>5. \A i : Ref!Decode(i) = Decode(i)
  BY <1>1, <1>2, RefWords DEF Ref!Decode, Decode
<1>6. /\ Ref!DefaultControl = DefaultControl
      /\ \A o : Ref!RegisterControl(o) = RegisterControl(o)
      /\ \A o, k : Ref!ImmediateControl(o, k) = ImmediateControl(o, k)
      /\ \A p : Ref!BranchControl(p) = BranchControl(p)
  BY DEF Ref!DefaultControl, DefaultControl, Ref!RegisterControl,
     RegisterControl, Ref!ImmediateControl, ImmediateControl,
     Ref!BranchControl, BranchControl
<1>7. \A op : Ref!control_for(op) = control_for(op)
  BY <1>6, RefOpcodes DEF Ref!control_for, control_for
<1> QED BY <1>4, <1>5, <1>7

\* Immediates, displacements, ALU and branch predicates.
LEMMA RefExecution ==
  /\ \A k, n : Ref!immediate_value(k, n) = immediate_value(k, n)
  /\ \A n : /\ Ref!branch_displacement(n) = branch_displacement(n)
            /\ Ref!jump_displacement(n) = jump_displacement(n)
  /\ \A o, a, b : /\ Ref!Execute(o, a, b) = Execute(o, a, b)
                  /\ Ref!branch_taken(o, a, b) = branch_taken(o, a, b)
<1>1. \A k, n : Ref!immediate_value(k, n) = immediate_value(k, n)
  BY RefWords DEF Ref!immediate_value, immediate_value
<1>2. \A w : Ref!Times4(w) = Times4(w)
  BY RefWords DEF Ref!Times4, Times4
<1>3. \A n : Ref!branch_displacement(n) = branch_displacement(n)
  BY <1>1, <1>2 DEF Ref!branch_displacement, branch_displacement
<1>4. \A n : Ref!jump_displacement(n) = jump_displacement(n)
  BY <1>2, RefWords DEF Ref!jump_displacement, jump_displacement
<1>5. \A a, b : Ref!signed_less_than(a, b) = signed_less_than(a, b)
  BY RefWords DEF Ref!signed_less_than, signed_less_than
<1>6. \A o, a, b : Ref!Execute(o, a, b) = Execute(o, a, b)
  <2> TAKE o, a, b
  <2> DEFINE n == b.lo % 32
  <2>1. /\ Ref!Add(a, b) = Add(a, b) /\ Ref!Sub(a, b) = Sub(a, b)
        /\ Ref!One = One /\ Ref!Zero = Zero
    BY RefWords, Zenon
  <2>2. /\ Ref!And(a, b) = And(a, b) /\ Ref!Or(a, b) = Or(a, b)
        /\ Ref!Xor(a, b) = Xor(a, b)
        /\ Ref!ShiftLeft(a, n) = ShiftLeft(a, n)
        /\ Ref!ShiftRight(a, n) = ShiftRight(a, n)
    BY RefBits, Zenon
  <2>3. Ref!signed_less_than(a, b) = signed_less_than(a, b)
    BY <1>5, Zenon
  <2> QED BY <2>1, <2>2, <2>3, Zenon DEF Ref!Execute, Execute
<1>7. \A o, a, b : Ref!branch_taken(o, a, b) = branch_taken(o, a, b)
  BY <1>5 DEF Ref!branch_taken, branch_taken
<1> QED BY <1>1, <1>3, <1>4, <1>6, <1>7

(***************************************************************************)
(* The types of the reference machine.                                     *)
(***************************************************************************)
RefMachineOK ==
  /\ image \in Seq(Byte)
  /\ ref_pc \in Word
  /\ ref_registers \in [Register -> Word]
  /\ ref_ram \in [Ref!RamBytes -> Byte]
  /\ ref_timer \in [counter : Word, compare : Word, enabled : BOOLEAN]
  /\ ref_gpio \in [output : Word, direction : Word]
  /\ ref_debug_value \in Word

\* Four bytes make a word.
LEMMA RefBytesMakeWord ==
  ASSUME NEW b0 \in Byte, NEW b1 \in Byte, NEW b2 \in Byte, NEW b3 \in Byte
  PROVE  Ref!WordOfBytes(b0, b1, b2, b3) \in Word
<1>1. b3 * 256 + b2 \in Half /\ b1 * 256 + b0 \in Half
  BY SMT DEF Byte, Half, HalfMod
<1> QED BY <1>1, WInWord, RefWords, Zenon DEF Ref!WordOfBytes

\* A word read from ROM, and a word of RAM bytes.
LEMMA RefRomReadTyped ==
  ASSUME RefMachineOK, NEW a \in Word
  PROVE  Ref!RomRead(a) \in Word
<1>1. ASSUME NEW k \in Nat PROVE Ref!RomByte(k) \in Byte
  <2>1. CASE k < Len(image)
    <3>1. k + 1 \in 1 .. Len(image) /\ image \in Seq(Byte)
      BY <2>1 DEF RefMachineOK
    <3>2. image[k + 1] \in Byte
      BY <3>1
    <3> QED BY <2>1, <3>2 DEF Ref!RomByte
  <2>2. CASE ~(k < Len(image))
    <3>1. 0 \in Byte
      BY SMT DEF Byte
    <3> QED BY <2>2, <3>1 DEF Ref!RomByte
  <2> QED BY <2>1, <2>2
<1>2. a.lo \in Nat
  BY WordParts
<1>3. a.lo + 1 \in Nat /\ a.lo + 2 \in Nat /\ a.lo + 3 \in Nat
  BY <1>2
<1> QED BY <1>1, <1>2, <1>3, RefBytesMakeWord DEF Ref!RomRead

\* An aligned address in the RAM window has its four bytes in the array.
LEMMA RefRamReadTyped ==
  ASSUME RefMachineOK, NEW a \in Word, a.lo % 4 = 0, Ref!InRam(a)
  PROVE  Ref!RamRead(a) \in Word
<1>1. a.lo \in Int /\ 0 <= a.lo /\ a.hi \in Int
  BY WordParts
<1>2. a.lo <= 4 * RAM_WORD_COUNT - 1
  <2>1. Ref!ULeq(W(4096, 0), a)
        /\ Ref!ULeq(a, W(4096, 4 * RAM_WORD_COUNT - 1))
    BY RefWords DEF Ref!InRam, Ref!InWindow, Ref!RAM_BASE,
         Ref!RAM_LAST
  <2>2. ULeq(W(4096, 0), a) /\ ULeq(a, W(4096, 4 * RAM_WORD_COUNT - 1))
    BY <2>1, RefWords
  <2> QED BY <1>1, <2>2, MemorySizes, SMT DEF ULeq, ULess, W
<1>3. {a.lo, a.lo + 1, a.lo + 2, a.lo + 3} \subseteq Ref!RamBytes
  BY <1>1, <1>2, MemorySizes, SMT DEF Ref!RamBytes
<1>4. /\ ref_ram[a.lo] \in Byte /\ ref_ram[a.lo + 1] \in Byte
      /\ ref_ram[a.lo + 2] \in Byte /\ ref_ram[a.lo + 3] \in Byte
  BY <1>3 DEF RefMachineOK
<1> QED BY <1>4, RefBytesMakeWord DEF Ref!RamRead

\* Whatever a load reads is a word.
LEMMA RefLoadTyped ==
  ASSUME RefMachineOK, NEW a \in Word, Ref!read32_fault(a) = "NONE",
         NEW input \in {Zero}
  PROVE  Ref!read32(a, input) \in Word
<1>1. /\ a.lo % 4 = 0
      /\ \/ Ref!InRom(a) \/ Ref!InRam(a) \/ Ref!InUart(a)
         \/ Ref!InTimer(a) \/ Ref!InGpio(a) \/ Ref!InDebug(a)
  BY DEF Ref!read32_fault, Ref!data_fault
<1>2. Zero \in Word /\ One \in Word /\ Ref!Zero = Zero /\ Ref!One = One
  BY ConstantsAreWords, RefWords
<1>3. a.lo % 16 \in {0, 4, 8, 12}
  <2>1. a.lo \in Int
    BY WordParts
  <2> QED BY <1>1, <2>1, SMT
<1>4. Ref!UartRead(a.lo % 16) \in Word
  BY <1>2 DEF Ref!UartRead
<1>5. Ref!DebugRead(a.lo % 16) \in Word
  BY <1>2 DEF Ref!DebugRead, RefMachineOK
<1>6. Ref!GpioRead(a.lo % 16, input) \in Word
  BY <1>2 DEF Ref!GpioRead, RefMachineOK
<1>7. Ref!TimerRead(a.lo % 16) \in Word
  BY <1>2, <1>3 DEF Ref!TimerRead, RefMachineOK
<1>8. Ref!InRom(a) => Ref!RomRead(a) \in Word
  BY RefRomReadTyped
<1>9. Ref!InRam(a) => Ref!RamRead(a) \in Word
  BY <1>1, RefRamReadTyped
<1> QED BY <1>1, <1>4, <1>5, <1>6, <1>7, <1>8, <1>9, Zenon DEF Ref!read32

\* The instruction at pc, once it is known to be legal.
RefInstructionOK ==
  /\ Ref!instruction \in Word
  /\ Ref!decoded.opcode \in Opcodes
  /\ ControlColumns(Ref!decoded.opcode, Ref!control)
  /\ Ref!decoded.rd \in Register
  /\ Ref!operand_lhs \in Word
  /\ Ref!store_data \in Word
  /\ Ref!alu_result \in Word
  /\ Ref!pc_plus_4 \in Word
  /\ Ref!Add(Ref!pc_plus_4,
                Ref!branch_displacement(Ref!decoded.imm16)) \in Word
  /\ Ref!Add(Ref!pc_plus_4,
                Ref!jump_displacement(Ref!decoded.imm26)) \in Word

\* ... because the image is bytes and the ref_registers are words.
LEMMA RefInstructionTyped ==
  ASSUME RefMachineOK, Ref!DecodeError(Ref!instruction) = "None"
  PROVE  RefInstructionOK
<1> DEFINE i == Ref!instruction
           d == Ref!decoded
           c == Ref!control
<1>1. i \in Word
  BY RefRomReadTyped DEF Ref!instruction, RefMachineOK
<1>2. /\ DecodeError(i) = "None"
      /\ d = Decode(i)
      /\ c = control_for(d.opcode)
  BY RefDecoder DEF Ref!decoded, Ref!control
<1> HIDE DEF i, d, c
<1>3. LegalFields(d, c)
  BY <1>1, <1>2, DecodeTyped, Zenon
<1>4. ASSUME NEW r \in Register PROVE Ref!ReadRegister(r) \in Word
  BY ConstantsAreWords, RefWords DEF Ref!ReadRegister, RefMachineOK
<1>5. Ref!operand_lhs \in Word /\ Ref!store_data \in Word
  BY <1>3, <1>4, SMT DEF Ref!operand_lhs, Ref!store_data, d, LegalFields
<1>6. c.immediate_kind \in {"None", "Signed16", "ZeroExtended16", "Upper16"}
  BY <1>3, SMT DEF ControlColumns, LegalFields
<1>7. c.alu_operation \in {"Add", "Sub", "And", "Or", "Xor", "Slt",
                           "ShiftLeft", "ShiftRight"}
  BY <1>3, SMT DEF ControlColumns, LegalFields
<1>8. immediate_value(c.immediate_kind, d.imm16) \in Word
  BY <1>3, <1>6, DisplacementTyped, SMT DEF LegalFields
<1>9. Ref!operand_rhs \in Word
  BY <1>5, <1>8, RefExecution, Zenon DEF Ref!operand_rhs, c, d
<1>10. Ref!alu_result \in Word
  <2>1. Ref!alu_result =
          Execute(c.alu_operation, Ref!operand_lhs, Ref!operand_rhs)
    BY RefExecution, Zenon DEF Ref!alu_result, c
  <2> QED BY <1>5, <1>7, <1>9, <2>1, ExecuteTyped, Zenon
<1>11. Ref!pc_plus_4 \in Word
  BY AddInWord, ConstantsAreWords, RefWords, Zenon
     DEF Ref!pc_plus_4, RefMachineOK
<1>12. /\ branch_displacement(d.imm16) \in Word
       /\ jump_displacement(d.imm26) \in Word
  BY <1>3, DisplacementTyped, SMT DEF LegalFields
<1>13. /\ Ref!Add(Ref!pc_plus_4, Ref!branch_displacement(d.imm16)) \in Word
       /\ Ref!Add(Ref!pc_plus_4, Ref!jump_displacement(d.imm26)) \in Word
  BY <1>11, <1>12, AddInWord, RefWords, RefExecution, Zenon
<1> QED BY <1>1, <1>3, <1>5, <1>10, <1>11, <1>13, SMT
        DEF RefInstructionOK, LegalFields, i, d, c

\* The ref_timer after a retirement.
LEMMA RefTimerTyped ==
  ASSUME NEW t \in [counter : Word, compare : Word, enabled : BOOLEAN]
  PROVE  Ref!RetireTick(t) \in
           [counter : Word, compare : Word, enabled : BOOLEAN]
<1>1. Ref!Add(t.counter, Ref!One) \in Word
  BY AddInWord, ConstantsAreWords, RefWords
<1> QED BY <1>1 DEF Ref!RetireTick

\* The four bytes of a word.
LEMMA RefBytesOfWord ==
  ASSUME NEW v \in Word, NEW k
  PROVE  Ref!ByteOf(v, k) \in Byte
<1>1. v.lo \in Half /\ v.hi \in Half
  BY WordHalves
<1>2. ASSUME NEW h \in Half PROVE h % 256 \in Byte /\ h \div 256 \in Byte
  BY HalfRange, SMT DEF Byte
<1> QED BY <1>1, <1>2, Zenon DEF Ref!ByteOf

\* The devices and RAM after a store.
LEMMA RefStoreTyped ==
  ASSUME RefMachineOK, NEW a \in Word, NEW v \in Word
  PROVE  /\ Ref!RamWritten(a, v) \in [Ref!RamBytes -> Byte]
         /\ Ref!TimerWritten(a, v) \in
              [counter : Word, compare : Word, enabled : BOOLEAN]
         /\ Ref!GpioWritten(a, v) \in [output : Word, direction : Word]
         /\ Ref!DebugWritten(a, v) \in Word
<1>1. ASSUME NEW k PROVE Ref!ByteOf(v, k) \in Byte
  BY RefBytesOfWord
<1>2. Ref!RamWritten(a, v) \in [Ref!RamBytes -> Byte]
  BY <1>1 DEF Ref!RamWritten, Ref!RamBytes, RefMachineOK
<1>3. Ref!TimerWritten(a, v) \in
        [counter : Word, compare : Word, enabled : BOOLEAN]
  BY DEF Ref!TimerWritten, RefMachineOK
<1>4. Ref!GpioWritten(a, v) \in [output : Word, direction : Word]
  BY DEF Ref!GpioWritten, RefMachineOK
<1>5. Ref!DebugWritten(a, v) \in Word
  BY DEF Ref!DebugWritten, RefMachineOK
<1> QED BY <1>2, <1>3, <1>4, <1>5

\* A step of the golden model keeps the types.
LEMMA RefStepTyped ==
  ASSUME RefMachineOK, Ref!Step
  PROVE  RefMachineOK'
<1> DEFINE Timers == [counter : Word, compare : Word, enabled : BOOLEAN]
           legal == Ref!DecodeError(Ref!instruction) = "None"
<1>1. ASSUME NEW code, NEW ins, NEW has, NEW address,
             Ref!enter_fault(code, ins, has, address)
      PROVE  RefMachineOK'
  BY <1>1 DEF Ref!enter_fault, RefMachineOK
<1>2. ref_timer \in Timers
  BY DEF RefMachineOK
<1>3. Ref!RetireTick(ref_timer) \in Timers
  BY <1>2, RefTimerTyped
<1>4. ASSUME NEW next \in Word, Ref!retire_to(next)
      PROVE  RefMachineOK'
  BY <1>3, <1>4 DEF Ref!retire_to, RefMachineOK
<1>5. ASSUME NEW v \in Word, NEW next \in Word, legal,
             Ref!Writeback(v, next)
      PROVE  RefMachineOK'
  <2> DEFINE destination ==
               IF Ref!control.register_destination = "ReturnAddress"
                 THEN 31 ELSE Ref!decoded.rd
  <2>1. destination \in Register
    BY <1>5, RefInstructionTyped, SMT DEF RefInstructionOK, Register
  <2> HIDE DEF destination
  <2>2. Ref!WriteRegister(destination, v) \in [Register -> Word]
    BY <2>1 DEF Ref!WriteRegister, RefMachineOK
  <2>3. ref_registers' \in [Register -> Word]
    BY <1>5, <2>2 DEF Ref!Writeback, RefMachineOK, destination
  <2>4. /\ ref_pc' = next
        /\ ref_timer' = Ref!RetireTick(ref_timer)
        /\ UNCHANGED <<image, ref_fault_info, ref_ram, ref_gpio,
                       ref_debug_value, ref_uart_log>>
    BY <1>5 DEF Ref!Writeback
  <2> QED BY <1>3, <2>3, <2>4 DEF RefMachineOK
<1>6. CASE Ref!FetchFault
  BY <1>1, <1>6, Zenon DEF Ref!FetchFault
<1>7. CASE Ref!DecodeFault
  BY <1>1, <1>7, Zenon DEF Ref!DecodeFault
<1>8. CASE Ref!LoadFault
  BY <1>1, <1>8, Zenon DEF Ref!LoadFault
<1>9. CASE Ref!StoreFault
  BY <1>1, <1>9, Zenon DEF Ref!StoreFault
<1>10. Ref!Decodes => legal /\ RefInstructionOK
  BY RefInstructionTyped, Zenon DEF Ref!Decodes
<1>11. CASE Ref!Branch
  BY <1>4, <1>10, <1>11, SMT DEF Ref!Branch, RefInstructionOK
<1>12. CASE Ref!Jump
  BY <1>4, <1>10, <1>12, SMT DEF Ref!Jump, RefInstructionOK
<1>13. CASE Ref!JumpRegister
  BY <1>4, <1>10, <1>13, SMT DEF Ref!JumpRegister, RefInstructionOK
<1>14. CASE Ref!Store
  <2>1. Ref!alu_result \in Word /\ Ref!store_data \in Word
    BY <1>10, <1>14, Zenon DEF Ref!Store, RefInstructionOK
  <2> DEFINE a == Ref!alu_result
             v == Ref!store_data
             t == Ref!TimerWritten(a, v)
  <2> HIDE DEF a, v
  <2>2. /\ Ref!RamWritten(a, v) \in [Ref!RamBytes -> Byte]
        /\ t \in Timers
        /\ Ref!GpioWritten(a, v) \in [output : Word, direction : Word]
        /\ Ref!DebugWritten(a, v) \in Word
    BY <2>1, RefStoreTyped DEF a, v
  <2> HIDE DEF t
  <2>3. Ref!RetireTick(t) \in Timers
    BY <2>2, RefTimerTyped
  <2>4. /\ ref_ram' = Ref!RamWritten(a, v)
        /\ ref_timer' = Ref!RetireTick(t)
        /\ ref_gpio' = Ref!GpioWritten(a, v)
        /\ ref_debug_value' = Ref!DebugWritten(a, v)
        /\ ref_pc' = Ref!pc_plus_4
        /\ UNCHANGED <<image, ref_registers>>
    BY <1>14, Zenon DEF Ref!Store, a, v, t
  <2>5. Ref!pc_plus_4 \in Word
    BY <1>10, <1>14, Zenon DEF Ref!Store, RefInstructionOK
  <2> QED BY <2>2, <2>3, <2>4, <2>5 DEF RefMachineOK
<1>15. CASE Ref!Load
  <2>1. PICK input \in {Zero} :
               Ref!Writeback(Ref!read32(Ref!alu_result, input),
                                Ref!pc_plus_4)
    BY <1>15, Zenon DEF Ref!Load
  <2>2. /\ Ref!alu_result \in Word /\ Ref!pc_plus_4 \in Word /\ legal
        /\ Ref!read32_fault(Ref!alu_result) = "NONE"
    BY <1>10, <1>15, Zenon DEF Ref!Load, RefInstructionOK
  <2>3. Ref!read32(Ref!alu_result, input) \in Word
    BY <2>2, RefLoadTyped
  <2> QED BY <1>5, <2>1, <2>2, <2>3, Zenon
<1>16. CASE Ref!JumpAndLink
  BY <1>5, <1>10, <1>16, Zenon DEF Ref!JumpAndLink, RefInstructionOK
<1>17. CASE Ref!Compute
  BY <1>5, <1>10, <1>17, Zenon DEF Ref!Compute, RefInstructionOK
<1> QED BY <1>6, <1>7, <1>8, <1>9, <1>11, <1>12, <1>13, <1>14, <1>15, <1>16,
           <1>17, Zenon DEF Ref!Step
(***************************************************************************)
(* What one step of the reference changes, and what its record says.       *)
(***************************************************************************)

\* A step that faults changes nothing that a record describes; one that
\* retires has a legal instruction and writes at most one register, and RAM
\* only if it is a store.
FaultingStep ==
  /\ ref_status' = "FAULT"
  /\ UNCHANGED <<image, ref_pc, ref_registers, ref_ram>>

RetiringStep ==
  /\ ref_status' \in {"RUNNING", "HALTED"}
  /\ Ref!Decodes
  /\ image' = image
  /\ \/ ref_registers' = ref_registers
     \/ \E d \in Register : \E v :
          ref_registers' = [ref_registers EXCEPT ![d] = v]
  /\ \/ Ref!control.memory_operation = "Store"
        /\ ref_ram' = Ref!RamWritten(Ref!alu_result, Ref!store_data)
     \/ Ref!control.memory_operation # "Store" /\ ref_ram' = ref_ram

LEMMA RefStepEffect ==
  ASSUME RefMachineOK, Ref!Step
  PROVE  ref_status = "RUNNING" /\ (FaultingStep \/ RetiringStep)
<1>1. ASSUME NEW code, NEW ins, NEW has, NEW address,
             Ref!enter_fault(code, ins, has, address)
      PROVE  FaultingStep
  BY <1>1 DEF Ref!enter_fault, FaultingStep
<1>2. Ref!Decodes => RefInstructionOK
  BY RefInstructionTyped DEF Ref!Decodes
<1>3. CASE Ref!FetchFault
  BY <1>1, <1>3, Zenon DEF Ref!FetchFault
<1>4. CASE Ref!DecodeFault
  BY <1>1, <1>4, Zenon DEF Ref!DecodeFault, Ref!Fetches
<1>5. CASE Ref!LoadFault
  BY <1>1, <1>5, Zenon DEF Ref!LoadFault, Ref!Decodes, Ref!Fetches
<1>6. CASE Ref!StoreFault
  BY <1>1, <1>6, Zenon DEF Ref!StoreFault, Ref!Decodes, Ref!Fetches
<1>7. Ref!Decodes => ref_status = "RUNNING"
  BY DEF Ref!Decodes, Ref!Fetches
<1>8. ASSUME Ref!Decodes, Ref!control.memory_operation # "Store",
             NEW next, Ref!retire_to(next)
      PROVE  RetiringStep
  BY <1>7, <1>8 DEF Ref!retire_to, RetiringStep
<1>9. ASSUME Ref!Decodes, Ref!control.memory_operation # "Store",
             NEW v, NEW next, Ref!Writeback(v, next)
      PROVE  RetiringStep
  <2> DEFINE destination ==
               IF Ref!control.register_destination = "ReturnAddress"
                 THEN 31 ELSE Ref!decoded.rd
  <2>1. destination \in Register
    BY <1>2, <1>9, SMT DEF RefInstructionOK, Register
  <2>2. /\ \/ ref_registers' = ref_registers
           \/ ref_registers' = Ref!WriteRegister(destination, v)
        /\ ref_status' \in {"RUNNING", "HALTED"}
        /\ image' = image
        /\ ref_ram' = ref_ram
    BY <1>9 DEF Ref!Writeback
  <2> HIDE DEF destination
  <2>3. \/ ref_registers' = ref_registers
        \/ ref_registers' = [ref_registers EXCEPT ![destination] = v]
    BY <2>2 DEF Ref!WriteRegister
  <2>4. \/ ref_registers' = ref_registers
        \/ \E d \in Register : \E x :
             ref_registers' = [ref_registers EXCEPT ![d] = x]
    BY <2>1, <2>3, Zenon
  <2> QED BY <1>9, <2>2, <2>4, Zenon DEF RetiringStep
<1>10. Ref!Decodes /\ (\/ Ref!control.control_flow # "Sequential"
                       \/ Ref!control.memory_operation # "Store") =>
         Ref!control.memory_operation # "Store"
  BY <1>2, SMT DEF RefInstructionOK, ControlColumns
<1>11. CASE Ref!Branch
  BY <1>7, <1>8, <1>10, <1>11, SMT DEF Ref!Branch
<1>12. CASE Ref!Jump
  BY <1>7, <1>8, <1>10, <1>12, SMT DEF Ref!Jump
<1>13. CASE Ref!JumpRegister
  BY <1>7, <1>8, <1>10, <1>13, SMT DEF Ref!JumpRegister
<1>14. CASE Ref!Store
  BY <1>7, <1>14, Zenon DEF Ref!Store, RetiringStep
<1>15. CASE Ref!Load
  <2>1. PICK input \in {Zero} :
               Ref!Writeback(Ref!read32(Ref!alu_result, input), Ref!pc_plus_4)
    BY <1>15, RefWords, Zenon DEF Ref!Load
  <2>2. Ref!Decodes /\ Ref!control.memory_operation # "Store"
    BY <1>15, Zenon DEF Ref!Load
  <2> QED BY <1>7, <1>9, <2>1, <2>2, Zenon
<1>16. CASE Ref!JumpAndLink
  BY <1>7, <1>9, <1>10, <1>16, SMT DEF Ref!JumpAndLink
<1>17. CASE Ref!Compute
  BY <1>7, <1>9, <1>17, SMT DEF Ref!Compute
<1> QED BY <1>3, <1>4, <1>5, <1>6, <1>11, <1>12, <1>13, <1>14, <1>15, <1>16,
           <1>17, Zenon DEF Ref!Step

\* What the second decode calls a store is what the step stores, and at the
\* address and with the value that the record gives.
LEMMA StoreSeenAgain ==
  ASSUME RefMachineOK, Ref!Decodes
  PROVE  /\ Ref!IsStore <=> Ref!control.memory_operation = "Store"
         /\ Ref!IsStore => /\ Ref!StoreAddress = Ref!alu_result
                           /\ Ref!ReadRegister(Ref!Decode(Ref!Snapshot).rs2) =
                                Ref!store_data
<1>1. RefInstructionOK
  BY RefInstructionTyped DEF Ref!Decodes
<1>2. Ref!Snapshot = Ref!instruction
  BY DEF Ref!Snapshot, Ref!Decodes, Ref!Fetches, Ref!instruction
<1>3. Ref!Decode(Ref!Snapshot) = Ref!decoded
  BY <1>2, Zenon DEF Ref!decoded
<1>4. Ref!IsStore <=> Ref!decoded.opcode = OP_SW
  BY <1>2, <1>3, RefOpcodes, Zenon DEF Ref!IsStore, Ref!Decodes
<1> DEFINE op == Ref!decoded.opcode
           c  == Ref!control
<1>5. op \in Opcodes /\ ControlColumns(op, c)
  BY <1>1, SMT DEF RefInstructionOK
<1> HIDE DEF op, c
<1>6. /\ op = OP_SW <=> c.memory_operation = "Store"
      /\ op = OP_SW => /\ c.alu_src_immediate
                       /\ c.immediate_kind = "Signed16"
                       /\ c.alu_operation = "Add"
  BY <1>5, OpcodeCases, SMT DEF ControlColumns, OP_SW
<1>7. op = OP_SW => Ref!operand_rhs =
                      Ref!immediate_value("Signed16", Ref!decoded.imm16)
  BY <1>6, Zenon DEF Ref!operand_rhs, c
<1>8. op = OP_SW => Ref!alu_result =
                      Ref!Execute("Add", Ref!operand_lhs, Ref!operand_rhs)
  BY <1>6, Zenon DEF Ref!alu_result, c
<1>9. \A a, b : Ref!Execute("Add", a, b) = Ref!Add(a, b)
  BY SMT DEF Ref!Execute
<1>10. op = OP_SW => Ref!StoreAddress = Ref!alu_result
  BY <1>3, <1>7, <1>8, <1>9, Zenon DEF Ref!StoreAddress, Ref!operand_lhs
<1>11. Ref!ReadRegister(Ref!Decode(Ref!Snapshot).rs2) = Ref!store_data
  BY <1>3, Zenon DEF Ref!store_data
<1> QED BY <1>4, <1>6, <1>10, <1>11, Zenon DEF op, c
\* The record of a step says what the step did to every register and byte.
RecordTells(r) ==
  /\ r.type = "retire"
  /\ r.index = ref_retired
  /\ r.pc = ref_pc
  /\ r.next_pc = ref_pc'
  /\ \A q \in Register :
       ref_registers'[q] = IF r.reg_write /\ r.rd = q THEN r.reg_value
                                                      ELSE ref_registers[q]
  /\ \A k \in Ref!RamBytes :
       ref_ram'[k] = IF /\ r.mem_write
                        /\ Ref!InRam(r.mem_addr)
                        /\ k \in r.mem_addr.lo .. r.mem_addr.lo + 3
                       THEN Ref!ByteOf(r.mem_value, k - r.mem_addr.lo)
                       ELSE ref_ram[k]

\* The snapshot finds the one register that changed, if any did.
LEMMA ChangedRegister ==
  ASSUME RefMachineOK, RetiringStep, Ref!ChangedRegisters # {}
  PROVE  /\ Ref!Max(Ref!ChangedRegisters) \in Register
         /\ Ref!ChangedRegisters = {Ref!Max(Ref!ChangedRegisters)}
<1>1. Ref!Register = Register
  BY RefWords
<1>2. PICK q \in Register : ref_registers'[q] # ref_registers[q]
  BY <1>1 DEF Ref!ChangedRegisters
<1>3. PICK d \in Register :
        \E v : ref_registers' = [ref_registers EXCEPT ![d] = v]
  BY <1>2 DEF RetiringStep
<1>4. Ref!ChangedRegisters = {d}
  BY <1>1, <1>2, <1>3 DEF Ref!ChangedRegisters, RefMachineOK
<1>5. d >= d
  BY SMT DEF Register
<1>6. Ref!Max({d}) = d
  <2>1. \A x : x \in {d} /\ (\A y \in {d} : x >= y) <=> x = d
    BY <1>5
  <2> QED BY <2>1 DEF Ref!Max
<1> QED BY <1>4, <1>6

LEMMA RecordIsTheStep ==
  ASSUME RefMachineOK, RetiringStep
  PROVE  RecordTells(Ref!RetireRecordOf)
<1> DEFINE r == Ref!RetireRecordOf
           changed == Ref!ChangedRegisters # {}
           d == Ref!Max(Ref!ChangedRegisters)
           store == Ref!IsStore
           a == Ref!StoreAddress
           v == Ref!ReadRegister(Ref!Decode(Ref!Snapshot).rs2)
<1>1. /\ r.type = "retire" /\ r.index = ref_retired
      /\ r.pc = ref_pc /\ r.next_pc = ref_pc'
      /\ r.reg_write = changed
      /\ changed => r.rd = d /\ r.reg_value = ref_registers'[d]
      /\ r.mem_write = store
      /\ store => r.mem_addr = a /\ r.mem_value = v
  BY DEF Ref!RetireRecordOf
<1> HIDE DEF r
<1>2. ASSUME NEW q \in Register
      PROVE  ref_registers'[q] =
               IF r.reg_write /\ r.rd = q THEN r.reg_value ELSE ref_registers[q]
  <2>1. ref_registers'[q] # ref_registers[q] <=> q \in Ref!ChangedRegisters
    BY RefWords DEF Ref!ChangedRegisters
  <2>2. CASE changed
    <3>1. Ref!ChangedRegisters = {d}
      BY <2>2, ChangedRegister
    <3> HIDE DEF d
    <3> QED BY <1>1, <2>1, <2>2, <3>1
  <2>3. CASE ~changed
    BY <1>1, <2>1, <2>3
  <2> QED BY <2>2, <2>3
<1>3. /\ store <=> Ref!control.memory_operation = "Store"
      /\ store => a = Ref!alu_result /\ v = Ref!store_data
  BY StoreSeenAgain DEF RetiringStep
<1>4. CASE store
  <2>1. ref_ram' = Ref!RamWritten(a, v)
    BY <1>3, <1>4, Zenon DEF RetiringStep
  <2> HIDE DEF a, v
  <2>2. \A k \in Ref!RamBytes :
          ref_ram'[k] = IF Ref!InRam(a) /\ k \in a.lo .. a.lo + 3
                          THEN Ref!ByteOf(v, k - a.lo) ELSE ref_ram[k]
    BY <2>1, Zenon DEF Ref!RamWritten
  <2>3. r.mem_write /\ r.mem_addr = a /\ r.mem_value = v
    BY <1>1, <1>4, Zenon DEF a, v
  <2> QED BY <1>1, <1>2, <2>2, <2>3, Zenon DEF RecordTells, r
<1>5. CASE ~store
  <2>1. ref_ram' = ref_ram
    BY <1>3, <1>5, Zenon DEF RetiringStep
  <2>2. ~r.mem_write
    BY <1>1, <1>5, Zenon
  <2> QED BY <1>1, <1>2, <2>1, <2>2, Zenon DEF RecordTells, r
<1> QED BY <1>4, <1>5
(***************************************************************************)
(* The trace of the reference: one record for each retirement, in order,   *)
(* then a final record once the machine has stopped.                       *)
(***************************************************************************)
RefCounters ==
  /\ ref_step \in Nat
  /\ ref_retired \in Nat
  /\ ref_step <= MaxInstructions
  /\ ref_status \in {"RUNNING", "HALTED", "FAULT"}
  /\ ref_step = IF ref_status = "FAULT" THEN ref_retired + 1 ELSE ref_retired

TraceShape ==
  /\ \E S : cpp_trace \in Seq(S)
  /\ ref_exit \in {-1, 0, 3}
  /\ Len(cpp_trace) = IF ref_exit = 0 THEN ref_retired + 1 ELSE ref_retired
  /\ \A i \in 1 .. ref_retired : /\ cpp_trace[i].type = "retire"
                                 /\ cpp_trace[i].index = i - 1
  /\ ref_exit = 0 => /\ cpp_trace[ref_retired + 1].type = "final"
                     /\ cpp_trace[ref_retired + 1].retired = ref_retired
                     /\ ref_status # "RUNNING"
  /\ ref_exit = 3 => ref_status = "RUNNING" /\ ref_step = MaxInstructions

ReferenceInv ==
  /\ RefMachineOK
  /\ RefCounters
  /\ TraceShape
  /\ Ref!TraceReplays

\* A sequence with one more element.
LEMMA OneMore ==
  ASSUME NEW s, \E S : s \in Seq(S), NEW e
  PROVE  /\ \E T : Append(s, e) \in Seq(T)
         /\ Len(s) \in Nat
         /\ DOMAIN s = 1 .. Len(s)
         /\ DOMAIN Append(s, e) = 1 .. Len(s) + 1
         /\ Len(Append(s, e)) = Len(s) + 1
         /\ \A i \in 1 .. Len(s) : Append(s, e)[i] = s[i]
         /\ Append(s, e)[Len(s) + 1] = e
<1>1. PICK S : s \in Seq(S)
  OBVIOUS
<1>2. s \in Seq(S \cup {e}) /\ e \in S \cup {e}
  BY <1>1
<1> QED BY <1>2

\* Which records write a register or a byte when one is added.
LEMMA WritesOfOneMore ==
  ASSUME \E S : cpp_trace \in Seq(S),
         NEW r, cpp_trace' = Append(cpp_trace, r)
  PROVE  /\ \A q : Ref!RegisterWrites(q)' =
                     Ref!RegisterWrites(q) \cup
                       IF r.type = "retire" /\ r.reg_write /\ r.rd = q
                         THEN {Len(cpp_trace) + 1} ELSE {}
         /\ \A k : Ref!RamWrites(k)' =
                     Ref!RamWrites(k) \cup
                       IF /\ r.type = "retire" /\ r.mem_write
                          /\ Ref!InRam(r.mem_addr)
                          /\ k \in r.mem_addr.lo .. r.mem_addr.lo + 3
                         THEN {Len(cpp_trace) + 1} ELSE {}
<1> DEFINE n == Len(cpp_trace)
<1>1. /\ DOMAIN cpp_trace = 1 .. n /\ n \in Nat
      /\ DOMAIN cpp_trace' = 1 .. n + 1
      /\ \A i \in 1 .. n : cpp_trace'[i] = cpp_trace[i]
      /\ cpp_trace'[n + 1] = r
  BY OneMore
<1> HIDE DEF n
<1>2. 1 .. n + 1 = (1 .. n) \cup {n + 1} /\ n + 1 \notin 1 .. n
  BY <1>1
<1>3. ASSUME NEW q
      PROVE  Ref!RegisterWrites(q)' =
               Ref!RegisterWrites(q) \cup
                 IF r.type = "retire" /\ r.reg_write /\ r.rd = q
                   THEN {n + 1} ELSE {}
  BY <1>1, <1>2 DEF Ref!RegisterWrites
<1>4. ASSUME NEW k
      PROVE  Ref!RamWrites(k)' =
               Ref!RamWrites(k) \cup
                 IF /\ r.type = "retire" /\ r.mem_write
                    /\ Ref!InRam(r.mem_addr)
                    /\ k \in r.mem_addr.lo .. r.mem_addr.lo + 3
                   THEN {n + 1} ELSE {}
  <2> DEFINE P(x) == /\ x.type = "retire"
                     /\ x.mem_write
                     /\ Ref!InRam(x.mem_addr)
                     /\ k \in x.mem_addr.lo .. x.mem_addr.lo + 3
  <2>1. Ref!RamWrites(k) = {i \in 1 .. n : P(cpp_trace[i])}
    BY <1>1, Zenon DEF Ref!RamWrites
  <2>2. Ref!RamWrites(k)' = {i \in 1 .. n + 1 : P(cpp_trace'[i])}
    BY <1>1, Zenon DEF Ref!RamWrites, Ref!InRam, Ref!InWindow, Ref!RAM_BASE,
       Ref!RAM_LAST
  <2> HIDE DEF P
  <2>3. Ref!RamWrites(k)' =
          {i \in 1 .. n : P(cpp_trace[i])} \cup IF P(r) THEN {n + 1} ELSE {}
    BY <1>1, <1>2, <2>2
  <2> QED BY <2>1, <2>3 DEF P
<1> QED BY <1>3, <1>4 DEF n

\* Every record writes before the end of the trace.
LEMMA WritesInTrace ==
  ASSUME \E S : cpp_trace \in Seq(S)
  PROVE  \A q : /\ Ref!RegisterWrites(q) \subseteq 1 .. Len(cpp_trace)
                /\ Ref!RamWrites(q) \subseteq 1 .. Len(cpp_trace)
BY OneMore DEF Ref!RegisterWrites, Ref!RamWrites
\* A retirement's record is the last write of what the step wrote.
LEMMA RetirementReplays ==
  ASSUME RefMachineOK, TraceShape, RefCounters, Ref!TraceReplays,
         ref_exit = -1, RetiringStep, ref_retired' = ref_retired + 1,
         cpp_trace' = Append(cpp_trace, Ref!RetireRecordOf)
  PROVE  Ref!TraceReplays'
<1> DEFINE r == Ref!RetireRecordOf
           n == Len(cpp_trace)
           regs(q) == Ref!RegisterWrites(q)
           bytes(k) == Ref!RamWrites(k)
<1>1. RecordTells(r)
  BY RecordIsTheStep
<1>2. cpp_trace' = Append(cpp_trace, r) /\ \E S : cpp_trace \in Seq(S)
  BY DEF TraceShape
<1> HIDE DEF r
<1>3. /\ n \in Nat /\ DOMAIN cpp_trace = 1 .. n
      /\ DOMAIN cpp_trace' = 1 .. n + 1
      /\ \A i \in 1 .. n : cpp_trace'[i] = cpp_trace[i]
      /\ cpp_trace'[n + 1] = r
  BY <1>2, OneMore
<1>4. n = ref_retired
  BY DEF TraceShape
<1>5. ASSUME NEW q \in Register
      PROVE  \/ regs(q)' = {} /\ ref_registers'[q] = Zero
             \/ \E i \in regs(q)' : /\ Ref!LastOf(regs(q), i)'
                                    /\ ref_registers'[q] = cpp_trace'[i].reg_value
  <2>1. regs(q)' = regs(q) \cup IF r.reg_write /\ r.rd = q THEN {n + 1} ELSE {}
    BY <1>1, <1>2, WritesOfOneMore, Zenon DEF RecordTells
  <2>2. regs(q) \subseteq 1 .. n
    BY <1>2, WritesInTrace, Zenon
  <2>3. \/ regs(q) = {} /\ ref_registers[q] = Zero
        \/ \E i \in regs(q) : /\ \A j \in regs(q) : j <= i
                              /\ ref_registers[q] = cpp_trace[i].reg_value
    BY RefWords, Zenon DEF Ref!TraceReplays, Ref!RegistersReplay, Ref!LastOf
  <2>4. ref_registers'[q] = IF r.reg_write /\ r.rd = q THEN r.reg_value
                                                      ELSE ref_registers[q]
    BY <1>1, Zenon DEF RecordTells
  <2> HIDE DEF n, regs
  <2> QED BY <1>3, <2>1, <2>2, <2>3, <2>4 DEF Ref!LastOf
<1>6. ASSUME NEW k \in Ref!RamBytes
      PROVE  \/ bytes(k)' = {} /\ ref_ram'[k] = 0
             \/ \E i \in bytes(k)' :
                  /\ Ref!LastOf(bytes(k), i)'
                  /\ ref_ram'[k] = Ref!ByteOf(cpp_trace'[i].mem_value,
                                       k - cpp_trace'[i].mem_addr.lo)
  <2> DEFINE hit == /\ r.mem_write
                    /\ Ref!InRam(r.mem_addr)
                    /\ k \in r.mem_addr.lo .. r.mem_addr.lo + 3
             said(x) == Ref!ByteOf(x.mem_value, k - x.mem_addr.lo)
  <2>1. bytes(k)' = bytes(k) \cup IF hit THEN {n + 1} ELSE {}
    BY <1>1, <1>2, WritesOfOneMore, Zenon DEF RecordTells
  <2>2. bytes(k) \subseteq 1 .. n
    BY <1>2, WritesInTrace, Zenon
  <2>3. \/ bytes(k) = {} /\ ref_ram[k] = 0
        \/ \E i \in bytes(k) : /\ \A j \in bytes(k) : j <= i
                               /\ ref_ram[k] = said(cpp_trace[i])
    BY Zenon DEF Ref!TraceReplays, Ref!RamReplays, Ref!LastOf
  <2>4. ref_ram'[k] = IF hit THEN said(r) ELSE ref_ram[k]
    BY <1>1, Zenon DEF RecordTells
  <2> HIDE DEF n, bytes, hit, said
  <2>5. \/ bytes(k)' = {} /\ ref_ram'[k] = 0
        \/ \E i \in bytes(k)' : /\ \A j \in bytes(k)' : j <= i
                                /\ ref_ram'[k] = said(cpp_trace'[i])
    BY <1>3, <2>1, <2>2, <2>3, <2>4
  <2> QED BY <2>5, Zenon DEF Ref!LastOf, said
<1>7. ASSUME NEW i \in DOMAIN cpp_trace', cpp_trace'[i].type = "retire"
      PROVE  /\ cpp_trace'[i].pc =
                  IF i = 1 THEN Zero ELSE cpp_trace'[i - 1].next_pc
             /\ i = ref_retired' => cpp_trace'[i].next_pc = ref_pc'
  <2>1. \A j \in 1 .. n : cpp_trace[j].type = "retire"
    BY <1>4 DEF TraceShape
  <2>2. \A j \in 1 .. n :
          /\ cpp_trace[j].pc = IF j = 1 THEN Zero ELSE cpp_trace[j - 1].next_pc
          /\ j = n => cpp_trace[j].next_pc = ref_pc
    BY <1>3, <1>4, <2>1, RefWords, Zenon DEF Ref!TraceReplays, Ref!PcsChain
  <2>3. r.pc = ref_pc /\ r.next_pc = ref_pc'
    BY <1>1 DEF RecordTells
  <2>4. n = 0 => ref_pc = Zero
    BY <1>4, RefWords, Zenon DEF Ref!TraceReplays, Ref!PcsChain
  <2> QED BY <1>3, <1>4, <2>2, <2>3, <2>4
<1>8. Ref!RegistersReplay'
  BY <1>5, RefWords, Zenon DEF Ref!RegistersReplay
<1>9. Ref!RamReplays'
  BY <1>6, Zenon DEF Ref!RamReplays, Ref!RamBytes
<1>10. Ref!PcsChain'
  <2>1. ref_retired' # 0
    BY DEF RefCounters
  <2> QED BY <1>7, <2>1, RefWords, Zenon DEF Ref!PcsChain
<1> QED BY <1>8, <1>9, <1>10, Zenon DEF Ref!TraceReplays
\* What the records say, and what they describe, in one tuple.
describedState == <<image, ref_pc, ref_registers, ref_ram, ref_retired,
                    cpp_trace>>

LEMMA ReplayKept ==
  ASSUME Ref!TraceReplays, UNCHANGED describedState
  PROVE  Ref!TraceReplays'
<1>1. UNCHANGED <<ref_pc, ref_registers, ref_ram, ref_retired, cpp_trace>>
  BY DEF describedState
<1>2. \A q : /\ Ref!RegisterWrites(q)' = Ref!RegisterWrites(q)
             /\ Ref!RamWrites(q)' = Ref!RamWrites(q)
  BY <1>1 DEF Ref!RegisterWrites, Ref!RamWrites
<1>3. Ref!RegistersReplay'
  BY <1>1, <1>2, Zenon DEF Ref!TraceReplays, Ref!RegistersReplay, Ref!LastOf
<1>4. Ref!RamReplays'
  BY <1>1, <1>2, Zenon DEF Ref!TraceReplays, Ref!RamReplays, Ref!LastOf
<1>5. Ref!PcsChain'
  BY <1>1, Zenon DEF Ref!TraceReplays, Ref!PcsChain
<1> QED BY <1>3, <1>4, <1>5, Zenon DEF Ref!TraceReplays

\* The final record writes nothing.
LEMMA FinishReplays ==
  ASSUME Ref!TraceReplays, TraceShape, RefCounters, ref_exit = -1, Ref!Finish
  PROVE  Ref!TraceReplays'
<1> DEFINE r == Ref!FinalRecord
           n == Len(cpp_trace)
<1>1. /\ UNCHANGED <<ref_pc, ref_registers, ref_ram, ref_retired>>
      /\ cpp_trace' = Append(cpp_trace, r)
      /\ r.type = "final"
      /\ \E S : cpp_trace \in Seq(S)
      /\ n = ref_retired
  BY DEF Ref!Finish, Ref!vars, Ref!FinalRecord, TraceShape
<1> HIDE DEF r
<1>2. \A q : /\ Ref!RegisterWrites(q)' = Ref!RegisterWrites(q)
             /\ Ref!RamWrites(q)' = Ref!RamWrites(q)
  <2>1. "final" # "retire"
    OBVIOUS
  <2>2. \A q : Ref!RegisterWrites(q)' = Ref!RegisterWrites(q) \cup {}
    BY <1>1, <2>1, WritesOfOneMore, Zenon
  <2>3. \A q : Ref!RamWrites(q)' = Ref!RamWrites(q) \cup {}
    BY <1>1, <2>1, WritesOfOneMore, Zenon
  <2>4. \A x : x \cup {} = x
    OBVIOUS
  <2> QED BY <2>2, <2>3, <2>4, Zenon
<1>3. /\ n \in Nat
      /\ DOMAIN cpp_trace = 1 .. n
      /\ DOMAIN cpp_trace' = 1 .. n + 1
      /\ \A i \in 1 .. n : cpp_trace'[i] = cpp_trace[i]
      /\ cpp_trace'[n + 1] = r
      /\ \A q : /\ Ref!RegisterWrites(q) \subseteq 1 .. n
                /\ Ref!RamWrites(q) \subseteq 1 .. n
  BY <1>1, OneMore, WritesInTrace
<1> HIDE DEF n
<1>4. Ref!RegistersReplay'
  <2> SUFFICES ASSUME NEW q \in Register
               PROVE  \/ Ref!RegisterWrites(q)' = {} /\ ref_registers'[q] = Zero
                      \/ \E i \in Ref!RegisterWrites(q)' :
                           /\ Ref!LastOf(Ref!RegisterWrites(q), i)'
                           /\ ref_registers'[q] = cpp_trace'[i].reg_value
    BY RefWords, Zenon DEF Ref!RegistersReplay
  <2>1. \/ Ref!RegisterWrites(q) = {} /\ ref_registers[q] = Zero
        \/ \E i \in Ref!RegisterWrites(q) :
             /\ \A j \in Ref!RegisterWrites(q) : j <= i
             /\ ref_registers[q] = cpp_trace[i].reg_value
    BY RefWords, Zenon DEF Ref!TraceReplays, Ref!RegistersReplay, Ref!LastOf
  <2>2. \A i \in Ref!RegisterWrites(q) : cpp_trace'[i] = cpp_trace[i]
    BY <1>3, Zenon
  <2> QED BY <1>1, <1>2, <2>1, <2>2, Zenon DEF Ref!LastOf
<1>5. Ref!RamReplays'
  <2> SUFFICES ASSUME NEW k \in Ref!RamBytes
               PROVE  \/ Ref!RamWrites(k)' = {} /\ ref_ram'[k] = 0
                      \/ \E i \in Ref!RamWrites(k)' :
                           /\ Ref!LastOf(Ref!RamWrites(k), i)'
                           /\ ref_ram'[k] =
                                Ref!ByteOf(cpp_trace'[i].mem_value,
                                           k - cpp_trace'[i].mem_addr.lo)
    BY Zenon DEF Ref!RamReplays, Ref!RamBytes
  <2>1. \/ Ref!RamWrites(k) = {} /\ ref_ram[k] = 0
        \/ \E i \in Ref!RamWrites(k) :
             /\ \A j \in Ref!RamWrites(k) : j <= i
             /\ ref_ram[k] = Ref!ByteOf(cpp_trace[i].mem_value,
                                        k - cpp_trace[i].mem_addr.lo)
    BY Zenon DEF Ref!TraceReplays, Ref!RamReplays, Ref!LastOf
  <2>2. \A i \in Ref!RamWrites(k) : cpp_trace'[i] = cpp_trace[i]
    BY <1>3, Zenon
  <2> QED BY <1>1, <1>2, <2>1, <2>2, Zenon DEF Ref!LastOf
<1>6. Ref!PcsChain'
  <2> SUFFICES ASSUME NEW i \in DOMAIN cpp_trace', cpp_trace'[i].type = "retire"
               PROVE  /\ cpp_trace'[i].pc =
                           IF i = 1 THEN Zero ELSE cpp_trace'[i - 1].next_pc
                      /\ i = ref_retired' => cpp_trace'[i].next_pc = ref_pc'
    BY <1>1, RefWords, Zenon DEF Ref!PcsChain, Ref!TraceReplays
  <2>1. i \in 1 .. n /\ cpp_trace[i] = cpp_trace'[i]
    BY <1>1, <1>3
  <2>2. /\ cpp_trace[i].pc = IF i = 1 THEN Zero ELSE cpp_trace[i - 1].next_pc
        /\ i = ref_retired => cpp_trace[i].next_pc = ref_pc
    BY <1>3, <2>1, RefWords, Zenon DEF Ref!TraceReplays, Ref!PcsChain
  <2>3. i # 1 => cpp_trace'[i - 1] = cpp_trace[i - 1]
    BY <1>3, <2>1
  <2> QED BY <1>1, <2>1, <2>2, <2>3, Zenon
<1> QED BY <1>4, <1>5, <1>6, Zenon DEF Ref!TraceReplays

\* Counters and shape of the trace after a step of the reference.
LEMMA IterateShape ==
  ASSUME ReferenceInv, Ref!Iterate
  PROVE  ReferenceInv'
<1>1. /\ ref_exit = -1 /\ ref_exit' = -1
      /\ ref_step < MaxInstructions /\ ref_step' = ref_step + 1
      /\ Ref!Step
      /\ \/ /\ ref_status' = "FAULT"
            /\ UNCHANGED <<ref_retired, cpp_trace>>
         \/ /\ ref_status' # "FAULT"
            /\ ref_retired' = ref_retired + 1
            /\ cpp_trace' = Append(cpp_trace, Ref!RetireRecordOf)
  BY DEF Ref!Iterate
<1>2. RefMachineOK'
  BY <1>1, RefStepTyped DEF ReferenceInv
<1>3. ref_status = "RUNNING" /\ (FaultingStep \/ RetiringStep)
  BY <1>1, RefStepEffect DEF ReferenceInv
<1>4. CASE FaultingStep
  <2>1. UNCHANGED <<image, ref_pc, ref_registers, ref_ram, ref_retired,
                    cpp_trace>> /\ ref_status' = "FAULT"
    BY <1>1, <1>4 DEF FaultingStep
  <2>2. Ref!TraceReplays'
    BY <2>1, ReplayKept DEF ReferenceInv, describedState
  <2>3. RefCounters'
    BY <1>1, <1>3, <2>1, LimitIsNat DEF ReferenceInv, RefCounters
  <2>4. TraceShape'
    BY <1>1, <2>1 DEF ReferenceInv, TraceShape
  <2> QED BY <1>2, <2>2, <2>3, <2>4 DEF ReferenceInv
<1>5. CASE RetiringStep
  <2> DEFINE r == Ref!RetireRecordOf
  <2>1. /\ ref_status' \in {"RUNNING", "HALTED"}
        /\ ref_retired' = ref_retired + 1
        /\ cpp_trace' = Append(cpp_trace, r)
    BY <1>1, <1>5 DEF RetiringStep
  <2>2. Ref!TraceReplays'
    BY <1>1, <1>5, <2>1, RetirementReplays DEF ReferenceInv
  <2>3. RefCounters'
    BY <1>1, <1>3, <2>1, LimitIsNat DEF ReferenceInv, RefCounters
  <2>4. r.type = "retire" /\ r.index = ref_retired
    BY <1>5, RecordIsTheStep DEF ReferenceInv, RecordTells
  <2> HIDE DEF r
  <2>5. /\ \E S : cpp_trace' \in Seq(S)
        /\ Len(cpp_trace) = ref_retired /\ ref_retired \in Nat
        /\ Len(cpp_trace') = ref_retired + 1
        /\ \A i \in 1 .. ref_retired : cpp_trace'[i] = cpp_trace[i]
        /\ cpp_trace'[ref_retired + 1] = r
    <3>1. /\ \E S : cpp_trace \in Seq(S)
          /\ Len(cpp_trace) = ref_retired /\ ref_retired \in Nat
      BY <1>1 DEF ReferenceInv, TraceShape, RefCounters
    <3>2. \E S : Append(cpp_trace, r) \in Seq(S)
      BY <3>1, OneMore, Zenon
    <3>3. \E S : cpp_trace' \in Seq(S)
      BY <2>1, <3>2, Zenon
    <3>4. /\ Len(cpp_trace') = ref_retired + 1
          /\ \A i \in 1 .. ref_retired : cpp_trace'[i] = cpp_trace[i]
          /\ cpp_trace'[ref_retired + 1] = r
      BY <2>1, <3>1, OneMore
    <3> QED BY <3>1, <3>3, <3>4
  <2>6. \A i \in 1 .. ref_retired' : /\ cpp_trace'[i].type = "retire"
                                     /\ cpp_trace'[i].index = i - 1
    BY <2>1, <2>4, <2>5 DEF ReferenceInv, TraceShape
  <2>7. TraceShape'
    BY <1>1, <2>1, <2>5, <2>6 DEF TraceShape
  <2> QED BY <1>2, <2>2, <2>3, <2>7 DEF ReferenceInv
<1> QED BY <1>3, <1>4, <1>5
LEMMA FinishShape ==
  ASSUME ReferenceInv, Ref!Finish
  PROVE  ReferenceInv'
<1> DEFINE r == Ref!FinalRecord
<1>1. /\ ref_exit = -1 /\ ref_exit' = 0
      /\ ref_status # "RUNNING"
      /\ cpp_trace' = Append(cpp_trace, r)
      /\ UNCHANGED <<image, ref_pc, ref_registers, ref_status, ref_ram,
                     ref_timer, ref_gpio, ref_debug_value, ref_step,
                     ref_retired>>
  BY DEF Ref!Finish, Ref!vars
<1>2. r.type = "final" /\ r.retired = ref_retired
  BY DEF Ref!FinalRecord
<1>3. Ref!TraceReplays'
  BY <1>1, FinishReplays DEF ReferenceInv
<1> HIDE DEF r
<1>4. RefMachineOK' /\ RefCounters'
  BY <1>1 DEF ReferenceInv, RefMachineOK, RefCounters
<1>5. /\ \E S : cpp_trace \in Seq(S)
      /\ Len(cpp_trace) = ref_retired /\ ref_retired \in Nat
  BY <1>1 DEF ReferenceInv, TraceShape, RefCounters
<1>6. /\ \E S : cpp_trace' \in Seq(S)
      /\ Len(cpp_trace') = ref_retired + 1
      /\ \A i \in 1 .. ref_retired : cpp_trace'[i] = cpp_trace[i]
      /\ cpp_trace'[ref_retired + 1] = r
  <2>1. \E S : Append(cpp_trace, r) \in Seq(S)
    BY <1>5, OneMore, Zenon
  <2>2. \E S : cpp_trace' \in Seq(S)
    BY <1>1, <2>1, Zenon
  <2>3. /\ Len(cpp_trace') = ref_retired + 1
        /\ \A i \in 1 .. ref_retired : cpp_trace'[i] = cpp_trace[i]
        /\ cpp_trace'[ref_retired + 1] = r
    BY <1>1, <1>5, OneMore
  <2> QED BY <2>2, <2>3
<1>7. TraceShape'
  BY <1>1, <1>2, <1>6 DEF ReferenceInv, TraceShape
<1> QED BY <1>3, <1>4, <1>7 DEF ReferenceInv

LEMMA LimitShape ==
  ASSUME ReferenceInv, Ref!LimitExit
  PROVE  ReferenceInv'
<1>1. /\ ref_exit = -1 /\ ref_exit' = 3
      /\ ref_status = "RUNNING"
      /\ ref_step >= MaxInstructions
      /\ UNCHANGED <<image, ref_pc, ref_registers, ref_status, ref_ram,
                     ref_timer, ref_gpio, ref_debug_value, ref_step,
                     ref_retired, cpp_trace>>
  BY DEF Ref!LimitExit, Ref!vars
<1>2. Ref!TraceReplays'
  BY <1>1, ReplayKept DEF ReferenceInv, describedState
<1>3. RefMachineOK' /\ RefCounters'
  BY <1>1 DEF ReferenceInv, RefMachineOK, RefCounters
<1>4. TraceShape'
  BY <1>1, LimitIsNat DEF ReferenceInv, RefCounters, TraceShape
<1> QED BY <1>2, <1>3, <1>4 DEF ReferenceInv

\* The RTL side of the case and the verdict leave the reference alone.
LEMMA ReferenceKept ==
  ASSUME ReferenceInv, UNCHANGED <<image, refState>>
  PROVE  ReferenceInv'
<1>1. Ref!TraceReplays'
  BY ReplayKept DEF ReferenceInv, describedState, refState
<1>2. RefMachineOK' /\ RefCounters' /\ TraceShape'
  BY DEF ReferenceInv, RefMachineOK, RefCounters, TraceShape, refState
<1> QED BY <1>1, <1>2 DEF ReferenceInv

\* Whatever the RTL does, the program stays.
LEMMA ImageKept ==
  /\ RunEdge => image' = image
  /\ ResetEdge => image' = image
  /\ UNCHANGED vars => image' = image
BY Zenon DEF RunEdge, ResetEdge, BusEdge, BusReset, MemoryEdge, vars, busVars,
   memoryVars

LEMMA ReferenceInvStep ==
  ASSUME ReferenceInv, [DiffNext]_allVars
  PROVE  ReferenceInv'
<1>1. CASE ReferenceStep
  <2>1. Ref!RefNext
    BY <1>1 DEF ReferenceStep
  <2> QED BY <2>1, IterateShape, FinishShape, LimitShape, Zenon
          DEF Ref!RefNext
<1>2. CASE RtlReset \/ RtlEdge \/ Judge \/ Judged \/ UNCHANGED allVars
  <2>1. UNCHANGED <<image, refState>>
    BY <1>2, ImageKept, Zenon DEF RtlReset, RtlEdge, Judge, Judged, allVars
  <2> QED BY <2>1, ReferenceKept
<1> QED BY <1>1, <1>2 DEF DiffNext

LEMMA ReferenceInvInit == DiffInit => ReferenceInv
<1> SUFFICES ASSUME DiffInit PROVE ReferenceInv
  OBVIOUS
<1>1. /\ image \in Images
      /\ ref_pc = Zero
      /\ ref_registers = [r \in Register |-> Zero]
      /\ ref_status = "RUNNING"
      /\ \E words \in [0 .. RAM_WORD_COUNT - 1 -> {Zero}] :
           ref_ram = [k \in Ref!RamBytes |-> Ref!ByteOf(words[k \div 4], k % 4)]
      /\ ref_timer = [counter |-> Zero, compare |-> Zero, enabled |-> FALSE]
      /\ ref_gpio = [output |-> Zero, direction |-> Zero]
      /\ ref_debug_value = Zero
      /\ ref_step = 0 /\ ref_retired = 0 /\ cpp_trace = <<>> /\ ref_exit = -1
  BY RefWords DEF DiffInit, Ref!RefInit, Ref!Init, Ref!TimerOff, Ref!GpioOff
<1>2. \A k : Ref!ByteOf(Zero, k) = 0
  BY SMT DEF Ref!ByteOf, Zero, W
<1>3. ref_ram = [k \in Ref!RamBytes |-> 0]
  <2>1. PICK words \in [0 .. RAM_WORD_COUNT - 1 -> {Zero}] :
          ref_ram = [k \in Ref!RamBytes |-> Ref!ByteOf(words[k \div 4], k % 4)]
    BY <1>1, Zenon
  <2>2. \A k \in Ref!RamBytes : k \div 4 \in 0 .. RAM_WORD_COUNT - 1
    BY MemorySizes, SMT DEF Ref!RamBytes
  <2>3. \A k \in Ref!RamBytes : words[k \div 4] = Zero
    BY <2>2, Zenon
  <2>4. \A k \in Ref!RamBytes : Ref!ByteOf(words[k \div 4], k % 4) = 0
    BY <1>2, <2>3, Zenon
  <2> QED BY <2>1, <2>4, Zenon
<1>4. RefMachineOK
  <2>1. Zero \in Word /\ 0 \in Byte
    BY ConstantsAreWords DEF Byte
  <2> QED BY <1>1, <1>3, <2>1, ImagesFit DEF RefMachineOK
<1>5. RefCounters
  BY <1>1, LimitIsNat DEF RefCounters
<1>6. TraceShape
  <2>1. cpp_trace \in Seq({}) /\ Len(cpp_trace) = 0
    BY <1>1
  <2> QED BY <1>1, <2>1 DEF TraceShape
<1>7. Ref!TraceReplays
  <2>1. \A q : Ref!RegisterWrites(q) = {} /\ Ref!RamWrites(q) = {}
    BY <1>1 DEF Ref!RegisterWrites, Ref!RamWrites
  <2> QED BY <1>1, <1>3, <2>1, RefWords DEF Ref!TraceReplays,
             Ref!RegistersReplay, Ref!RamReplays, Ref!PcsChain
<1> QED BY <1>4, <1>5, <1>6, <1>7 DEF ReferenceInv

LEMMA ReferenceInvariant == DiffSpec => []ReferenceInv
<1>1. ReferenceInv /\ [DiffNext]_allVars => ReferenceInv'
  BY ReferenceInvStep
<1> QED BY <1>1, ReferenceInvInit, PTL DEF DiffSpec

\* The records of ref_trace.cpp determine the machine that was stepped, for
\* every program image, limit and memory size (ref_trace.cpp 125-162).
THEOREM RecordsRebuildTheMachine == DiffSpec => []ReferenceReplays
<1>1. ReferenceInv => ReferenceReplays
  BY DEF ReferenceInv, ReferenceReplays
<1> QED BY <1>1, ReferenceInvariant, PTL

\* ... and its exit code tells whether the trace is complete: 0 after the
\* final record of a stopped machine, 3 at the limit with none
\* (ref_trace.cpp 164-185).
THEOREM ExitCodeMeansComplete == DiffSpec => []ReferenceIsComplete
<1>1. ReferenceInv => ReferenceIsComplete
  <2> SUFFICES ASSUME ReferenceInv PROVE Ref!ExitZeroMeansComplete
    BY DEF ReferenceIsComplete
  <2> DEFINE n == Len(cpp_trace)
  <2>1. /\ DOMAIN cpp_trace = 1 .. n /\ n \in Nat
        /\ ref_retired \in Nat /\ ref_exit \in {-1, 0, 3}
    BY OneMore DEF ReferenceInv, TraceShape, RefCounters
  <2>2. CASE ref_exit = 0
    <3>1. /\ n = ref_retired + 1
          /\ \A i \in 1 .. ref_retired : /\ cpp_trace[i].type = "retire"
                                         /\ cpp_trace[i].index = i - 1
          /\ cpp_trace[n].type = "final"
          /\ cpp_trace[n].retired = ref_retired
          /\ ref_status # "RUNNING"
      BY <2>2 DEF ReferenceInv, TraceShape
    <3> HIDE DEF n
    <3>2. Ref!Last(cpp_trace) = cpp_trace[n] /\ cpp_trace # <<>>
      BY <2>1, <3>1 DEF Ref!Last, n
    <3>3. Ref!parse_trace(cpp_trace)
      BY <2>1, <3>1, <3>2 DEF Ref!parse_trace, n
    <3> QED BY <2>1, <2>2, <3>1, <3>3 DEF Ref!ExitZeroMeansComplete
  <2>3. CASE ref_exit # 0
    <3>1. \A i \in DOMAIN cpp_trace : cpp_trace[i].type = "retire"
      BY <2>1, <2>3 DEF ReferenceInv, TraceShape
    <3>2. ref_exit = 3 => ref_status = "RUNNING" /\ ref_retired = MaxInstructions
      BY DEF ReferenceInv, TraceShape, RefCounters
    <3> QED BY <2>3, <3>1, <3>2 DEF Ref!ExitZeroMeansComplete
  <2> QED BY <2>2, <2>3
<1> QED BY <1>1, ReferenceInvariant, PTL
(***************************************************************************)
(* A pass does not survive a change of the RTL trace.                      *)
(***************************************************************************)
RetireFields == {"type", "index", "pc", "instruction", "next_pc", "reg_write",
                 "rd", "reg_value", "mem_write", "mem_addr", "mem_value"}

FinalFields == {"type", "status", "pc", "retired", "uart_tx", "debug_value",
                "gpio_output", "gpio_direction", "timer_counter",
                "timer_compare", "timer_control", "fault", "fault_pc",
                "fault_instruction", "fault_address_valid", "fault_address"}

\* The records of the testbench, by their fields.
RtlRecords ==
  /\ \E S : rtl_trace \in Seq(S)
  /\ \A i \in DOMAIN rtl_trace :
       \/ rtl_trace[i].type = "retire" /\ DOMAIN rtl_trace[i] = RetireFields
       \/ rtl_trace[i].type = "final" /\ DOMAIN rtl_trace[i] = FinalFields

Passed ==
  /\ ref_exit = 0
  /\ tb_exit = 0
  /\ parse_trace(cpp_trace)
  /\ parse_trace(rtl_trace)
  /\ compare_traces(cpp_trace, rtl_trace)

VerdictInv ==
  /\ tb_exit \in {-1, 0, 1}
  /\ tb_exit # -1 => ref_exit = 0
  /\ verdict = "pass" => Passed

PassInv == ReferenceInv /\ RtlRecords /\ VerdictInv

\* The elements of a concatenation are those of its parts.
LEMMA ConcatElements ==
  ASSUME NEW T, NEW s \in Seq(T), NEW t \in Seq(T), NEW i \in DOMAIN (s \o t)
  PROVE  \/ \E j \in DOMAIN s : (s \o t)[i] = s[j]
         \/ \E j \in DOMAIN t : (s \o t)[i] = t[j]
<1>1. /\ DOMAIN s = 1 .. Len(s) /\ Len(s) \in Nat
      /\ DOMAIN t = 1 .. Len(t) /\ Len(t) \in Nat
      /\ DOMAIN (s \o t) = 1 .. Len(s) + Len(t)
  OBVIOUS
<1>2. CASE i <= Len(s)
  <2>1. i \in DOMAIN s /\ (s \o t)[i] = s[i]
    BY <1>1, <1>2
  <2> QED BY <2>1
<1>3. CASE i > Len(s)
  <2>1. i - Len(s) \in DOMAIN t /\ (s \o t)[i] = t[i - Len(s)]
    BY <1>1, <1>3
  <2> QED BY <2>1
<1> QED BY <1>1, <1>2, <1>3

\* What the testbench prints at an edge.
LEMMA PrintedRecords ==
  ASSUME RtlRecords, rtl_trace' = rtl_trace \o Printed
  PROVE  RtlRecords'
<1> DEFINE Kind(x) == \/ x.type = "retire" /\ DOMAIN x = RetireFields
                      \/ x.type = "final" /\ DOMAIN x = FinalFields
<1>1. Kind(TraceRecord)
  BY DEF TraceRecord, RetireFields
<1>2. Kind(TraceFinal)
  BY DEF TraceFinal, FinalFields
<1>3. PICK S : rtl_trace \in Seq(S)
  BY DEF RtlRecords
<1>4. \A i \in DOMAIN rtl_trace : Kind(rtl_trace[i])
  BY DEF RtlRecords
<1> DEFINE a == TraceRecord
           b == TraceFinal
           T == S \cup {a, b}
           p == IF retire.valid THEN <<a>> ELSE <<>>
           q == IF PrintFinal THEN <<b>> ELSE <<>>
<1>5. Kind(a) /\ Kind(b) /\ rtl_trace' = rtl_trace \o (p \o q)
  BY <1>1, <1>2 DEF Printed
<1> HIDE DEF Kind, a, b
<1>6. rtl_trace \in Seq(T) /\ p \in Seq(T) /\ q \in Seq(T)
  <2>1. S \subseteq T /\ a \in T /\ b \in T
    OBVIOUS
  <2> HIDE DEF T
  <2>2. rtl_trace \in Seq(T)
    BY <1>3, <2>1
  <2>3. <<>> \in Seq(T) /\ <<a>> \in Seq(T) /\ <<b>> \in Seq(T)
    BY <2>1
  <2> QED BY <2>2, <2>3, Zenon
<1>7. /\ \A i \in DOMAIN p : Kind(p[i])
      /\ \A i \in DOMAIN q : Kind(q[i])
  BY <1>5
<1> HIDE DEF T, p, q
<1>8. p \o q \in Seq(T)
  BY <1>6
<1>9. \A i \in DOMAIN (p \o q) : Kind((p \o q)[i])
  BY <1>6, <1>7, ConcatElements
<1>10. rtl_trace' \in Seq(T)
  BY <1>5, <1>6, <1>8
<1>11. \A i \in DOMAIN rtl_trace' : Kind(rtl_trace'[i])
  BY <1>4, <1>5, <1>6, <1>8, <1>9, ConcatElements
<1> QED BY <1>10, <1>11, Zenon DEF RtlRecords, Kind

\* The verdict is pass only after both programs ended well, and both traces
\* then stay what they are.
LEMMA VerdictStep ==
  ASSUME ReferenceInv, VerdictInv, [DiffNext]_allVars
  PROVE  VerdictInv'
<1>1. ref_exit \in {-1, 0, 3}
  BY DEF ReferenceInv, TraceShape
<1>2. CASE ReferenceStep
  <2>1. verdict = "none" /\ UNCHANGED <<tbState, verdict>> /\ Ref!RefNext
    BY <1>2 DEF ReferenceStep
  <2>2. ref_exit = -1
    BY <2>1, Zenon DEF Ref!RefNext, Ref!Iterate, Ref!Finish, Ref!LimitExit
  <2> QED BY <2>1, <2>2 DEF VerdictInv, tbState
<1>3. CASE RtlReset
  BY <1>3, Zenon DEF RtlReset, VerdictInv, Passed, refState, tbState
<1>4. CASE RtlEdge
  <2>1. ref_exit = 0 /\ tb_exit = -1 /\ UNCHANGED <<refState, verdict>>
    BY <1>4 DEF RtlEdge
  <2>2. tb_exit' \in {-1, 0, 1}
    BY <1>4 DEF RtlEdge, SimulationEnd
  <2>3. verdict # "pass"
    BY <2>1 DEF VerdictInv, Passed
  <2> QED BY <2>1, <2>2, <2>3 DEF VerdictInv, refState
<1>5. CASE Judge
  <2>1. UNCHANGED <<refState, tbState>>
    BY <1>5, Zenon DEF Judge
  <2>2. verdict' = "pass" => Passed
    <3> DEFINE both == parse_trace(cpp_trace) /\ parse_trace(rtl_trace)
               same == compare_traces(cpp_trace, rtl_trace)
    <3>1. /\ ref_exit > 0 \/ tb_exit >= 0
          /\ verdict' =
               CASE ref_exit > 0 \/ tb_exit > 0 -> "failed"
                 [] ref_exit = 0 /\ tb_exit = 0 /\ ~both -> "trace error"
                 [] ref_exit = 0 /\ tb_exit = 0 /\ both /\ ~same -> "mismatch"
                 [] OTHER -> "pass"
      BY <1>5, Zenon DEF Judge
    <3> HIDE DEF both, same
    <3>2. verdict' = "pass" => ref_exit = 0 /\ tb_exit = 0 /\ both /\ same
      BY <1>1, <3>1, SMT DEF VerdictInv
    <3> QED BY <3>2, Zenon DEF Passed, both, same
  <2> QED BY <2>1, <2>2 DEF VerdictInv, Passed, refState, tbState
<1>6. CASE Judged \/ UNCHANGED allVars
  <2>1. UNCHANGED <<refState, tbState, verdict>>
    BY <1>6 DEF Judged, allVars
  <2> QED BY <2>1 DEF VerdictInv, Passed, refState, tbState
<1> QED BY <1>2, <1>3, <1>4, <1>5, <1>6 DEF DiffNext
LEMMA PassInvStep ==
  ASSUME PassInv, [DiffNext]_allVars
  PROVE  PassInv'
<1>1. ReferenceInv' /\ VerdictInv'
  BY ReferenceInvStep, VerdictStep DEF PassInv
<1>2. CASE ReferenceStep
  <2>1. UNCHANGED tbState
    BY <1>2 DEF ReferenceStep
  <2>2. RtlRecords'
    BY <2>1 DEF PassInv, RtlRecords, tbState
  <2> QED BY <1>1, <2>2 DEF PassInv
<1>3. CASE RtlReset \/ RtlEdge \/ Judge \/ Judged \/ UNCHANGED allVars
  <2>1. \/ UNCHANGED tbState
        \/ rtl_trace' = rtl_trace \o Printed
    BY <1>3, Zenon DEF RtlReset, RtlEdge, Judge, Judged, allVars
  <2>2. RtlRecords'
    <3>1. CASE UNCHANGED tbState
      BY <3>1 DEF PassInv, RtlRecords, tbState
    <3>2. CASE rtl_trace' = rtl_trace \o Printed
      BY <3>2, PrintedRecords DEF PassInv
    <3> QED BY <2>1, <3>1, <3>2
  <2> QED BY <1>1, <2>2 DEF PassInv
<1> QED BY <1>2, <1>3 DEF DiffNext

LEMMA PassInvInit == DiffInit => PassInv
<1> SUFFICES ASSUME DiffInit PROVE PassInv
  OBVIOUS
<1>1. rtl_trace = <<>> /\ tb_exit = -1 /\ verdict = "none"
  BY DEF DiffInit
<1>2. RtlRecords
  <2>1. rtl_trace \in Seq({}) /\ DOMAIN rtl_trace = {}
    BY <1>1
  <2> QED BY <2>1 DEF RtlRecords
<1>3. VerdictInv
  BY <1>1 DEF VerdictInv
<1> QED BY <1>2, <1>3, ReferenceInvInit DEF PassInv

\* Two traces that pass have the same length, the same retirements and the
\* same final record.
LEMMA PassedTraces ==
  ASSUME PassInv, Passed
  PROVE  LET n == Len(rtl_trace)
         IN  /\ n \in Nat \ {0} /\ Len(cpp_trace) = n /\ ref_retired = n - 1
             /\ DOMAIN rtl_trace = 1 .. n /\ DOMAIN cpp_trace = 1 .. n
             /\ \A i \in 1 .. n - 1 : SameRetirement(cpp_trace[i], rtl_trace[i])
             /\ SameFinal(cpp_trace[n], rtl_trace[n])
             /\ \A i \in 1 .. n - 1 : /\ rtl_trace[i].type = "retire"
                                      /\ DOMAIN rtl_trace[i] = RetireFields
             /\ rtl_trace[n].type = "final" /\ DOMAIN rtl_trace[n] = FinalFields
<1> DEFINE n == Len(rtl_trace)
<1>1. /\ \E S : rtl_trace \in Seq(S)
      /\ \E S : cpp_trace \in Seq(S)
      /\ ref_retired \in Nat
      /\ Len(cpp_trace) = ref_retired + 1
  BY DEF PassInv, RtlRecords, ReferenceInv, TraceShape, RefCounters, Passed
<1>2. /\ n \in Nat /\ DOMAIN rtl_trace = 1 .. n
      /\ DOMAIN cpp_trace = 1 .. Len(cpp_trace)
  BY <1>1, OneMore
<1>3. Len(cpp_trace) = n
  BY Zenon DEF Passed, compare_traces
<1>4. DOMAIN Front(cpp_trace) = 1 .. n - 1 /\ DOMAIN Front(rtl_trace) = 1 .. n - 1
  <2>1. /\ \A S : \A s \in Seq(S) : \A m \in Nat :
               m <= Len(s) => DOMAIN SubSeq(s, 1, m) = 1 .. m
        /\ n - 1 \in Nat /\ n - 1 <= n
    BY <1>1, <1>2, <1>3
  <2> QED BY <1>1, <1>2, <1>3, <2>1, Zenon DEF Front
<1>5. \A i \in 1 .. n - 1 : SameRetirement(cpp_trace[i], rtl_trace[i])
  BY <1>4, Zenon DEF Passed, compare_traces
<1>6. SameFinal(cpp_trace[n], rtl_trace[n])
  BY <1>3, Zenon DEF Passed, compare_traces, Last
<1>7. \A i \in 1 .. n : rtl_trace[i].type = "final" <=> i = n
  BY <1>2, Zenon DEF Passed, parse_trace
<1>8. \A i \in 1 .. n : \/ rtl_trace[i].type = "retire"
                           /\ DOMAIN rtl_trace[i] = RetireFields
                        \/ rtl_trace[i].type = "final"
                           /\ DOMAIN rtl_trace[i] = FinalFields
  BY <1>2 DEF PassInv, RtlRecords
<1>9. n \in Nat \ {0} /\ n \in 1 .. n /\ ref_retired = n - 1
  <2>1. n = ref_retired + 1 /\ ref_retired \in Nat
    BY <1>1, <1>3, Zenon
  <2> HIDE DEF n
  <2> QED BY <2>1
<1>10. "retire" # "final" /\ \A i \in 1 .. n - 1 : i \in 1 .. n /\ i # n
  <2>1. n \in Nat
    BY <1>2, Zenon
  <2> HIDE DEF n
  <2> QED BY <2>1
<1> HIDE DEF n
<1>11. \A i \in 1 .. n - 1 : /\ rtl_trace[i].type = "retire"
                             /\ DOMAIN rtl_trace[i] = RetireFields
  BY <1>7, <1>8, <1>10, Zenon
<1>12. rtl_trace[n].type = "final" /\ DOMAIN rtl_trace[n] = FinalFields
  BY <1>7, <1>8, <1>9, <1>10, Zenon
<1> QED BY <1>2, <1>3, <1>5, <1>6, <1>9, <1>11, <1>12, Zenon DEF n
\* A trace that has lost a retirement is too short for the comparison.
LEMMA LossIsSeen ==
  ASSUME PassInv, Passed, NEW i \in 1 .. Len(rtl_trace) - 1
  PROVE  Rejected(Lossy(rtl_trace, i))
<1> DEFINE n == Len(rtl_trace)
           t == Lossy(rtl_trace, i)
           short == RemoveAt(rtl_trace, i)
<1>1. n \in Nat \ {0} /\ Len(cpp_trace) = n
  BY PassedTraces
<1>2. PICK S : rtl_trace \in Seq(S)
  BY DEF PassInv, RtlRecords
<1>3. Len(short) = n - 1 /\ DOMAIN short = 1 .. n - 1
  <2> DEFINE p == SubSeq(rtl_trace, 1, i - 1)
             q == SubSeq(rtl_trace, i + 1, n)
  <2>1. i \in Int /\ 1 <= i /\ i <= n - 1 /\ n \in Int /\ Len(rtl_trace) = n
    BY <1>1, SMT
  <2>2. p \in Seq(S) /\ Len(p) = i - 1
    BY <1>2, <2>1
  <2>3. q \in Seq(S) /\ Len(q) = n - i
    BY <1>2, <2>1
  <2>4. short = p \o q
    BY Zenon DEF RemoveAt
  <2> HIDE DEF n, p, q, short
  <2>5. /\ Len(p \o q) = Len(p) + Len(q)
        /\ DOMAIN (p \o q) = 1 .. Len(p) + Len(q)
    <3>1. p \in Seq(S) /\ q \in Seq(S)
      BY <2>2, <2>3
    <3> QED BY <3>1
  <2>6. Len(short) = (i - 1) + (n - i) /\ DOMAIN short = 1 .. (i - 1) + (n - i)
    BY <2>2, <2>3, <2>4, <2>5, Zenon
  <2>7. (i - 1) + (n - i) = n - 1
    BY <2>1, SMT
  <2> QED BY <2>6, <2>7, Zenon
<1> HIDE DEF n, short
<1>4. Len(t) = n - 1
  <2> DEFINE g(k) == IF k < Len(short)
                       THEN [short[k] EXCEPT !.index = k - 1]
                       ELSE [short[k] EXCEPT !.retired = Len(short) - 1]
  <2>1. t = [k \in 1 .. n - 1 |-> g(k)]
    BY <1>3, Zenon DEF Lossy, short
  <2> HIDE DEF g, t
  <2>2. n - 1 \in Nat
    BY <1>1
  <2> QED BY <2>1, <2>2
<1> HIDE DEF t
<1>5. n # n - 1
  BY <1>1, SMT
<1>6. ~compare_traces(cpp_trace, t)
  BY <1>1, <1>4, <1>5, Zenon DEF compare_traces
<1> QED BY <1>6, Zenon DEF Rejected, t

\* Where two retirements are the same as one of the reference, the compared
\* fields of the one have the values of the other.
LEMMA SameRetirements ==
  ASSUME NEW c, NEW r, NEW x, r.type = "retire", SameRetirement(c, r), SameRetirement(c, x)
  PROVE  \A f \in ComparedFields(r) : x[f] = r[f]
<1> SUFFICES ASSUME NEW f \in ComparedFields(r) PROVE x[f] = r[f]
  OBVIOUS
<1> DEFINE always == {"type", "index", "pc", "instruction", "next_pc",
                      "reg_write", "mem_write"}
<1>1. \A g \in always : x[g] = r[g]
  BY Zenon DEF SameRetirement, Same
<1>2. c.reg_write = r.reg_write /\ c.mem_write = r.mem_write
  BY Zenon DEF SameRetirement, Same
<1>3. CASE f \in always
  BY <1>1, <1>3, Zenon
<1>4. CASE r.reg_write /\ f \in {"rd", "reg_value"}
  BY <1>2, <1>4, Zenon DEF SameRetirement, Same
<1>5. CASE r.mem_write /\ f \in {"mem_addr", "mem_value"}
  BY <1>2, <1>5, Zenon DEF SameRetirement, Same
<1> QED BY <1>3, <1>4, <1>5, Zenon DEF ComparedFields

\* The same of final records.
LEMMA SameFinals ==
  ASSUME NEW c, NEW r, NEW x, r.type = "final", SameFinal(c, r), SameFinal(c, x)
  PROVE  \A f \in ComparedFields(r) : x[f] = r[f]
<1> SUFFICES ASSUME NEW f \in ComparedFields(r) PROVE x[f] = r[f]
  OBVIOUS
<1> DEFINE always == {"type", "status", "pc", "retired", "uart_tx",
                      "debug_value", "gpio_output", "gpio_direction",
                      "timer_counter", "timer_compare", "timer_control"}
           ofFault == {"fault", "fault_pc", "fault_instruction",
                       "fault_address_valid"}
<1>1. \A g \in always : x[g] = r[g]
  BY Zenon DEF SameFinal, Same
<1>2. c.status = r.status
  BY Zenon DEF SameFinal, Same
<1>3. r.status = "faulted" =>
        /\ \A g \in ofFault : x[g] = r[g]
        /\ c.fault_address_valid = r.fault_address_valid
  BY <1>2, Zenon DEF SameFinal, Same
<1>4. CASE f \in always
  BY <1>1, <1>4, Zenon
<1>5. CASE r.status = "faulted" /\ f \in ofFault
  BY <1>3, <1>5, Zenon
<1>6. CASE r.status = "faulted" /\ r.fault_address_valid /\ f = "fault_address"
  BY <1>2, <1>3, <1>6, Zenon DEF SameFinal
<1>7. r.type # "retire"
  OBVIOUS
<1> QED BY <1>4, <1>5, <1>6, <1>7, Zenon DEF ComparedFields

\* A change of any one compared field, to whatever value, makes the
\* comparison fail.
LEMMA ChangeIsSeen ==
  ASSUME PassInv, Passed, NEW i \in DOMAIN rtl_trace,
         NEW f \in ComparedFields(rtl_trace[i]), NEW v, v # rtl_trace[i][f]
  PROVE  Rejected(Altered(rtl_trace, i, f, v))
<1> DEFINE n == Len(rtl_trace)
           c == cpp_trace[i]
           r == rtl_trace[i]
           x == [r EXCEPT ![f] = v]
           t == [rtl_trace EXCEPT ![i] = x]
<1>1. /\ n \in Nat \ {0} /\ Len(cpp_trace) = n
      /\ DOMAIN rtl_trace = 1 .. n /\ DOMAIN cpp_trace = 1 .. n
      /\ \A k \in 1 .. n - 1 : SameRetirement(cpp_trace[k], rtl_trace[k])
      /\ SameFinal(cpp_trace[n], rtl_trace[n])
      /\ \A k \in 1 .. n - 1 : /\ rtl_trace[k].type = "retire"
                               /\ DOMAIN rtl_trace[k] = RetireFields
      /\ rtl_trace[n].type = "final" /\ DOMAIN rtl_trace[n] = FinalFields
  BY PassedTraces
<1>2. PICK S : rtl_trace \in Seq(S)
  BY DEF PassInv, RtlRecords
<1>3. Altered(rtl_trace, i, f, v) = t
  BY DEF Altered
<1>4. \A U : \A u \in Seq(U) : \A m \in Nat :
        m <= Len(u) => DOMAIN SubSeq(u, 1, m) = 1 .. m
  OBVIOUS
<1>5. (\E U : t \in Seq(U)) /\ t[i] = x
  <2> HIDE DEF x
  <2>1. rtl_trace \in Seq(S \cup {x}) /\ x \in S \cup {x}
    BY <1>2
  <2> QED BY <2>1
<1> HIDE DEF n, t
<1>6. /\ i \in 1 .. n /\ (i # n => i \in 1 .. n - 1)
      /\ n - 1 \in Nat /\ n - 1 <= n
  BY <1>1, SMT
<1>7. x[f] = v
  <2>1. f \in DOMAIN r
    <3>1. CASE i # n
      <4>1. r.type = "retire" /\ DOMAIN r = RetireFields
        BY <1>1, <1>6, <3>1, Zenon
      <4> HIDE DEF r
      <4>2. f \in ComparedFields(r)
        BY DEF r
      <4> QED BY <4>1, <4>2, Zenon DEF ComparedFields, RetireFields
    <3>2. CASE i = n
      <4>1. r.type # "retire" /\ DOMAIN r = FinalFields
        BY <1>1, <3>2
      <4> HIDE DEF r
      <4>2. f \in ComparedFields(r)
        BY DEF r
      <4> QED BY <4>1, <4>2, Zenon DEF ComparedFields, FinalFields
    <3> QED BY <3>1, <3>2
  <2> HIDE DEF r
  <2> QED BY <2>1
<1> HIDE DEF c, r, x
<1>8. f \in ComparedFields(r) /\ v # r[f]
  BY DEF r
<1>9. ASSUME compare_traces(cpp_trace, t) PROVE FALSE
  <2>1. Len(t) = n
    BY <1>1, <1>9, Zenon DEF compare_traces
  <2>2. CASE i # n
    <3>1. DOMAIN Front(t) = 1 .. n - 1
      BY <1>4, <1>5, <1>6, <2>1, Zenon DEF Front
    <3>2. DOMAIN Front(cpp_trace) = 1 .. n - 1
      BY <1>1, <1>4, <1>6, Zenon DEF Front, PassInv, ReferenceInv, TraceShape
    <3>3. SameRetirement(c, x)
      BY <1>5, <1>6, <1>9, <2>2, <3>1, <3>2, Zenon DEF compare_traces, c
    <3>4. SameRetirement(c, r) /\ r.type = "retire"
      BY <1>1, <1>6, <2>2, Zenon DEF c, r
    <3>5. \A g \in ComparedFields(r) : x[g] = r[g]
      BY <3>3, <3>4, SameRetirements
    <3> QED BY <1>7, <1>8, <3>5, Zenon
  <2>3. CASE i = n
    <3>1. SameFinal(c, x)
      BY <1>1, <1>5, <1>9, <2>1, <2>3, Zenon DEF compare_traces, Last, c
    <3>2. SameFinal(c, r) /\ r.type = "final"
      BY <1>1, <2>3, Zenon DEF c, r
    <3>3. \A g \in ComparedFields(r) : x[g] = r[g]
      BY <3>1, <3>2, SameFinals
    <3> QED BY <1>7, <1>8, <3>3, Zenon
  <2> QED BY <2>2, <2>3
<1> QED BY <1>3, <1>9, Zenon DEF Rejected

\* PassIsEarned for whatever value a field is changed to.
NoChangePasses ==
  verdict = "pass" =>
    \A i \in DOMAIN rtl_trace : \A f \in ComparedFields(rtl_trace[i]) :
      \A v : v # rtl_trace[i][f] => Rejected(Altered(rtl_trace, i, f, v))

\* A pass of the differential check means something for every program: had
\* any one of the fields that compare_traces looks at held any other value
\* in the RTL trace, it would have raised (differential.py 132-159).
THEOREM EveryChangeIsSeen == DiffSpec => []NoChangePasses
<1>1. PassInv => NoChangePasses
  BY ChangeIsSeen, Zenon DEF NoChangePasses, PassInv, VerdictInv
<1>2. PassInv /\ [DiffNext]_allVars => PassInv'
  BY PassInvStep
<1> QED BY <1>1, <1>2, PassInvInit, PTL DEF DiffSpec

\* With the loss of a retirement, whose successors are renumbered so that
\* parse_trace finds nothing wrong, this is what the run checks.
THEOREM PassIsEarnedAlways == DiffSpec => []PassIsEarned
<1>1. PassInv => NoChangePasses
  BY ChangeIsSeen, Zenon DEF NoChangePasses, PassInv, VerdictInv
<1>2. PassInv => PassIsEarned
  <2> SUFFICES ASSUME PassInv, verdict = "pass"
               PROVE  /\ \A i \in 1 .. Len(rtl_trace) - 1 :
                           Rejected(Lossy(rtl_trace, i))
                      /\ \A i \in DOMAIN rtl_trace :
                           \A f \in ComparedFields(rtl_trace[i]) :
                             \A v \in SomeValues(f) \ {rtl_trace[i][f]} :
                               Rejected(Altered(rtl_trace, i, f, v))
    BY Zenon DEF PassIsEarned
  <2>1. Passed
    BY Zenon DEF PassInv, VerdictInv
  <2>2. \A i \in 1 .. Len(rtl_trace) - 1 : Rejected(Lossy(rtl_trace, i))
    BY <2>1, LossIsSeen, Zenon
  <2>3. \A f : \A w : \A v \in SomeValues(f) \ {w} : v # w
    BY Zenon
  <2> QED BY <1>1, <2>2, <2>3, Zenon DEF NoChangePasses
<1>3. PassInv /\ [DiffNext]_allVars => PassInv'
  BY PassInvStep
<1> QED BY <1>2, <1>3, PassInvInit, PTL DEF DiffSpec

------------------------------------------------------------------------------
(***************************************************************************)
(* Only a bound fails a case.  The RTL under the testbench is Mini32System *)
(* with at most one more reset, so its invariant holds here.               *)
(***************************************************************************)
LEMMA DiffStepsSystem ==
  ASSUME [DiffNext]_allVars
  PROVE  [Next]_vars
<1>1. CASE RtlReset \/ RtlEdge
  BY <1>1, Zenon DEF RtlReset, RtlEdge, Next
<1>2. CASE ReferenceStep \/ Judge \/ Judged \/ UNCHANGED allVars
  BY <1>2, Zenon DEF ReferenceStep, Judge, Judged, allVars
<1> QED BY <1>1, <1>2 DEF DiffNext

LEMMA SystemInvariant == DiffSpec => []RefInv
<1>1. DiffInit => PowerUp
  BY Zenon DEF DiffInit, PowerUp
<1>2. RefInv /\ [DiffNext]_allVars => RefInv'
  BY RefStep, DiffStepsSystem
<1> QED BY <1>1, <1>2, RefInit, PTL DEF DiffSpec

\* The first m records are retirements, numbered from 0.
Numbered(m) == \A i \in 1 .. m : /\ rtl_trace[i].type = "retire"
                                 /\ rtl_trace[i].index = i - 1

\* A core found stopped at an edge has no retirement left to print.
StopSettled ==
  final_pending => /\ ~reset
                   /\ Stopped
                   /\ ~retire.valid

\* What the testbench has printed, and why it ended.
RtlShape ==
  /\ tb_exit = -1 => Numbered(Len(rtl_trace))
  /\ tb_exit = 0 => /\ Len(rtl_trace) >= 1
                    /\ Numbered(Len(rtl_trace) - 1)
                    /\ rtl_trace[Len(rtl_trace)].type = "final"
                    /\ rtl_trace[Len(rtl_trace)].retired = Len(rtl_trace) - 1
  /\ tb_exit = 1 => cycle = MAX_CYCLES \/ Len(uart_log) > UartCapacity

Outcome ==
  /\ verdict = "failed" => ref_exit = 3 \/ tb_exit = 1
  /\ verdict # "trace error"

OutcomeInv == StopSettled /\ RtlShape /\ Outcome

\* A core that has stopped stays stopped and retires nothing.
LEMMA StoppedEdge ==
  ASSUME Stopped, RunEdge
  PROVE  cpu_state' = cpu_state /\ ~retire'.valid
<1>1. CpuEdge(response_ready, response_rdata, response_fault)
  BY Zenon DEF RunEdge
<1>2. CpuStopped
  <2>1. /\ cpu_state \notin {"FETCH", "MEMORY"}
        /\ cpu_state \notin {"DECODE", "EXECUTE", "WRITEBACK"}
    BY DEF Stopped
  <2> QED BY <1>1, <2>1, Zenon DEF CpuEdge, CpuWait, bus_valid, FetchComplete,
        FetchFaulted, DecodeReject, DecodeOperands, ExecuteBranch,
        ExecuteJump, ExecuteJumpAndLink, ExecuteJumpRegister,
        ExecuteSequential, ExecuteAlu, MemoryFaulted, MemoryLoad,
        MemoryStore, Writeback
<1> QED BY <1>2 DEF CpuStopped, RetirePulsesCleared

LEMMA StopSettledStep ==
  ASSUME StopSettled, [DiffNext]_allVars
  PROVE  StopSettled'
<1>1. CASE RtlEdge
  <2>1. RunEdge /\ ~reset' /\ final_pending' = (final_pending \/ Stopped)
    BY <1>1, Zenon DEF RtlEdge
  <2>2. final_pending' => Stopped
    BY <2>1 DEF StopSettled
  <2>3. Stopped => Stopped' /\ ~retire'.valid
    BY <2>1, StoppedEdge DEF Stopped
  <2> QED BY <2>1, <2>2, <2>3 DEF StopSettled
<1>2. CASE RtlReset
  <2>1. reset /\ UNCHANGED tbState
    BY <1>2, Zenon DEF RtlReset, ResetEdge
  <2> QED BY <2>1 DEF StopSettled, tbState
<1>3. CASE ReferenceStep \/ Judge \/ Judged \/ UNCHANGED allVars
  <2>1. UNCHANGED <<vars, tbState>>
    BY <1>3, Zenon DEF ReferenceStep, Judge, Judged, allVars
  <2> QED BY <2>1 DEF StopSettled, Stopped, vars, cpuVars, tbState
<1> QED BY <1>1, <1>2, <1>3 DEF DiffNext

\* What is printed at an edge, record by record.
LEMMA PrintedAtEdge ==
  ASSUME RtlRecords, rtl_trace' = rtl_trace \o Printed,
         final_pending => ~retire.valid
  PROVE  \E extra \in {0, 1} :
           /\ Len(rtl_trace') = Len(rtl_trace) + extra
           /\ Len(rtl_trace) \in Nat
           /\ \A i \in 1 .. Len(rtl_trace) : rtl_trace'[i] = rtl_trace[i]
           /\ extra = 0 => ~PrintFinal
           /\ extra = 1 =>
                rtl_trace'[Len(rtl_trace) + 1]
                  = IF PrintFinal THEN TraceFinal ELSE TraceRecord
<1> DEFINE a == TraceRecord
           b == TraceFinal
           n == Len(rtl_trace)
<1>1. PICK S : rtl_trace \in Seq(S)
  BY DEF RtlRecords
<1>2. CASE PrintFinal
  <2>1. Printed = <<>> \o <<b>>
    BY <1>2, Zenon DEF Printed, PrintFinal
  <2> HIDE DEF b
  <2>2. rtl_trace' = rtl_trace \o <<b>>
    BY <2>1
  <2>3. /\ Len(rtl_trace') = n + 1 /\ n \in Nat
        /\ \A i \in 1 .. n : rtl_trace'[i] = rtl_trace[i]
        /\ rtl_trace'[n + 1] = b
    BY <1>1, <2>2
  <2> QED BY <1>2, <2>3 DEF b
<1>3. CASE ~PrintFinal /\ retire.valid
  <2>1. Printed = <<a>> \o <<>>
    BY <1>3, Zenon DEF Printed
  <2> HIDE DEF a
  <2>2. rtl_trace' = rtl_trace \o <<a>>
    BY <2>1
  <2>3. /\ Len(rtl_trace') = n + 1 /\ n \in Nat
        /\ \A i \in 1 .. n : rtl_trace'[i] = rtl_trace[i]
        /\ rtl_trace'[n + 1] = a
    BY <1>1, <2>2
  <2> QED BY <1>3, <2>3 DEF a
<1>4. CASE ~PrintFinal /\ ~retire.valid
  <2>1. Printed = <<>> \o <<>>
    BY <1>4, Zenon DEF Printed
  <2>2. rtl_trace' = rtl_trace
    BY <1>1, <2>1
  <2>3. n \in Nat
    BY <1>1
  <2> QED BY <1>4, <2>2, <2>3
<1> QED BY <1>2, <1>3, <1>4

LEMMA RtlShapeStep ==
  ASSUME TypeOK, VerdictInv, RtlRecords, StopSettled, RtlShape,
         [DiffNext]_allVars
  PROVE  RtlShape'
<1>1. CASE RtlEdge
  <2> DEFINE n == Len(rtl_trace)
  <2>1. /\ rtl_trace' = rtl_trace \o Printed
        /\ cycle' = cycle + 1
        /\ tb_exit = -1
        /\ tb_exit' \in IF SimulationEnd = {} THEN {-1} ELSE SimulationEnd
        /\ uart_log' = IF uart_tx_valid THEN Append(uart_log, uart_tx_data)
                                        ELSE uart_log
    BY <1>1, Zenon DEF RtlEdge, RunEdge
  <2>2. PICK extra \in {0, 1} :
           /\ Len(rtl_trace') = n + extra
           /\ n \in Nat
           /\ \A i \in 1 .. n : rtl_trace'[i] = rtl_trace[i]
           /\ extra = 0 => ~PrintFinal
           /\ extra = 1 => rtl_trace'[n + 1]
                             = IF PrintFinal THEN TraceFinal ELSE TraceRecord
    BY <2>1, PrintedAtEdge DEF StopSettled
  <2> HIDE DEF n
  <2>3. \A i \in 1 .. n : /\ rtl_trace'[i].type = "retire"
                          /\ rtl_trace'[i].index = i - 1
    BY <2>1, <2>2 DEF RtlShape, Numbered, n
  <2>4. CASE tb_exit' = -1
    <3>1. ~PrintFinal
      BY <2>1, <2>4 DEF SimulationEnd
    <3>2. TraceRecord.type = "retire" /\ TraceRecord.index = n
      BY DEF TraceRecord, n
    <3>3. extra = 1 => /\ rtl_trace'[n + 1].type = "retire"
                       /\ rtl_trace'[n + 1].index = n
      BY <2>2, <3>1, <3>2
    <3>4. \A i \in 1 .. n + extra : i \in 1 .. n \/ (extra = 1 /\ i = n + 1)
      BY <2>2
    <3>5. Numbered(Len(rtl_trace))'
      BY <2>2, <2>3, <3>3, <3>4 DEF Numbered
    <3> QED BY <2>4, <3>5 DEF RtlShape
  <2>5. CASE tb_exit' = 0
    <3>1. PrintFinal
      BY <2>1, <2>5 DEF SimulationEnd
    <3>2. TraceFinal.type = "final" /\ TraceFinal.retired = n
      BY DEF TraceFinal, n
    <3>3. extra = 1 /\ rtl_trace'[n + 1] = TraceFinal
      BY <2>2, <3>1
    <3>4. /\ Len(rtl_trace') = n + 1 /\ n + 1 >= 1 /\ (n + 1) - 1 = n
      BY <2>2, <3>3
    <3>5. Numbered(Len(rtl_trace) - 1)'
      BY <2>3, <3>4 DEF Numbered
    <3> QED BY <2>5, <3>2, <3>3, <3>4, <3>5 DEF RtlShape
  <2>6. CASE tb_exit' = 1
    <3>1. UartFull \/ cycle + 1 = MAX_CYCLES
      BY <2>1, <2>6 DEF SimulationEnd
    <3>2. CASE UartFull
      <4>1. /\ uart_log \in Seq(Byte) /\ uart_log' = Append(uart_log, uart_tx_data)
            /\ Len(uart_log) >= UartCapacity
        BY <2>1, <3>2 DEF UartFull, TypeOK
      <4>2. Len(uart_log') > UartCapacity
        BY <4>1, CapacityIsNat
      <4> QED BY <2>6, <4>2 DEF RtlShape
    <3>3. CASE cycle + 1 = MAX_CYCLES
      BY <2>1, <2>6, <3>3 DEF RtlShape
    <3> QED BY <3>1, <3>2, <3>3
  <2>7. tb_exit' \in {-1, 0, 1}
    BY <2>1 DEF SimulationEnd
  <2> QED BY <2>4, <2>5, <2>6, <2>7
<1>2. CASE RtlReset
  <2>1. tb_exit = -1 /\ UNCHANGED tbState
    BY <1>2, Zenon DEF RtlReset
  <2> QED BY <2>1 DEF RtlShape, Numbered, tbState
<1>3. CASE ReferenceStep \/ Judge \/ Judged \/ UNCHANGED allVars
  <2>1. UNCHANGED <<vars, tbState>>
    BY <1>3, Zenon DEF ReferenceStep, Judge, Judged, allVars
  <2> QED BY <2>1 DEF RtlShape, Numbered, vars, tbState
<1> QED BY <1>1, <1>2, <1>3 DEF DiffNext

\* Both traces of a case that ended well satisfy parse_trace.
LEMMA BothParse ==
  ASSUME PassInv, RtlShape, ref_exit = 0, tb_exit = 0
  PROVE  parse_trace(cpp_trace) /\ parse_trace(rtl_trace)
<1>1. ASSUME NEW t, NEW S, t \in Seq(S), Len(t) >= 1,
             \A i \in 1 .. Len(t) - 1 : /\ t[i].type = "retire"
                                        /\ t[i].index = i - 1,
             t[Len(t)].type = "final", t[Len(t)].retired = Len(t) - 1
      PROVE  parse_trace(t)
  <2> DEFINE n == Len(t)
  <2>1. /\ DOMAIN t = 1 .. n /\ n \in Nat /\ t # <<>>
        /\ Last(t) = t[n] /\ n \in 1 .. n
    BY <1>1 DEF Last
  <2>2. \A i \in 1 .. n : i # n => t[i].type = "retire" /\ t[i].index = i - 1
    <3> HIDE DEF n
    <3>1. \A i \in 1 .. n : i # n => i \in 1 .. n - 1
      BY <2>1
    <3> QED BY <1>1, <3>1 DEF n
  <2>3. t[n].type = "final" /\ t[n].retired = n - 1 /\ "final" # "retire"
    BY <1>1
  <2> HIDE DEF n
  <2> QED BY <2>1, <2>2, <2>3, Zenon DEF parse_trace, n
<1>2. parse_trace(rtl_trace)
  BY <1>1 DEF PassInv, RtlRecords, RtlShape, Numbered
<1>3. parse_trace(cpp_trace)
  <2>1. /\ \E S : cpp_trace \in Seq(S)
        /\ ref_retired \in Nat
        /\ Len(cpp_trace) = ref_retired + 1
        /\ \A i \in 1 .. ref_retired : /\ cpp_trace[i].type = "retire"
                                       /\ cpp_trace[i].index = i - 1
        /\ cpp_trace[ref_retired + 1].type = "final"
        /\ cpp_trace[ref_retired + 1].retired = ref_retired
    BY DEF PassInv, ReferenceInv, TraceShape, RefCounters
  <2>2. Len(cpp_trace) >= 1 /\ Len(cpp_trace) - 1 = ref_retired
    BY <2>1
  <2> QED BY <1>1, <2>1, <2>2
<1> QED BY <1>2, <1>3

LEMMA OutcomeStep ==
  ASSUME PassInv, RtlShape, Outcome, [DiffNext]_allVars
  PROVE  Outcome'
<1>1. ref_exit \in {-1, 0, 3} /\ tb_exit \in {-1, 0, 1}
  BY DEF PassInv, ReferenceInv, TraceShape, VerdictInv
<1>2. CASE ReferenceStep
  BY <1>2, Zenon DEF ReferenceStep, Outcome
<1>3. CASE RtlReset
  BY <1>3, Zenon DEF RtlReset, Outcome, refState, tbState
<1>4. CASE RtlEdge
  <2>1. ref_exit = 0 /\ tb_exit = -1 /\ UNCHANGED <<refState, verdict>>
    BY <1>4, Zenon DEF RtlEdge
  <2>2. ~(ref_exit = 3 \/ tb_exit = 1)
    BY <2>1, SMT
  <2> QED BY <2>1, <2>2, Zenon DEF Outcome, refState
<1>5. CASE Judge
  <2> DEFINE both == parse_trace(cpp_trace) /\ parse_trace(rtl_trace)
             same == compare_traces(cpp_trace, rtl_trace)
             bad  == "trace error"
  <2>1. /\ ref_exit > 0 \/ tb_exit >= 0
        /\ verdict' =
             CASE ref_exit > 0 \/ tb_exit > 0 -> "failed"
               [] ref_exit = 0 /\ tb_exit = 0 /\ ~both -> bad
               [] ref_exit = 0 /\ tb_exit = 0 /\ both /\ ~same -> "mismatch"
               [] OTHER -> "pass"
        /\ UNCHANGED <<refState, tbState>>
    BY <1>5, Zenon DEF Judge
  <2>2. ref_exit = 0 /\ tb_exit = 0 => both
    BY BothParse
  <2> HIDE DEF both, same
  <2>3. /\ verdict' = "failed" => ref_exit = 3 \/ tb_exit = 1
        /\ verdict' # bad
    <3>2. tb_exit # -1 => ref_exit = 0
      BY DEF PassInv, VerdictInv
    <3> HIDE DEF bad
    <3>3. CASE ref_exit > 0 \/ tb_exit > 0
      <4>1. verdict' = "failed"
        BY <1>1, <2>1, <3>3, SMT
      <4>2. ref_exit = 3 \/ tb_exit = 1
        BY <1>1, <3>3
      <4> QED BY <4>1, <4>2, Zenon DEF bad
    <3>4. CASE ~(ref_exit > 0 \/ tb_exit > 0)
      <4>1. ref_exit = 0 /\ tb_exit = 0 /\ both
        BY <1>1, <2>1, <2>2, <3>2, <3>4
      <4>2. verdict' = "pass" \/ verdict' = "mismatch"
        BY <2>1, <4>1, SMT
      <4> QED BY <4>2, Zenon DEF bad
    <3> QED BY <3>3, <3>4
  <2> QED BY <2>1, <2>3, Zenon DEF Outcome, refState, tbState
<1>6. CASE Judged \/ UNCHANGED allVars
  BY <1>6, Zenon DEF Judged, allVars, Outcome, refState, tbState
<1> QED BY <1>2, <1>3, <1>4, <1>5, <1>6 DEF DiffNext

\* The traces that run_case gets are never malformed, and a case fails only
\* at a bound: the instruction limit of ref_trace.cpp, the cycle limit or
\* the transcript of tb_differential_trace.sv (differential.py 162-203).
THEOREM OnlyBoundsFail == DiffSpec => []OnlyABoundFails
<1>1. DiffInit => OutcomeInv
  <2> SUFFICES ASSUME DiffInit PROVE OutcomeInv
    OBVIOUS
  <2>1. /\ rtl_trace = <<>> /\ final_pending = FALSE /\ tb_exit = -1
        /\ verdict = "none"
    BY DEF DiffInit
  <2>2. Numbered(Len(rtl_trace))
    BY <2>1 DEF Numbered
  <2> QED BY <2>1, <2>2 DEF OutcomeInv, StopSettled, RtlShape, Outcome
<1>2. TypeOK /\ PassInv /\ OutcomeInv /\ [DiffNext]_allVars => OutcomeInv'
  BY StopSettledStep, RtlShapeStep, OutcomeStep DEF OutcomeInv, PassInv
<1>3. PassInv /\ OutcomeInv => OnlyABoundFails
  <2>1. PassInv => (ref_exit = 3 => ref_retired = MaxInstructions)
    BY DEF PassInv, ReferenceInv, TraceShape, RefCounters
  <2> QED BY <2>1, Zenon DEF OutcomeInv, RtlShape, Outcome, OnlyABoundFails
<1>4. PassInv /\ [DiffNext]_allVars => PassInv'
  BY PassInvStep
<1>5. RefInv => TypeOK
  BY Zenon DEF RefInv
<1> QED BY <1>1, <1>2, <1>3, <1>4, <1>5, PassInvInit, SystemInvariant, PTL
        DEF DiffSpec

(***************************************************************************)
(* The two machines leave the same trace.  The states of the reference are *)
(* gone when the RTL runs, so the invariant speaks of a history g of them: *)
(* g[i] is the C++ machine after i steps, as one record.  Both machines    *)
(* move by the same relation (Moves), the RTL's mapped state from g[n] to  *)
(* g[n + 1]; what each of them prints tells of those two states (Tells).   *)
(***************************************************************************)
RefState ==
  [pc |-> ref_pc, registers |-> ref_registers, status |-> ref_status,
   fault_info |-> ref_fault_info, ram |-> ref_ram, timer |-> ref_timer,
   gpio |-> ref_gpio, debug_value |-> ref_debug_value,
   uart_log |-> ref_uart_log]

AbsState ==
  [pc |-> AbsPc, registers |-> AbsRegisters, status |-> AbsStatus,
   fault_info |-> AbsFaultInfo, ram |-> AbsRam, timer |-> AbsTimer,
   gpio |-> AbsGpio, debug_value |-> AbsDebugValue,
   uart_log |-> AbsUartLog]

\* The word at an address of ROM, and what its fields select and compute.
WordAt(img, a) ==
  LET byte(k) == IF k < Len(img) THEN img[k + 1] ELSE 0
  IN  Ref!WordOfBytes(byte(a.lo), byte(a.lo + 1), byte(a.lo + 2),
                      byte(a.lo + 3))

RegisterOf(regs, r) == IF r = 0 THEN Zero ELSE regs[r]
Ctl(w) == control_for(Decode(w).opcode)
Loads(w) == Ctl(w).memory_operation = "Load"
Stores(w) == Ctl(w).memory_operation = "Store"
LhsOf(w, regs) == RegisterOf(regs, Decode(w).rs1)
DataOf(w, regs) == RegisterOf(regs, Decode(w).rs2)
RhsOf(w, regs) ==
  IF Ctl(w).alu_src_immediate
    THEN immediate_value(Ctl(w).immediate_kind, Decode(w).imm16)
    ELSE DataOf(w, regs)
ResultOf(w, regs) ==
  Execute(Ctl(w).alu_operation, LhsOf(w, regs), RhsOf(w, regs))

\* Whether the instruction w at address a faults, and how.
Faulty(w, a, regs) ==
  \/ Ref!fetch32_fault(a) # "NONE"
  \/ DecodeError(w) # "None"
  \/ Loads(w) /\ Ref!read32_fault(ResultOf(w, regs)) # "NONE"
  \/ Stores(w) /\ Ref!write32_fault(ResultOf(w, regs)) # "NONE"

FetchFaultCode(a) ==
  CASE Ref!fetch32_fault(a) = "MISALIGNED" -> "MISALIGNED_INSTRUCTION_FETCH"
    [] Ref!fetch32_fault(a) = "NON_EXECUTABLE" ->
         "NON_EXECUTABLE_INSTRUCTION_FETCH"
    [] OTHER -> "UNMAPPED_INSTRUCTION_FETCH"

DecodeFaultCode(w) ==
  IF DecodeError(w) = "IllegalOpcode" THEN "ILLEGAL_INSTRUCTION"
                                      ELSE "MALFORMED_INSTRUCTION"

LoadFaultCode(a) ==
  IF Ref!read32_fault(a) = "MISALIGNED" THEN "MISALIGNED_LOAD"
                                        ELSE "UNMAPPED_LOAD"

StoreFaultCode(a) ==
  CASE Ref!write32_fault(a) = "MISALIGNED" -> "MISALIGNED_STORE"
    [] Ref!write32_fault(a) = "READ_ONLY" -> "READ_ONLY_STORE"
    [] OTHER -> "UNMAPPED_STORE"

InfoOf(w, a, regs) ==
  LET info(code, ins, has, address) ==
        [code |-> code, pc |-> a, instruction |-> ins,
         has_address |-> has, data_address |-> address]
      x == ResultOf(w, regs)
  IN  IF Ref!fetch32_fault(a) # "NONE"
        THEN info(FetchFaultCode(a), Zero, FALSE, Zero)
      ELSE IF DecodeError(w) # "None"
        THEN info(DecodeFaultCode(w), w, FALSE, Zero)
      ELSE IF Loads(w) THEN info(LoadFaultCode(x), w, TRUE, x)
      ELSE info(StoreFaultCode(x), w, TRUE, x)

\* The address of the next instruction.
NextOf(w, a, regs) ==
  CASE Ctl(w).control_flow = "ConditionalBranch" ->
         IF branch_taken(Ctl(w).branch_predicate, LhsOf(w, regs),
                         RhsOf(w, regs))
           THEN Add(Add(a, Four), branch_displacement(Decode(w).imm16))
           ELSE Add(a, Four)
    [] Ctl(w).control_flow = "RelativeJump" ->
         Add(Add(a, Four), jump_displacement(Decode(w).imm26))
    [] Ctl(w).control_flow = "RegisterJump" -> LhsOf(w, regs)
    [] OTHER -> Add(a, Four)

\* What a load reads.
TimerAt(t, offset) ==
  LET flag(b) == IF b THEN One ELSE Zero
  IN  CASE offset = 0  -> t.counter
        [] offset = 4  -> t.compare
        [] offset = 8  -> flag(t.enabled)
        [] offset = 12 -> flag(t.enabled /\ t.counter = t.compare)

GpioAt(p, offset) ==
  CASE offset = 0 -> Zero
    [] offset = 4 -> p.output
    [] offset = 8 -> p.direction
    [] OTHER      -> Zero

RamAt(ram_bytes, a) ==
  Ref!WordOfBytes(ram_bytes[a.lo], ram_bytes[a.lo + 1], ram_bytes[a.lo + 2],
                  ram_bytes[a.lo + 3])

DataAt(img, s, a) ==
  CASE Ref!InRom(a)   -> WordAt(img, a)
    [] Ref!InRam(a)   -> RamAt(s.ram, a)
    [] Ref!InUart(a)  -> IF a.lo % 16 = 4 THEN One ELSE Zero
    [] Ref!InTimer(a) -> TimerAt(s.timer, a.lo % 16)
    [] Ref!InGpio(a)  -> GpioAt(s.gpio, a.lo % 16)
    [] Ref!InDebug(a) -> IF a.lo % 16 = 0 THEN s.debug_value ELSE Zero

\* What a write-back writes, and where.
ValueOf(img, w, s) ==
  IF Loads(w) THEN DataAt(img, s, ResultOf(w, s.registers))
  ELSE IF Ctl(w).control_flow = "RelativeJump" THEN Add(s.pc, Four)
  ELSE ResultOf(w, s.registers)

TargetOf(w) == IF Ctl(w).register_destination = "ReturnAddress"
                 THEN 31 ELSE Decode(w).rd

RegistersAfter(regs, r, v) == IF r = 0 THEN regs ELSE [regs EXCEPT ![r] = v]

\* What a store changes.
Hits(a, k) == Ref!InRam(a) /\ k \in a.lo .. a.lo + 3

RamAfter(ram_bytes, a, v) ==
  [k \in Ref!RamBytes |-> IF Hits(a, k) THEN Ref!ByteOf(v, k - a.lo)
                                        ELSE ram_bytes[k]]

TimerAfter(t, a, v) ==
  CASE Ref!InTimer(a) /\ a.lo % 16 = 0 -> [t EXCEPT !.counter = v]
    [] Ref!InTimer(a) /\ a.lo % 16 = 4 -> [t EXCEPT !.compare = v]
    [] Ref!InTimer(a) /\ a.lo % 16 = 8 -> [t EXCEPT !.enabled = v.lo % 2 = 1]
    [] OTHER                           -> t

GpioAfter(p, a, v) ==
  CASE Ref!InGpio(a) /\ a.lo % 16 = 4 -> [p EXCEPT !.output = v]
    [] Ref!InGpio(a) /\ a.lo % 16 = 8 -> [p EXCEPT !.direction = v]
    [] OTHER                          -> p

DebugAfter(d, a, v) == IF Ref!InDebug(a) /\ a.lo % 16 = 0 THEN v ELSE d

LogAfter(log, a, v) ==
  IF Ref!InUart(a) /\ a.lo % 16 = 0 THEN Append(log, LowByte(v)) ELSE log

\* One step of the golden machine, from s to t: a fault, or a retirement
\* that stores or not.
Faults(w, s, t) ==
  /\ Faulty(w, s.pc, s.registers)
  /\ t.status = "FAULT"
  /\ t.fault_info = InfoOf(w, s.pc, s.registers)
  /\ t.pc = s.pc
  /\ t.registers = s.registers
  /\ t.ram = s.ram
  /\ t.timer = s.timer
  /\ t.gpio = s.gpio
  /\ t.debug_value = s.debug_value
  /\ t.uart_log = s.uart_log

StoresTo(w, s, t) ==
  LET a == ResultOf(w, s.registers)
      v == DataOf(w, s.registers)
  IN  /\ ~Faulty(w, s.pc, s.registers)
      /\ Stores(w)
      /\ t.status = "RUNNING"
      /\ t.fault_info = s.fault_info
      /\ t.pc = Add(s.pc, Four)
      /\ t.registers = s.registers
      /\ t.ram = RamAfter(s.ram, a, v)
      /\ t.timer = Ref!RetireTick(TimerAfter(s.timer, a, v))
      /\ t.gpio = GpioAfter(s.gpio, a, v)
      /\ t.debug_value = DebugAfter(s.debug_value, a, v)
      /\ t.uart_log = LogAfter(s.uart_log, a, v)

Retires(img, w, s, t) ==
  /\ ~Faulty(w, s.pc, s.registers)
  /\ ~Stores(w)
  /\ t.status = IF Ctl(w).halt THEN "HALTED" ELSE "RUNNING"
  /\ t.fault_info = s.fault_info
  /\ t.pc = NextOf(w, s.pc, s.registers)
  /\ t.registers = IF Ctl(w).reg_write
                     THEN RegistersAfter(s.registers, TargetOf(w),
                                         ValueOf(img, w, s))
                     ELSE s.registers
  /\ t.ram = s.ram
  /\ t.timer = Ref!RetireTick(s.timer)
  /\ t.gpio = s.gpio
  /\ t.debug_value = s.debug_value
  /\ t.uart_log = s.uart_log

Moves(img, s, t) ==
  LET w == WordAt(img, s.pc)
  IN  /\ s.status = "RUNNING"
      /\ Faults(w, s, t) \/ StoresTo(w, s, t) \/ Retires(img, w, s, t)

\* What the control table says of instructions that retire in one way only.
LEMMA TableFacts ==
  ASSUME NEW w \in Word, DecodeError(w) = "None"
  PROVE  LET c == Ctl(w)
         IN  /\ c.memory_operation \in {"None", "Load", "Store"}
             /\ c.memory_operation # "None" =>
                  c.control_flow = "Sequential"
             /\ c.control_flow # "Sequential" => ~c.halt
             /\ c.control_flow \in {"ConditionalBranch", "RegisterJump"} =>
                  ~c.reg_write
             /\ c.memory_operation = "Store" => ~c.halt /\ ~c.reg_write
             /\ c.memory_operation = "Load" => TargetOf(w) = Decode(w).rd
<1> DEFINE op == Decode(w).opcode
           c == Ctl(w)
<1>1. op \in Opcodes /\ ControlColumns(op, c)
  <2>1. LegalFields(Decode(w), control_for(Decode(w).opcode))
    BY DecodeTyped, SMT
  <2> DEFINE d == Decode(w)
  <2> HIDE DEF d
  <2>2. d.opcode \in Opcodes /\ ControlColumns(d.opcode, control_for(d.opcode))
    BY <2>1, Zenon DEF LegalFields, d
  <2> QED BY <2>2, Zenon DEF Ctl, d
<1> HIDE DEF op, c
<1>2. /\ c.memory_operation \in {"None", "Load", "Store"}
      /\ c.memory_operation # "None" => c.control_flow = "Sequential"
      /\ c.control_flow # "Sequential" => ~c.halt
      /\ c.control_flow \in {"ConditionalBranch", "RegisterJump"} =>
           ~c.reg_write
      /\ c.memory_operation = "Store" => ~c.halt /\ ~c.reg_write
  BY <1>1, OpcodeCases, SMT DEF ControlColumns
<1>3. c.memory_operation = "Load" => c.register_destination = "DecodedRd"
  BY <1>1, SMT DEF ControlColumns
<1>4. c.memory_operation = "Load" => TargetOf(w) = Decode(w).rd
  BY <1>3, SMT DEF TargetOf, c
<1> QED BY <1>2, <1>4 DEF c

\* ROM holds words.
LEMMA WordAtTyped ==
  ASSUME NEW img \in Seq(Byte), NEW a \in Word
  PROVE  WordAt(img, a) \in Word
<1> DEFINE byte(k) == IF k < Len(img) THEN img[k + 1] ELSE 0
<1>1. ASSUME NEW k \in Nat PROVE byte(k) \in Byte
  <2>1. 0 \in Byte
    BY SMT DEF Byte
  <2>2. k < Len(img) => k + 1 \in 1 .. Len(img)
    OBVIOUS
  <2>3. k < Len(img) => img[k + 1] \in Byte
    BY <2>2
  <2> QED BY <2>1, <2>3
<1>2. a.lo \in Nat /\ a.lo + 1 \in Nat /\ a.lo + 2 \in Nat /\ a.lo + 3 \in Nat
  BY WordParts
<1>3. /\ byte(a.lo) \in Byte /\ byte(a.lo + 1) \in Byte
      /\ byte(a.lo + 2) \in Byte /\ byte(a.lo + 3) \in Byte
  BY <1>1, <1>2
<1>4. WordAt(img, a) = Ref!WordOfBytes(byte(a.lo), byte(a.lo + 1),
                                       byte(a.lo + 2), byte(a.lo + 3))
  BY Zenon DEF WordAt
<1> HIDE DEF byte
<1> QED BY <1>3, <1>4, RefBytesMakeWord, Zenon

\* The reference's operators on its own state are those on RefState.
LEMMA RefParts ==
  LET w == WordAt(image, ref_pc)
      regs == ref_registers
  IN  /\ \A a : Ref!RomRead(a) = WordAt(image, a)
      /\ Ref!instruction = w
      /\ Ref!decoded = Decode(w)
      /\ Ref!control = Ctl(w)
      /\ Ref!DecodeError(w) = DecodeError(w)
      /\ Ref!pc_plus_4 = Add(ref_pc, Four)
      /\ Ref!operand_lhs = LhsOf(w, regs)
      /\ Ref!store_data = DataOf(w, regs)
      /\ Ref!operand_rhs = RhsOf(w, regs)
      /\ Ref!alu_result = ResultOf(w, regs)
<1> DEFINE w == WordAt(image, ref_pc)
           regs == ref_registers
<1>1. ASSUME NEW a PROVE Ref!RomRead(a) = WordAt(image, a)
  BY Zenon DEF Ref!RomRead, Ref!RomByte, WordAt
<1>2. Ref!instruction = w
  BY <1>1, Zenon DEF Ref!instruction
<1> HIDE DEF w
<1>3. Ref!decoded = Decode(w)
  BY <1>2, RefDecoder, Zenon DEF Ref!decoded
<1>4. Ref!control = Ctl(w)
  BY <1>3, RefDecoder, Zenon DEF Ref!control, Ctl
<1>5. Ref!pc_plus_4 = Add(ref_pc, Four)
  BY RefWords, Zenon DEF Ref!pc_plus_4
<1>6. \A r : Ref!ReadRegister(r) = RegisterOf(regs, r)
  BY RefWords, Zenon DEF Ref!ReadRegister, RegisterOf
<1>7. Ref!operand_lhs = LhsOf(w, regs) /\ Ref!store_data = DataOf(w, regs)
  BY <1>3, <1>6, Zenon DEF Ref!operand_lhs, Ref!store_data, LhsOf, DataOf
<1>8. Ref!operand_rhs = RhsOf(w, regs)
  BY <1>3, <1>4, <1>7, RefExecution, Zenon DEF Ref!operand_rhs, RhsOf
<1>9. Ref!alu_result = ResultOf(w, regs)
  BY <1>4, <1>7, <1>8, RefExecution, Zenon DEF Ref!alu_result, ResultOf
<1>10. Ref!DecodeError(w) = DecodeError(w)
  BY RefDecoder, Zenon
<1> QED BY <1>1, <1>2, <1>3, <1>4, <1>5, <1>7, <1>8, <1>9, <1>10, Zenon DEF w

\* ... and so are its memory and devices.
LEMMA RefDevices ==
  /\ \A a : Ref!read32(a, Zero) = DataAt(image, RefState, a)
  /\ \A a, v : /\ Ref!RamWritten(a, v) = RamAfter(ref_ram, a, v)
               /\ Ref!TimerWritten(a, v) = TimerAfter(ref_timer, a, v)
               /\ Ref!GpioWritten(a, v) = GpioAfter(ref_gpio, a, v)
               /\ Ref!DebugWritten(a, v) = DebugAfter(ref_debug_value, a, v)
               /\ Ref!UartWritten(a, v) = LogAfter(ref_uart_log, a, v)
  /\ \A r, v : Ref!WriteRegister(r, v) = RegistersAfter(ref_registers, r, v)
<1>1. ASSUME NEW a PROVE Ref!read32(a, Zero) = DataAt(image, RefState, a)
  <2>1. /\ RefState.ram = ref_ram /\ RefState.timer = ref_timer
        /\ RefState.gpio = ref_gpio /\ RefState.debug_value = ref_debug_value
    BY Zenon DEF RefState
  <2> DEFINE offset == a.lo % 16
  <2>2. Ref!TimerRead(offset) = TimerAt(ref_timer, offset)
    BY RefWords, Zenon DEF Ref!TimerRead, TimerAt
  <2>3. Ref!GpioRead(offset, Zero) = GpioAt(ref_gpio, offset)
    BY RefWords, Zenon DEF Ref!GpioRead, GpioAt
  <2>4. /\ Ref!UartRead(offset) = (IF offset = 4 THEN One ELSE Zero)
        /\ Ref!DebugRead(offset) = (IF offset = 0 THEN ref_debug_value
                                                  ELSE Zero)
    BY RefWords, Zenon DEF Ref!UartRead, Ref!DebugRead
  <2>5. Ref!RomRead(a) = WordAt(image, a)
    BY RefParts, Zenon
  <2>6. Ref!RamRead(a) = RamAt(ref_ram, a)
    BY Zenon DEF Ref!RamRead, RamAt
  <2> HIDE DEF offset
  <2> QED BY <2>1, <2>2, <2>3, <2>4, <2>5, <2>6, Zenon
          DEF Ref!read32, DataAt, offset
<1>2. ASSUME NEW a, NEW v
      PROVE  /\ Ref!RamWritten(a, v) = RamAfter(ref_ram, a, v)
             /\ Ref!TimerWritten(a, v) = TimerAfter(ref_timer, a, v)
             /\ Ref!GpioWritten(a, v) = GpioAfter(ref_gpio, a, v)
             /\ Ref!DebugWritten(a, v) = DebugAfter(ref_debug_value, a, v)
             /\ Ref!UartWritten(a, v) = LogAfter(ref_uart_log, a, v)
  <2>1. Ref!RamWritten(a, v) = RamAfter(ref_ram, a, v)
    BY Zenon DEF Ref!RamWritten, RamAfter, Hits
  <2>2. Ref!TimerWritten(a, v) = TimerAfter(ref_timer, a, v)
    BY Zenon DEF Ref!TimerWritten, TimerAfter
  <2>3. Ref!GpioWritten(a, v) = GpioAfter(ref_gpio, a, v)
    BY Zenon DEF Ref!GpioWritten, GpioAfter
  <2>4. Ref!DebugWritten(a, v) = DebugAfter(ref_debug_value, a, v)
    BY Zenon DEF Ref!DebugWritten, DebugAfter
  <2>5. Ref!UartWritten(a, v) = LogAfter(ref_uart_log, a, v)
    BY RefWords, Zenon DEF Ref!UartWritten, LogAfter
  <2> QED BY <2>1, <2>2, <2>3, <2>4, <2>5
<1>3. ASSUME NEW r, NEW v
      PROVE  Ref!WriteRegister(r, v) = RegistersAfter(ref_registers, r, v)
  BY Zenon DEF Ref!WriteRegister, RegistersAfter
<1> QED BY <1>1, <1>2, <1>3, Zenon

\* A step of the reference moves its state.
LEMMA RefMoves ==
  ASSUME RefMachineOK, Ref!Step
  PROVE  Moves(image, RefState, RefState')
<1> DEFINE w == WordAt(image, ref_pc)
           regs == ref_registers
           s == RefState
           t == RefState'
           x == ResultOf(w, regs)
           c == Ctl(w)
<1>1. /\ s.pc = ref_pc /\ s.registers = regs /\ s.status = ref_status
      /\ s.fault_info = ref_fault_info /\ s.ram = ref_ram
      /\ s.timer = ref_timer /\ s.gpio = ref_gpio
      /\ s.debug_value = ref_debug_value /\ s.uart_log = ref_uart_log
  BY Zenon DEF RefState
<1>2. /\ t.pc = ref_pc' /\ t.registers = ref_registers'
      /\ t.status = ref_status'
      /\ t.fault_info = ref_fault_info' /\ t.ram = ref_ram'
      /\ t.timer = ref_timer' /\ t.gpio = ref_gpio'
      /\ t.debug_value = ref_debug_value' /\ t.uart_log = ref_uart_log'
  BY Zenon DEF RefState
<1>3. w \in Word
  BY WordAtTyped DEF RefMachineOK
<1>4. /\ Ref!instruction = w /\ Ref!decoded = Decode(w) /\ Ref!control = c
      /\ Ref!DecodeError(w) = DecodeError(w)
      /\ Ref!pc_plus_4 = Add(ref_pc, Four)
      /\ Ref!operand_lhs = LhsOf(w, regs)
      /\ Ref!store_data = DataOf(w, regs)
      /\ Ref!operand_rhs = RhsOf(w, regs)
      /\ Ref!alu_result = x
  BY RefParts, Zenon
<1> HIDE DEF w, s, t
<1>5. ASSUME ref_status = "RUNNING",
             Faults(w, s, t) \/ StoresTo(w, s, t) \/ Retires(image, w, s, t)
      PROVE  Moves(image, RefState, RefState')
  BY <1>1, <1>5, Zenon DEF Moves, s, t, w
<1>6. ASSUME ref_status = "RUNNING", Faulty(w, ref_pc, regs),
             NEW code, NEW ins, NEW has, NEW address,
             Ref!enter_fault(code, ins, has, address),
             InfoOf(w, ref_pc, regs) =
               [code |-> code, pc |-> ref_pc, instruction |-> ins,
                has_address |-> has, data_address |-> address]
      PROVE  Moves(image, RefState, RefState')
  <2>1. Faults(w, s, t)
    BY <1>1, <1>2, <1>6, Zenon DEF Faults, Ref!enter_fault
  <2> QED BY <1>5, <1>6, <2>1, Zenon
<1>7. Ref!Decodes => /\ ref_status = "RUNNING"
                     /\ Ref!fetch32_fault(ref_pc) = "NONE"
                     /\ DecodeError(w) = "None"
  BY <1>4, Zenon DEF Ref!Decodes, Ref!Fetches
<1>8. DecodeError(w) = "None" =>
        /\ c.memory_operation # "None" => c.control_flow = "Sequential"
        /\ c.control_flow # "Sequential" => ~c.halt
        /\ c.control_flow \in {"ConditionalBranch", "RegisterJump"} =>
             ~c.reg_write
        /\ c.memory_operation = "Store" => ~c.halt /\ ~c.reg_write
  BY <1>3, TableFacts, Zenon
<1>9. ASSUME Ref!Decodes, c.control_flow # "Sequential"
      PROVE  ~Faulty(w, ref_pc, regs) /\ ~Stores(w) /\ ~Loads(w)
  <2>1. c.memory_operation = "None"
    BY <1>7, <1>8, <1>9, Zenon
  <2>2. ~Stores(w) /\ ~Loads(w)
    BY <2>1, Zenon DEF Stores, Loads
  <2> QED BY <1>7, <1>9, <2>2, Zenon DEF Faulty
<1>10. ASSUME Ref!Decodes, c.control_flow # "Sequential", ~c.reg_write,
              Ref!retire_to(NextOf(w, ref_pc, regs))
       PROVE  Moves(image, RefState, RefState')
  <2>1. ~c.halt
    BY <1>7, <1>8, <1>10, Zenon
  <2>2. ~Faulty(w, ref_pc, regs) /\ ~Stores(w)
    BY <1>9, <1>10, Zenon
  <2>3. Retires(image, w, s, t)
    BY <1>1, <1>2, <1>7, <1>10, <2>1, <2>2, Zenon DEF Retires, Ref!retire_to
  <2> QED BY <1>5, <1>7, <1>10, <2>3, Zenon
<1>11. ASSUME Ref!Decodes, ~Faulty(w, ref_pc, regs), ~Stores(w),
              Ref!Writeback(ValueOf(image, w, s), NextOf(w, ref_pc, regs))
       PROVE  Moves(image, RefState, RefState')
  <2> DEFINE v == ValueOf(image, w, s)
             n == NextOf(w, ref_pc, regs)
             d == TargetOf(w)
  <2>1. (IF Ref!control.register_destination = "ReturnAddress"
           THEN 31 ELSE Ref!decoded.rd) = d
    BY <1>4, Zenon DEF TargetOf
  <2>2. Ref!WriteRegister(d, v) = RegistersAfter(regs, d, v)
    BY RefDevices, Zenon
  <2> HIDE DEF v, n, d
  <2>3. /\ ref_registers' = IF c.reg_write THEN RegistersAfter(regs, d, v)
                                           ELSE regs
        /\ ref_pc' = n
        /\ ref_timer' = Ref!RetireTick(ref_timer)
        /\ ref_status' = IF c.halt THEN "HALTED" ELSE "RUNNING"
        /\ UNCHANGED <<image, ref_fault_info, ref_ram, ref_gpio,
                       ref_debug_value, ref_uart_log>>
    <3>1. Ref!Writeback(v, n)
      BY <1>11, Zenon DEF v, n
    <3> QED BY <1>4, <2>1, <2>2, <3>1, Zenon DEF Ref!Writeback
  <2>4. Retires(image, w, s, t)
    BY <1>1, <1>2, <1>11, <2>3, Zenon DEF Retires, v, n, d
  <2> QED BY <1>5, <1>7, <1>11, <2>4, Zenon
<1>12. CASE Ref!FetchFault
  <2>1. /\ ref_status = "RUNNING" /\ Ref!fetch32_fault(ref_pc) # "NONE"
        /\ Ref!enter_fault(FetchFaultCode(ref_pc), Zero, FALSE, Zero)
    BY <1>12, RefWords, Zenon DEF Ref!FetchFault, FetchFaultCode
  <2> QED BY <1>6, <2>1, Zenon DEF Faulty, InfoOf
<1>13. CASE Ref!DecodeFault
  <2>1. /\ ref_status = "RUNNING" /\ Ref!fetch32_fault(ref_pc) = "NONE"
        /\ DecodeError(w) # "None"
        /\ Ref!enter_fault(DecodeFaultCode(w), w, FALSE, Zero)
    BY <1>4, <1>13, RefWords, Zenon
       DEF Ref!DecodeFault, Ref!Fetches, DecodeFaultCode
  <2> QED BY <1>6, <2>1, Zenon DEF Faulty, InfoOf
<1>14. CASE Ref!LoadFault
  <2>1. /\ Ref!Decodes /\ Loads(w) /\ Ref!read32_fault(x) # "NONE"
        /\ Ref!enter_fault(LoadFaultCode(x), w, TRUE, x)
    BY <1>4, <1>14, Zenon DEF Ref!LoadFault, LoadFaultCode, Loads
  <2> QED BY <1>6, <1>7, <2>1, Zenon DEF Faulty, InfoOf
<1>15. CASE Ref!StoreFault
  <2>1. /\ Ref!Decodes /\ Stores(w) /\ Ref!write32_fault(x) # "NONE"
        /\ Ref!enter_fault(StoreFaultCode(x), w, TRUE, x)
    BY <1>4, <1>15, Zenon DEF Ref!StoreFault, StoreFaultCode, Stores
  <2>2. ~Loads(w)
    BY <2>1, SMT DEF Loads, Stores
  <2> QED BY <1>6, <1>7, <2>1, <2>2, Zenon DEF Faulty, InfoOf
<1>16. CASE Ref!Branch
  <2>1. /\ Ref!Decodes /\ c.control_flow = "ConditionalBranch"
        /\ Ref!retire_to(IF Ref!branch_taken(c.branch_predicate,
                              LhsOf(w, regs), RhsOf(w, regs))
                           THEN Ref!Add(Add(ref_pc, Four),
                                  Ref!branch_displacement(Decode(w).imm16))
                           ELSE Add(ref_pc, Four))
    BY <1>4, <1>16, Zenon DEF Ref!Branch
  <2>2. Ref!retire_to(NextOf(w, ref_pc, regs))
    BY <2>1, RefWords, RefExecution, Zenon DEF NextOf
  <2>3. ~c.reg_write /\ c.control_flow # "Sequential"
    BY <1>7, <1>8, <2>1, SMT
  <2> QED BY <1>10, <2>1, <2>2, <2>3, Zenon
<1>17. CASE Ref!Jump
  <2>1. /\ Ref!Decodes /\ c.control_flow = "RelativeJump" /\ ~c.reg_write
        /\ Ref!retire_to(Ref!Add(Add(ref_pc, Four),
                           Ref!jump_displacement(Decode(w).imm26)))
    BY <1>4, <1>17, Zenon DEF Ref!Jump
  <2>2. c.control_flow # "ConditionalBranch" /\ c.control_flow # "Sequential"
    BY <2>1, SMT
  <2>3. Ref!retire_to(NextOf(w, ref_pc, regs))
    BY <2>1, <2>2, RefWords, RefExecution, Zenon DEF NextOf
  <2> QED BY <1>10, <2>1, <2>2, <2>3, Zenon
<1>18. CASE Ref!JumpRegister
  <2>1. /\ Ref!Decodes /\ c.control_flow = "RegisterJump"
        /\ Ref!retire_to(LhsOf(w, regs))
    BY <1>4, <1>18, Zenon DEF Ref!JumpRegister
  <2>2. /\ c.control_flow # "ConditionalBranch"
        /\ c.control_flow # "RelativeJump" /\ c.control_flow # "Sequential"
    BY <2>1, SMT
  <2>3. Ref!retire_to(NextOf(w, ref_pc, regs))
    BY <2>1, <2>2, Zenon DEF NextOf
  <2>4. ~c.reg_write
    BY <1>7, <1>8, <2>1, Zenon
  <2> QED BY <1>10, <2>1, <2>2, <2>3, <2>4, Zenon
<1>19. CASE Ref!Store
  <2> DEFINE v == DataOf(w, regs)
  <2>1. /\ Ref!Decodes /\ Stores(w) /\ Ref!write32_fault(x) = "NONE"
        /\ ref_ram' = Ref!RamWritten(x, v)
        /\ ref_timer' = Ref!RetireTick(Ref!TimerWritten(x, v))
        /\ ref_gpio' = Ref!GpioWritten(x, v)
        /\ ref_debug_value' = Ref!DebugWritten(x, v)
        /\ ref_uart_log' = Ref!UartWritten(x, v)
        /\ ref_pc' = Add(ref_pc, Four)
        /\ UNCHANGED <<image, ref_registers, ref_status, ref_fault_info>>
    BY <1>4, <1>19, Zenon DEF Ref!Store, Stores
  <2>2. ~Loads(w)
    BY <2>1, SMT DEF Loads, Stores
  <2>3. ~Faulty(w, ref_pc, regs)
    BY <1>7, <2>1, <2>2, Zenon DEF Faulty
  <2>4. StoresTo(w, s, t)
    BY <1>1, <1>2, <1>7, <2>1, <2>3, RefDevices, Zenon DEF StoresTo
  <2> QED BY <1>5, <1>7, <2>1, <2>4, Zenon
<1>20. CASE Ref!Load
  <2>1. PICK input \in {Zero} :
               Ref!Writeback(Ref!read32(Ref!alu_result, input),
                             Ref!pc_plus_4)
    BY <1>20, RefWords, Zenon DEF Ref!Load
  <2>2. Ref!Decodes /\ Loads(w) /\ Ref!read32_fault(x) = "NONE"
    BY <1>4, <1>20, Zenon DEF Ref!Load, Loads
  <2>3. ~Stores(w) /\ c.control_flow = "Sequential"
    BY <1>7, <1>8, <2>2, SMT DEF Loads, Stores
  <2>4. ~Faulty(w, ref_pc, regs)
    BY <1>7, <2>2, <2>3, Zenon DEF Faulty
  <2>5. ValueOf(image, w, s) = Ref!read32(x, Zero)
    BY <1>1, <2>2, RefDevices, Zenon DEF ValueOf, s
  <2>6. NextOf(w, ref_pc, regs) = Add(ref_pc, Four)
    BY <2>3, SMT DEF NextOf
  <2>7. Ref!Writeback(ValueOf(image, w, s), NextOf(w, ref_pc, regs))
    BY <1>4, <2>1, <2>5, <2>6, Zenon
  <2> QED BY <1>11, <2>2, <2>3, <2>4, <2>7, Zenon
<1>21. CASE Ref!JumpAndLink
  <2>1. /\ Ref!Decodes /\ c.control_flow = "RelativeJump"
        /\ Ref!Writeback(Add(ref_pc, Four),
             Ref!Add(Add(ref_pc, Four),
                     Ref!jump_displacement(Decode(w).imm26)))
    BY <1>4, <1>21, Zenon DEF Ref!JumpAndLink
  <2>2. c.control_flow # "ConditionalBranch" /\ c.control_flow # "Sequential"
    BY <2>1, SMT
  <2>3. ~Faulty(w, ref_pc, regs) /\ ~Stores(w) /\ ~Loads(w)
    BY <1>9, <2>1, <2>2, Zenon
  <2>4. /\ ValueOf(image, w, s) = Add(ref_pc, Four)
        /\ NextOf(w, ref_pc, regs) =
             Ref!Add(Add(ref_pc, Four),
                     Ref!jump_displacement(Decode(w).imm26))
    BY <1>1, <2>1, <2>2, <2>3, RefWords, RefExecution, Zenon
       DEF ValueOf, NextOf
  <2>5. Ref!Writeback(ValueOf(image, w, s), NextOf(w, ref_pc, regs))
    BY <2>1, <2>4, Zenon
  <2> QED BY <1>11, <2>1, <2>3, <2>5, Zenon
<1>22. CASE Ref!Compute
  <2>1. /\ Ref!Decodes /\ c.control_flow = "Sequential"
        /\ c.memory_operation = "None"
        /\ Ref!Writeback(x, Add(ref_pc, Four))
    BY <1>4, <1>22, Zenon DEF Ref!Compute
  <2>2. ~Stores(w) /\ ~Loads(w)
    BY <2>1, SMT DEF Loads, Stores
  <2>3. ~Faulty(w, ref_pc, regs)
    BY <1>7, <2>1, <2>2, Zenon DEF Faulty
  <2>4. c.control_flow # "RelativeJump"
    BY <2>1, SMT
  <2>5. ValueOf(image, w, s) = x
    BY <1>1, <2>2, <2>4, Zenon DEF ValueOf
  <2>6. NextOf(w, ref_pc, regs) = Add(ref_pc, Four)
    BY <2>1, SMT DEF NextOf
  <2>7. Ref!Writeback(ValueOf(image, w, s), NextOf(w, ref_pc, regs))
    BY <2>1, <2>5, <2>6, Zenon
  <2> QED BY <1>11, <2>1, <2>2, <2>3, <2>7, Zenon
<1> QED BY <1>12, <1>13, <1>14, <1>15, <1>16, <1>17, <1>18, <1>19, <1>20,
           <1>21, <1>22, Zenon DEF Ref!Step
(***************************************************************************)
(* The golden model that the RTL implements is a second instance of the    *)
(* same module: its operators are those of the first.                      *)
(***************************************************************************)
LEMMA SameInstances ==
  /\ Golden!RamBytes = Ref!RamBytes
  /\ \A a : /\ Golden!InRom(a) = Ref!InRom(a)
            /\ Golden!InRam(a) = Ref!InRam(a)
            /\ Golden!InUart(a) = Ref!InUart(a)
            /\ Golden!InTimer(a) = Ref!InTimer(a)
            /\ Golden!InGpio(a) = Ref!InGpio(a)
            /\ Golden!InDebug(a) = Ref!InDebug(a)
            /\ Golden!fetch32_fault(a) = Ref!fetch32_fault(a)
            /\ Golden!read32_fault(a) = Ref!read32_fault(a)
            /\ Golden!write32_fault(a) = Ref!write32_fault(a)
  /\ \A v, k : Golden!ByteOf(v, k) = Ref!ByteOf(v, k)
  /\ \A b0, b1, b2, b3 :
       Golden!WordOfBytes(b0, b1, b2, b3) = Ref!WordOfBytes(b0, b1, b2, b3)
  /\ \A t : Golden!RetireTick(t) = Ref!RetireTick(t)
<1>1. \A a, b, l : Ref!InWindow(a, b, l) = InWindow(a, b, l)
  BY RefWords, Zenon DEF Ref!InWindow, InWindow
<1>2. /\ Ref!ROM_LAST = ROM_LAST
      /\ Ref!RAM_BASE = RAM_BASE /\ Ref!RAM_LAST = RAM_LAST
      /\ Ref!UART_BASE = UART_BASE /\ Ref!UART_LAST = UART_LAST
      /\ Ref!TIMER_BASE = TIMER_BASE /\ Ref!TIMER_LAST = TIMER_LAST
      /\ Ref!GPIO_BASE = GPIO_BASE /\ Ref!GPIO_LAST = GPIO_LAST
      /\ Ref!DEBUG_BASE = DEBUG_BASE /\ Ref!DEBUG_LAST = DEBUG_LAST
  BY RefWords DEF Ref!ROM_LAST, ROM_LAST, Ref!RAM_BASE, RAM_BASE,
     Ref!RAM_LAST, RAM_LAST, Ref!UART_BASE, UART_BASE, Ref!UART_LAST,
     UART_LAST, Ref!TIMER_BASE, TIMER_BASE, Ref!TIMER_LAST, TIMER_LAST,
     Ref!GPIO_BASE, GPIO_BASE, Ref!GPIO_LAST, GPIO_LAST, Ref!DEBUG_BASE,
     DEBUG_BASE, Ref!DEBUG_LAST, DEBUG_LAST
<1>3. \A a : /\ Ref!InRom(a) = ULeq(a, ROM_LAST)
             /\ Ref!InRam(a) = InWindow(a, RAM_BASE, RAM_LAST)
             /\ Ref!InUart(a) = InWindow(a, UART_BASE, UART_LAST)
             /\ Ref!InTimer(a) = InWindow(a, TIMER_BASE, TIMER_LAST)
             /\ Ref!InGpio(a) = InWindow(a, GPIO_BASE, GPIO_LAST)
             /\ Ref!InDebug(a) = InWindow(a, DEBUG_BASE, DEBUG_LAST)
  BY <1>1, <1>2, RefWords, Zenon
     DEF Ref!InRom, Ref!InRam, Ref!InUart, Ref!InTimer, Ref!InGpio,
         Ref!InDebug
<1>4. \A a : /\ Golden!InRom(a) = Ref!InRom(a)
             /\ Golden!InRam(a) = Ref!InRam(a)
             /\ Golden!InUart(a) = Ref!InUart(a)
             /\ Golden!InTimer(a) = Ref!InTimer(a)
             /\ Golden!InGpio(a) = Ref!InGpio(a)
             /\ Golden!InDebug(a) = Ref!InDebug(a)
  BY <1>3, GoldenWindows, Zenon
<1>5. \A a : Golden!data_fault(a) = Ref!data_fault(a)
  BY <1>4, Zenon DEF Golden!data_fault, Ref!data_fault
<1>6. \A a : /\ Golden!fetch32_fault(a) = Ref!fetch32_fault(a)
             /\ Golden!read32_fault(a) = Ref!read32_fault(a)
             /\ Golden!write32_fault(a) = Ref!write32_fault(a)
  BY <1>4, <1>5, Zenon DEF Golden!fetch32_fault, Ref!fetch32_fault,
     Golden!read32_fault, Ref!read32_fault, Golden!write32_fault,
     Ref!write32_fault
<1>7. Golden!RamBytes = Ref!RamBytes
  BY DEF Golden!RamBytes, Ref!RamBytes
<1>8. \A v, k : Golden!ByteOf(v, k) = Ref!ByteOf(v, k)
  BY DEF Golden!ByteOf, Ref!ByteOf
<1>9. \A b0, b1, b2, b3 :
        Golden!WordOfBytes(b0, b1, b2, b3) = Ref!WordOfBytes(b0, b1, b2, b3)
  BY GoldenWords, RefWords DEF Golden!WordOfBytes, Ref!WordOfBytes
<1>10. \A t : Golden!RetireTick(t) = Ref!RetireTick(t)
  BY GoldenWords, RefWords, Zenon DEF Golden!RetireTick, Ref!RetireTick
<1> QED BY <1>4, <1>6, <1>7, <1>8, <1>9, <1>10, Zenon
\* Its operators on the mapped state of the RTL are those on AbsState.
LEMMA GoldenParts ==
  LET w == WordAt(image, AbsPc)
      regs == AbsRegisters
  IN  /\ \A a : Golden!RomRead(a) = WordAt(image, a)
      /\ Golden!instruction = w
      /\ Golden!decoded = Decode(w)
      /\ Golden!control = Ctl(w)
      /\ Golden!DecodeError(w) = DecodeError(w)
      /\ Golden!pc_plus_4 = Add(AbsPc, Four)
      /\ Golden!operand_lhs = LhsOf(w, regs)
      /\ Golden!store_data = DataOf(w, regs)
      /\ Golden!operand_rhs = RhsOf(w, regs)
      /\ Golden!alu_result = ResultOf(w, regs)
<1> DEFINE w == WordAt(image, AbsPc)
           regs == AbsRegisters
<1>1. ASSUME NEW a PROVE Golden!RomRead(a) = WordAt(image, a)
  BY SameInstances, Zenon DEF Golden!RomRead, Golden!RomByte, WordAt
<1>2. Golden!instruction = w
  BY <1>1, Zenon DEF Golden!instruction
<1> HIDE DEF w
<1>3. Golden!decoded = Decode(w)
  BY <1>2, GoldenDecoder, Zenon DEF Golden!decoded
<1>4. Golden!control = Ctl(w)
  BY <1>3, GoldenDecoder, Zenon DEF Golden!control, Ctl
<1>5. Golden!pc_plus_4 = Add(AbsPc, Four)
  BY SameInstances, GoldenWords, Zenon DEF Golden!pc_plus_4
<1>6. \A r : Golden!ReadRegister(r) = RegisterOf(regs, r)
  BY SameInstances, GoldenWords, Zenon DEF Golden!ReadRegister, RegisterOf
<1>7. /\ Golden!operand_lhs = LhsOf(w, regs)
      /\ Golden!store_data = DataOf(w, regs)
  BY <1>3, <1>6, Zenon DEF Golden!operand_lhs, Golden!store_data, LhsOf, DataOf
<1>8. Golden!operand_rhs = RhsOf(w, regs)
  BY <1>3, <1>4, <1>7, GoldenExecution, Zenon DEF Golden!operand_rhs, RhsOf
<1>9. Golden!alu_result = ResultOf(w, regs)
  BY <1>4, <1>7, <1>8, GoldenExecution, Zenon DEF Golden!alu_result, ResultOf
<1>10. Golden!DecodeError(w) = DecodeError(w)
  BY GoldenDecoder, Zenon
<1> QED BY <1>1, <1>2, <1>3, <1>4, <1>5, <1>7, <1>8, <1>9, <1>10, Zenon DEF w

\* ... and so are its memory and devices.
LEMMA GoldenDevices ==
  /\ \A a : Golden!read32(a, Zero) = DataAt(image, AbsState, a)
  /\ \A a, v : /\ Golden!RamWritten(a, v) = RamAfter(AbsRam, a, v)
               /\ Golden!TimerWritten(a, v) = TimerAfter(AbsTimer, a, v)
               /\ Golden!GpioWritten(a, v) = GpioAfter(AbsGpio, a, v)
               /\ Golden!DebugWritten(a, v) = DebugAfter(AbsDebugValue, a, v)
               /\ Golden!UartWritten(a, v) = LogAfter(AbsUartLog, a, v)
  /\ \A r, v : Golden!WriteRegister(r, v) = RegistersAfter(AbsRegisters, r, v)
<1>1. ASSUME NEW a PROVE Golden!read32(a, Zero) = DataAt(image, AbsState, a)
  <2>1. /\ AbsState.ram = AbsRam /\ AbsState.timer = AbsTimer
        /\ AbsState.gpio = AbsGpio /\ AbsState.debug_value = AbsDebugValue
    BY Zenon DEF AbsState
  <2> DEFINE offset == a.lo % 16
  <2>2. Golden!TimerRead(offset) = TimerAt(AbsTimer, offset)
    BY SameInstances, GoldenWords, Zenon DEF Golden!TimerRead, TimerAt
  <2>3. Golden!GpioRead(offset, Zero) = GpioAt(AbsGpio, offset)
    BY SameInstances, GoldenWords, Zenon DEF Golden!GpioRead, GpioAt
  <2>4. /\ Golden!UartRead(offset) = (IF offset = 4 THEN One ELSE Zero)
        /\ Golden!DebugRead(offset) = (IF offset = 0 THEN AbsDebugValue
                                                  ELSE Zero)
    BY SameInstances, GoldenWords, Zenon DEF Golden!UartRead, Golden!DebugRead
  <2>5. Golden!RomRead(a) = WordAt(image, a)
    BY GoldenParts, Zenon
  <2>6. Golden!RamRead(a) = RamAt(AbsRam, a)
    BY SameInstances, Zenon DEF Golden!RamRead, RamAt
  <2> HIDE DEF offset
  <2> QED BY <2>1, <2>2, <2>3, <2>4, <2>5, <2>6, SameInstances, Zenon
          DEF Golden!read32, DataAt, offset
<1>2. ASSUME NEW a, NEW v
      PROVE  /\ Golden!RamWritten(a, v) = RamAfter(AbsRam, a, v)
             /\ Golden!TimerWritten(a, v) = TimerAfter(AbsTimer, a, v)
             /\ Golden!GpioWritten(a, v) = GpioAfter(AbsGpio, a, v)
             /\ Golden!DebugWritten(a, v) = DebugAfter(AbsDebugValue, a, v)
             /\ Golden!UartWritten(a, v) = LogAfter(AbsUartLog, a, v)
  <2>1. Golden!RamWritten(a, v) = RamAfter(AbsRam, a, v)
    BY SameInstances, Zenon DEF Golden!RamWritten, RamAfter, Hits
  <2>2. Golden!TimerWritten(a, v) = TimerAfter(AbsTimer, a, v)
    BY SameInstances, Zenon DEF Golden!TimerWritten, TimerAfter
  <2>3. Golden!GpioWritten(a, v) = GpioAfter(AbsGpio, a, v)
    BY SameInstances, Zenon DEF Golden!GpioWritten, GpioAfter
  <2>4. Golden!DebugWritten(a, v) = DebugAfter(AbsDebugValue, a, v)
    BY SameInstances, Zenon DEF Golden!DebugWritten, DebugAfter
  <2>5. Golden!UartWritten(a, v) = LogAfter(AbsUartLog, a, v)
    BY SameInstances, GoldenWords, Zenon DEF Golden!UartWritten, LogAfter
  <2> QED BY <2>1, <2>2, <2>3, <2>4, <2>5
<1>3. ASSUME NEW r, NEW v
      PROVE  Golden!WriteRegister(r, v) = RegistersAfter(AbsRegisters, r, v)
  BY Zenon DEF Golden!WriteRegister, RegistersAfter
<1> QED BY <1>1, <1>2, <1>3, Zenon

\* A step of the golden model that the RTL makes moves the mapped state.
LEMMA GoldenMoves ==
  ASSUME RefInv, Golden!Step
  PROVE  Moves(image, AbsState, AbsState')
<1> DEFINE w == WordAt(image, AbsPc)
           regs == AbsRegisters
           s == AbsState
           t == AbsState'
           x == ResultOf(w, regs)
           c == Ctl(w)
<1>1. /\ s.pc = AbsPc /\ s.registers = regs /\ s.status = AbsStatus
      /\ s.fault_info = AbsFaultInfo /\ s.ram = AbsRam
      /\ s.timer = AbsTimer /\ s.gpio = AbsGpio
      /\ s.debug_value = AbsDebugValue /\ s.uart_log = AbsUartLog
  BY Zenon DEF AbsState
<1>2. /\ t.pc = AbsPc' /\ t.registers = AbsRegisters'
      /\ t.status = AbsStatus'
      /\ t.fault_info = AbsFaultInfo' /\ t.ram = AbsRam'
      /\ t.timer = AbsTimer' /\ t.gpio = AbsGpio'
      /\ t.debug_value = AbsDebugValue' /\ t.uart_log = AbsUartLog'
  BY Zenon DEF AbsState
<1>3. w \in Word
  <2>1. image \in Seq(Byte)
    BY ImagesFit, Zenon DEF RefInv
  <2>2. AbsPc \in Word
    BY Zenon DEF RefInv, TypeOK, CpuTypeOK, AbsPc
  <2> QED BY <2>1, <2>2, WordAtTyped
<1>4. /\ Golden!instruction = w /\ Golden!decoded = Decode(w)
      /\ Golden!control = c
      /\ Golden!DecodeError(w) = DecodeError(w)
      /\ Golden!pc_plus_4 = Add(AbsPc, Four)
      /\ Golden!operand_lhs = LhsOf(w, regs)
      /\ Golden!store_data = DataOf(w, regs)
      /\ Golden!operand_rhs = RhsOf(w, regs)
      /\ Golden!alu_result = x
  BY GoldenParts, Zenon
<1> HIDE DEF w, s, t
<1>5. ASSUME AbsStatus = "RUNNING",
             Faults(w, s, t) \/ StoresTo(w, s, t) \/ Retires(image, w, s, t)
      PROVE  Moves(image, AbsState, AbsState')
  BY <1>1, <1>5, Zenon DEF Moves, s, t, w
<1>6. ASSUME AbsStatus = "RUNNING", Faulty(w, AbsPc, regs),
             NEW code, NEW ins, NEW has, NEW address,
             Golden!enter_fault(code, ins, has, address),
             InfoOf(w, AbsPc, regs) =
               [code |-> code, pc |-> AbsPc, instruction |-> ins,
                has_address |-> has, data_address |-> address]
      PROVE  Moves(image, AbsState, AbsState')
  <2>1. Faults(w, s, t)
    BY <1>1, <1>2, <1>6, SameInstances, Zenon DEF Faults, Golden!enter_fault
  <2> QED BY <1>5, <1>6, <2>1, Zenon
<1>7. Golden!Decodes => /\ AbsStatus = "RUNNING"
                     /\ Ref!fetch32_fault(AbsPc) = "NONE"
                     /\ DecodeError(w) = "None"
  BY <1>4, SameInstances, Zenon DEF Golden!Decodes, Golden!Fetches
<1>8. DecodeError(w) = "None" =>
        /\ c.memory_operation # "None" => c.control_flow = "Sequential"
        /\ c.control_flow # "Sequential" => ~c.halt
        /\ c.control_flow \in {"ConditionalBranch", "RegisterJump"} =>
             ~c.reg_write
        /\ c.memory_operation = "Store" => ~c.halt /\ ~c.reg_write
  BY <1>3, TableFacts, Zenon
<1>9. ASSUME Golden!Decodes, c.control_flow # "Sequential"
      PROVE  ~Faulty(w, AbsPc, regs) /\ ~Stores(w) /\ ~Loads(w)
  <2>1. c.memory_operation = "None"
    BY <1>7, <1>8, <1>9, Zenon
  <2>2. ~Stores(w) /\ ~Loads(w)
    BY <2>1, Zenon DEF Stores, Loads
  <2> QED BY <1>7, <1>9, <2>2, Zenon DEF Faulty
<1>10. ASSUME Golden!Decodes, c.control_flow # "Sequential", ~c.reg_write,
              Golden!retire_to(NextOf(w, AbsPc, regs))
       PROVE  Moves(image, AbsState, AbsState')
  <2>1. ~c.halt
    BY <1>7, <1>8, <1>10, Zenon
  <2>2. ~Faulty(w, AbsPc, regs) /\ ~Stores(w)
    BY <1>9, <1>10, Zenon
  <2>3. Retires(image, w, s, t)
    BY <1>1, <1>2, <1>7, <1>10, <2>1, <2>2, SameInstances, Zenon
       DEF Retires, Golden!retire_to
  <2> QED BY <1>5, <1>7, <1>10, <2>3, Zenon
<1>11. ASSUME Golden!Decodes, ~Faulty(w, AbsPc, regs), ~Stores(w),
              Golden!Writeback(ValueOf(image, w, s), NextOf(w, AbsPc, regs))
       PROVE  Moves(image, AbsState, AbsState')
  <2> DEFINE v == ValueOf(image, w, s)
             n == NextOf(w, AbsPc, regs)
             d == TargetOf(w)
  <2>1. (IF Golden!control.register_destination = "ReturnAddress"
           THEN 31 ELSE Golden!decoded.rd) = d
    BY <1>4, Zenon DEF TargetOf
  <2>2. Golden!WriteRegister(d, v) = RegistersAfter(regs, d, v)
    BY GoldenDevices, Zenon
  <2> HIDE DEF v, n, d
  <2>3. /\ AbsRegisters' = IF c.reg_write THEN RegistersAfter(regs, d, v)
                                           ELSE regs
        /\ AbsPc' = n
        /\ AbsTimer' = Ref!RetireTick(AbsTimer)
        /\ AbsStatus' = IF c.halt THEN "HALTED" ELSE "RUNNING"
        /\ UNCHANGED <<image, AbsFaultInfo, AbsRam, AbsGpio,
                       AbsDebugValue, AbsUartLog>>
    <3>1. Golden!Writeback(v, n)
      BY <1>11, Zenon DEF v, n
    <3> QED BY <1>4, <2>1, <2>2, <3>1, SameInstances, Zenon
       DEF Golden!Writeback
  <2>4. Retires(image, w, s, t)
    BY <1>1, <1>2, <1>11, <2>3, Zenon DEF Retires, v, n, d
  <2> QED BY <1>5, <1>7, <1>11, <2>4, Zenon
<1>12. CASE Golden!FetchFault
  <2>1. /\ AbsStatus = "RUNNING" /\ Ref!fetch32_fault(AbsPc) # "NONE"
        /\ Golden!enter_fault(FetchFaultCode(AbsPc), Zero, FALSE, Zero)
    BY <1>12, SameInstances, GoldenWords, Zenon
       DEF Golden!FetchFault, FetchFaultCode
  <2> QED BY <1>6, <2>1, Zenon DEF Faulty, InfoOf
<1>13. CASE Golden!DecodeFault
  <2>1. /\ AbsStatus = "RUNNING" /\ Ref!fetch32_fault(AbsPc) = "NONE"
        /\ DecodeError(w) # "None"
        /\ Golden!enter_fault(DecodeFaultCode(w), w, FALSE, Zero)
    BY <1>4, <1>13, SameInstances, GoldenWords, Zenon
       DEF Golden!DecodeFault, Golden!Fetches, DecodeFaultCode
  <2> QED BY <1>6, <2>1, Zenon DEF Faulty, InfoOf
<1>14. CASE Golden!LoadFault
  <2>1. /\ Golden!Decodes /\ Loads(w) /\ Ref!read32_fault(x) # "NONE"
        /\ Golden!enter_fault(LoadFaultCode(x), w, TRUE, x)
    BY <1>4, <1>14, SameInstances, Zenon
       DEF Golden!LoadFault, LoadFaultCode, Loads
  <2> QED BY <1>6, <1>7, <2>1, Zenon DEF Faulty, InfoOf
<1>15. CASE Golden!StoreFault
  <2>1. /\ Golden!Decodes /\ Stores(w) /\ Ref!write32_fault(x) # "NONE"
        /\ Golden!enter_fault(StoreFaultCode(x), w, TRUE, x)
    BY <1>4, <1>15, SameInstances, Zenon
       DEF Golden!StoreFault, StoreFaultCode, Stores
  <2>2. ~Loads(w)
    BY <2>1, SMT DEF Loads, Stores
  <2> QED BY <1>6, <1>7, <2>1, <2>2, Zenon DEF Faulty, InfoOf
<1>16. CASE Golden!Branch
  <2>1. /\ Golden!Decodes /\ c.control_flow = "ConditionalBranch"
        /\ Golden!retire_to(IF Golden!branch_taken(c.branch_predicate,
                              LhsOf(w, regs), RhsOf(w, regs))
                           THEN Golden!Add(Add(AbsPc, Four),
                                  Golden!branch_displacement(Decode(w).imm16))
                           ELSE Add(AbsPc, Four))
    BY <1>4, <1>16, Zenon DEF Golden!Branch
  <2>2. Golden!retire_to(NextOf(w, AbsPc, regs))
    BY <2>1, SameInstances, GoldenWords, GoldenExecution, Zenon DEF NextOf
  <2>3. ~c.reg_write /\ c.control_flow # "Sequential"
    BY <1>7, <1>8, <2>1, SMT
  <2> QED BY <1>10, <2>1, <2>2, <2>3, Zenon
<1>17. CASE Golden!Jump
  <2>1. /\ Golden!Decodes /\ c.control_flow = "RelativeJump" /\ ~c.reg_write
        /\ Golden!retire_to(Golden!Add(Add(AbsPc, Four),
                           Golden!jump_displacement(Decode(w).imm26)))
    BY <1>4, <1>17, Zenon DEF Golden!Jump
  <2>2. c.control_flow # "ConditionalBranch" /\ c.control_flow # "Sequential"
    BY <2>1, SMT
  <2>3. Golden!retire_to(NextOf(w, AbsPc, regs))
    BY <2>1, <2>2, SameInstances, GoldenWords, GoldenExecution, Zenon
       DEF NextOf
  <2> QED BY <1>10, <2>1, <2>2, <2>3, Zenon
<1>18. CASE Golden!JumpRegister
  <2>1. /\ Golden!Decodes /\ c.control_flow = "RegisterJump"
        /\ Golden!retire_to(LhsOf(w, regs))
    BY <1>4, <1>18, Zenon DEF Golden!JumpRegister
  <2>2. /\ c.control_flow # "ConditionalBranch"
        /\ c.control_flow # "RelativeJump" /\ c.control_flow # "Sequential"
    BY <2>1, SMT
  <2>3. Golden!retire_to(NextOf(w, AbsPc, regs))
    BY <2>1, <2>2, Zenon DEF NextOf
  <2>4. ~c.reg_write
    BY <1>7, <1>8, <2>1, Zenon
  <2> QED BY <1>10, <2>1, <2>2, <2>3, <2>4, Zenon
<1>19. CASE Golden!Store
  <2> DEFINE v == DataOf(w, regs)
  <2>1. /\ Golden!Decodes /\ Stores(w) /\ Ref!write32_fault(x) = "NONE"
        /\ AbsRam' = Golden!RamWritten(x, v)
        /\ AbsTimer' = Ref!RetireTick(Golden!TimerWritten(x, v))
        /\ AbsGpio' = Golden!GpioWritten(x, v)
        /\ AbsDebugValue' = Golden!DebugWritten(x, v)
        /\ AbsUartLog' = Golden!UartWritten(x, v)
        /\ AbsPc' = Add(AbsPc, Four)
        /\ UNCHANGED <<image, AbsRegisters, AbsStatus, AbsFaultInfo>>
    BY <1>4, <1>19, SameInstances, Zenon DEF Golden!Store, Stores
  <2>2. ~Loads(w)
    BY <2>1, SMT DEF Loads, Stores
  <2>3. ~Faulty(w, AbsPc, regs)
    BY <1>7, <2>1, <2>2, Zenon DEF Faulty
  <2>4. StoresTo(w, s, t)
    BY <1>1, <1>2, <1>7, <2>1, <2>3, GoldenDevices, Zenon DEF StoresTo
  <2> QED BY <1>5, <1>7, <2>1, <2>4, Zenon
<1>20. CASE Golden!Load
  <2>1. PICK input \in GpioInputs :
               Golden!Writeback(Golden!read32(Golden!alu_result, input),
                             Golden!pc_plus_4)
    BY <1>20, SameInstances, GoldenWords, Zenon DEF Golden!Load
  <2>0. input = Zero
    BY PinsAreLow, Zenon
  <2>2. Golden!Decodes /\ Loads(w) /\ Ref!read32_fault(x) = "NONE"
    BY <1>4, <1>20, SameInstances, Zenon DEF Golden!Load, Loads
  <2>3. ~Stores(w) /\ c.control_flow = "Sequential"
    BY <1>7, <1>8, <2>2, SMT DEF Loads, Stores
  <2>4. ~Faulty(w, AbsPc, regs)
    BY <1>7, <2>2, <2>3, Zenon DEF Faulty
  <2>5. ValueOf(image, w, s) = Golden!read32(x, Zero)
    BY <1>1, <2>2, GoldenDevices, Zenon DEF ValueOf, s
  <2>6. NextOf(w, AbsPc, regs) = Add(AbsPc, Four)
    BY <2>3, SMT DEF NextOf
  <2>7. Golden!Writeback(ValueOf(image, w, s), NextOf(w, AbsPc, regs))
    BY <1>4, <2>0, <2>1, <2>5, <2>6, Zenon
  <2> QED BY <1>11, <2>2, <2>3, <2>4, <2>7, Zenon
<1>21. CASE Golden!JumpAndLink
  <2>1. /\ Golden!Decodes /\ c.control_flow = "RelativeJump"
        /\ Golden!Writeback(Add(AbsPc, Four),
             Golden!Add(Add(AbsPc, Four),
                     Golden!jump_displacement(Decode(w).imm26)))
    BY <1>4, <1>21, Zenon DEF Golden!JumpAndLink
  <2>2. c.control_flow # "ConditionalBranch" /\ c.control_flow # "Sequential"
    BY <2>1, SMT
  <2>3. ~Faulty(w, AbsPc, regs) /\ ~Stores(w) /\ ~Loads(w)
    BY <1>9, <2>1, <2>2, Zenon
  <2>4. /\ ValueOf(image, w, s) = Add(AbsPc, Four)
        /\ NextOf(w, AbsPc, regs) =
             Golden!Add(Add(AbsPc, Four),
                     Golden!jump_displacement(Decode(w).imm26))
    BY <1>1, <2>1, <2>2, <2>3, SameInstances, GoldenWords, GoldenExecution,
       Zenon
       DEF ValueOf, NextOf
  <2>5. Golden!Writeback(ValueOf(image, w, s), NextOf(w, AbsPc, regs))
    BY <2>1, <2>4, Zenon
  <2> QED BY <1>11, <2>1, <2>3, <2>5, Zenon
<1>22. CASE Golden!Compute
  <2>1. /\ Golden!Decodes /\ c.control_flow = "Sequential"
        /\ c.memory_operation = "None"
        /\ Golden!Writeback(x, Add(AbsPc, Four))
    BY <1>4, <1>22, Zenon DEF Golden!Compute
  <2>2. ~Stores(w) /\ ~Loads(w)
    BY <2>1, SMT DEF Loads, Stores
  <2>3. ~Faulty(w, AbsPc, regs)
    BY <1>7, <2>1, <2>2, Zenon DEF Faulty
  <2>4. c.control_flow # "RelativeJump"
    BY <2>1, SMT
  <2>5. ValueOf(image, w, s) = x
    BY <1>1, <2>2, <2>4, Zenon DEF ValueOf
  <2>6. NextOf(w, AbsPc, regs) = Add(AbsPc, Four)
    BY <2>1, SMT DEF NextOf
  <2>7. Golden!Writeback(ValueOf(image, w, s), NextOf(w, AbsPc, regs))
    BY <2>1, <2>5, <2>6, Zenon
  <2> QED BY <1>11, <2>1, <2>2, <2>3, <2>7, Zenon
<1> QED BY <1>12, <1>13, <1>14, <1>15, <1>16, <1>17, <1>18, <1>19, <1>20,
           <1>21, <1>22, Zenon DEF Golden!Step
(***************************************************************************)
(* What an edge of the RTL is to the golden model and to the testbench.    *)
(***************************************************************************)
\* An instruction other than a store retires; what the retirement outputs say
\* is what the golden model did.
EdgeRetires ==
  /\ Golden!Step
  /\ ~StoreCommitted /\ ~StoreCommitted'
  /\ (retire.valid)'
  /\ cpu_state' # "FAULT" /\ cpu_state # "FAULT"
  /\ Golden!control.memory_operation # "Store"
  /\ (retire.pc)' = AbsPc
  /\ (retire.instruction)' = Golden!instruction
  /\ (retire.next_pc)' = AbsPc'
  /\ (retire.mem_write)' = FALSE
  /\ (retire.reg_write)' \in BOOLEAN
  /\ \A q \in Register : AbsRegisters'[q] # AbsRegisters[q] <=>
                           (retire.reg_write)' /\ (retire.rd)' = q
  /\ (retire.reg_write)' => /\ (retire.rd)' \in Register
                            /\ (retire.value)' = AbsRegisters'[(retire.rd)']

\* The bus captures a store that cannot fault.
EdgeCommits ==
  /\ Golden!Step
  /\ ~StoreCommitted /\ StoreCommitted'
  /\ ~(retire.valid)'
  /\ cpu_state' # "FAULT" /\ cpu_state # "FAULT"
  /\ Golden!control.memory_operation = "Store"
  /\ pc' = AbsPc /\ IR' = Golden!instruction
  /\ next_pc_latch' = AbsPc'
  /\ alu_result_latch' = Golden!alu_result
  /\ store_data_latch' = Golden!store_data

\* The core takes the response to a store and retires it.
EdgeCompletes ==
  /\ UNCHANGED Golden!vars
  /\ StoreCommitted /\ ~StoreCommitted'
  /\ (retire.valid)'
  /\ cpu_state' # "FAULT" /\ cpu_state # "FAULT"
  /\ (retire.pc)' = pc
  /\ (retire.instruction)' = IR
  /\ (retire.next_pc)' = next_pc_latch
  /\ (retire.reg_write)' = FALSE
  /\ (retire.mem_write)' = TRUE
  /\ (retire.mem_addr)' = alu_result_latch
  /\ (retire.mem_value)' = store_data_latch

\* The core enters FAULT.
EdgeFaults ==
  /\ Golden!Step
  /\ ~StoreCommitted /\ ~StoreCommitted'
  /\ ~(retire.valid)'
  /\ cpu_state' = "FAULT" /\ cpu_state # "FAULT"

\* Nothing that the golden model could see.
EdgeWaits ==
  /\ UNCHANGED Golden!vars
  /\ StoreCommitted' <=> StoreCommitted
  /\ ~(retire.valid)'
  /\ cpu_state' = "FAULT" <=> cpu_state = "FAULT"
  /\ StoreCommitted => UNCHANGED <<pc, IR, next_pc_latch, alu_result_latch,
                                   store_data_latch>>

\* The next instruction is another one.
LEMMA NextDiffers ==
  ASSUME NEW a \in Word
  PROVE  Add(a, Four) # a
<1>1. a.lo \in Int /\ 0 <= a.lo /\ a.lo <= 65535
  BY WordParts
<1>2. Add(a, Four).lo = (a.lo + 4) % 65536
  BY <1>1, SMT DEF Add, Four, W, HalfMod
<1>3. (a.lo + 4) % 65536 # a.lo
  BY <1>1, SMT
<1> QED BY <1>2, <1>3

\* The outputs of an instruction that retires in EXECUTE.
LEMMA JumpRetires ==
  ASSUME RefInv, RefInv', RunEdge, ~StoreCommitted, ~StoreCommitted',
         ExecuteBranch \/ ExecuteJump \/ ExecuteJumpRegister
  PROVE  EdgeRetires
<1>1. Golden!Step
  BY ExecuteSteps, Zenon DEF Golden!Step
<1>2. /\ cpu_state = "EXECUTE" /\ cpu_state' = "FETCH"
      /\ registers' = registers
      /\ ControlFlow(IR) \in {"CONDITIONAL_BRANCH", "RELATIVE_JUMP",
                              "REGISTER_JUMP"}
      /\ \E next : retire_jump(next)
  BY Zenon DEF ExecuteBranch, ExecuteJump, ExecuteJumpRegister, ExecuteAlu,
     retire_jump
<1>3. PICK next : retire_jump(next)
  BY <1>2
<1>4. /\ (retire.valid)' = TRUE /\ (retire.pc)' = pc
      /\ (retire.instruction)' = IR /\ (retire.next_pc)' = pc'
      /\ (retire.mem_write)' = FALSE
      /\ (retire.reg_write)' = FALSE
  BY <1>3, Zenon DEF retire_jump, record_retirement
<1>5. TypeOK /\ image \in Images /\ HasFetched /\ DecodeValid(IR)
  BY <1>2, Zenon DEF RefInv, Underway, HasDecoded
<1>6. AbsPc = pc /\ AbsPc' = pc'
  BY Zenon DEF AbsPc
<1>7. Golden!instruction = IR
  BY <1>5, GoldenInstruction, Zenon
<1>8. Golden!control.memory_operation # "Store"
  <2>1. /\ ControlMemoryOperation(IR) \in {"LOAD", "STORE", "NONE"}
        /\ ControlMemoryOperation(IR) # "NONE" =>
             ControlFlow(IR) = "SEQUENTIAL"
        /\ ControlMemoryOperation(IR) = "NONE" =>
             Golden!control.memory_operation = "None"
    BY <1>5, GoldenControl, Zenon
  <2> QED BY <1>2, <2>1, SMT
<1>9. AbsRegisters' = AbsRegisters
  BY <1>2, Zenon DEF AbsRegisters, RegisterData
<1>10. cpu_state' # "FAULT" /\ cpu_state # "FAULT"
  BY <1>2, Zenon
<1> QED BY <1>1, <1>4, <1>6, <1>7, <1>8, <1>9, <1>10, Zenon DEF EdgeRetires
\* The outputs of an instruction that retires in WRITEBACK.
LEMMA WritebackRetires ==
  ASSUME RefInv, RefInv', RunEdge, ~StoreCommitted, ~StoreCommitted',
         Writeback
  PROVE  EdgeRetires
<1> DEFINE d == WritebackDestination(IR)
           v == WritebackValue
           writes == ControlRegWrite(IR) /\ d # 0
<1>1. Golden!Step
  BY WritebackStep, Zenon DEF Golden!Step
<1>2. /\ cpu_state = "WRITEBACK"
      /\ registers' = IF writes THEN [registers EXCEPT ![d] = v]
                                ELSE registers
      /\ cpu_state' \in {"HALTED", "FETCH"}
  BY Zenon DEF Writeback
<1>3. /\ (retire.valid)' = TRUE /\ (retire.pc)' = pc
      /\ (retire.instruction)' = IR /\ (retire.next_pc)' = pc'
      /\ (retire.mem_write)' = FALSE
      /\ (retire.reg_write)' = (writes /\ v # RegisterData(d))
      /\ (retire.rd)' = d /\ (retire.value)' = v
  BY Zenon DEF Writeback, record_retirement
<1>4. TypeOK /\ image \in Images /\ HasFetched /\ DecodeValid(IR)
      /\ ReadyToWrite
  BY <1>2, Zenon DEF RefInv, Underway, HasDecoded, HasExecuted
<1>5. AbsPc = pc /\ AbsPc' = pc'
  BY Zenon DEF AbsPc
<1>6. Golden!instruction = IR
  BY <1>4, GoldenInstruction, Zenon
<1>7. Golden!control.memory_operation # "Store"
  <2>1. /\ ControlMemoryOperation(IR) \in {"LOAD", "STORE", "NONE"}
        /\ ControlMemoryOperation(IR) # "NONE" =>
             ControlFlow(IR) = "SEQUENTIAL"
        /\ ControlMemoryOperation(IR) = "NONE" =>
             Golden!control.memory_operation = "None"
        /\ ControlMemoryOperation(IR) = "LOAD" =>
             Golden!control.memory_operation = "Load"
    BY <1>4, GoldenControl, Zenon
  <2>2. ControlMemoryOperation(IR) # "STORE"
    BY <1>4, <2>1, SMT DEF ReadyToWrite
  <2> QED BY <2>1, <2>2, SMT
<1>8. d \in Register
  <2>1. IR \in Word
    BY <1>4, CpuWires, Zenon DEF TypeOK
  <2> QED BY <2>1, FieldsInRegister, Zenon
<1> HIDE DEF d, v
<1>9. ASSUME NEW q \in Register
      PROVE  /\ AbsRegisters[q] = RegisterData(q)
             /\ AbsRegisters'[q] = IF writes /\ q = d THEN v
                                                      ELSE RegisterData(q)
  <2>1. /\ AbsRegisters[q] = RegisterData(q)
        /\ AbsRegisters'[q] = RegisterData(q)'
    BY Zenon DEF AbsRegisters
  <2>2. registers \in [1 .. 31 -> Word]
    BY <1>4, Zenon DEF TypeOK, CpuTypeOK
  <2>3. q = 0 \/ q \in 1 .. 31
    BY SMT DEF Register
  <2>4. CASE q = 0
    BY <2>1, <2>4, Zenon DEF RegisterData
  <2>5. CASE q \in 1 .. 31 /\ q # 0
    <3>1. registers'[q] = IF writes /\ q = d THEN v ELSE registers[q]
      BY <1>2, <2>2, <2>5, Zenon
    <3> QED BY <2>1, <2>5, <3>1, Zenon DEF RegisterData
  <2> QED BY <2>3, <2>4, <2>5
<1>10. \A q \in Register : AbsRegisters'[q] # AbsRegisters[q] <=>
                             (retire.reg_write)' /\ (retire.rd)' = q
  BY <1>3, <1>9, Zenon
<1>11. (retire.reg_write)' => /\ (retire.rd)' \in Register
                              /\ (retire.value)' = AbsRegisters'[(retire.rd)']
  BY <1>3, <1>8, <1>9, Zenon
<1>12. cpu_state' # "FAULT" /\ cpu_state # "FAULT"
  BY <1>2, Zenon
<1>13. (retire.reg_write)' \in BOOLEAN
  BY <1>3, Zenon
<1> QED BY <1>1, <1>3, <1>5, <1>6, <1>7, <1>10, <1>11, <1>12, <1>13, Zenon
        DEF EdgeRetires

\* The capture of a store.
LEMMA StoreCommits ==
  ASSUME RefInv, RefInv', RunEdge, CaptureRequest(bus_valid, CpuRequest),
         StoreCommitted'
  PROVE  EdgeCommits
<1>1. /\ bus_state = "IDLE" /\ bus_valid /\ pending' = CpuRequest
      /\ ~StoreCommitted /\ response_ready = FALSE
  BY Zenon DEF CaptureRequest, StoreCommitted, response_ready
<1>2. CpuWait
  BY <1>1, AskingCoreWaits, Zenon DEF RunEdge
<1>3. ~(retire.valid)'
  BY <1>2, WaitKeeps, Zenon
<1>4. UNCHANGED <<cpu_state, pc, instruction_register, next_pc_latch,
                  alu_result_latch, store_data_latch>>
  BY <1>2, Zenon DEF CpuWait, latches
<1>5. pending' = RequestOf(bus_access, bus_addr, bus_wdata)
  BY <1>1, Zenon DEF CpuRequest
<1>6. bus_access = "WRITE"
  BY <1>5, Zenon DEF RequestOf, StoreCommitted
<1>7. cpu_state = "MEMORY" /\ ControlMemoryOperation(IR) = "STORE"
  BY <1>6, SMT DEF bus_access
<1>8. TypeOK /\ image \in Images /\ HasExecuted /\ next_pc_latch = PcPlus4
      /\ pc \in Word
  BY <1>7, Zenon DEF RefInv, Underway, TypeOK, CpuTypeOK
<1>9. /\ HasFetched /\ DecodeValid(IR)
      /\ store_data_latch = RegisterData(DecodedRs2(IR))
      /\ alu_result_latch = AluResult(ControlAluOperation(IR),
                              RegisterData(DecodedRs1(IR)), OperandRhs)
  BY <1>8, Zenon DEF HasExecuted, HasDecoded
<1>10. /\ Golden!control.memory_operation = "Store"
       /\ ControlFlow(IR) = "SEQUENTIAL"
  BY <1>1, <1>7, <1>8, <1>9, GoldenControl, Zenon
<1>11. /\ Golden!alu_result = alu_result_latch
       /\ Golden!store_data = store_data_latch
  BY <1>1, <1>7, <1>8, <1>9, <1>10, GoldenOperands, Zenon
<1>12. Golden!instruction = IR
  BY <1>1, <1>8, <1>9, GoldenInstruction, Zenon
<1>13. AbsPc = pc /\ AbsPc' = next_pc_latch
  BY <1>1, <1>4, Zenon DEF AbsPc
<1>14. Golden!Step
  <2>1. Add(pc, Four) # pc
    BY <1>8, NextDiffers
  <2>2. AbsPc' # AbsPc
    BY <1>8, <1>13, <2>1, Zenon DEF PcPlus4
  <2>3. Golden!Step \/ UNCHANGED Golden!vars
    BY CaptureStep, Zenon
  <2> QED BY <2>2, <2>3, Zenon DEF Golden!vars
<1>15. cpu_state' # "FAULT" /\ cpu_state # "FAULT"
  BY <1>4, <1>7, Zenon
<1> QED BY <1>1, <1>3, <1>4, <1>10, <1>11, <1>12, <1>13, <1>14, <1>15, Zenon
        DEF EdgeCommits, IR

\* The retirement of a store.
LEMMA StoreCompletes ==
  ASSUME RefInv, RefInv', RunEdge, FinishResponse,
         cpu_state = "MEMORY", MemoryStore(response_fault)
  PROVE  EdgeCompletes
<1> DEFINE memory == ControlMemoryOperation(IR)
<1>1. bus_state = "RESPONSE" /\ bus_state' = "IDLE" /\ ~StoreCommitted'
  BY Zenon DEF FinishResponse, StoreCommitted
<1>2. /\ response_fault = "NONE" /\ memory # "LOAD"
      /\ pc' = next_pc_latch /\ (retire.valid)' = TRUE
      /\ cpu_state' = "FETCH" /\ UNCHANGED <<registers, fault>>
  BY Zenon DEF MemoryStore, record_retirement
<1>3. /\ (retire.pc)' = pc /\ (retire.instruction)' = IR
      /\ (retire.next_pc)' = next_pc_latch
      /\ (retire.reg_write)' = FALSE /\ (retire.mem_write)' = TRUE
      /\ (retire.mem_addr)' = alu_result_latch
      /\ (retire.mem_value)' = store_data_latch
  BY Zenon DEF MemoryStore, record_retirement
<1>4. Handshake /\ memory # "NONE"
  BY Zenon DEF RefInv, Underway
<1>5. memory \in {"LOAD", "STORE", "NONE"}
  BY Zenon DEF ControlMemoryOperation
<1>6. bus_access = "WRITE"
  BY <1>2, <1>4, <1>5, Zenon DEF bus_access
<1>7. StoreCommitted
  BY <1>1, <1>2, <1>4, <1>6, Answered, Zenon DEF StoreCommitted,
     pending_fault
<1>8. DevicesKept /\ AbsTimer' = AbsTimer
  <2>1. bus_state' # "MEMORY"
    BY <1>1, Zenon
  <2> QED BY <1>2, <1>7, <2>1, StoreKeeps, Zenon
<1>9. AbsPc' = AbsPc
  BY <1>1, <1>2, <1>7, Zenon DEF AbsPc
<1>10. AbsRegisters' = AbsRegisters /\ AbsStatus' = AbsStatus
       /\ AbsFaultInfo' = AbsFaultInfo
  BY <1>2, Zenon DEF AbsRegisters, RegisterData, AbsStatus, AbsFaultInfo
<1>11. UNCHANGED Golden!vars
  BY <1>8, <1>9, <1>10, Zenon DEF DevicesKept, Golden!vars
<1>12. cpu_state' # "FAULT" /\ cpu_state # "FAULT"
  BY <1>2, Zenon
<1> QED BY <1>1, <1>2, <1>3, <1>7, <1>11, <1>12, Zenon DEF EdgeCompletes

\* An edge outside any store at which the core neither retires nor faults.
LEMMA EdgeStutters ==
  ASSUME RefInv, RefInv', RunEdge, ~StoreCommitted, ~StoreCommitted',
         UNCHANGED <<pc, registers, fault>>, retire' = RetirePulsesCleared,
         cpu_state' = "FAULT" <=> cpu_state = "FAULT",
         cpu_state' = "HALTED" <=> cpu_state = "HALTED"
  PROVE  EdgeWaits
<1>1. ~(retire.valid)'
  BY RetireCleared, Zenon DEF RefInv, TypeOK, CpuTypeOK
<1>2. AbsStatus' = AbsStatus
  BY Zenon DEF AbsStatus
<1>3. UNCHANGED Golden!vars
  BY <1>1, <1>2, StutterStep, Zenon
<1> QED BY <1>1, <1>3, Zenon DEF EdgeWaits

\* An edge that enters FAULT is a fault of the golden model.
LEMMA EdgeStops ==
  ASSUME RefInv, ~StoreCommitted, ~StoreCommitted',
         Golden!Step \/ UNCHANGED Golden!vars,
         NEW e, NEW ins, NEW valid, NEW address,
         enter_fault(e, ins, valid, address),
         cpu_state \notin {"HALTED", "FAULT"}
  PROVE  EdgeFaults
<1>1. ~(retire.valid)'
  BY RetireCleared, Zenon DEF RefInv, TypeOK, CpuTypeOK, enter_fault
<1>2. cpu_state' = "FAULT" /\ cpu_state # "FAULT"
  BY Zenon DEF enter_fault
<1>3. AbsStatus' = "FAULT" /\ AbsStatus = "RUNNING"
  BY <1>2, Zenon DEF AbsStatus
<1>4. Golden!Step
  BY <1>3, Zenon DEF Golden!vars
<1> QED BY <1>1, <1>2, <1>4, Zenon DEF EdgeFaults

\* Every edge is of one of these kinds.
LEMMA EdgeKinds ==
  ASSUME RefInv, RefInv', RunEdge
  PROVE  \/ EdgeRetires \/ EdgeCommits \/ EdgeCompletes \/ EdgeFaults
         \/ EdgeWaits
<1>1. CpuEdge(response_ready, response_rdata, response_fault)
  BY Zenon DEF RunEdge
<1>2. \/ CaptureRequest(bus_valid, CpuRequest) \/ NoRequest(bus_valid)
      \/ AccessMemory \/ FinishResponse
  BY Zenon DEF RunEdge, BusEdge
<1>3. CASE NoRequest(bus_valid)
  <2>1. ~StoreCommitted /\ ~StoreCommitted' /\ ~bus_valid /\ ~response_ready
    BY <1>3, Zenon DEF NoRequest, StoreCommitted, response_ready
  <2>2. CASE DecodeReject
    <3>1. /\ enter_fault(decode_fault, IR, FALSE, Zero)
          /\ cpu_state \notin {"HALTED", "FAULT"}
      BY <2>2, Zenon DEF DecodeReject
    <3>2. Golden!Step \/ UNCHANGED Golden!vars
      BY <1>3, IdleStep, Zenon
    <3> QED BY <2>1, <3>1, <3>2, EdgeStops, Zenon
  <2>3. CASE ExecuteBranch \/ ExecuteJump \/ ExecuteJumpRegister
    BY <2>1, <2>3, JumpRetires, Zenon
  <2>4. CASE Writeback
    BY <2>1, <2>4, WritebackRetires, Zenon
  <2>5. CASE DecodeOperands \/ ExecuteJumpAndLink \/ ExecuteSequential
             \/ CpuStopped
    <3>1. UNCHANGED <<pc, registers, fault>> /\ retire' = RetirePulsesCleared
      BY <2>5, Zenon DEF DecodeOperands, ExecuteJumpAndLink,
         ExecuteSequential, ExecuteAlu, CpuStopped
    <3>2. /\ cpu_state' = "FAULT" <=> cpu_state = "FAULT"
          /\ cpu_state' = "HALTED" <=> cpu_state = "HALTED"
      BY <2>5, Zenon DEF DecodeOperands, ExecuteJumpAndLink,
         ExecuteSequential, ExecuteAlu, CpuStopped
    <3> QED BY <2>1, <3>1, <3>2, EdgeStutters, Zenon
  <2> QED BY <1>1, <2>1, <2>2, <2>3, <2>4, <2>5, Zenon DEF CpuEdge, CpuWait
<1>4. CASE CaptureRequest(bus_valid, CpuRequest)
  <2>1. bus_valid /\ ~StoreCommitted /\ response_ready = FALSE
    BY <1>4, Zenon DEF CaptureRequest, StoreCommitted, response_ready
  <2>2. CpuWait
    BY <1>1, <2>1, AskingCoreWaits, Zenon
  <2>3. /\ UNCHANGED <<cpu_state, pc, registers, fault>>
        /\ retire' = RetirePulsesCleared
    BY <2>2, Zenon DEF CpuWait
  <2> QED BY <1>4, <2>1, <2>3, StoreCommits, EdgeStutters, Zenon
<1>5. CASE AccessMemory
  <2>1. /\ bus_state = "MEMORY" /\ bus_state' = "RESPONSE"
        /\ pending' = pending /\ response_ready = FALSE
    BY <1>5, Zenon DEF AccessMemory, response_ready
  <2>2. bus_valid
    BY <2>1, Zenon DEF RefInv, Handshake, PendingIsCurrentRequest
  <2>3. CpuWait
    BY <1>1, <2>1, <2>2, AskingCoreWaits, Zenon
  <2>4. ~(retire.valid)'
    BY <2>3, WaitKeeps, Zenon
  <2>5. UNCHANGED <<cpu_state, pc, instruction_register, next_pc_latch,
                    alu_result_latch, store_data_latch>>
    BY <2>3, Zenon DEF CpuWait, latches
  <2>6. StoreCommitted' <=> StoreCommitted
    BY <2>1, Zenon DEF StoreCommitted, pending_fault
  <2>7. UNCHANGED Golden!vars
    BY <1>5, AccessStep, Zenon
  <2> QED BY <2>4, <2>5, <2>6, <2>7, Zenon DEF EdgeWaits, IR
<1>6. CASE FinishResponse
  <2>1. bus_state = "RESPONSE" /\ response_ready /\ ~StoreCommitted'
    BY <1>6, Zenon DEF FinishResponse, response_ready, StoreCommitted
  <2>2. Handshake
    BY Zenon DEF RefInv
  <2>3. bus_valid /\ pending.access = bus_access
        /\ response_fault = pending_fault
    BY <2>1, <2>2, Answered, Zenon DEF response_fault
  <2>4. StoreCommitted <=> bus_access = "WRITE" /\ response_fault = "NONE"
    BY <2>1, <2>3, Zenon DEF StoreCommitted
  <2>5. Golden!Step \/ UNCHANGED Golden!vars
    BY <1>6, FinishStep, Zenon
  <2>6. CASE FetchComplete(response_rdata, response_fault)
             \/ MemoryLoad(response_rdata, response_fault)
    <3>1. ~StoreCommitted
      BY <2>4, <2>6, Zenon DEF FetchComplete, MemoryLoad, bus_access
    <3>2. UNCHANGED <<pc, registers, fault>> /\ retire' = RetirePulsesCleared
          /\ cpu_state \in {"FETCH", "MEMORY"}
          /\ cpu_state' \in {"DECODE", "WRITEBACK"}
      BY <2>6, Zenon DEF FetchComplete, MemoryLoad
    <3>3. /\ cpu_state' = "FAULT" <=> cpu_state = "FAULT"
          /\ cpu_state' = "HALTED" <=> cpu_state = "HALTED"
      BY <3>2, SMT
    <3> QED BY <2>1, <3>1, <3>2, <3>3, EdgeStutters, Zenon
  <2>7. CASE FetchFaulted(response_fault)
    <3>1. /\ enter_fault(fetch_fault(response_fault), Zero, FALSE, Zero)
          /\ cpu_state \notin {"HALTED", "FAULT"} /\ ~StoreCommitted
      BY <2>4, <2>7, Zenon DEF FetchFaulted
    <3> QED BY <2>1, <2>5, <3>1, EdgeStops, Zenon
  <2>8. CASE MemoryFaulted(response_fault)
    <3> DEFINE e == IF ControlMemoryOperation(IR) = "LOAD"
                      THEN load_fault(response_fault)
                      ELSE store_fault(response_fault)
    <3>1. /\ enter_fault(e, IR, TRUE, alu_result_latch)
          /\ cpu_state \notin {"HALTED", "FAULT"} /\ ~StoreCommitted
      BY <2>4, <2>8, Zenon DEF MemoryFaulted
    <3> HIDE DEF e
    <3> QED BY <2>1, <2>5, <3>1, EdgeStops, Zenon
  <2>9. CASE MemoryStore(response_fault)
    <3>1. cpu_state = "MEMORY"
      BY <2>9, Zenon DEF MemoryStore
    <3> QED BY <1>6, <2>9, <3>1, StoreCompletes, Zenon
  <2>10. cpu_state \in {"FETCH", "MEMORY"}
    BY <2>3, Zenon DEF bus_valid
  <2> QED BY <1>1, <2>1, <2>6, <2>7, <2>8, <2>9, <2>10, Zenon
          DEF CpuEdge, DecodeReject, DecodeOperands, ExecuteAlu,
              ExecuteBranch, ExecuteJump, ExecuteJumpAndLink,
              ExecuteJumpRegister, ExecuteSequential, Writeback, CpuStopped
<1> QED BY <1>2, <1>3, <1>4, <1>5, <1>6
(***************************************************************************)
(* Two golden machines that agree, except on RAM that neither has written  *)
(* yet, still agree after a step that reads no such RAM.                   *)
(***************************************************************************)
Agree(s, t, S) ==
  /\ s.pc = t.pc
  /\ s.registers = t.registers
  /\ s.status = t.status
  /\ s.fault_info = t.fault_info
  /\ s.timer = t.timer
  /\ s.gpio = t.gpio
  /\ s.debug_value = t.debug_value
  /\ s.uart_log = t.uart_log
  /\ \A k \in S : s.ram[k] = t.ram[k]

\* The step from s loads no RAM outside S, unless into r0, and the bytes that
\* it writes.
ReadsOnly(img, s, S) ==
  LET w == WordAt(img, s.pc)
      a == ResultOf(w, s.registers)
  IN  /\ ~Faulty(w, s.pc, s.registers)
      /\ Loads(w) /\ TargetOf(w) # 0
      /\ Ref!InRam(a)
      => {a.lo, a.lo + 1, a.lo + 2, a.lo + 3} \subseteq S

WrittenBy(img, s) ==
  LET w == WordAt(img, s.pc)
  IN  {k \in Ref!RamBytes : /\ ~Faulty(w, s.pc, s.registers)
                            /\ Stores(w)
                            /\ Hits(ResultOf(w, s.registers), k)}

\* They load the same.
LEMMA LoadsAgree ==
  ASSUME NEW img, NEW a, NEW s, NEW t, NEW S, Agree(s, t, S),
         Ref!InRam(a) => {a.lo, a.lo + 1, a.lo + 2, a.lo + 3} \subseteq S
  PROVE  DataAt(img, s, a) = DataAt(img, t, a)
<1>1. s.timer = t.timer /\ s.gpio = t.gpio /\ s.debug_value = t.debug_value
  BY DEF Agree
<1>2. Ref!InRam(a) => RamAt(s.ram, a) = RamAt(t.ram, a)
  <2> SUFFICES ASSUME Ref!InRam(a)
               PROVE  RamAt(s.ram, a) = RamAt(t.ram, a)
    OBVIOUS
  <2>1. /\ s.ram[a.lo] = t.ram[a.lo] /\ s.ram[a.lo + 1] = t.ram[a.lo + 1]
        /\ s.ram[a.lo + 2] = t.ram[a.lo + 2]
        /\ s.ram[a.lo + 3] = t.ram[a.lo + 3]
    BY Zenon DEF Agree
  <2> QED BY <2>1, Zenon DEF RamAt
<1> DEFINE word == WordAt(img, a)
           uart == IF a.lo % 16 = 4 THEN One ELSE Zero
           timr == TimerAt(s.timer, a.lo % 16)
           gpi  == GpioAt(s.gpio, a.lo % 16)
           dbg  == IF a.lo % 16 = 0 THEN s.debug_value ELSE Zero
           value(x) == CASE Ref!InRom(a)   -> word
                         [] Ref!InRam(a)   -> x
                         [] Ref!InUart(a)  -> uart
                         [] Ref!InTimer(a) -> timr
                         [] Ref!InGpio(a)  -> gpi
                         [] Ref!InDebug(a) -> dbg
<1>3. /\ DataAt(img, s, a) = value(RamAt(s.ram, a))
      /\ DataAt(img, t, a) = value(RamAt(t.ram, a))
  BY <1>1, Zenon DEF DataAt
<1>4. value(RamAt(s.ram, a)) = value(RamAt(t.ram, a))
  <2> HIDE DEF word, uart, timr, gpi, dbg
  <2>1. CASE Ref!InRam(a)
    <3>1. RamAt(s.ram, a) = RamAt(t.ram, a)
      BY <1>2, <2>1
    <3> HIDE DEF value
    <3> QED BY <3>1
  <2>2. CASE ~Ref!InRam(a)
    <3> DEFINE x == RamAt(s.ram, a)
               y == RamAt(t.ram, a)
    <3> HIDE DEF x, y
    <3>1. value(x) = value(y)
      BY <2>2, SMT
    <3> QED BY <3>1, Zenon DEF x, y
  <2> QED BY <2>1, <2>2
<1> HIDE DEF value
<1> QED BY <1>3, <1>4

LEMMA MovesAgree ==
  ASSUME NEW img, NEW s, NEW t, NEW s2, NEW t2, NEW S \in SUBSET Ref!RamBytes,
         Agree(s, t, S), ReadsOnly(img, s, S),
         Moves(img, s, s2), Moves(img, t, t2)
  PROVE  Agree(s2, t2, S \cup WrittenBy(img, s))
<1> DEFINE w == WordAt(img, s.pc)
           a == ResultOf(w, s.registers)
           v == DataOf(w, s.registers)
           faulty == Faulty(w, s.pc, s.registers)
<1>1. /\ s.pc = t.pc /\ s.registers = t.registers /\ s.status = t.status
      /\ s.fault_info = t.fault_info /\ s.timer = t.timer /\ s.gpio = t.gpio
      /\ s.debug_value = t.debug_value /\ s.uart_log = t.uart_log
      /\ \A k \in S : s.ram[k] = t.ram[k]
  BY DEF Agree
<1>2. /\ Faults(w, s, s2) \/ StoresTo(w, s, s2) \/ Retires(img, w, s, s2)
      /\ Faults(w, t, t2) \/ StoresTo(w, t, t2) \/ Retires(img, w, t, t2)
  BY <1>1, Zenon DEF Moves
<1>3. ASSUME NEW k \in S \cup WrittenBy(img, s)
      PROVE  /\ k \in Ref!RamBytes
             /\ k \in S \/ (~faulty /\ Stores(w) /\ Hits(a, k))
  BY <1>3, Zenon DEF WrittenBy
<1>4. ~faulty /\ TargetOf(w) # 0 =>
        (Loads(w) => DataAt(img, s, a) = DataAt(img, t, a))
  BY LoadsAgree, Zenon DEF ReadsOnly
<1>5. ~faulty => RegistersAfter(s.registers, TargetOf(w), ValueOf(img, w, s))
               = RegistersAfter(s.registers, TargetOf(w), ValueOf(img, w, t))
  BY <1>1, <1>4, Zenon DEF ValueOf, RegistersAfter
<1> HIDE DEF w
<1>6. CASE faulty
  <2>1. Faults(w, s, s2) /\ Faults(w, t, t2)
    BY <1>1, <1>2, <1>6, Zenon DEF StoresTo, Retires
  <2>2. \A k \in S \cup WrittenBy(img, s) : k \in S
    BY <1>3, <1>6, Zenon
  <2> QED BY <1>1, <2>1, <2>2, Zenon DEF Faults, Agree
<1>7. CASE ~faulty /\ Stores(w)
  <2>1. StoresTo(w, s, s2) /\ StoresTo(w, t, t2)
    BY <1>1, <1>2, <1>7, Zenon DEF Faults, Retires
  <2>2. s2.ram = RamAfter(s.ram, a, v) /\ t2.ram = RamAfter(t.ram, a, v)
    BY <1>1, <2>1, Zenon DEF StoresTo
  <2>3. ASSUME NEW k \in S \cup WrittenBy(img, s)
        PROVE  s2.ram[k] = t2.ram[k]
    <3>1. /\ s2.ram[k] = IF Hits(a, k) THEN Ref!ByteOf(v, k - a.lo)
                                       ELSE s.ram[k]
          /\ t2.ram[k] = IF Hits(a, k) THEN Ref!ByteOf(v, k - a.lo)
                                       ELSE t.ram[k]
      BY <1>3, <2>2, Zenon DEF RamAfter
    <3> QED BY <1>1, <1>3, <3>1, Zenon
  <2> QED BY <1>1, <2>1, <2>3, Zenon DEF StoresTo, Agree
<1>8. CASE ~faulty /\ ~Stores(w)
  <2>1. Retires(img, w, s, s2) /\ Retires(img, w, t, t2)
    BY <1>1, <1>2, <1>8, Zenon DEF Faults, StoresTo
  <2>2. \A k \in S \cup WrittenBy(img, s) : k \in S
    BY <1>3, <1>8, Zenon
  <2> QED BY <1>1, <1>5, <1>8, <2>1, <2>2, Zenon DEF Retires, Agree
<1> QED BY <1>6, <1>7, <1>8

(***************************************************************************)
(* What a "retire" record says of the step from s to t.                    *)
(***************************************************************************)
Tells(img, s, t, r, n) ==
  LET w == WordAt(img, s.pc)
  IN  /\ t.status # "FAULT"
      /\ r.type = "retire"
      /\ r.index = n
      /\ r.pc = s.pc
      /\ r.instruction = w
      /\ r.next_pc = t.pc
      /\ r.reg_write \in BOOLEAN
      /\ \A q \in Register : t.registers[q] # s.registers[q] <=>
                               r.reg_write /\ r.rd = q
      /\ r.reg_write => /\ r.rd \in Register
                        /\ r.reg_value = t.registers[r.rd]
      /\ r.mem_write \in BOOLEAN
      /\ r.mem_write <=> Stores(w)
      /\ r.mem_write => /\ r.mem_addr = ResultOf(w, s.registers)
                        /\ r.mem_value = DataOf(w, s.registers)

\* Two records of one step pass the comparison.
LEMMA SameStepSameRecord ==
  ASSUME NEW img, NEW s, NEW t, NEW n, NEW p, NEW q,
         Tells(img, s, t, p, n), Tells(img, s, t, q, n)
  PROVE  SameRetirement(p, q)
<1>1. \A d \in Register : (p.reg_write /\ p.rd = d) <=>
                            (q.reg_write /\ q.rd = d)
  BY Zenon DEF Tells
<1>2. /\ p.reg_write \in BOOLEAN /\ q.reg_write \in BOOLEAN
      /\ p.reg_write => p.rd \in Register
      /\ q.reg_write => q.rd \in Register
  BY Zenon DEF Tells
<1>3. p.reg_write <=> q.reg_write
  BY <1>1, <1>2, Zenon
<1>4. p.reg_write = q.reg_write
  BY <1>2, <1>3, SMT
<1>5. p.reg_write => p.rd = q.rd
  BY <1>1, <1>2, Zenon
<1>6. p.reg_write => p.reg_value = q.reg_value
  BY <1>3, <1>5, Zenon DEF Tells
<1>7. /\ p.type = q.type /\ p.index = q.index /\ p.pc = q.pc
      /\ p.instruction = q.instruction /\ p.next_pc = q.next_pc
      /\ p.mem_write \in BOOLEAN /\ q.mem_write \in BOOLEAN
      /\ p.mem_write <=> q.mem_write
      /\ p.mem_write => /\ p.mem_addr = q.mem_addr
                        /\ p.mem_value = q.mem_value
  BY Zenon DEF Tells
<1>11. p.mem_write = q.mem_write
  BY <1>7, SMT
<1>8. \A f \in {"type", "index", "pc", "instruction", "next_pc",
                "reg_write", "mem_write"} : p[f] = q[f]
  BY <1>4, <1>7, <1>11, SMT
<1>9. p.reg_write => \A f \in {"rd", "reg_value"} : p[f] = q[f]
  BY <1>5, <1>6, SMT
<1>10. p.mem_write => \A f \in {"mem_addr", "mem_value"} : p[f] = q[f]
  BY <1>7, SMT
<1> QED BY <1>8, <1>9, <1>10, Zenon DEF SameRetirement, Same

\* A record tells of every step between the same pcs and registers.
LEMMA TellsAgain ==
  ASSUME NEW img, NEW s, NEW t, NEW s2, NEW t2, NEW r, NEW n, NEW S, NEW T,
         Tells(img, s, t, r, n), Agree(s, s2, S), Agree(t, t2, T)
  PROVE  Tells(img, s2, t2, r, n)
<1>1. /\ s.pc = s2.pc /\ s.registers = s2.registers
      /\ t.pc = t2.pc /\ t.registers = t2.registers /\ t.status = t2.status
  BY DEF Agree
<1> QED BY <1>1, Zenon DEF Tells

\* The record that the reference prints of a retirement.
LEMMA RefTells ==
  ASSUME RefMachineOK, RetiringStep
  PROVE  Tells(image, RefState, RefState', Ref!RetireRecordOf, ref_retired)
<1> DEFINE r == Ref!RetireRecordOf
           changed == Ref!ChangedRegisters # {}
           d == Ref!Max(Ref!ChangedRegisters)
           store == Ref!IsStore
           w == WordAt(image, ref_pc)
           s == RefState
           t == RefState'
<1>1. /\ r.type = "retire" /\ r.index = ref_retired
      /\ r.pc = ref_pc /\ r.next_pc = ref_pc'
      /\ r.instruction = Ref!Snapshot
      /\ r.reg_write = changed
      /\ changed => r.rd = d /\ r.reg_value = ref_registers'[d]
      /\ r.mem_write = store
      /\ store => /\ r.mem_addr = Ref!StoreAddress
                  /\ r.mem_value =
                       Ref!ReadRegister(Ref!Decode(Ref!Snapshot).rs2)
  BY DEF Ref!RetireRecordOf
<1>2. /\ s.pc = ref_pc /\ s.registers = ref_registers
      /\ t.pc = ref_pc' /\ t.registers = ref_registers'
      /\ t.status = ref_status'
  BY Zenon DEF RefState
<1> HIDE DEF r, s, t
<1>3. Ref!Snapshot = w
  BY RefParts, Zenon DEF RetiringStep, Ref!Decodes, Ref!Fetches, Ref!Snapshot
<1>4. /\ Ref!control = Ctl(w)
      /\ Ref!store_data = DataOf(w, ref_registers)
      /\ Ref!alu_result = ResultOf(w, ref_registers)
  BY RefParts, Zenon
<1> HIDE DEF w
<1>5. /\ store <=> Stores(w)
      /\ store => /\ r.mem_addr = ResultOf(w, ref_registers)
                  /\ r.mem_value = DataOf(w, ref_registers)
  BY <1>1, <1>4, StoreSeenAgain, Zenon DEF RetiringStep, Stores
<1>6. r.mem_write \in BOOLEAN /\ (r.mem_write <=> Stores(w))
  <2>1. store \in BOOLEAN
    BY DEF Ref!IsStore
  <2> HIDE DEF store
  <2> QED BY <1>1, <1>5, <2>1, Zenon
<1>7. r.reg_write \in BOOLEAN
  <2>1. changed \in BOOLEAN
    OBVIOUS
  <2> HIDE DEF changed
  <2> QED BY <1>1, <2>1
<1>8. ASSUME NEW q \in Register
      PROVE  ref_registers'[q] # ref_registers[q] <=> r.reg_write /\ r.rd = q
  <2>1. ref_registers'[q] # ref_registers[q] <=> q \in Ref!ChangedRegisters
    BY RefWords DEF Ref!ChangedRegisters
  <2>2. CASE changed
    <3>1. Ref!ChangedRegisters = {d}
      BY <2>2, ChangedRegister
    <3> HIDE DEF d
    <3> QED BY <1>1, <2>1, <2>2, <3>1
  <2>3. CASE ~changed
    BY <1>1, <2>1, <2>3
  <2> QED BY <2>2, <2>3
<1>9. r.reg_write => r.rd \in Register /\ r.reg_value = ref_registers'[r.rd]
  <2>1. changed => d \in Register
    BY ChangedRegister
  <2> HIDE DEF d, changed
  <2> QED BY <1>1, <2>1, Zenon
<1>10. ref_status' # "FAULT"
  BY DEF RetiringStep
<1> QED BY <1>1, <1>2, <1>3, <1>5, <1>6, <1>7, <1>8, <1>9, <1>10, Zenon
        DEF Tells, r, s, t, w

\* What the testbench is going to print of a store that is on the bus.
StoreRecord ==
  [type |-> "retire", index |-> Len(rtl_trace), pc |-> pc,
   instruction |-> IR, next_pc |-> next_pc_latch,
   reg_write |-> FALSE, rd |-> 0, reg_value |-> Zero,
   mem_write |-> TRUE, mem_addr |-> alu_result_latch,
   mem_value |-> store_data_latch]

\* The fields of the mapped state.
LEMMA AbsFields ==
  /\ AbsState.pc = AbsPc /\ AbsState.registers = AbsRegisters
  /\ AbsState.status = AbsStatus /\ AbsState.fault_info = AbsFaultInfo
  /\ AbsState.timer = AbsTimer /\ AbsState.gpio = AbsGpio
  /\ AbsState.debug_value = AbsDebugValue
  /\ AbsState.uart_log = AbsUartLog
  /\ AbsState'.pc = AbsPc' /\ AbsState'.registers = AbsRegisters'
  /\ AbsState'.status = AbsStatus' /\ AbsState'.fault_info = AbsFaultInfo'
BY Zenon DEF AbsState

\* The retirement outputs of any instruction but a store.
LEMMA RetirementTells ==
  ASSUME RefInv, EdgeRetires
  PROVE  Tells(image, AbsState, AbsState', TraceRecord', Len(rtl_trace)')
<1> DEFINE r == TraceRecord'
           w == WordAt(image, AbsPc)
           n == Len(rtl_trace)'
<1>1. /\ r.type = "retire" /\ r.index = n
      /\ r.pc = (retire.pc)' /\ r.next_pc = (retire.next_pc)'
      /\ r.instruction = (retire.instruction)'
      /\ r.reg_write = (retire.reg_write)' /\ r.rd = (retire.rd)'
      /\ r.reg_value = (retire.value)'
      /\ r.mem_write = (retire.mem_write)'
  BY DEF TraceRecord
<1>2. Golden!instruction = w /\ Golden!control = Ctl(w)
  BY GoldenParts, Zenon
<1> HIDE DEF r, w, n
<1>3. AbsStatus' # "FAULT"
  BY SMT DEF EdgeRetires, AbsStatus
<1>4. r.mem_write \in BOOLEAN /\ ~r.mem_write /\ ~Stores(w)
  <2>1. ~Stores(w)
    BY <1>2, Zenon DEF EdgeRetires, Stores
  <2>2. r.mem_write = FALSE
    BY <1>1, Zenon DEF EdgeRetires
  <2> QED BY <2>1, <2>2
<1>5. /\ r.pc = AbsPc /\ r.next_pc = AbsPc' /\ r.instruction = w
      /\ r.reg_write \in BOOLEAN
      /\ \A q \in Register : AbsRegisters'[q] # AbsRegisters[q] <=>
                               r.reg_write /\ r.rd = q
      /\ r.reg_write => /\ r.rd \in Register
                        /\ r.reg_value = AbsRegisters'[r.rd]
  BY <1>1, <1>2, Zenon DEF EdgeRetires
<1> QED BY <1>1, <1>3, <1>4, <1>5, AbsFields, Zenon DEF Tells, r, w, n

\* A store, when the bus captures it.
LEMMA CommitTells ==
  ASSUME RefInv, EdgeCommits
  PROVE  Tells(image, AbsState, AbsState', StoreRecord', Len(rtl_trace)')
<1> DEFINE r == StoreRecord'
           w == WordAt(image, AbsPc)
           n == Len(rtl_trace)'
           x == ResultOf(w, AbsRegisters)
           v == DataOf(w, AbsRegisters)
<1>1. /\ r.type = "retire" /\ r.index = n
      /\ r.pc = pc' /\ r.next_pc = next_pc_latch'
      /\ r.instruction = IR'
      /\ r.reg_write = FALSE
      /\ r.mem_write = TRUE
      /\ r.mem_addr = alu_result_latch' /\ r.mem_value = store_data_latch'
  BY DEF StoreRecord
<1>2. /\ Golden!instruction = w /\ Golden!control = Ctl(w)
      /\ Golden!store_data = v /\ Golden!alu_result = x
  BY GoldenParts, Zenon
<1>3. Moves(image, AbsState, AbsState')
  BY GoldenMoves DEF EdgeCommits
<1> HIDE DEF r, n
<1>4. AbsStatus' # "FAULT"
  BY SMT DEF EdgeCommits, AbsStatus
<1>5. Stores(w)
  BY <1>2, Zenon DEF EdgeCommits, Stores
<1>6. AbsRegisters' = AbsRegisters
  <2>1. /\ ~Faults(w, AbsState, AbsState')
        /\ ~Retires(image, w, AbsState, AbsState')
    BY <1>4, <1>5, AbsFields, Zenon DEF Faults, Retires
  <2>2. StoresTo(w, AbsState, AbsState')
    BY <1>3, <2>1, AbsFields, Zenon DEF Moves
  <2> QED BY <2>2, AbsFields, Zenon DEF StoresTo
<1> HIDE DEF w, x, v
<1>7. r.mem_write \in BOOLEAN /\ r.mem_write /\ Stores(w)
  <2>1. r.mem_write = TRUE
    BY <1>1, Zenon
  <2> QED BY <1>5, <2>1
<1>8. /\ r.pc = AbsPc /\ r.next_pc = AbsPc' /\ r.instruction = w
      /\ r.mem_addr = x /\ r.mem_value = v
  BY <1>1, <1>2, Zenon DEF EdgeCommits
<1>9. r.reg_write \in BOOLEAN /\ ~r.reg_write
  <2>1. r.reg_write = FALSE
    BY <1>1, Zenon
  <2> QED BY <2>1
<1> QED BY <1>1, <1>4, <1>6, <1>7, <1>8, <1>9, AbsFields, Zenon
        DEF Tells, r, w, n, x, v

\* Only the fields that a record of a store has in common with the other
\* matter.
LEMMA TellsSame ==
  ASSUME NEW img, NEW s, NEW t, NEW n, NEW p, NEW q,
         Tells(img, s, t, p, n), ~p.reg_write, q.reg_write = p.reg_write,
         q.type = p.type, q.index = p.index, q.pc = p.pc,
         q.instruction = p.instruction, q.next_pc = p.next_pc,
         q.mem_write = p.mem_write, q.mem_addr = p.mem_addr,
         q.mem_value = p.mem_value
  PROVE  Tells(img, s, t, q, n)
<1>1. ~q.reg_write /\ q.reg_write \in BOOLEAN
  BY Zenon DEF Tells
<1> QED BY <1>1, Zenon DEF Tells

\* The store when it retires.
LEMMA CompletionTells ==
  ASSUME EdgeCompletes, Len(rtl_trace)' = Len(rtl_trace),
         NEW img, NEW s, NEW t, NEW n, Tells(img, s, t, StoreRecord, n)
  PROVE  Tells(img, s, t, TraceRecord', n)
<1> DEFINE r == TraceRecord'
           p == StoreRecord
<1>1. /\ r.type = "retire" /\ r.index = Len(rtl_trace)'
      /\ r.pc = (retire.pc)' /\ r.next_pc = (retire.next_pc)'
      /\ r.instruction = (retire.instruction)'
      /\ r.reg_write = (retire.reg_write)'
      /\ r.mem_write = (retire.mem_write)'
      /\ r.mem_addr = (retire.mem_addr)' /\ r.mem_value = (retire.mem_value)'
  BY DEF TraceRecord
<1>2. /\ p.type = "retire" /\ p.index = Len(rtl_trace)
      /\ p.pc = pc /\ p.next_pc = next_pc_latch
      /\ p.instruction = IR
      /\ p.reg_write = FALSE
      /\ p.mem_write = TRUE
      /\ p.mem_addr = alu_result_latch /\ p.mem_value = store_data_latch
  BY DEF StoreRecord
<1> HIDE DEF r, p
<1>3. /\ r.type = p.type /\ r.index = p.index /\ r.pc = p.pc
      /\ r.instruction = p.instruction /\ r.next_pc = p.next_pc
      /\ r.reg_write = p.reg_write
      /\ r.mem_write = p.mem_write /\ r.mem_addr = p.mem_addr
      /\ r.mem_value = p.mem_value
  BY <1>1, <1>2, Zenon DEF EdgeCompletes
<1>4. Tells(img, s, t, p, n)
  BY DEF p
<1>5. Tells(img, s, t, r, n)
  BY <1>2, <1>3, <1>4, TellsSame, Zenon
<1> QED BY <1>5 DEF r

(***************************************************************************)
(* The history of the reference.                                           *)
(***************************************************************************)
Fresh(s) ==
  /\ s.pc = Zero
  /\ s.registers = [r \in Register |-> Zero]
  /\ s.status = "RUNNING"
  /\ s.fault_info = Ref!NoFaultInfo
  /\ s.timer = Ref!TimerOff
  /\ s.gpio = Ref!GpioOff
  /\ s.debug_value = Zero
  /\ s.uart_log = <<>>

\* The bytes of RAM that the first n steps have written.
StoredBy(img, g, n) ==
  {k \in Ref!RamBytes : \E i \in 0 .. n - 1 : k \in WrittenBy(img, g[i])}

StepsOf(g, n) ==
  \A i \in 0 .. n - 1 : /\ Moves(image, g[i], g[i + 1])
                        /\ ~InWindow(g[i].pc, STM32_BASE, STM32_LAST)
                        /\ ReadsOnly(image, g[i], StoredBy(image, g, i))

RecordsOf(g, n) ==
  \A i \in 0 .. n - 1 : Tells(image, g[i], g[i + 1], cpp_trace[i + 1], i)

Past(g) ==
  /\ Fresh(g[0])
  /\ g[ref_step] = RefState
  /\ StepsOf(g, ref_step)
  /\ RecordsOf(g, ref_retired)
  /\ ref_exit = 0 => cpp_trace[ref_retired + 1] = Ref!FinalRecord

LEMMA StoredSame ==
  ASSUME NEW img, NEW g, NEW h, NEW n \in Nat,
         \A i \in 0 .. n - 1 : h[i] = g[i]
  PROVE  StoredBy(img, h, n) = StoredBy(img, g, n)
BY Zenon DEF StoredBy

LEMMA StoredNext ==
  ASSUME NEW img, NEW g, NEW n \in Nat
  PROVE  /\ StoredBy(img, g, n + 1) = StoredBy(img, g, n)
                                        \cup WrittenBy(img, g[n])
         /\ StoredBy(img, g, n) \in SUBSET Ref!RamBytes
         /\ StoredBy(img, g, 0) = {}
<1>1. ASSUME NEW k
      PROVE  k \in StoredBy(img, g, n + 1) <=>
               k \in StoredBy(img, g, n) \cup WrittenBy(img, g[n])
  <2>1. \A i : i \in 0 .. (n + 1) - 1 <=> i \in 0 .. n - 1 \/ i = n
    BY SMT
  <2>2. k \in WrittenBy(img, g[n]) => k \in Ref!RamBytes
    BY Zenon DEF WrittenBy
  <2> QED BY <2>1, <2>2, Zenon DEF StoredBy
<1>2. StoredBy(img, g, 0) = {}
  <2>1. \A i : i \notin 0 .. 0 - 1
    BY SMT
  <2> QED BY <2>1, Zenon DEF StoredBy
<1>3. StoredBy(img, g, n) \in SUBSET Ref!RamBytes
  BY Zenon DEF StoredBy
<1> QED BY <1>1, <1>2, <1>3, Zenon

\* A machine that moves to a state without fault met none.
LEMMA MovesUnfaulted ==
  ASSUME NEW img, NEW s, NEW t, Moves(img, s, t), t.status # "FAULT"
  PROVE  ~Faulty(WordAt(img, s.pc), s.pc, s.registers)
BY Zenon DEF Moves, Faults, StoresTo, Retires

\* What a comparable program loads from RAM it has stored there before.
LEMMA LoadsWhatWasStored ==
  ASSUME ReferenceInv, Comparable, ref_status = "RUNNING", ref_exit = -1,
         NEW g, Past(g)
  PROVE  /\ ~InWindow(RefState.pc, STM32_BASE, STM32_LAST)
         /\ ReadsOnly(image, RefState, StoredBy(image, g, ref_step))
<1> DEFINE w == WordAt(image, ref_pc)
           a == ResultOf(w, ref_registers)
<1>1. RefState.pc = ref_pc /\ RefState.registers = ref_registers
  BY Zenon DEF RefState
<1>2. ~InWindow(RefState.pc, STM32_BASE, STM32_LAST)
  BY <1>1, Zenon DEF Comparable, FetchesFromStm32
<1>3. ASSUME ~Faulty(w, ref_pc, ref_registers), Loads(w), TargetOf(w) # 0,
             Ref!InRam(a), NEW k \in {a.lo, a.lo + 1, a.lo + 2, a.lo + 3}
      PROVE  k \in StoredBy(image, g, ref_step)
  <2>1. /\ Ref!instruction = w /\ Ref!decoded = Decode(w)
        /\ Ref!control = Ctl(w) /\ Ref!DecodeError(w) = DecodeError(w)
        /\ Ref!alu_result = a
    BY RefParts, Zenon
  <2>2. w \in Word
    BY WordAtTyped DEF ReferenceInv, RefMachineOK
  <2>3. a \in Word
    <3>1. Ref!DecodeError(Ref!instruction) = "None"
      BY <1>3, <2>1, Zenon DEF Faulty
    <3>2. RefInstructionOK
      BY <3>1, RefInstructionTyped, Zenon DEF ReferenceInv
    <3> HIDE DEF a
    <3> QED BY <2>1, <3>2, Zenon DEF RefInstructionOK
  <2> HIDE DEF w, a
  <2>4. /\ Ref!fetch32_fault(ref_pc) = "NONE" /\ DecodeError(w) = "None"
        /\ Ref!read32_fault(a) = "NONE"
    BY <1>3, Zenon DEF Faulty, a
  <2>5. Ref!Decodes
    BY <2>1, <2>4, Zenon DEF Ref!Decodes, Ref!Fetches
  <2>6. Ref!control.memory_operation = "Load" /\ Ref!decoded.rd # 0
    BY <1>3, <2>1, <2>2, <2>4, TableFacts, Zenon DEF Loads
  <2>7. a.lo \in Int /\ 0 <= a.lo /\ a.lo % 4 = 0
        /\ a.lo <= 4 * RAM_WORD_COUNT - 1
    <3>1. a.lo \in Int /\ 0 <= a.lo /\ a.hi \in Int
      BY <2>3, WordParts
    <3>2. a.lo % 4 = 0
      BY <2>4 DEF Ref!read32_fault, Ref!data_fault
    <3>3. Ref!ULeq(W(4096, 0), a)
          /\ Ref!ULeq(a, W(4096, 4 * RAM_WORD_COUNT - 1))
      BY <1>3, RefWords DEF Ref!InRam, Ref!InWindow, Ref!RAM_BASE,
         Ref!RAM_LAST
    <3>4. ULeq(W(4096, 0), a) /\ ULeq(a, W(4096, 4 * RAM_WORD_COUNT - 1))
      BY <3>3, RefWords
    <3> QED BY <3>1, <3>2, <3>4, MemorySizes, SMT DEF ULeq, ULess, W
  <2>8. k \in Ref!RamBytes /\ k \in a.lo .. a.lo + 3
    BY <1>3, <2>7, MemorySizes, SMT DEF Ref!RamBytes
  <2>9. Ref!RamWrites(k) # {}
    BY <1>3, <2>1, <2>4, <2>5, <2>6, <2>8, Zenon
       DEF Comparable, ReadsUnwrittenRam
  <2>10. PICK j \in Ref!RamWrites(k) : TRUE
    BY <2>9
  <2> DEFINE i == j - 1
             s == g[i]
             x == WordAt(image, s.pc)
             b == ResultOf(x, s.registers)
  <2>11. /\ ref_retired \in Nat /\ ref_step = ref_retired
         /\ j \in 1 .. ref_retired
         /\ cpp_trace[j].mem_write
         /\ Ref!InRam(cpp_trace[j].mem_addr)
         /\ k \in cpp_trace[j].mem_addr.lo .. cpp_trace[j].mem_addr.lo + 3
    <3>1. /\ ref_retired \in Nat /\ ref_step = ref_retired
          /\ \E S : cpp_trace \in Seq(S)
          /\ Len(cpp_trace) = ref_retired
      BY DEF ReferenceInv, RefCounters, TraceShape
    <3>2. j \in 1 .. Len(cpp_trace)
      BY <2>10, <3>1, WritesInTrace
    <3>3. /\ cpp_trace[j].mem_write
          /\ Ref!InRam(cpp_trace[j].mem_addr)
          /\ k \in cpp_trace[j].mem_addr.lo .. cpp_trace[j].mem_addr.lo + 3
      BY <2>10 DEF Ref!RamWrites
    <3> QED BY <3>1, <3>2, <3>3
  <2>12. /\ i \in 0 .. ref_retired - 1 /\ i \in 0 .. ref_step - 1
         /\ j = i + 1
    BY <2>11
  <2> HIDE DEF i
  <2>13. Tells(image, s, g[i + 1], cpp_trace[i + 1], i)
         /\ Moves(image, s, g[i + 1])
    BY <2>12, Zenon DEF Past, StepsOf, RecordsOf
  <2>14. ~Faulty(x, s.pc, s.registers)
    BY <2>13, MovesUnfaulted, Zenon DEF Tells
  <2>15. Stores(x) /\ cpp_trace[i + 1].mem_addr = b
    BY <2>11, <2>12, <2>13, Zenon DEF Tells
  <2>16. Hits(b, k)
    BY <2>11, <2>12, <2>15, Zenon DEF Hits
  <2>17. k \in WrittenBy(image, s)
    BY <2>8, <2>14, <2>15, <2>16, Zenon DEF WrittenBy
  <2> QED BY <2>8, <2>12, <2>17, Zenon DEF StoredBy
<1>4. ReadsOnly(image, RefState, StoredBy(image, g, ref_step))
  BY <1>1, <1>3, Zenon DEF ReadsOnly
<1> QED BY <1>2, <1>4

\* The history so far is a part of every later one.
Extends(h, g, n) == \A i \in 0 .. n : h[i] = g[i]

\* One more step.
LEMMA PastIterates ==
  ASSUME ReferenceInv, Comparable, Ref!Iterate, NEW g, Past(g)
  PROVE  \E h : Past(h)' /\ Extends(h, g, ref_step)
<1> DEFINE n == ref_step
<1>1. /\ ref_exit = -1 /\ ref_exit' = -1
      /\ n \in Nat /\ ref_step' = n + 1
      /\ Ref!Step
      /\ \/ /\ ref_status' = "FAULT"
            /\ UNCHANGED <<ref_retired, cpp_trace>>
         \/ /\ ref_status' # "FAULT"
            /\ ref_retired' = ref_retired + 1
            /\ cpp_trace' = Append(cpp_trace, Ref!RetireRecordOf)
  BY DEF Ref!Iterate, ReferenceInv, RefCounters
<1>2. ref_status = "RUNNING" /\ (FaultingStep \/ RetiringStep)
  BY <1>1, RefStepEffect DEF ReferenceInv
<1>3. image' = image
  BY <1>2 DEF FaultingStep, RetiringStep
<1>4. ref_retired = n
  BY <1>2 DEF ReferenceInv, RefCounters
<1>5. PICK h : h = [i \in 0 .. n + 1 |-> IF i <= n THEN g[i] ELSE RefState']
  OBVIOUS
<1> HIDE DEF n
<1>6. /\ \A i \in 0 .. n : h[i] = g[i]
      /\ h[n + 1] = RefState'
  BY <1>1, <1>5
<1>7. h[0] = g[0] /\ h[n] = g[n] /\ g[n] = RefState
  BY <1>1, <1>6 DEF Past, n
<1>8. ASSUME NEW i \in 0 .. n
      PROVE  /\ Moves(image, h[i], h[i + 1])
             /\ ~InWindow(h[i].pc, STM32_BASE, STM32_LAST)
             /\ ReadsOnly(image, h[i], StoredBy(image, h, i))
  <2>1. i \in Nat /\ \A k \in 0 .. i - 1 : k \in 0 .. n
    BY <1>1
  <2>2. \A k \in 0 .. i - 1 : h[k] = g[k]
    BY <1>6, <2>1, Zenon
  <2>3. StoredBy(image, h, i) = StoredBy(image, g, i)
    BY <2>1, <2>2, StoredSame, Zenon
  <2>4. CASE i = n
    <3>1. Moves(image, RefState, RefState')
      BY <1>1, RefMoves DEF ReferenceInv
    <3>2. /\ ~InWindow(RefState.pc, STM32_BASE, STM32_LAST)
          /\ ReadsOnly(image, RefState, StoredBy(image, g, n))
      BY <1>1, <1>2, LoadsWhatWasStored, Zenon DEF n
    <3> QED BY <1>6, <1>7, <2>3, <2>4, <3>1, <3>2, Zenon
  <2>5. CASE i # n
    <3>1. i \in 0 .. n - 1 /\ i + 1 \in 0 .. n
      BY <1>1, <2>5
    <3>2. h[i] = g[i] /\ h[i + 1] = g[i + 1]
      BY <1>6, <3>1, Zenon
    <3>3. /\ Moves(image, g[i], g[i + 1])
          /\ ~InWindow(g[i].pc, STM32_BASE, STM32_LAST)
          /\ ReadsOnly(image, g[i], StoredBy(image, g, i))
      BY <3>1, Zenon DEF Past, StepsOf, n
    <3> QED BY <2>3, <3>2, <3>3, Zenon
  <2> QED BY <2>4, <2>5
<1>9. StepsOf(h, ref_step)'
  <2>1. ref_step' - 1 = n
    BY <1>1 DEF n
  <2> QED BY <1>3, <1>8, <2>1, Zenon DEF StepsOf
<1>10. ASSUME NEW i \in 0 .. ref_retired - 1
       PROVE  Tells(image, h[i], h[i + 1], cpp_trace[i + 1], i)
  <2>1. i \in 0 .. n /\ i + 1 \in 0 .. n
    BY <1>1, <1>4
  <2>2. h[i] = g[i] /\ h[i + 1] = g[i + 1]
    BY <1>6, <2>1, Zenon
  <2> QED BY <2>2, Zenon DEF Past, RecordsOf
<1>11. RecordsOf(h, ref_retired)'
  <2>1. CASE FaultingStep
    <3>1. UNCHANGED <<ref_retired, cpp_trace>>
      BY <1>1, <2>1 DEF FaultingStep
    <3> QED BY <1>3, <1>10, <3>1, Zenon DEF RecordsOf
  <2>2. CASE RetiringStep
    <3> DEFINE r == Ref!RetireRecordOf
    <3>1. ref_retired' = ref_retired + 1 /\ cpp_trace' = Append(cpp_trace, r)
      BY <1>1, <2>2 DEF RetiringStep
    <3>2. Tells(image, RefState, RefState', r, ref_retired)
      BY <2>2, RefTells DEF ReferenceInv
    <3> HIDE DEF r
    <3>3. /\ \E S : cpp_trace \in Seq(S)
          /\ Len(cpp_trace) = ref_retired /\ ref_retired \in Nat
      BY <1>1 DEF ReferenceInv, TraceShape, RefCounters
    <3>4. /\ \A i \in 1 .. ref_retired : cpp_trace'[i] = cpp_trace[i]
          /\ cpp_trace'[ref_retired + 1] = r
      BY <3>1, <3>3, OneMore
    <3>5. ASSUME NEW i \in 0 .. ref_retired' - 1
          PROVE  Tells(image, h[i], h[i + 1], cpp_trace'[i + 1], i)
      <4>1. CASE i = ref_retired
        BY <1>4, <1>6, <1>7, <3>2, <3>4, <4>1, Zenon
      <4>2. CASE i # ref_retired
        <5>1. i \in 0 .. ref_retired - 1 /\ i + 1 \in 1 .. ref_retired
          BY <3>1, <3>3, <4>2
        <5> QED BY <1>10, <3>4, <5>1, Zenon
      <4> QED BY <4>1, <4>2
    <3> QED BY <1>3, <3>5, Zenon DEF RecordsOf
  <2> QED BY <1>2, <2>1, <2>2
<1>12. Past(h)'
  <2>1. Fresh(h[0])
    BY <1>7, Zenon DEF Past
  <2>2. h[ref_step'] = RefState'
    BY <1>1, <1>6 DEF n
  <2>3. ref_exit' # 0
    BY <1>1
  <2> QED BY <1>9, <1>11, <2>1, <2>2, <2>3, Zenon DEF Past, Fresh
<1> QED BY <1>6, <1>12, Zenon DEF Extends, n

\* The process ends.
LEMMA PastEnds ==
  ASSUME ReferenceInv, Ref!Finish \/ Ref!LimitExit, NEW g, Past(g)
  PROVE  Past(g)'
<1>1. /\ ref_exit = -1
      /\ UNCHANGED <<image, ref_pc, ref_registers, ref_status, ref_fault_info,
                     ref_ram, ref_timer, ref_gpio, ref_debug_value,
                     ref_uart_log, ref_step, ref_retired>>
      /\ \/ ref_exit' = 0 /\ cpp_trace' = Append(cpp_trace, Ref!FinalRecord)
         \/ ref_exit' = 3 /\ cpp_trace' = cpp_trace
  BY DEF Ref!Finish, Ref!LimitExit, Ref!vars
<1>2. RefState' = RefState /\ Ref!FinalRecord' = Ref!FinalRecord
  BY <1>1 DEF RefState, Ref!FinalRecord
<1>3. /\ \E S : cpp_trace \in Seq(S)
      /\ Len(cpp_trace) = ref_retired /\ ref_retired \in Nat
  BY <1>1 DEF ReferenceInv, TraceShape, RefCounters
<1> DEFINE f == Ref!FinalRecord
<1> HIDE DEF f
<1>4. /\ \A i \in 1 .. ref_retired : cpp_trace'[i] = cpp_trace[i]
      /\ ref_exit' = 0 => cpp_trace'[ref_retired + 1] = f
  BY <1>1, <1>3, OneMore DEF f
<1>5. StepsOf(g, ref_step)'
  BY <1>1, Zenon DEF Past, StepsOf
<1>6. RecordsOf(g, ref_retired)'
  <2>1. \A i \in 0 .. ref_retired - 1 : i + 1 \in 1 .. ref_retired
    BY <1>3
  <2>2. \A i \in 0 .. ref_retired - 1 : cpp_trace'[i + 1] = cpp_trace[i + 1]
    BY <1>4, <2>1, Zenon
  <2> QED BY <1>1, <2>2, Zenon DEF Past, RecordsOf
<1>7. /\ Fresh(g[0]) /\ g[ref_step'] = RefState'
      /\ ref_exit' = 0 => cpp_trace'[ref_retired' + 1] = Ref!FinalRecord'
  BY <1>1, <1>2, <1>4, Zenon DEF Past, f
<1> QED BY <1>5, <1>6, <1>7, Zenon DEF Past, Fresh

LEMMA PastKept ==
  ASSUME UNCHANGED <<image, refState>>, NEW g, Past(g)
  PROVE  Past(g)'
<1>1. UNCHANGED <<image, ref_pc, ref_registers, ref_status, ref_fault_info,
                  ref_ram, ref_timer, ref_gpio, ref_debug_value, ref_uart_log,
                  ref_step, ref_retired, cpp_trace, ref_exit>>
  BY DEF refState
<1>2. RefState' = RefState /\ Ref!FinalRecord' = Ref!FinalRecord
  BY <1>1 DEF RefState, Ref!FinalRecord
<1>3. StepsOf(g, ref_step)' /\ RecordsOf(g, ref_retired)'
  BY <1>1, Zenon DEF Past, StepsOf, RecordsOf
<1> QED BY <1>1, <1>2, <1>3, Zenon DEF Past, Fresh

\* The start.
LEMMA PastInit ==
  ASSUME DiffInit
  PROVE  \E g : Past(g) /\ g[0] = RefState
<1>1. PICK g : g = [i \in {0} |-> RefState]
  OBVIOUS
<1>2. g[0] = RefState
  BY <1>1
<1>3. /\ ref_pc = Zero
      /\ ref_registers = [r \in Register |-> Zero]
      /\ ref_status = "RUNNING"
      /\ ref_fault_info = Ref!NoFaultInfo
      /\ ref_timer = Ref!TimerOff
      /\ ref_gpio = Ref!GpioOff
      /\ ref_debug_value = Zero /\ ref_uart_log = <<>>
      /\ ref_step = 0 /\ ref_retired = 0 /\ ref_exit = -1
  BY RefWords DEF DiffInit, Ref!RefInit, Ref!Init
<1>4. Fresh(RefState)
  BY <1>3, Zenon DEF Fresh, RefState
<1>5. StepsOf(g, ref_step) /\ RecordsOf(g, ref_retired)
  <2>1. \A i : i \notin 0 .. ref_step - 1 /\ i \notin 0 .. ref_retired - 1
    BY <1>3
  <2> QED BY <2>1, Zenon DEF StepsOf, RecordsOf
<1>6. ref_exit # 0
  BY <1>3
<1>7. g[ref_step] = RefState
  BY <1>2, <1>3, Zenon
<1> QED BY <1>2, <1>4, <1>5, <1>6, <1>7, Zenon DEF Past

(***************************************************************************)
(* The RTL follows the history.  It is ahead of what is printed by the     *)
(* retirement on its outputs, by the store on its bus or by its fault.     *)
(***************************************************************************)
Ahead == retire.valid \/ StoreCommitted \/ cpu_state = "FAULT"
Position == Len(rtl_trace) + IF Ahead THEN 1 ELSE 0

PrintedOf(g, n) ==
  \A i \in 0 .. n - 1 : Tells(image, g[i], g[i + 1], rtl_trace[i + 1], i)

Follows(g) ==
  LET n == Len(rtl_trace)
  IN  /\ Position <= ref_step
      /\ Agree(g[Position], AbsState, StoredBy(image, g, Position))
      /\ PrintedOf(g, n)
      /\ retire.valid => Tells(image, g[n], g[n + 1], TraceRecord, n)
      /\ StoreCommitted => Tells(image, g[n], g[n + 1], StoreRecord, n)
      /\ reset => rtl_trace = <<>>

LEMMA AgreeBack ==
  ASSUME NEW s, NEW t, NEW S, Agree(s, t, S)
  PROVE  Agree(t, s, S)
BY Zenon DEF Agree

\* What tells of a step of the RTL tells of the history's.
LEMMA NowTells ==
  ASSUME NEW img, NEW s, NEW t, NEW s2, NEW t2, NEW r, NEW n, NEW S, NEW T,
         Agree(s2, s, S), Agree(t2, t, T), Tells(img, s, t, r, n)
  PROVE  Tells(img, s2, t2, r, n)
<1>1. Agree(s, s2, S) /\ Agree(t, t2, T)
  BY AgreeBack
<1> QED BY <1>1, TellsAgain

\* It is ahead for one reason at a time.
LEMMA OneReason ==
  ASSUME RefInv
  PROVE  /\ retire.valid => ~StoreCommitted /\ cpu_state # "FAULT"
         /\ StoreCommitted => ~retire.valid /\ cpu_state # "FAULT"
<1>1. retire.valid => ~StoreCommitted
  BY Zenon DEF RefInv, Handshake, NoTickDuringAccess, StoreCommitted
<1>2. retire.valid => cpu_state # "FAULT"
  BY SMT DEF RefInv, TickAfterRetirement
<1>3. StoreCommitted => cpu_state # "FAULT"
  BY SMT DEF RefInv, Handshake, PendingIsCurrentRequest, StoreCommitted,
     bus_valid
<1> QED BY <1>1, <1>2, <1>3

\* What an edge adds to the trace that is not its last.
LEMMA PrintsRetirement ==
  ASSUME RtlRecords, rtl_trace' = rtl_trace \o Printed, ~PrintFinal
  PROVE  /\ Len(rtl_trace) \in Nat
         /\ \A i \in 1 .. Len(rtl_trace) : rtl_trace'[i] = rtl_trace[i]
         /\ retire.valid => /\ Len(rtl_trace') = Len(rtl_trace) + 1
                            /\ rtl_trace'[Len(rtl_trace) + 1] = TraceRecord
         /\ ~retire.valid => rtl_trace' = rtl_trace
<1>1. PICK S : rtl_trace \in Seq(S)
  BY DEF RtlRecords
<1>2. CASE retire.valid
  <2>1. Printed = <<TraceRecord>> \o <<>>
    BY <1>2 DEF Printed
  <2> DEFINE r == TraceRecord
  <2> HIDE DEF r
  <2>2. <<r>> \o <<>> = <<r>>
    OBVIOUS
  <2>3. rtl_trace' = Append(rtl_trace, r)
    BY <1>1, <2>1, <2>2 DEF r
  <2>4. /\ Len(rtl_trace) \in Nat
        /\ Len(Append(rtl_trace, r)) = Len(rtl_trace) + 1
        /\ \A i \in 1 .. Len(rtl_trace) :
             Append(rtl_trace, r)[i] = rtl_trace[i]
        /\ Append(rtl_trace, r)[Len(rtl_trace) + 1] = r
    BY <1>1, OneMore
  <2> QED BY <1>2, <2>3, <2>4, Zenon DEF r
<1>3. CASE ~retire.valid
  <2>1. Printed = <<>> \o <<>>
    BY <1>3 DEF Printed
  <2>2. rtl_trace' = rtl_trace
    BY <1>1, <2>1
  <2> QED BY <1>1, <1>3, <2>2
<1> QED BY <1>2, <1>3

\* A step of the golden model is the next one of the history.
LEMMA Advance ==
  ASSUME RefInv, ReferenceInv, ref_exit = 0, Golden!Step, NEW g, Past(g),
         NEW n \in Nat, n <= ref_step,
         Agree(g[n], AbsState, StoredBy(image, g, n))
  PROVE  /\ n + 1 <= ref_step
         /\ Agree(g[n + 1], AbsState', StoredBy(image, g, n + 1))
<1>1. Moves(image, AbsState, AbsState')
  BY GoldenMoves
<1>2. g[n].status = "RUNNING"
  BY <1>1, Zenon DEF Moves, Agree
<1>3. g[ref_step].status # "RUNNING"
  <2>1. ref_status # "RUNNING"
    BY DEF ReferenceInv, TraceShape
  <2>2. RefState.status = ref_status
    BY Zenon DEF RefState
  <2> QED BY <2>1, <2>2, Zenon DEF Past
<1>4. n # ref_step
  BY <1>2, <1>3, Zenon
<1>5. n \in 0 .. ref_step - 1 /\ n + 1 <= ref_step
  BY <1>4 DEF ReferenceInv, RefCounters
<1>6. /\ Moves(image, g[n], g[n + 1])
      /\ ReadsOnly(image, g[n], StoredBy(image, g, n))
  BY <1>5, Zenon DEF Past, StepsOf
<1>7. /\ StoredBy(image, g, n + 1) = StoredBy(image, g, n)
                                       \cup WrittenBy(image, g[n])
      /\ StoredBy(image, g, n) \in SUBSET Ref!RamBytes
  BY StoredNext
<1>8. Agree(g[n + 1], AbsState', StoredBy(image, g, n + 1))
  <2> DEFINE S == StoredBy(image, g, n)
             s == g[n]
             s2 == g[n + 1]
             t == AbsState
             t2 == AbsState'
  <2>1. /\ S \in SUBSET Ref!RamBytes
        /\ Agree(s, t, S) /\ ReadsOnly(image, s, S)
        /\ Moves(image, s, s2) /\ Moves(image, t, t2)
    BY <1>1, <1>6, <1>7
  <2> HIDE DEF S, s, s2, t, t2
  <2>2. Agree(s2, t2, S \cup WrittenBy(image, s))
    BY <2>1, MovesAgree
  <2> QED BY <1>7, <2>2, Zenon DEF S, s, s2, t2
<1> QED BY <1>5, <1>8

\* An edge that is not the last one.
LEMMA FollowsEdge ==
  ASSUME RefInv, RefInv', ReferenceInv, RtlRecords,
         ref_exit = 0, RtlEdge, tb_exit' = -1, NEW g, Past(g), Follows(g)
  PROVE  Follows(g)'
<1> DEFINE m == Len(rtl_trace)
           n == Position
<1>1. /\ RunEdge /\ ~reset' /\ UNCHANGED refState
      /\ rtl_trace' = rtl_trace \o Printed
      /\ tb_exit' \in IF SimulationEnd = {} THEN {-1} ELSE SimulationEnd
  BY DEF RtlEdge
<1>2. image' = image /\ ref_step' = ref_step
  BY <1>1, ImageKept DEF refState
<1>3. ~PrintFinal
  <2>1. SUFFICES ASSUME PrintFinal PROVE FALSE
    OBVIOUS
  <2>2. SimulationEnd # {} /\ -1 \notin SimulationEnd
    BY <2>1 DEF SimulationEnd
  <2> QED BY <1>1, <2>2
<1>4. /\ m \in Nat
      /\ \A i \in 1 .. m : rtl_trace'[i] = rtl_trace[i]
      /\ retire.valid => m' = m + 1 /\ rtl_trace'[m + 1] = TraceRecord
      /\ ~retire.valid => rtl_trace' = rtl_trace /\ m' = m
  BY <1>1, <1>3, PrintsRetirement
<1>17. m \in Nat /\ m' = IF retire.valid THEN m + 1 ELSE m
  <2> HIDE DEF m
  <2> QED BY <1>4, Zenon
<1>5. /\ retire.valid => ~StoreCommitted /\ cpu_state # "FAULT"
      /\ StoreCommitted => ~retire.valid /\ cpu_state # "FAULT"
      /\ (retire.valid)' => ~StoreCommitted' /\ cpu_state' # "FAULT"
      /\ StoreCommitted' => ~(retire.valid)' /\ cpu_state' # "FAULT"
  <2>1. RefInv => /\ retire.valid => ~StoreCommitted /\ cpu_state # "FAULT"
                  /\ StoreCommitted => ~retire.valid /\ cpu_state # "FAULT"
    BY OneReason
  <2>2. (RefInv => /\ retire.valid => ~StoreCommitted /\ cpu_state # "FAULT"
                   /\ StoreCommitted => ~retire.valid
                                        /\ cpu_state # "FAULT")'
    BY OneReason, PTL
  <2> QED BY <2>1, <2>2
<1>6. /\ n = m + (IF Ahead THEN 1 ELSE 0)
      /\ n' = m' + (IF Ahead' THEN 1 ELSE 0)
      /\ n \in Nat /\ m' \in Nat
  BY <1>17 DEF Position
<1>7. /\ n <= ref_step
      /\ Agree(g[n], AbsState, StoredBy(image, g, n))
      /\ PrintedOf(g, m)
      /\ retire.valid => Tells(image, g[m], g[m + 1], TraceRecord, m)
      /\ StoreCommitted => Tells(image, g[m], g[m + 1], StoreRecord, m)
  BY Zenon DEF Follows
<1>8. PrintedOf(g, m)'
  <2> SUFFICES ASSUME NEW i \in 0 .. m' - 1
               PROVE  Tells(image, g[i], g[i + 1], rtl_trace'[i + 1], i)
    BY <1>2, Zenon DEF PrintedOf
  <2> HIDE DEF m
  <2>1. CASE i \in 0 .. m - 1
    <3>1. i + 1 \in 1 .. m
      BY <1>4, <2>1
    <3> QED BY <1>4, <1>7, <2>1, <3>1, Zenon DEF PrintedOf
  <2>2. CASE i \notin 0 .. m - 1
    <3>1. i = m /\ retire.valid
      BY <1>17, <2>2, SMT
    <3> QED BY <1>4, <1>7, <3>1, Zenon
  <2> QED BY <2>1, <2>2
<1> HIDE DEF m, n
<1>9. ASSUME n' <= ref_step,
             Agree(g[n'], AbsState', StoredBy(image, g, n')),
             (retire.valid)' =>
               Tells(image, g[m'], g[m' + 1], TraceRecord', m'),
             StoreCommitted' =>
               Tells(image, g[m'], g[m' + 1], StoreRecord', m')
      PROVE  Follows(g)'
  BY <1>1, <1>2, <1>8, <1>9, Zenon DEF Follows, m, n
<1>10. ASSUME Golden!Step, ~StoreCommitted, cpu_state # "FAULT", Ahead'
       PROVE  /\ n = m' /\ n' = m' + 1 /\ n' <= ref_step
              /\ Agree(g[n], AbsState, StoredBy(image, g, n))
              /\ Agree(g[n'], AbsState', StoredBy(image, g, n'))
  <2>1. n = m' /\ n' = n + 1
    <3>1. Ahead <=> retire.valid
      BY <1>10, Zenon DEF Ahead
    <3>2. n = m + (IF retire.valid THEN 1 ELSE 0) /\ n' = m' + 1
      BY <1>6, <1>10, <3>1, Zenon
    <3> QED BY <1>17, <3>2, SMT
  <2>2. /\ n + 1 <= ref_step
        /\ Agree(g[n + 1], AbsState', StoredBy(image, g, n + 1))
    BY <1>6, <1>7, <1>10, Advance
  <2> QED BY <1>7, <2>1, <2>2, Zenon
<1>11. ASSUME UNCHANGED Golden!vars, n' = n
       PROVE  /\ n' <= ref_step
              /\ Agree(g[n'], AbsState', StoredBy(image, g, n'))
  <2>1. AbsState' = AbsState
    BY <1>11, Zenon DEF Golden!vars, AbsState
  <2> QED BY <1>7, <1>11, <2>1, Zenon
<1>12. CASE EdgeRetires
  <2>1. /\ Golden!Step /\ ~StoreCommitted /\ ~StoreCommitted'
        /\ cpu_state # "FAULT" /\ Ahead'
    BY <1>12, Zenon DEF EdgeRetires, Ahead
  <2>2. /\ n = m' /\ n' = m' + 1 /\ n' <= ref_step
        /\ Agree(g[n], AbsState, StoredBy(image, g, n))
        /\ Agree(g[n'], AbsState', StoredBy(image, g, n'))
    BY <1>10, <2>1
  <2>3. Tells(image, AbsState, AbsState', TraceRecord', m')
    BY <1>12, RetirementTells DEF m
  <2>4. Tells(image, g[n], g[n'], TraceRecord', m')
    BY <2>2, <2>3, NowTells, Zenon
  <2>5. Tells(image, g[m'], g[m' + 1], TraceRecord', m')
    BY <2>2, <2>4, Zenon
  <2> QED BY <1>9, <2>1, <2>2, <2>5, Zenon
<1>13. CASE EdgeCommits
  <2>1. /\ Golden!Step /\ ~StoreCommitted /\ ~(retire.valid)'
        /\ cpu_state # "FAULT" /\ Ahead'
    BY <1>13, Zenon DEF EdgeCommits, Ahead
  <2>2. /\ n = m' /\ n' = m' + 1 /\ n' <= ref_step
        /\ Agree(g[n], AbsState, StoredBy(image, g, n))
        /\ Agree(g[n'], AbsState', StoredBy(image, g, n'))
    BY <1>10, <2>1
  <2>3. Tells(image, AbsState, AbsState', StoreRecord', m')
    BY <1>13, CommitTells DEF m
  <2>4. Tells(image, g[n], g[n'], StoreRecord', m')
    BY <2>2, <2>3, NowTells, Zenon
  <2>5. Tells(image, g[m'], g[m' + 1], StoreRecord', m')
    BY <2>2, <2>4, Zenon
  <2> QED BY <1>9, <2>1, <2>2, <2>5, Zenon
<1>14. CASE EdgeFaults
  <2>1. /\ Golden!Step /\ ~StoreCommitted /\ ~StoreCommitted'
        /\ ~(retire.valid)' /\ cpu_state # "FAULT" /\ Ahead'
    BY <1>14, Zenon DEF EdgeFaults, Ahead
  <2>2. /\ n' <= ref_step
        /\ Agree(g[n'], AbsState', StoredBy(image, g, n'))
    BY <1>10, <2>1
  <2> QED BY <1>9, <2>1, <2>2, Zenon
<1>15. CASE EdgeCompletes
  <2>1. /\ UNCHANGED Golden!vars /\ StoreCommitted /\ ~StoreCommitted'
        /\ (retire.valid)' /\ Ahead /\ Ahead'
    BY <1>15, Zenon DEF EdgeCompletes, Ahead
  <2>2. m' = m /\ n' = n /\ n = m + 1
    BY <1>5, <1>6, <1>17, <2>1, Zenon
  <2>3. Tells(image, g[m], g[m + 1], TraceRecord', m)
    BY <1>7, <1>15, <2>1, <2>2, CompletionTells, Zenon DEF m
  <2>4. Tells(image, g[m'], g[m' + 1], TraceRecord', m')
    BY <2>2, <2>3, Zenon
  <2> QED BY <1>9, <1>11, <2>1, <2>2, <2>4, Zenon
<1>16. CASE EdgeWaits
  <2>1. /\ UNCHANGED Golden!vars
        /\ StoreCommitted' <=> StoreCommitted
        /\ ~(retire.valid)'
        /\ cpu_state' = "FAULT" <=> cpu_state = "FAULT"
        /\ StoreCommitted => UNCHANGED <<pc, IR, next_pc_latch,
                                         alu_result_latch, store_data_latch>>
    BY <1>16, Zenon DEF EdgeWaits
  <2>2. n' = n
    <3>1. CASE retire.valid
      <4>1. Ahead /\ ~Ahead'
        BY <1>5, <2>1, <3>1, Zenon DEF Ahead
      <4>2. n = m + 1 /\ n' = m' + 0 /\ m' = m + 1
        BY <1>6, <1>17, <3>1, <4>1, Zenon
      <4> QED BY <1>17, <4>2
    <3>2. CASE ~retire.valid
      <4>1. Ahead <=> Ahead'
        BY <2>1, <3>2, Zenon DEF Ahead
      <4>2. m' = m
        BY <1>17, <3>2, Zenon
      <4> QED BY <1>6, <4>1, <4>2, Zenon
    <3> QED BY <3>1, <3>2
  <2>3. StoreCommitted' => Tells(image, g[m'], g[m' + 1], StoreRecord', m')
    <3> SUFFICES ASSUME StoreCommitted
                 PROVE  Tells(image, g[m'], g[m' + 1], StoreRecord', m')
      BY <2>1, Zenon
    <3>1. rtl_trace' = rtl_trace /\ m' = m
      BY <1>4, <1>5, <1>17, Zenon
    <3>2. StoreRecord' = StoreRecord
      BY <2>1, <3>1, Zenon DEF StoreRecord
    <3> QED BY <1>7, <3>1, <3>2, Zenon
  <2> QED BY <1>9, <1>11, <2>1, <2>2, <2>3, Zenon
<1> QED BY <1>1, <1>12, <1>13, <1>14, <1>15, <1>16, EdgeKinds

\* The reset values of the two golden machines.
LEMMA SameReset ==
  /\ Golden!Zero = Zero /\ Golden!Register = Register
  /\ Golden!NoFaultInfo = Ref!NoFaultInfo
  /\ Golden!TimerOff = Ref!TimerOff
  /\ Golden!GpioOff = Ref!GpioOff
BY GoldenWords, RefWords, Zenon DEF Golden!NoFaultInfo, Ref!NoFaultInfo,
   Golden!TimerOff, Ref!TimerOff, Golden!GpioOff, Ref!GpioOff

\* After reset the RTL is where the history starts, RAM aside.
LEMMA StartAgrees ==
  ASSUME GoldenReset, NEW g, Fresh(g[0])
  PROVE  Agree(g[0], AbsState, StoredBy(image, g, 0))
<1>1. StoredBy(image, g, 0) = {}
  BY StoredNext, SMT
<1>2. /\ AbsPc = Zero /\ AbsRegisters = [r \in Register |-> Zero]
      /\ AbsStatus = "RUNNING" /\ AbsFaultInfo = Ref!NoFaultInfo
      /\ AbsTimer = Ref!TimerOff /\ AbsGpio = Ref!GpioOff
      /\ AbsDebugValue = Zero /\ AbsUartLog = <<>>
  BY SameReset, Zenon DEF GoldenReset
<1>3. \A k : k \notin StoredBy(image, g, 0)
  BY <1>1, Zenon
<1> QED BY <1>2, <1>3, AbsFields, Zenon DEF Agree, Fresh

AtStart == GoldenReset /\ ~Ahead /\ rtl_trace = <<>> /\ ref_step \in Nat

FollowedFrom0 == \A h : Fresh(h[0]) => Follows(h)

LEMMA StartFollows == AtStart => FollowedFrom0
<1> SUFFICES ASSUME AtStart, NEW g, Fresh(g[0]) PROVE Follows(g)
  BY DEF FollowedFrom0
<1>1. GoldenReset /\ ~Ahead /\ rtl_trace = <<>> /\ ref_step \in Nat
  BY DEF AtStart
<1>2. Len(rtl_trace) = 0
  BY <1>1
<1>3. Position = 0
  BY <1>1, <1>2 DEF Position
<1>4. ~retire.valid /\ ~StoreCommitted
  BY <1>1, Zenon DEF Ahead
<1>5. Position <= ref_step
  BY <1>3, <1>1, SMT
<1>6. PrintedOf(g, Len(rtl_trace))
  <2>1. \A i : i \notin 0 .. Len(rtl_trace) - 1
    BY <1>2, SMT
  <2> QED BY <2>1, Zenon DEF PrintedOf
<1> QED BY <1>3, <1>4, <1>5, <1>6, <1>1, StartAgrees, Zenon DEF Follows

LEMMA FollowsInit ==
  ASSUME DiffInit, NEW g, Past(g)
  PROVE  Follows(g)
<1>1. ResetValues /\ rtl_trace = <<>> /\ ref_step = 0
  BY Zenon DEF DiffInit, CpuInit, BusInit, ResetValues, Ref!RefInit
<1>2. GoldenReset
  BY <1>1, ResetMaps
<1>3. ~Ahead
  BY <1>1, SMT DEF ResetValues, Ahead, StoreCommitted, NoRetirement
<1>4. AtStart
  BY <1>1, <1>2, <1>3, SMT DEF AtStart
<1> QED BY <1>4, StartFollows, Zenon DEF Past, FollowedFrom0

\* The edge that leaves reset.
LEMMA FollowsReset ==
  ASSUME RefInv, ReferenceInv, RtlReset, NEW g, Past(g), Follows(g)
  PROVE  Follows(g)'
<1>1. /\ ResetEdge /\ UNCHANGED <<refState, tbState>>
      /\ reset /\ rtl_trace = <<>>
  BY Zenon DEF RtlReset, ResetEdge, Follows
<1>2. rtl_trace' = <<>> /\ ref_step' \in Nat
  BY <1>1 DEF tbState, refState, ReferenceInv, RefCounters
<1>3. /\ bus_state' = "IDLE" /\ cpu_state' = "FETCH" /\ pc' = Zero
      /\ registers' = [r \in 1 .. 31 |-> Zero] /\ fault' = NoFault
      /\ retire' = NoRetirement /\ uart_log' = <<>>
  BY <1>1, Zenon DEF ResetEdge, CpuReset, BusReset
<1>4. TimerInit' /\ MmioInit'
  BY <1>1, Zenon DEF ResetEdge, BusReset, TimerReset, UartReset, GpioReset,
     DebugReset, TimerInit, MmioInit
<1>5. ResetValues'
  BY <1>3, <1>4, Zenon DEF ResetValues
<1>6. GoldenReset'
  BY <1>5, ResetMaps, PTL
<1>7. ~Ahead'
  BY <1>3, SMT DEF Ahead, StoreCommitted, NoRetirement
<1>8. AtStart'
  BY <1>2, <1>6, <1>7, Zenon DEF AtStart
<1>9. \A h : Fresh(h[0]) => Follows(h)'
  <2>1. FollowedFrom0'
    BY <1>8, StartFollows, PTL
  <2> QED BY <2>1, Zenon DEF FollowedFrom0, Fresh
<1> QED BY <1>9, Zenon DEF Past

\* The reference goes on while the RTL stands still.
LEMMA FollowsKept ==
  ASSUME UNCHANGED <<vars, tbState>>, RtlRecords, ref_step' >= ref_step,
         ref_step \in Nat, ref_step' \in Nat,
         NEW g, NEW h, Extends(h, g, ref_step), Follows(g)
  PROVE  Follows(h)'
<1> DEFINE n == Position
           m == Len(rtl_trace)
<1>1. /\ UNCHANGED <<retire, cpu_state, pc, IR, next_pc_latch,
                     alu_result_latch, store_data_latch, rtl_trace, reset>>
      /\ image' = image
  BY ImageKept DEF vars, cpuVars, latches, tbState, IR
<1>2. UNCHANGED Golden!vars /\ StoreCommitted' = StoreCommitted
  BY GoldenKept
<1>3. AbsState' = AbsState
  BY <1>2, Zenon DEF Golden!vars, AbsState
<1>4. /\ n' = n /\ m' = m
      /\ TraceRecord' = TraceRecord /\ StoreRecord' = StoreRecord
  BY <1>1, <1>2, Zenon DEF Position, Ahead, TraceRecord, StoreRecord
<1>5. m \in Nat /\ n = m + (IF Ahead THEN 1 ELSE 0) /\ n \in Nat
  BY DEF Position, RtlRecords
<1>6. /\ n <= ref_step
      /\ Agree(g[n], AbsState, StoredBy(image, g, n))
      /\ PrintedOf(g, m)
      /\ retire.valid => Tells(image, g[m], g[m + 1], TraceRecord, m)
      /\ StoreCommitted => Tells(image, g[m], g[m + 1], StoreRecord, m)
      /\ reset => rtl_trace = <<>>
  BY Zenon DEF Follows
<1>7. Ahead => m + 1 <= ref_step
  BY <1>5, <1>6
<1>8. m <= ref_step
  BY <1>5, <1>6
<1> HIDE DEF n, m
<1>9. \A i \in 0 .. ref_step : h[i] = g[i]
  BY DEF Extends
<1>10. n' <= ref_step'
  BY <1>4, <1>5, <1>6, SMT
<1>11. Agree(h[n], AbsState, StoredBy(image, h, n))
  <2>1. n \in 0 .. ref_step /\ \A i \in 0 .. n - 1 : i \in 0 .. ref_step
    BY <1>5, <1>6
  <2>2. StoredBy(image, h, n) = StoredBy(image, g, n)
    BY <1>5, <1>9, <2>1, StoredSame, Zenon
  <2> QED BY <1>6, <1>9, <2>1, <2>2, Zenon
<1>12. PrintedOf(h, m)
  <2>1. \A i \in 0 .. m - 1 : i \in 0 .. ref_step /\ i + 1 \in 0 .. ref_step
    BY <1>5, <1>8
  <2> QED BY <1>6, <1>9, <2>1, Zenon DEF PrintedOf
<1>13. /\ retire.valid => Tells(image, h[m], h[m + 1], TraceRecord, m)
       /\ StoreCommitted => Tells(image, h[m], h[m + 1], StoreRecord, m)
  <2>1. Ahead => m \in 0 .. ref_step /\ m + 1 \in 0 .. ref_step
    BY <1>5, <1>7
  <2> QED BY <1>6, <1>9, <2>1, Zenon DEF Ahead
<1>14. PrintedOf(h, m)'
  BY <1>1, <1>4, <1>12, Zenon DEF PrintedOf
<1> QED BY <1>1, <1>2, <1>3, <1>4, <1>6, <1>10, <1>11, <1>13, <1>14, Zenon
        DEF Follows, n, m

(***************************************************************************)
(* The final record, printed one edge after the core has stopped.          *)
(***************************************************************************)
LineSettled == final_pending => ~uart_tx_valid

\* A core that has stopped has nothing on the bus.
LEMMA StoppedIsIdle ==
  ASSUME RefInv, Stopped
  PROVE  /\ ~StoreCommitted
         /\ \A region, access : ~Performs(region, access)
<1>1. bus_state = "IDLE"
  BY SMT DEF RefInv, Stopped, Handshake, PendingIsCurrentRequest, bus_valid
<1> QED BY <1>1, NothingPerformed, Zenon DEF StoreCommitted

\* An edge later the last byte has left the transmitter.
LEMMA LineSettledStep ==
  ASSUME RefInv, StopSettled, LineSettled, [DiffNext]_allVars
  PROVE  LineSettled'
<1>1. CASE RtlEdge
  <2>1. RunEdge /\ final_pending' = (final_pending \/ Stopped)
    BY <1>1, Zenon DEF RtlEdge
  <2>2. SUFFICES ASSUME Stopped PROVE ~uart_tx_valid'
    BY <2>1 DEF StopSettled, LineSettled
  <2>3. ~write_enable("UART")
    BY <2>2, StoppedIsIdle, Zenon DEF write_enable
  <2>4. PICK gpio_input \in GpioInputs :
               BusEdge(bus_valid, CpuRequest, retire.valid, gpio_input)
    BY <2>1, Zenon DEF RunEdge
  <2> QED BY <2>3, <2>4, Zenon DEF BusEdge, DeviceEdge, UartEdge
<1>2. CASE RtlReset
  BY <1>2, Zenon DEF RtlReset, ResetEdge, BusReset, UartReset, LineSettled
<1>3. CASE ReferenceStep \/ Judge \/ Judged \/ UNCHANGED allVars
  <2>1. UNCHANGED <<vars, tbState>>
    BY <1>3, Zenon DEF ReferenceStep, Judge, Judged, allVars
  <2>2. UNCHANGED <<uart_tx_valid, final_pending>>
    BY <2>1 DEF vars, busVars, mmioVars, tbState
  <2> QED BY <2>2 DEF LineSettled
<1> QED BY <1>1, <1>2, <1>3 DEF DiffNext

\* Two sequences that end alike pass the comparison.
LEMMA TracesPass ==
  ASSUME NEW S, NEW T, NEW c \in Seq(S), NEW r \in Seq(T), NEW m \in Nat,
         Len(c) = m + 1, Len(r) = m + 1,
         \A i \in 1 .. m : SameRetirement(c[i], r[i]),
         SameFinal(c[m + 1], r[m + 1])
  PROVE  compare_traces(c, r)
<1>1. DOMAIN Front(c) = 1 .. m
  <2>1. Front(c) = SubSeq(c, 1, m)
    BY DEF Front
  <2> QED BY <2>1
<1>2. Last(c) = c[m + 1] /\ Last(r) = r[m + 1] /\ Len(c) = Len(r)
  BY DEF Last
<1>3. \A i \in DOMAIN Front(c) \cap DOMAIN Front(r) :
        SameRetirement(c[i], r[i])
  BY <1>1, Zenon
<1> QED BY <1>2, <1>3, Zenon DEF compare_traces

\* A stopped core that follows the history is at its end, and everything
\* that retired is printed.
LEMMA AtTheEnd ==
  ASSUME RefInv, ReferenceInv, RtlRecords, Stopped, ~retire.valid,
         ref_exit = 0, NEW g, Past(g), Follows(g)
  PROVE  /\ Agree(RefState, AbsState, {})
         /\ Len(rtl_trace) = ref_retired
         /\ PrintedOf(g, ref_retired)
         /\ ~StoreCommitted
<1>1. ~StoreCommitted
  BY StoppedIsIdle
<1>2. Ahead <=> cpu_state = "FAULT"
  BY <1>1, Zenon DEF Ahead
<1>3. /\ ref_step \in Nat /\ ref_retired \in Nat
      /\ ref_step = IF ref_status = "FAULT" THEN ref_retired + 1
                                            ELSE ref_retired
  BY DEF ReferenceInv, RefCounters
<1>4. Len(rtl_trace) \in Nat
  BY DEF RtlRecords
<1>5. /\ Position <= ref_step /\ Position \in Nat
      /\ Position = Len(rtl_trace) + (IF Ahead THEN 1 ELSE 0)
  <2>1. Position <= ref_step
    BY Zenon DEF Follows
  <2>2. Position = Len(rtl_trace) + (IF Ahead THEN 1 ELSE 0)
    BY Zenon DEF Position
  <2> QED BY <1>4, <2>1, <2>2
<1>6. /\ Agree(g[Position], AbsState, StoredBy(image, g, Position))
      /\ PrintedOf(g, Len(rtl_trace))
  BY Zenon DEF Follows
<1>7. AbsState.status = cpu_state /\ cpu_state # "RUNNING"
  BY SMT DEF AbsState, AbsStatus, Stopped
<1>8. g[Position].status = cpu_state
  BY <1>6, <1>7, Zenon DEF Agree
<1>9. Position = ref_step
  <2>1. SUFFICES ASSUME Position # ref_step PROVE FALSE
    OBVIOUS
  <2>2. Position \in 0 .. ref_step - 1
    BY <1>3, <1>5, <2>1
  <2>3. Moves(image, g[Position], g[Position + 1])
    BY <2>2, Zenon DEF Past, StepsOf
  <2> QED BY <1>7, <1>8, <2>3, Zenon DEF Moves
<1>10. g[Position] = RefState
  BY <1>9, Zenon DEF Past
<1>11. ref_status = cpu_state
  <2>1. RefState.status = cpu_state
    BY <1>8, <1>10, Zenon
  <2>2. RefState.status = ref_status
    BY Zenon DEF RefState
  <2> QED BY <2>1, <2>2, Zenon
<1>12. Len(rtl_trace) = ref_retired
  <2>1. Ahead <=> ref_status = "FAULT"
    BY <1>2, <1>11, Zenon
  <2>2. ref_step = Len(rtl_trace) + (IF ref_status = "FAULT" THEN 1 ELSE 0)
    BY <1>5, <1>9, <2>1, Zenon
  <2> DEFINE n == Len(rtl_trace)
  <2> HIDE DEF n
  <2>3. n = ref_retired
    BY <1>3, <1>4, <2>2, SMT DEF n
  <2> QED BY <2>3 DEF n
<1>13. Agree(RefState, AbsState, {})
  BY <1>6, <1>10, Zenon DEF Agree
<1> QED BY <1>1, <1>6, <1>12, <1>13, Zenon

\* The address that faulted was not in the window whose faults the two sides
\* name differently.
LEMMA FaultOutsideWindow ==
  ASSUME ReferenceInv, ref_status = "FAULT", NEW g, Past(g)
  PROVE  ~InWindow(ref_fault_info.pc, STM32_BASE, STM32_LAST)
<1> DEFINE n == ref_step - 1
           s == g[n]
           w == WordAt(image, s.pc)
<1>1. n \in 0 .. ref_step - 1 /\ n + 1 = ref_step
  BY DEF ReferenceInv, RefCounters
<1>2. /\ Moves(image, s, g[n + 1])
      /\ ~InWindow(s.pc, STM32_BASE, STM32_LAST)
  BY <1>1, Zenon DEF Past, StepsOf
<1>3. g[n + 1] = RefState
  BY <1>1, Zenon DEF Past
<1>4. RefState.status = "FAULT" /\ RefState.fault_info = ref_fault_info
  BY <1>3, Zenon DEF RefState
<1>5. Faults(w, s, RefState)
  <2>1. ~StoresTo(w, s, RefState) /\ ~Retires(image, w, s, RefState)
    <3>1. StoresTo(w, s, RefState) => RefState.status = "RUNNING"
      BY Zenon DEF StoresTo
    <3>2. Retires(image, w, s, RefState) =>
            RefState.status = IF Ctl(w).halt THEN "HALTED" ELSE "RUNNING"
      BY Zenon DEF Retires
    <3> QED BY <1>4, <3>1, <3>2, SMT
  <2> QED BY <1>2, <1>3, <2>1, Zenon DEF Moves
<1>6. ref_fault_info = InfoOf(w, s.pc, s.registers)
  BY <1>4, <1>5, Zenon DEF Faults
<1> HIDE DEF w
<1>7. InfoOf(w, s.pc, s.registers).pc = s.pc
  BY Zenon DEF InfoOf
<1> QED BY <1>2, <1>6, <1>7, Zenon

\* The final record is the reference's.
LEMMA SameFinalRecord ==
  ASSUME RefInv, ReferenceInv, RtlRecords, Stopped, ~retire.valid,
         ~uart_tx_valid, ref_exit = 0, NEW g, Past(g), Follows(g)
  PROVE  SameFinal(Ref!FinalRecord, TraceFinal)
<1> DEFINE a == AbsState
           r == RefState
           c == Ref!FinalRecord
           t == TraceFinal
           code(k, x) == IF /\ k = "NON_EXECUTABLE_INSTRUCTION_FETCH"
                            /\ InWindow(x, STM32_BASE, STM32_LAST)
                           THEN "UNMAPPED_INSTRUCTION_FETCH" ELSE k
<1>1. /\ Agree(RefState, AbsState, {})
      /\ Len(rtl_trace) = ref_retired
      /\ ~StoreCommitted
  BY AtTheEnd
<1>2. TypeOK /\ \A region : ~write_enable(region)
  BY StoppedIsIdle, Zenon DEF write_enable, RefInv
<1>3. /\ AbsGpio = GpioNow /\ AbsDebugValue = debug_value
      /\ AbsUartLog = UartNow
      /\ AbsTimer = [counter |-> timer_counter, compare |-> timer_compare,
                     enabled |-> timer_enabled]
  BY <1>1, <1>2, RestingState, Zenon DEF AtRest, TimerNow
<1>4. UartNow = uart_log
  <2>1. uart_log \in Seq(Byte)
    BY <1>2, Zenon DEF TypeOK
  <2>2. UartNow = uart_log \o <<>>
    BY Zenon DEF UartNow
  <2> QED BY <2>1, <2>2, SMT
<1>5. AbsPc = pc /\ AbsStatus = cpu_state
  BY <1>1, Zenon DEF AbsPc, AbsStatus, Stopped
<1>6. /\ ref_pc = AbsPc /\ ref_status = AbsStatus
      /\ ref_fault_info = AbsFaultInfo /\ ref_timer = AbsTimer
      /\ ref_gpio = AbsGpio /\ ref_debug_value = AbsDebugValue
      /\ ref_uart_log = AbsUartLog
  <2>1. /\ r.pc = a.pc /\ r.status = a.status
        /\ r.fault_info = a.fault_info /\ r.timer = a.timer
        /\ r.gpio = a.gpio /\ r.debug_value = a.debug_value
        /\ r.uart_log = a.uart_log
    BY <1>1, Zenon DEF Agree
  <2>2. /\ r.pc = ref_pc /\ r.status = ref_status
        /\ r.fault_info = ref_fault_info /\ r.timer = ref_timer
        /\ r.gpio = ref_gpio /\ r.debug_value = ref_debug_value
        /\ r.uart_log = ref_uart_log
    BY Zenon DEF RefState
  <2> QED BY <2>1, <2>2, AbsFields, Zenon
<1>7. /\ ref_timer.counter = timer_counter
      /\ ref_timer.compare = timer_compare
      /\ ref_timer.enabled = timer_enabled
      /\ ref_gpio.output = gpio_output /\ ref_gpio.direction = gpio_direction
  BY <1>3, <1>6, Zenon DEF GpioNow
<1>8. /\ ref_fault_info.pc = fault.pc
      /\ ref_fault_info.instruction = fault.instruction
      /\ ref_fault_info.has_address = fault.address_valid
      /\ ref_fault_info.data_address = fault.address
      /\ ref_fault_info.code = code(fault.code, fault.pc)
  BY <1>6, Zenon DEF AbsFaultInfo
<1>9. ref_status = "FAULT" => ref_fault_info.code = fault.code
  <2>1. ref_status = "FAULT" => ~InWindow(fault.pc, STM32_BASE, STM32_LAST)
    BY <1>8, FaultOutsideWindow, Zenon
  <2> QED BY <1>8, <2>1, Zenon
<1>10. \A f \in {"type", "status", "pc", "retired", "uart_tx", "debug_value",
                 "gpio_output", "gpio_direction"} : c[f] = t[f]
  <2>1. /\ c.type = t.type /\ c.status = t.status /\ c.pc = t.pc
        /\ c.retired = t.retired /\ c.uart_tx = t.uart_tx
        /\ c.debug_value = t.debug_value
        /\ c.gpio_output = t.gpio_output
        /\ c.gpio_direction = t.gpio_direction
    BY <1>1, <1>3, <1>4, <1>5, <1>6, <1>7, Zenon
       DEF Ref!FinalRecord, TraceFinal
  <2> HIDE DEF c, t
  <2> QED BY <2>1, Zenon
<1>11. \A f \in {"timer_counter", "timer_compare", "timer_control"} :
         c[f] = t[f]
  <2>1. /\ c.timer_counter = t.timer_counter
        /\ c.timer_compare = t.timer_compare
        /\ c.timer_control = t.timer_control
    BY <1>7, RefWords, Zenon DEF Ref!FinalRecord, TraceFinal, BoolWord
  <2> HIDE DEF c, t
  <2> QED BY <2>1, Zenon
<1>12. c.status = "faulted" =>
         /\ \A f \in {"fault", "fault_pc", "fault_instruction",
                      "fault_address_valid"} : c[f] = t[f]
         /\ c.fault_address = t.fault_address
  <2>1. c.status = "faulted" => ref_status = "FAULT"
    <3>1. ref_status = cpu_state /\ cpu_state \in {"HALTED", "FAULT"}
      BY <1>5, <1>6, Zenon DEF Stopped
    <3>2. c.status = IF ref_status = "HALTED" THEN "halted" ELSE "faulted"
      BY Zenon DEF Ref!FinalRecord
    <3> QED BY <3>1, <3>2, SMT
  <2>2. ref_status = "FAULT" =>
          /\ c.fault = t.fault
          /\ c.fault_pc = t.fault_pc
          /\ c.fault_instruction = t.fault_instruction
          /\ c.fault_address_valid = t.fault_address_valid
          /\ c.fault_address = t.fault_address
    BY <1>8, <1>9, Zenon DEF Ref!FinalRecord, TraceFinal
  <2> HIDE DEF c, t
  <2> QED BY <2>1, <2>2, Zenon
<1> HIDE DEF c, t
<1> QED BY <1>10, <1>11, <1>12, Zenon DEF SameFinal, Same, c, t

\* The edge that prints it completes a trace that passes.
LEMMA LastEdgeAgrees ==
  ASSUME RefInv, ReferenceInv, RtlRecords, StopSettled, LineSettled,
         ref_exit = 0, RtlEdge, PrintFinal, NEW g, Past(g), Follows(g)
  PROVE  compare_traces(cpp_trace, rtl_trace')
<1> DEFINE m == ref_retired
           t == TraceFinal
<1>1. Stopped /\ ~retire.valid /\ ~uart_tx_valid
  BY Zenon DEF PrintFinal, StopSettled, LineSettled
<1>2. Len(rtl_trace) = m /\ PrintedOf(g, m)
  BY <1>1, AtTheEnd
<1>3. /\ m \in Nat /\ Len(cpp_trace) = m + 1
      /\ \E S : cpp_trace \in Seq(S)
      /\ \E T : rtl_trace \in Seq(T)
  BY DEF ReferenceInv, RefCounters, TraceShape, RtlRecords
<1>4. RecordsOf(g, m) /\ cpp_trace[m + 1] = Ref!FinalRecord
  BY Zenon DEF Past
<1>5. SameFinal(Ref!FinalRecord, t)
  BY <1>1, SameFinalRecord
<1>6. rtl_trace' = rtl_trace \o (<<>> \o <<t>>)
  BY <1>1, Zenon DEF RtlEdge, Printed
<1> HIDE DEF t, m
<1>7. rtl_trace' = Append(rtl_trace, t)
  BY <1>3, <1>6
<1>8. /\ Len(rtl_trace') = m + 1
      /\ \A i \in 1 .. m : rtl_trace'[i] = rtl_trace[i]
      /\ rtl_trace'[m + 1] = t
      /\ \E T : rtl_trace' \in Seq(T)
  <2>1. PICK T : rtl_trace \in Seq(T)
    BY <1>3
  <2>2. Append(rtl_trace, t) \in Seq(T \cup {t})
    BY <2>1
  <2> QED BY <1>2, <1>3, <1>7, <2>1, <2>2, OneMore
<1>9. ASSUME NEW i \in 1 .. m
      PROVE  SameRetirement(cpp_trace[i], rtl_trace'[i])
  <2>1. i - 1 \in 0 .. m - 1 /\ (i - 1) + 1 = i
    BY <1>3
  <2>2. /\ Tells(image, g[i - 1], g[i], cpp_trace[i], i - 1)
        /\ Tells(image, g[i - 1], g[i], rtl_trace[i], i - 1)
    BY <1>2, <1>4, <2>1, Zenon DEF RecordsOf, PrintedOf
  <2>3. SameRetirement(cpp_trace[i], rtl_trace[i])
    BY <2>2, SameStepSameRecord
  <2> QED BY <1>8, <2>3, Zenon
<1> QED BY <1>3, <1>4, <1>5, <1>8, <1>9, TracesPass

(***************************************************************************)
(* The invariant: the reference has a history, the RTL follows it while it *)
(* runs, and what it leaves behind passes the comparison.                  *)
(***************************************************************************)
History == \E g : Past(g) /\ (tb_exit = -1 => Follows(g))

TracesSame == tb_exit = 0 => compare_traces(cpp_trace, rtl_trace)

LEMMA HistoryInit ==
  ASSUME DiffInit
  PROVE  History
BY PastInit, FollowsInit, Zenon DEF History

LEMMA HistoryStep ==
  ASSUME RefInv, RefInv', PassInv, Comparable, History, [DiffNext]_allVars
  PROVE  History'
<1>1. ReferenceInv /\ RtlRecords /\ VerdictInv
  BY DEF PassInv
<1>2. PICK g : Past(g) /\ (tb_exit = -1 => Follows(g))
  BY DEF History
<1>3. ref_step \in Nat
  BY <1>1 DEF ReferenceInv, RefCounters
<1>4. Extends(g, g, ref_step)
  BY DEF Extends
<1>5. CASE ReferenceStep
  <2>1. UNCHANGED <<vars, tbState>> /\ Ref!RefNext
    BY <1>5, Zenon DEF ReferenceStep
  <2>2. tb_exit = -1 /\ tb_exit' = -1
    <3>1. ref_exit = -1
      BY <2>1, Zenon DEF Ref!RefNext, Ref!Iterate, Ref!Finish, Ref!LimitExit
    <3> QED BY <1>1, <2>1, <3>1 DEF VerdictInv, tbState
  <2>3. CASE Ref!Iterate
    <3>1. PICK h : Past(h)' /\ Extends(h, g, ref_step)
      BY <1>1, <1>2, <2>3, PastIterates
    <3>2. ref_step' = ref_step + 1
      BY <2>3 DEF Ref!Iterate
    <3>3. ref_step' \in Nat /\ ref_step' >= ref_step
      BY <1>3, <3>2
    <3>4. Follows(h)'
      BY <1>1, <1>2, <1>3, <2>1, <2>2, <3>1, <3>3, FollowsKept
    <3> QED BY <3>1, <3>4, Zenon DEF History
  <2>4. CASE Ref!Finish \/ Ref!LimitExit
    <3>1. Past(g)'
      BY <1>1, <1>2, <2>4, PastEnds
    <3>2. ref_step' = ref_step
      BY <2>4 DEF Ref!Finish, Ref!LimitExit
    <3>3. ref_step' \in Nat /\ ref_step' >= ref_step
      BY <1>3, <3>2
    <3>4. Follows(g)'
      BY <1>1, <1>2, <1>3, <1>4, <2>1, <2>2, <3>3, FollowsKept
    <3> QED BY <3>1, <3>4, Zenon DEF History
  <2> QED BY <2>1, <2>3, <2>4, Zenon DEF Ref!RefNext
<1>6. CASE RtlReset \/ RtlEdge
  <2>1. UNCHANGED refState /\ ref_exit = 0 /\ tb_exit = -1 /\ [Next]_vars
    BY <1>6, DiffStepsSystem, Zenon DEF RtlReset, RtlEdge
  <2>2. image' = image
    BY <1>6, ImageKept, Zenon DEF RtlReset, RtlEdge, ResetEdge, RunEdge
  <2>3. Past(g)'
    BY <1>2, <2>1, <2>2, PastKept
  <2>4. tb_exit' = -1 => Follows(g)'
    <3>1. CASE RtlReset
      BY <1>1, <1>2, <2>1, <3>1, FollowsReset
    <3>2. CASE RtlEdge
      BY <1>1, <1>2, <2>1, <3>2, FollowsEdge
    <3> QED BY <1>6, <3>1, <3>2
  <2> QED BY <2>3, <2>4, Zenon DEF History
<1>7. CASE Judge \/ Judged \/ UNCHANGED allVars
  <2>1. UNCHANGED <<vars, refState, tbState>>
    BY <1>7, Zenon DEF Judge, Judged, allVars
  <2>2. image' = image
    BY <2>1, ImageKept
  <2>3. Past(g)'
    BY <1>2, <2>1, <2>2, PastKept
  <2>4. ref_step' = ref_step /\ tb_exit' = tb_exit
    BY <2>1 DEF refState, tbState
  <2>5. ref_step' \in Nat /\ ref_step' >= ref_step
    BY <1>3, <2>4
  <2>6. tb_exit' = -1 => Follows(g)'
    BY <1>1, <1>2, <1>3, <1>4, <2>1, <2>4, <2>5, FollowsKept
  <2> QED BY <2>3, <2>6, Zenon DEF History
<1> QED BY <1>5, <1>6, <1>7, Zenon DEF DiffNext

LEMMA TracesSameStep ==
  ASSUME RefInv, PassInv, StopSettled, LineSettled, History, TracesSame,
         [DiffNext]_allVars
  PROVE  TracesSame'
<1>1. CASE RtlEdge
  <2>1. ref_exit = 0 /\ tb_exit = -1 /\ UNCHANGED refState
    BY <1>1, Zenon DEF RtlEdge
  <2>2. tb_exit' = 0 => PrintFinal
    BY <1>1 DEF RtlEdge, SimulationEnd
  <2>3. cpp_trace' = cpp_trace
    BY <2>1 DEF refState
  <2>4. PICK g : Past(g) /\ Follows(g)
    BY <2>1, Zenon DEF History
  <2>5. tb_exit' = 0 => compare_traces(cpp_trace, rtl_trace')
    BY <1>1, <2>1, <2>2, <2>4, LastEdgeAgrees DEF PassInv
  <2> QED BY <2>3, <2>5, Zenon DEF TracesSame
<1>2. CASE ReferenceStep
  <2>1. UNCHANGED tbState /\ Ref!RefNext
    BY <1>2, Zenon DEF ReferenceStep
  <2>2. ref_exit = -1
    BY <2>1, Zenon DEF Ref!RefNext, Ref!Iterate, Ref!Finish, Ref!LimitExit
  <2>3. tb_exit' = -1
    BY <2>1, <2>2 DEF PassInv, VerdictInv, tbState
  <2> QED BY <2>3 DEF TracesSame
<1>3. CASE RtlReset \/ Judge \/ Judged \/ UNCHANGED allVars
  <2>1. UNCHANGED <<refState, tbState>>
    BY <1>3, Zenon DEF RtlReset, Judge, Judged, allVars
  <2>2. UNCHANGED <<cpp_trace, rtl_trace, tb_exit>>
    BY <2>1 DEF refState, tbState
  <2> QED BY <2>2, Zenon DEF TracesSame
<1> QED BY <1>1, <1>2, <1>3 DEF DiffNext

LEMMA TracesAgreeStep ==
  ASSUME PassInv, TracesSame, TracesAgree, [DiffNext]_allVars
  PROVE  TracesAgree'
<1>1. CASE Judge
  <2> DEFINE both == parse_trace(cpp_trace) /\ parse_trace(rtl_trace)
             same == compare_traces(cpp_trace, rtl_trace)
             bad  == "trace error"
  <2>1. verdict' = CASE ref_exit > 0 \/ tb_exit > 0 -> "failed"
                     [] ref_exit = 0 /\ tb_exit = 0 /\ ~both -> bad
                     [] ref_exit = 0 /\ tb_exit = 0 /\ both /\ ~same ->
                          "mismatch"
                     [] OTHER -> "pass"
    BY <1>1, Zenon DEF Judge
  <2>2. tb_exit = 0 => same
    BY Zenon DEF TracesSame
  <2> HIDE DEF both, same
  <2>3. ref_exit \in {-1, 0, 3} /\ tb_exit \in {-1, 0, 1}
    BY DEF PassInv, ReferenceInv, TraceShape, VerdictInv
  <2>4. verdict' # "mismatch"
    <3>1. CASE ref_exit > 0 \/ tb_exit > 0
      <4>1. verdict' = "failed"
        <5> HIDE DEF bad
        <5> QED BY <2>1, <2>3, <3>1, SMT
      <4> QED BY <4>1
    <3>2. CASE ~(ref_exit > 0 \/ tb_exit > 0)
      <4>1. ref_exit = 0 /\ tb_exit = 0 /\ both /\ ~same => FALSE
        BY <2>2
      <4>2. verdict' = bad \/ verdict' = "pass"
        <5> HIDE DEF bad
        <5> QED BY <2>1, <2>3, <3>2, <4>1, SMT
      <4>3. bad # "mismatch"
        OBVIOUS
      <4> QED BY <4>2, <4>3, Zenon
    <3> QED BY <3>1, <3>2
  <2> QED BY <2>4 DEF TracesAgree
<1>2. CASE ReferenceStep \/ RtlReset \/ RtlEdge \/ Judged \/ UNCHANGED allVars
  BY <1>2, Zenon DEF ReferenceStep, RtlReset, RtlEdge, Judged, allVars,
     TracesAgree
<1> QED BY <1>1, <1>2 DEF DiffNext

\* A program that reads only RAM it has written and fetches nothing from the
\* planned STM32 window never makes the two trace producers disagree: what
\* tb_differential_trace.sv prints at the edges of the multi-cycle core, and
\* of the core one edge after it has stopped, passes compare_traces
\* (differential.py) against what ref_trace.cpp 121-185 prints of the golden
\* model.
THEOREM ComparableProgramsAgree == DiffSpec /\ []Comparable => []TracesAgree
<1>1. DiffInit => History /\ TracesSame /\ TracesAgree /\ StopSettled
                  /\ LineSettled
  <2> SUFFICES ASSUME DiffInit
               PROVE  History /\ TracesSame /\ TracesAgree /\ StopSettled
                      /\ LineSettled
    OBVIOUS
  <2>1. final_pending = FALSE /\ tb_exit = -1 /\ verdict = "none"
    BY DEF DiffInit
  <2> QED BY <2>1, HistoryInit
          DEF TracesSame, TracesAgree, StopSettled, LineSettled
<1>2. StopSettled /\ [DiffNext]_allVars => StopSettled'
  BY StopSettledStep
<1>3. RefInv /\ StopSettled /\ LineSettled /\ [DiffNext]_allVars
        => LineSettled'
  BY LineSettledStep
<1>4. RefInv /\ RefInv' /\ PassInv /\ Comparable /\ History
        /\ [DiffNext]_allVars => History'
  BY HistoryStep
<1>5. RefInv /\ PassInv /\ StopSettled /\ LineSettled /\ History
        /\ TracesSame /\ [DiffNext]_allVars => TracesSame'
  BY TracesSameStep
<1>6. PassInv /\ TracesSame /\ TracesAgree /\ [DiffNext]_allVars
        => TracesAgree'
  BY TracesAgreeStep
<1>7. PassInv /\ [DiffNext]_allVars => PassInv'
  BY PassInvStep
<1> QED BY <1>1, <1>2, <1>3, <1>4, <1>5, <1>6, <1>7, PassInvInit,
           SystemInvariant, PTL DEF DiffSpec
=============================================================================
