--------------------------- MODULE CpuHostsProofs ---------------------------
(***************************************************************************)
(* Proofs about the C++ simulator for every program image, every command   *)
(* line and every sequence of ticks and resets.                            *)
(***************************************************************************)
EXTENDS CpuHosts, InstructionEffectProofs

(***************************************************************************)
(* The exit code of the command-line simulator.                            *)
(***************************************************************************)

\* The fault record of the core is written exactly on entering Fault.
FaultRecorded == faulted <=> fault_info.code # "NONE"

\* Where main() stands, and what the counters say there.
MainState ==
  /\ phase \in {"start", "loop", "step", "exited"}
  /\ exit_code \in {-1, 0, 1, 2}
  /\ retired_instructions \in Nat
  /\ instruction_limit \in Nat
  /\ host = "embedder" => phase = "start"
  /\ phase # "exited" => exit_code = -1

\* Before main() enters its loop the simulator has run nothing.
NothingRun ==
  (host = "simulator" /\ phase = "start") =>
    ~halted /\ retired_instructions = 0 /\ uart_log = <<>>

\* A halt leaves the loop at once, and step() is called only below the limit
\* and returns after one retirement.
LoopState ==
  /\ phase = "loop" => ~halted /\ retired_instructions <= instruction_limit
  /\ phase = "step" =>
       /\ retired_before \in Nat
       /\ retired_before < instruction_limit
       /\ retired_instructions \in {retired_before, retired_before + 1}
  /\ phase = "exited" => retired_instructions <= instruction_limit

\* What each exit code means; nothing changes once the process has exited.
ExitState ==
  /\ exit_code = 0 => halted /\ fault_info.code = "NONE"
  /\ exit_code = 1 => \/ faulted /\ fault_info.code # "NONE"
                      \/ /\ ~halted /\ ~faulted
                         /\ retired_instructions = instruction_limit
  /\ exit_code = 2 => retired_instructions = 0 /\ uart_log = <<>>

\* The invariant of the induction.
SimInv ==
  /\ host \in {"simulator", "embedder"}
  /\ command \in Commands
  /\ FaultRecorded
  /\ MainState
  /\ NothingRun
  /\ LoopState
  /\ ExitState

\* No bus fault or decode error is reported with the code of no fault.
LEMMA FaultCodes ==
  ASSUME NEW f
  PROVE  /\ fetch_fault_code(f) # "NONE"
         /\ load_fault_code(f) # "NONE"
         /\ store_fault_code(f) # "NONE"
BY DEF fetch_fault_code, load_fault_code, store_fault_code

\* A tick goes on to the next microstate, faults, or retires.
GoesOn ==
  /\ retired_instructions' = retired_instructions
  /\ fault_info' = fault_info
  /\ microstate' \in {"Decode", "Execute", "Memory", "Writeback"}
Faults ==
  /\ retired_instructions' = retired_instructions
  /\ fault_info'.code # "NONE"
  /\ microstate' = "Fault"
Retires ==
  /\ retired_instructions' = retired_instructions + 1
  /\ fault_info' = fault_info
  /\ microstate' \in {"Fetch", "Halted"}

\* enter_fault stops the machine.
LEMMA EnterFaultFaults ==
  ASSUME NEW code, NEW has_address, NEW address, code # "NONE",
         enter_fault(code, has_address, address)
  PROVE  Faults
BY DEF enter_fault, Faults

\* Where one tick of the C++ machine can leave it.
LEMMA TickOutcomes ==
  ASSUME tick
  PROVE  GoesOn \/ Faults \/ Retires
<1>1. CASE TickFetch
  <2> DEFINE f == Golden!fetch32_fault(pc)
             c == fetch_fault_code(f)
  <2>1. go_to("Decode") \/ enter_fault(c, FALSE, Zero)
    BY <1>1, Zenon DEF TickFetch
  <2>2. c # "NONE"
    BY FaultCodes
  <2> HIDE DEF c
  <2> QED BY <2>1, <2>2, EnterFaultFaults DEF go_to, GoesOn
<1>2. CASE TickDecode
  <2> DEFINE c == IF DecodeError(latch.instruction_register) = "IllegalOpcode"
                    THEN "ILLEGAL_INSTRUCTION" ELSE "MALFORMED_INSTRUCTION"
  <2>1. go_to("Execute") \/ enter_fault(c, FALSE, Zero)
    BY <1>2, Zenon DEF TickDecode
  <2>2. c # "NONE"
    OBVIOUS
  <2> HIDE DEF c
  <2> QED BY <2>1, <2>2, EnterFaultFaults DEF go_to, GoesOn
<1>3. CASE TickExecute
  <2> DEFINE m == IF control.memory_operation = "None" THEN "Writeback"
                                                       ELSE "Memory"
  <2>1. go_to(m) \/ \E t : retire_to(t, timer) /\ microstate' = "Fetch"
    BY <1>3, Zenon DEF TickExecute
  <2>2. m \in {"Writeback", "Memory"}
    OBVIOUS
  <2> HIDE DEF m
  <2> QED BY <2>1, <2>2 DEF go_to, GoesOn, retire_to, Retires
<1>4. CASE TickLoad
  <2> DEFINE f == Golden!read32_fault(latch.alu_result)
             c == load_fault_code(f)
  <2>1. go_to("Writeback") \/ enter_fault(c, TRUE, latch.alu_result)
    BY <1>4, Zenon DEF TickLoad
  <2>2. c # "NONE"
    BY FaultCodes
  <2> HIDE DEF c
  <2> QED BY <2>1, <2>2, EnterFaultFaults DEF go_to, GoesOn
<1>5. CASE TickStore
  <2> DEFINE f == Golden!write32_fault(latch.alu_result)
             c == store_fault_code(f)
  <2>1. \/ \E t : retire_to(latch.next_pc, t) /\ microstate' = "Fetch"
        \/ enter_fault(c, TRUE, latch.alu_result)
    BY <1>5, Zenon DEF TickStore
  <2>2. c # "NONE"
    BY FaultCodes
  <2> HIDE DEF c
  <2> QED BY <2>1, <2>2, EnterFaultFaults DEF retire_to, Retires
<1>6. CASE TickWriteback
  <2>1. /\ retire_to(latch.next_pc, timer)
        /\ microstate' = IF control.halt THEN "Halted" ELSE "Fetch"
    BY <1>6, Zenon DEF TickWriteback
  <2> QED BY <2>1 DEF retire_to, Retires
<1> QED BY <1>1, <1>2, <1>3, <1>4, <1>5, <1>6 DEF tick

\* A tick retires at most one instruction, records a fault exactly when it
\* enters Fault, and happens only in a core that runs.
LEMMA TickFacts ==
  ASSUME tick, FaultRecorded, retired_instructions \in Nat
  PROVE  /\ ~halted /\ ~faulted
         /\ retired_instructions' \in
              {retired_instructions, retired_instructions + 1}
         /\ FaultRecorded'
<1>1. ~halted /\ ~faulted
  BY DEF tick, TickFetch, TickDecode, TickExecute, TickLoad, TickStore,
         TickWriteback, halted, faulted
<1>2. GoesOn \/ Faults \/ Retires
  BY TickOutcomes
<1> QED BY <1>1, <1>2 DEF GoesOn, Faults, Retires, FaultRecorded, faulted

\* Every call of either host keeps the invariant.
LEMMA SimStep ==
  ASSUME SimInv, [HostNext]_hostVars
  PROVE  SimInv'
<1> USE DEF SimInv
<1>1. CASE Simulate
  <2>1. host = "simulator" /\ Next /\ UNCHANGED host
    BY <1>1 DEF Simulate
  <2>2. CASE Reject
    BY <2>1, <2>2 DEF Reject, exit, cpuVars, devices, FaultRecorded,
         MainState, NothingRun, LoopState, ExitState, halted, faulted
  <2>3. CASE Start
    <3>1. instruction_limit' \in Nat
      BY <2>3, LimitsAreNat DEF Start, MainState
    <3>2. phase = "start" /\ retired_instructions = 0 /\ ~halted
      BY <2>1, <2>3 DEF Start, NothingRun
    <3> QED BY <2>1, <2>3, <3>1, <3>2 DEF Start, cpuVars, devices,
         FaultRecorded,
         MainState, NothingRun, LoopState, ExitState, halted, faulted
  <2>4. CASE LimitExit
    BY <2>1, <2>4 DEF LimitExit, LimitReached, exit, cpuVars, devices,
         FaultRecorded, MainState, NothingRun, LoopState, ExitState, halted,
         faulted
  <2>5. CASE CallStep
    BY <2>1, <2>5 DEF CallStep, LimitReached, cpuVars, devices,
         FaultRecorded, MainState, NothingRun, LoopState, ExitState, halted,
         faulted
  <2>6. CASE StepTick
    <3>1. tick /\ ~StepEnded
      BY <2>6 DEF StepTick
    <3>2. /\ retired_instructions' \in
               {retired_instructions, retired_instructions + 1}
          /\ FaultRecorded'
      BY <3>1, TickFacts DEF MainState
    <3> QED BY <2>1, <2>6, <3>1, <3>2 DEF StepTick, StepEnded, MainState,
         NothingRun, LoopState, ExitState, halted, faulted
  <2>7. CASE StepReturns
    BY <2>1, <2>7 DEF StepReturns, StepEnded, exit, cpuVars, devices,
         FaultRecorded, MainState, NothingRun, LoopState, ExitState, halted,
         faulted
  <2>8. CASE FaultReport
    BY <2>1, <2>8 DEF FaultReport, exit, cpuVars, devices, FaultRecorded,
         MainState, NothingRun, LoopState, ExitState, halted, faulted
  <2> QED BY <2>1, <2>2, <2>3, <2>4, <2>5, <2>6, <2>7, <2>8 DEF Next
<1>2. CASE EmbedderTick
  <2>1. FaultRecorded' /\ retired_instructions' \in Nat
    BY <1>2, TickFacts DEF EmbedderTick, MainState
  <2> QED BY <1>2, <2>1 DEF EmbedderTick, mainVars, MainState, NothingRun,
       LoopState, ExitState
<1>3. CASE EmbedderReset
  BY <1>3 DEF EmbedderReset, reset, mainVars, FaultRecorded, MainState,
       NothingRun, LoopState, ExitState, faulted, Golden!NoFaultInfo
<1>4. CASE UNCHANGED hostVars
  BY <1>4 DEF hostVars, vars, cpuVars, devices, mainVars, FaultRecorded,
       MainState, NothingRun, LoopState, ExitState, halted, faulted
<1> QED BY <1>1, <1>2, <1>3, <1>4 DEF HostNext

\* The invariant is what the property asks for.
LEMMA SimInvImpliesOutcome == SimInv => ExitCodeTellsOutcome
<1> SUFFICES ASSUME SimInv PROVE ExitCodeTellsOutcome
  OBVIOUS
<1>1. ~halted /\ ~faulted => Status = "RUNNING"
  BY DEF Status
<1>2. phase # "start" => retired_instructions <= instruction_limit
  BY DEF SimInv, MainState, LoopState
<1> QED BY <1>1, <1>2 DEF SimInv, ExitState, ExitCodeTellsOutcome

\* mini-sim's exit code is trustworthy for every image, every argument
\* vector and every limit: 0 means a clean HALT within the limit, 1 a fault
\* or exactly the limit retired, 2 that nothing was run.
THEOREM ExitCodeIsTheOutcome == HostSpec => []ExitCodeTellsOutcome
<1>1. HostInit => SimInv
  BY LimitsAreNat DEF HostInit, Init, CpuInit, SimInv, FaultRecorded,
     MainState, NothingRun, LoopState, ExitState, halted, faulted,
     Golden!NoFaultInfo
<1>2. SimInv /\ [HostNext]_hostVars => SimInv'
  BY SimStep
<1>3. SimInv => ExitCodeTellsOutcome
  BY SimInvImpliesOutcome
<1> QED BY <1>1, <1>2, <1>3, PTL DEF HostSpec

(***************************************************************************)
(* The golden model is an instance: its copies of the operators of Word32, *)
(* Mini32Pkg and GoldenIsa are the operators themselves.                   *)
(***************************************************************************)

\* Words.
LEMMA GoldenWords ==
  /\ Golden!Zero = Zero /\ Golden!One = One /\ Golden!Four = Four
  /\ Golden!Register = Register
  /\ \A h, l : Golden!W(h, l) = W(h, l)
  /\ \A a, b : /\ Golden!Add(a, b) = Add(a, b)
               /\ Golden!Sub(a, b) = Sub(a, b)
               /\ Golden!ULess(a, b) = ULess(a, b)
               /\ Golden!ULeq(a, b) = ULeq(a, b)
  /\ \A a : Golden!SignBit(a) = SignBit(a) /\ Golden!LowByte(a) = LowByte(a)
<1>1. Golden!HalfMod = HalfMod
  BY DEF Golden!HalfMod, HalfMod
<1>2. \A h, l : Golden!W(h, l) = W(h, l)
  BY DEF Golden!W, W
<1>3. \A a, b : Golden!ULess(a, b) = ULess(a, b)
  BY DEF Golden!ULess, ULess
<1>4. \A a, b : Golden!ULeq(a, b) = ULeq(a, b)
  BY <1>3 DEF Golden!ULeq, ULeq
<1>5. \A a, b : Golden!Add(a, b) = Add(a, b) /\ Golden!Sub(a, b) = Sub(a, b)
  BY <1>1, <1>2 DEF Golden!Add, Add, Golden!Sub, Sub
<1>6. /\ Golden!Zero = Zero /\ Golden!One = One /\ Golden!Four = Four
      /\ Golden!Register = Register
  BY <1>2 DEF Golden!Zero, Zero, Golden!One, One, Golden!Four, Four,
     Golden!Register, Register
<1>7. \A a : Golden!SignBit(a) = SignBit(a) /\ Golden!LowByte(a) = LowByte(a)
  BY DEF Golden!SignBit, SignBit, Golden!LowByte, LowByte
<1> QED BY <1>2, <1>3, <1>4, <1>5, <1>6, <1>7

\* Bitwise operators and shifts.
LEMMA GoldenBits ==
  \A a, b : /\ Golden!And(a, b) = And(a, b)
            /\ Golden!Or(a, b) = Or(a, b)
            /\ Golden!Xor(a, b) = Xor(a, b)
            /\ Golden!ShiftLeft(a, b) = ShiftLeft(a, b)
            /\ Golden!ShiftRight(a, b) = ShiftRight(a, b)
<1>1. \A a, b : Golden!And(a, b) = And(a, b)
  BY SMT DEF Golden!And, And, Golden!AndHalf, AndHalf, Golden!W, W,
     Golden!Bit, Bit, Golden!HalfOf, HalfOf, Golden!Weights, Weights
<1>2. \A a, b : Golden!Or(a, b) = Or(a, b)
  BY SMT DEF Golden!Or, Or, Golden!OrHalf, OrHalf, Golden!W, W,
     Golden!Bit, Bit, Golden!HalfOf, HalfOf, Golden!Weights, Weights
<1>3. \A a, b : Golden!Xor(a, b) = Xor(a, b)
  BY SMT DEF Golden!Xor, Xor, Golden!XorHalf, XorHalf, Golden!W, W,
     Golden!Bit, Bit, Golden!HalfOf, HalfOf, Golden!Weights, Weights
<1>4. \A n : Golden!Pow2(n) = Pow2(n)
  BY SMT DEF Golden!Pow2, Pow2
<1>5. /\ Golden!HalfMod = HalfMod
      /\ \A h, l : Golden!W(h, l) = W(h, l)
  BY SMT DEF Golden!HalfMod, HalfMod, Golden!W, W
<1>6. \A a, b : Golden!ShiftLeft(a, b) = ShiftLeft(a, b)
  BY <1>4, <1>5, SMT DEF Golden!ShiftLeft, ShiftLeft
<1>7. \A a, b : Golden!ShiftRight(a, b) = ShiftRight(a, b)
  BY <1>4, <1>5, SMT DEF Golden!ShiftRight, ShiftRight
<1> QED BY <1>1, <1>2, <1>3, <1>6, <1>7

\* The opcodes.
LEMMA GoldenOpcodes ==
  /\ Golden!OP_NOP = OP_NOP /\ Golden!OP_ADD = OP_ADD /\ Golden!OP_SUB = OP_SUB
  /\ Golden!OP_AND = OP_AND /\ Golden!OP_OR = OP_OR /\ Golden!OP_XOR = OP_XOR
  /\ Golden!OP_SLT = OP_SLT /\ Golden!OP_SHL = OP_SHL /\ Golden!OP_SHR = OP_SHR
  /\ Golden!OP_ADDI = OP_ADDI /\ Golden!OP_ANDI = OP_ANDI
     /\ Golden!OP_ORI = OP_ORI
  /\ Golden!OP_XORI = OP_XORI /\ Golden!OP_LUI = OP_LUI /\ Golden!OP_LW = OP_LW
  /\ Golden!OP_SW = OP_SW /\ Golden!OP_BEQ = OP_BEQ /\ Golden!OP_BNE = OP_BNE
  /\ Golden!OP_BLT = OP_BLT /\ Golden!OP_BGE = OP_BGE /\ Golden!OP_J = OP_J
  /\ Golden!OP_JAL = OP_JAL /\ Golden!OP_JR = OP_JR /\ Golden!OP_HALT = OP_HALT
BY DEF Golden!OP_NOP, OP_NOP, Golden!OP_ADD, OP_ADD, Golden!OP_SUB, OP_SUB,
       Golden!OP_AND, OP_AND, Golden!OP_OR, OP_OR, Golden!OP_XOR, OP_XOR,
       Golden!OP_SLT, OP_SLT, Golden!OP_SHL, OP_SHL, Golden!OP_SHR, OP_SHR,
       Golden!OP_ADDI, OP_ADDI, Golden!OP_ANDI, OP_ANDI, Golden!OP_ORI,
       OP_ORI, Golden!OP_XORI, OP_XORI, Golden!OP_LUI, OP_LUI,
       Golden!OP_LW, OP_LW, Golden!OP_SW, OP_SW, Golden!OP_BEQ, OP_BEQ,
       Golden!OP_BNE, OP_BNE, Golden!OP_BLT, OP_BLT, Golden!OP_BGE, OP_BGE,
       Golden!OP_J, OP_J, Golden!OP_JAL, OP_JAL, Golden!OP_JR, OP_JR,
       Golden!OP_HALT, OP_HALT

\* The decoder.
LEMMA GoldenDecoder ==
  \A i : /\ Golden!Decode(i) = Decode(i)
         /\ Golden!DecodeError(i) = DecodeError(i)
         /\ Golden!control_for(i) = control_for(i)
<1>1. \A op : Golden!format_for(op) = format_for(op)
  BY GoldenOpcodes DEF Golden!format_for, format_for, Golden!is_r_format,
     is_r_format
<1>2. \A i : /\ Golden!Field21(i) = Field21(i)
             /\ Golden!Field16(i) = Field16(i)
             /\ Golden!Field11(i) = Field11(i)
  BY DEF Golden!Field21, Field21, Golden!Field16, Field16, Golden!Field11,
     Field11
<1>3. \A op, i : Golden!Malformed(op, i) = Malformed(op, i)
  BY <1>1, <1>2, GoldenOpcodes DEF Golden!Malformed, Malformed
<1>4. \A i : Golden!DecodeError(i) = DecodeError(i)
  BY <1>3, GoldenOpcodes DEF Golden!DecodeError, DecodeError
<1>5. \A i : Golden!Decode(i) = Decode(i)
  BY <1>1, <1>2, GoldenWords DEF Golden!Decode, Decode
<1>6. /\ Golden!DefaultControl = DefaultControl
      /\ \A o : Golden!RegisterControl(o) = RegisterControl(o)
      /\ \A o, k : Golden!ImmediateControl(o, k) = ImmediateControl(o, k)
      /\ \A p : Golden!BranchControl(p) = BranchControl(p)
  BY DEF Golden!DefaultControl, DefaultControl, Golden!RegisterControl,
     RegisterControl, Golden!ImmediateControl, ImmediateControl,
     Golden!BranchControl, BranchControl
<1>7. \A op : Golden!control_for(op) = control_for(op)
  BY <1>6, GoldenOpcodes DEF Golden!control_for, control_for
<1> QED BY <1>4, <1>5, <1>7

\* Immediates, displacements, ALU and branch predicates.
LEMMA GoldenExecution ==
  /\ \A k, n : Golden!immediate_value(k, n) = immediate_value(k, n)
  /\ \A n : /\ Golden!branch_displacement(n) = branch_displacement(n)
            /\ Golden!jump_displacement(n) = jump_displacement(n)
  /\ \A o, a, b : /\ Golden!Execute(o, a, b) = Execute(o, a, b)
                  /\ Golden!branch_taken(o, a, b) = branch_taken(o, a, b)
<1>1. \A k, n : Golden!immediate_value(k, n) = immediate_value(k, n)
  BY GoldenWords DEF Golden!immediate_value, immediate_value
<1>2. \A w : Golden!Times4(w) = Times4(w)
  BY GoldenWords DEF Golden!Times4, Times4
<1>3. \A n : Golden!branch_displacement(n) = branch_displacement(n)
  BY <1>1, <1>2 DEF Golden!branch_displacement, branch_displacement
<1>4. \A n : Golden!jump_displacement(n) = jump_displacement(n)
  BY <1>2, GoldenWords DEF Golden!jump_displacement, jump_displacement
<1>5. \A a, b : Golden!signed_less_than(a, b) = signed_less_than(a, b)
  BY GoldenWords DEF Golden!signed_less_than, signed_less_than
<1>6. \A o, a, b : Golden!Execute(o, a, b) = Execute(o, a, b)
  BY <1>5, GoldenWords, GoldenBits DEF Golden!Execute, Execute
<1>7. \A o, a, b : Golden!branch_taken(o, a, b) = branch_taken(o, a, b)
  BY <1>5 DEF Golden!branch_taken, branch_taken
<1> QED BY <1>1, <1>3, <1>4, <1>6, <1>7

(***************************************************************************)
(* The types of the golden model.                                          *)
(***************************************************************************)
RamAddress == 0 .. 4 * RAM_WORD_COUNT - 1

MachineOK ==
  /\ image \in Seq(Byte)
  /\ pc \in Word
  /\ registers \in [Register -> Word]
  /\ ram \in [RamAddress -> Byte]
  /\ timer \in [counter : Word, compare : Word, enabled : BOOLEAN]
  /\ gpio \in [output : Word, direction : Word]
  /\ debug_value \in Word

\* Four bytes make a word.
LEMMA BytesMakeWord ==
  ASSUME NEW b0 \in Byte, NEW b1 \in Byte, NEW b2 \in Byte, NEW b3 \in Byte
  PROVE  Golden!WordOfBytes(b0, b1, b2, b3) \in Word
<1>1. b3 * 256 + b2 \in Half /\ b1 * 256 + b0 \in Half
  BY SMT DEF Byte, Half, HalfMod
<1> QED BY <1>1, WInWord, GoldenWords, Zenon DEF Golden!WordOfBytes

\* A word read from ROM, and a word of RAM bytes.
LEMMA RomReadTyped ==
  ASSUME MachineOK, NEW a \in Word
  PROVE  Golden!RomRead(a) \in Word
<1>1. ASSUME NEW k \in Nat PROVE Golden!RomByte(k) \in Byte
  <2>1. CASE k < Len(image)
    <3>1. k + 1 \in 1 .. Len(image) /\ image \in Seq(Byte)
      BY <2>1 DEF MachineOK
    <3>2. image[k + 1] \in Byte
      BY <3>1
    <3> QED BY <2>1, <3>2 DEF Golden!RomByte
  <2>2. CASE ~(k < Len(image))
    <3>1. 0 \in Byte
      BY SMT DEF Byte
    <3> QED BY <2>2, <3>1 DEF Golden!RomByte
  <2> QED BY <2>1, <2>2
<1>2. a.lo \in Nat
  BY WordParts
<1>3. a.lo + 1 \in Nat /\ a.lo + 2 \in Nat /\ a.lo + 3 \in Nat
  BY <1>2
<1> QED BY <1>1, <1>2, <1>3, BytesMakeWord DEF Golden!RomRead

\* An aligned address in the RAM window has its four bytes in the array.
LEMMA RamReadTyped ==
  ASSUME MachineOK, NEW a \in Word, a.lo % 4 = 0, Golden!InRam(a)
  PROVE  Golden!RamRead(a) \in Word
<1>1. a.lo \in Int /\ 0 <= a.lo /\ a.hi \in Int
  BY WordParts
<1>2. a.lo <= 4 * RAM_WORD_COUNT - 1
  <2>1. Golden!ULeq(W(4096, 0), a)
        /\ Golden!ULeq(a, W(4096, 4 * RAM_WORD_COUNT - 1))
    BY GoldenWords DEF Golden!InRam, Golden!InWindow, Golden!RAM_BASE,
         Golden!RAM_LAST
  <2>2. ULeq(W(4096, 0), a) /\ ULeq(a, W(4096, 4 * RAM_WORD_COUNT - 1))
    BY <2>1, GoldenWords
  <2> QED BY <1>1, <2>2, MemorySizes, SMT DEF ULeq, ULess, W
<1>3. {a.lo, a.lo + 1, a.lo + 2, a.lo + 3} \subseteq RamAddress
  BY <1>1, <1>2, MemorySizes, SMT DEF RamAddress
<1>4. /\ ram[a.lo] \in Byte /\ ram[a.lo + 1] \in Byte
      /\ ram[a.lo + 2] \in Byte /\ ram[a.lo + 3] \in Byte
  BY <1>3 DEF MachineOK
<1> QED BY <1>4, BytesMakeWord DEF Golden!RamRead

\* Whatever a load reads is a word.
LEMMA LoadTyped ==
  ASSUME MachineOK, NEW a \in Word, Golden!read32_fault(a) = "NONE",
         NEW input \in GpioInputs
  PROVE  Golden!read32(a, input) \in Word
<1>1. /\ a.lo % 4 = 0
      /\ \/ Golden!InRom(a) \/ Golden!InRam(a) \/ Golden!InUart(a)
         \/ Golden!InTimer(a) \/ Golden!InGpio(a) \/ Golden!InDebug(a)
  BY DEF Golden!read32_fault, Golden!data_fault
<1>2. Zero \in Word /\ One \in Word /\ Golden!Zero = Zero /\ Golden!One = One
  BY ConstantsAreWords, GoldenWords
<1>3. a.lo % 16 \in {0, 4, 8, 12}
  <2>1. a.lo \in Int
    BY WordParts
  <2> QED BY <1>1, <2>1, SMT
<1>4. Golden!UartRead(a.lo % 16) \in Word
  BY <1>2 DEF Golden!UartRead
<1>5. Golden!DebugRead(a.lo % 16) \in Word
  BY <1>2 DEF Golden!DebugRead, MachineOK
<1>6. Golden!GpioRead(a.lo % 16, input) \in Word
  BY <1>2, GpioInputsAreWords DEF Golden!GpioRead, MachineOK
<1>7. Golden!TimerRead(a.lo % 16) \in Word
  BY <1>2, <1>3 DEF Golden!TimerRead, MachineOK
<1>8. Golden!InRom(a) => Golden!RomRead(a) \in Word
  BY RomReadTyped
<1>9. Golden!InRam(a) => Golden!RamRead(a) \in Word
  BY <1>1, RamReadTyped
<1> QED BY <1>1, <1>4, <1>5, <1>6, <1>7, <1>8, <1>9, Zenon DEF Golden!read32

\* The instruction at pc, once it is known to be legal.
InstructionOK ==
  /\ Golden!instruction \in Word
  /\ Golden!decoded.opcode \in Opcodes
  /\ ControlColumns(Golden!decoded.opcode, Golden!control)
  /\ Golden!decoded.rd \in Register
  /\ Golden!operand_lhs \in Word
  /\ Golden!store_data \in Word
  /\ Golden!alu_result \in Word
  /\ Golden!pc_plus_4 \in Word
  /\ Golden!Add(Golden!pc_plus_4,
                Golden!branch_displacement(Golden!decoded.imm16)) \in Word
  /\ Golden!Add(Golden!pc_plus_4,
                Golden!jump_displacement(Golden!decoded.imm26)) \in Word

\* ... because the image is bytes and the registers are words.
LEMMA InstructionTyped ==
  ASSUME MachineOK, Golden!DecodeError(Golden!instruction) = "None"
  PROVE  InstructionOK
<1> DEFINE i == Golden!instruction
           d == Golden!decoded
           c == Golden!control
<1>1. i \in Word
  BY RomReadTyped DEF Golden!instruction, MachineOK
<1>2. /\ DecodeError(i) = "None"
      /\ d = Decode(i)
      /\ c = control_for(d.opcode)
  BY GoldenDecoder DEF Golden!decoded, Golden!control
<1> HIDE DEF i, d, c
<1>3. LegalFields(d, c)
  BY <1>1, <1>2, DecodeTyped, Zenon
<1>4. ASSUME NEW r \in Register PROVE Golden!ReadRegister(r) \in Word
  BY ConstantsAreWords, GoldenWords DEF Golden!ReadRegister, MachineOK
<1>5. Golden!operand_lhs \in Word /\ Golden!store_data \in Word
  BY <1>3, <1>4, SMT DEF Golden!operand_lhs, Golden!store_data, d, LegalFields
<1>6. c.immediate_kind \in {"None", "Signed16", "ZeroExtended16", "Upper16"}
  BY <1>3, SMT DEF ControlColumns, LegalFields
<1>7. c.alu_operation \in {"Add", "Sub", "And", "Or", "Xor", "Slt",
                           "ShiftLeft", "ShiftRight"}
  BY <1>3, SMT DEF ControlColumns, LegalFields
<1>8. immediate_value(c.immediate_kind, d.imm16) \in Word
  BY <1>3, <1>6, DisplacementTyped, SMT DEF LegalFields
<1>9. Golden!operand_rhs \in Word
  BY <1>5, <1>8, GoldenExecution, Zenon DEF Golden!operand_rhs, c, d
<1>10. Golden!alu_result \in Word
  <2>1. Golden!alu_result =
          Execute(c.alu_operation, Golden!operand_lhs, Golden!operand_rhs)
    BY GoldenExecution, Zenon DEF Golden!alu_result, c
  <2> QED BY <1>5, <1>7, <1>9, <2>1, ExecuteTyped, Zenon
<1>11. Golden!pc_plus_4 \in Word
  BY AddInWord, ConstantsAreWords, GoldenWords, Zenon
     DEF Golden!pc_plus_4, MachineOK
<1>12. /\ branch_displacement(d.imm16) \in Word
       /\ jump_displacement(d.imm26) \in Word
  BY <1>3, DisplacementTyped, SMT DEF LegalFields
<1>13. /\ Golden!Add(Golden!pc_plus_4, Golden!branch_displacement(d.imm16)) \in Word
       /\ Golden!Add(Golden!pc_plus_4, Golden!jump_displacement(d.imm26)) \in Word
  BY <1>11, <1>12, AddInWord, GoldenWords, GoldenExecution, Zenon
<1> QED BY <1>1, <1>3, <1>5, <1>10, <1>11, <1>13, SMT
        DEF InstructionOK, LegalFields, i, d, c

\* The timer after a retirement.
LEMMA TimerTyped ==
  ASSUME NEW t \in [counter : Word, compare : Word, enabled : BOOLEAN]
  PROVE  Golden!RetireTick(t) \in
           [counter : Word, compare : Word, enabled : BOOLEAN]
<1>1. Golden!Add(t.counter, Golden!One) \in Word
  BY AddInWord, ConstantsAreWords, GoldenWords
<1> QED BY <1>1 DEF Golden!RetireTick

\* The four bytes of a word.
LEMMA BytesOfWord ==
  ASSUME NEW v \in Word, NEW k
  PROVE  Golden!ByteOf(v, k) \in Byte
<1>1. v.lo \in Half /\ v.hi \in Half
  BY WordHalves
<1>2. ASSUME NEW h \in Half PROVE h % 256 \in Byte /\ h \div 256 \in Byte
  BY HalfRange, SMT DEF Byte
<1> QED BY <1>1, <1>2, Zenon DEF Golden!ByteOf

\* The devices and RAM after a store.
LEMMA StoreTyped ==
  ASSUME MachineOK, NEW a \in Word, NEW v \in Word
  PROVE  /\ Golden!RamWritten(a, v) \in [RamAddress -> Byte]
         /\ Golden!TimerWritten(a, v) \in
              [counter : Word, compare : Word, enabled : BOOLEAN]
         /\ Golden!GpioWritten(a, v) \in [output : Word, direction : Word]
         /\ Golden!DebugWritten(a, v) \in Word
<1>1. ASSUME NEW k PROVE Golden!ByteOf(v, k) \in Byte
  BY BytesOfWord
<1>2. Golden!RamWritten(a, v) \in [RamAddress -> Byte]
  BY <1>1 DEF Golden!RamWritten, Golden!RamBytes, RamAddress, MachineOK
<1>3. Golden!TimerWritten(a, v) \in
        [counter : Word, compare : Word, enabled : BOOLEAN]
  BY DEF Golden!TimerWritten, MachineOK
<1>4. Golden!GpioWritten(a, v) \in [output : Word, direction : Word]
  BY DEF Golden!GpioWritten, MachineOK
<1>5. Golden!DebugWritten(a, v) \in Word
  BY DEF Golden!DebugWritten, MachineOK
<1> QED BY <1>2, <1>3, <1>4, <1>5

\* A step of the golden model keeps the types.
LEMMA GoldenStepTyped ==
  ASSUME MachineOK, Golden!Step
  PROVE  MachineOK'
<1> DEFINE Timers == [counter : Word, compare : Word, enabled : BOOLEAN]
           legal == Golden!DecodeError(Golden!instruction) = "None"
<1>1. ASSUME NEW code, NEW ins, NEW has, NEW address,
             Golden!enter_fault(code, ins, has, address)
      PROVE  MachineOK'
  BY <1>1 DEF Golden!enter_fault, MachineOK
<1>2. timer \in Timers
  BY DEF MachineOK
<1>3. Golden!RetireTick(timer) \in Timers
  BY <1>2, TimerTyped
<1>4. ASSUME NEW next \in Word, Golden!retire_to(next)
      PROVE  MachineOK'
  BY <1>3, <1>4 DEF Golden!retire_to, MachineOK
<1>5. ASSUME NEW v \in Word, NEW next \in Word, legal,
             Golden!Writeback(v, next)
      PROVE  MachineOK'
  <2> DEFINE destination ==
               IF Golden!control.register_destination = "ReturnAddress"
                 THEN 31 ELSE Golden!decoded.rd
  <2>1. destination \in Register
    BY <1>5, InstructionTyped, SMT DEF InstructionOK, Register
  <2> HIDE DEF destination
  <2>2. Golden!WriteRegister(destination, v) \in [Register -> Word]
    BY <2>1 DEF Golden!WriteRegister, MachineOK
  <2>3. registers' \in [Register -> Word]
    BY <1>5, <2>2 DEF Golden!Writeback, MachineOK, destination
  <2>4. /\ pc' = next
        /\ timer' = Golden!RetireTick(timer)
        /\ UNCHANGED <<image, fault_info, ram, gpio, debug_value, uart_log>>
    BY <1>5 DEF Golden!Writeback
  <2> QED BY <1>3, <2>3, <2>4 DEF MachineOK
<1>6. CASE Golden!FetchFault
  BY <1>1, <1>6, Zenon DEF Golden!FetchFault
<1>7. CASE Golden!DecodeFault
  BY <1>1, <1>7, Zenon DEF Golden!DecodeFault
<1>8. CASE Golden!LoadFault
  BY <1>1, <1>8, Zenon DEF Golden!LoadFault
<1>9. CASE Golden!StoreFault
  BY <1>1, <1>9, Zenon DEF Golden!StoreFault
<1>10. Golden!Decodes => legal /\ InstructionOK
  BY InstructionTyped, Zenon DEF Golden!Decodes
<1>11. CASE Golden!Branch
  BY <1>4, <1>10, <1>11, SMT DEF Golden!Branch, InstructionOK
<1>12. CASE Golden!Jump
  BY <1>4, <1>10, <1>12, SMT DEF Golden!Jump, InstructionOK
<1>13. CASE Golden!JumpRegister
  BY <1>4, <1>10, <1>13, SMT DEF Golden!JumpRegister, InstructionOK
<1>14. CASE Golden!Store
  <2>1. Golden!alu_result \in Word /\ Golden!store_data \in Word
    BY <1>10, <1>14, Zenon DEF Golden!Store, InstructionOK
  <2> DEFINE a == Golden!alu_result
             v == Golden!store_data
             t == Golden!TimerWritten(a, v)
  <2> HIDE DEF a, v
  <2>2. /\ Golden!RamWritten(a, v) \in [RamAddress -> Byte]
        /\ t \in Timers
        /\ Golden!GpioWritten(a, v) \in [output : Word, direction : Word]
        /\ Golden!DebugWritten(a, v) \in Word
    BY <2>1, StoreTyped DEF a, v
  <2> HIDE DEF t
  <2>3. Golden!RetireTick(t) \in Timers
    BY <2>2, TimerTyped
  <2>4. /\ ram' = Golden!RamWritten(a, v)
        /\ timer' = Golden!RetireTick(t)
        /\ gpio' = Golden!GpioWritten(a, v)
        /\ debug_value' = Golden!DebugWritten(a, v)
        /\ pc' = Golden!pc_plus_4
        /\ UNCHANGED <<image, registers>>
    BY <1>14, Zenon DEF Golden!Store, a, v, t
  <2>5. Golden!pc_plus_4 \in Word
    BY <1>10, <1>14, Zenon DEF Golden!Store, InstructionOK
  <2> QED BY <2>2, <2>3, <2>4, <2>5 DEF MachineOK
<1>15. CASE Golden!Load
  <2>1. PICK input \in GpioInputs :
               Golden!Writeback(Golden!read32(Golden!alu_result, input),
                                Golden!pc_plus_4)
    BY <1>15, Zenon DEF Golden!Load
  <2>2. /\ Golden!alu_result \in Word /\ Golden!pc_plus_4 \in Word /\ legal
        /\ Golden!read32_fault(Golden!alu_result) = "NONE"
    BY <1>10, <1>15, Zenon DEF Golden!Load, InstructionOK
  <2>3. Golden!read32(Golden!alu_result, input) \in Word
    BY <2>2, LoadTyped
  <2> QED BY <1>5, <2>1, <2>2, <2>3, Zenon
<1>16. CASE Golden!JumpAndLink
  BY <1>5, <1>10, <1>16, Zenon DEF Golden!JumpAndLink, InstructionOK
<1>17. CASE Golden!Compute
  BY <1>5, <1>10, <1>17, Zenon DEF Golden!Compute, InstructionOK
<1> QED BY <1>6, <1>7, <1>8, <1>9, <1>11, <1>12, <1>13, <1>14, <1>15, <1>16,
           <1>17, Zenon DEF Golden!Step

(***************************************************************************)
(* The latches: what each microstate finds in them is what the golden      *)
(* model computes from the state that has not changed since the fetch.     *)
(***************************************************************************)
LatchFields ==
  {"instruction_register", "decoded_instruction", "operand_lhs",
   "operand_rhs", "store_data", "alu_result", "memory_data", "pc_plus_4",
   "next_pc"}

HasFetched ==
  /\ Golden!fetch32_fault(pc) = "NONE"
  /\ latch.instruction_register = Golden!instruction
  /\ latch.pc_plus_4 = Golden!pc_plus_4

HasDecoded ==
  /\ Golden!DecodeError(Golden!instruction) = "None"
  /\ latch.decoded_instruction = Golden!decoded
  /\ latch.operand_lhs = Golden!operand_lhs
  /\ latch.operand_rhs = Golden!operand_rhs
  /\ latch.store_data = Golden!store_data

JumpTarget ==
  Golden!Add(Golden!pc_plus_4, Golden!jump_displacement(Golden!decoded.imm26))

\* Only sequential instructions and JAL get beyond Execute.
HasExecuted ==
  /\ latch.alu_result = Golden!alu_result
  /\ \/ /\ Golden!control.control_flow = "Sequential"
        /\ latch.next_pc = Golden!pc_plus_4
     \/ /\ Golden!control.control_flow = "RelativeJump"
        /\ Golden!control.reg_write
        /\ Golden!control.memory_operation = "None"
        /\ latch.next_pc = JumpTarget

HasLoaded ==
  /\ Golden!read32_fault(Golden!alu_result) = "NONE"
  /\ \E input \in GpioInputs :
       latch.memory_data = Golden!read32(Golden!alu_result, input)

LatchInv ==
  /\ DOMAIN latch = LatchFields
  /\ microstate \in {"Fetch", "Decode", "Execute", "Memory", "Writeback",
                     "Halted", "Fault"}
  /\ microstate \in {"Decode", "Execute", "Memory", "Writeback"} => HasFetched
  /\ microstate \in {"Decode", "Execute"} => latch.next_pc = Golden!pc_plus_4
  /\ microstate \in {"Execute", "Memory", "Writeback"} => HasDecoded
  /\ microstate \in {"Memory", "Writeback"} => HasExecuted
  /\ microstate = "Memory" => Golden!control.memory_operation # "None"
  /\ microstate = "Writeback" =>
       \/ Golden!control.memory_operation = "None"
       \/ Golden!control.memory_operation = "Load" /\ HasLoaded

\* What the instruction at pc means depends on what a go_to leaves alone.
SameInstruction ==
  /\ Golden!fetch32_fault(pc)' = Golden!fetch32_fault(pc)
  /\ Golden!instruction' = Golden!instruction
  /\ Golden!pc_plus_4' = Golden!pc_plus_4
  /\ Golden!DecodeError(Golden!instruction)' =
       Golden!DecodeError(Golden!instruction)
  /\ Golden!decoded' = Golden!decoded
  /\ Golden!control' = Golden!control
  /\ Golden!operand_lhs' = Golden!operand_lhs
  /\ Golden!operand_rhs' = Golden!operand_rhs
  /\ Golden!store_data' = Golden!store_data
  /\ Golden!alu_result' = Golden!alu_result
  /\ JumpTarget' = JumpTarget
  /\ Golden!read32_fault(Golden!alu_result)' =
       Golden!read32_fault(Golden!alu_result)
  /\ \A input : Golden!read32(Golden!alu_result, input)' =
                  Golden!read32(Golden!alu_result, input)

\* ... so nothing that a load or a go_to does can change it.
LEMMA InstructionKept ==
  ASSUME UNCHANGED <<image, pc, registers, ram, timer, gpio, debug_value>>
  PROVE  SameInstruction
<1>1. /\ Golden!instruction' = Golden!instruction
      /\ Golden!fetch32_fault(pc)' = Golden!fetch32_fault(pc)
      /\ Golden!pc_plus_4' = Golden!pc_plus_4
  BY DEF Golden!instruction, Golden!RomRead, Golden!RomByte,
     Golden!fetch32_fault, Golden!pc_plus_4
<1>2. /\ Golden!decoded' = Golden!decoded
      /\ Golden!control' = Golden!control
      /\ Golden!DecodeError(Golden!instruction)' =
           Golden!DecodeError(Golden!instruction)
  BY <1>1, Zenon DEF Golden!decoded, Golden!control
<1>3. \A r : Golden!ReadRegister(r)' = Golden!ReadRegister(r)
  BY DEF Golden!ReadRegister
<1>4. /\ Golden!operand_lhs' = Golden!operand_lhs
      /\ Golden!store_data' = Golden!store_data
  BY <1>2, <1>3, Zenon DEF Golden!operand_lhs, Golden!store_data
<1>5. Golden!operand_rhs' = Golden!operand_rhs
  BY <1>2, <1>4, Zenon DEF Golden!operand_rhs
<1>6. Golden!alu_result' = Golden!alu_result
  BY <1>2, <1>4, <1>5, Zenon DEF Golden!alu_result
<1>7. JumpTarget' = JumpTarget
  BY <1>1, <1>2, Zenon DEF JumpTarget
<1>8. Golden!read32_fault(Golden!alu_result)' =
        Golden!read32_fault(Golden!alu_result)
  BY <1>6, Zenon
<1>9. \A input : Golden!read32(Golden!alu_result, input)' =
                   Golden!read32(Golden!alu_result, input)
  <2>1. \A a, input : /\ Golden!RomRead(a)' = Golden!RomRead(a)
                      /\ Golden!RamRead(a)' = Golden!RamRead(a)
                      /\ Golden!TimerRead(a)' = Golden!TimerRead(a)
                      /\ Golden!GpioRead(a, input)' = Golden!GpioRead(a, input)
                      /\ Golden!DebugRead(a)' = Golden!DebugRead(a)
    BY DEF Golden!RomRead, Golden!RomByte, Golden!RamRead, Golden!TimerRead,
       Golden!GpioRead, Golden!DebugRead
  <2>2. \A a, input : Golden!read32(a, input)' = Golden!read32(a, input)
    BY <2>1, Zenon DEF Golden!read32
  <2> QED BY <1>6, <2>2, Zenon
<1> QED BY <1>1, <1>2, <1>4, <1>5, <1>6, <1>7, <1>8, <1>9, Zenon
        DEF SameInstruction

\* What one tick must be for the golden model.
Implements == Golden!Step \/ UNCHANGED Golden!vars

\* The golden model runs in every microstate but the two final ones.
LEMMA RunningStatus ==
  /\ microstate \in {"Fetch", "Decode", "Execute", "Memory", "Writeback"} =>
       Status = "RUNNING"
  /\ microstate' \in {"Fetch", "Decode", "Execute", "Memory", "Writeback"} =>
       Status' = "RUNNING"
  /\ microstate' = "Halted" => Status' = "HALTED"
  /\ microstate' = "Fault" => Status' = "FAULT"
BY DEF Status, halted, faulted

\* A tick that only goes on is invisible and keeps what was latched.
LEMMA GoingOn ==
  ASSUME NEW next \in {"Decode", "Execute", "Memory", "Writeback"},
         microstate \in {"Fetch", "Decode", "Execute", "Memory", "Writeback"},
         go_to(next)
  PROVE  UNCHANGED Golden!vars /\ SameInstruction /\ microstate' = next
<1>1. SameInstruction
  BY InstructionKept DEF go_to, devices
<1>2. Status' = Status
  BY RunningStatus DEF go_to
<1> QED BY <1>1, <1>2 DEF go_to, devices, Golden!vars

\* A tick that faults is the golden model's fault, if the record is.
LEMMA FaultingTick ==
  ASSUME NEW code, NEW ins, NEW has, NEW address,
         enter_fault(code, has, address), latch'.instruction_register = ins
  PROVE  Golden!enter_fault(code, ins, has, address) /\ microstate' = "Fault"
<1>1. Status' = "FAULT"
  BY RunningStatus DEF enter_fault
<1> QED BY <1>1 DEF enter_fault, Golden!enter_fault, devices

\* One lemma per microstate: the tick is a golden step or invisible, and
\* leaves in the latches what the next microstate expects.
LEMMA FetchTick ==
  ASSUME LatchInv, TickFetch
  PROVE  Implements /\ LatchInv'
<1> DEFINE f == Golden!fetch32_fault(pc)
           ins == IF f = "NONE" THEN Golden!RomRead(pc) ELSE Zero
<1> HIDE DEF f
<1>1. microstate = "Fetch" /\ Status = "RUNNING"
  BY RunningStatus DEF TickFetch
<1>2. latch' = [latch EXCEPT !.instruction_register = ins,
                             !.pc_plus_4 = Add(pc, Four),
                             !.next_pc = Add(pc, Four)]
  BY Zenon DEF TickFetch, f
<1> HIDE DEF ins
<1>3. /\ latch'.instruction_register = ins
      /\ latch'.pc_plus_4 = Add(pc, Four)
      /\ latch'.next_pc = Add(pc, Four)
      /\ DOMAIN latch' = LatchFields
  BY <1>2 DEF LatchInv, LatchFields
<1>4. CASE f = "NONE" /\ go_to("Decode")
  <2>1. UNCHANGED Golden!vars /\ SameInstruction /\ microstate' = "Decode"
    BY <1>1, <1>4, GoingOn
  <2>2. ins = Golden!instruction /\ Add(pc, Four) = Golden!pc_plus_4
    BY <1>4, GoldenWords DEF ins, Golden!instruction, Golden!pc_plus_4
  <2> QED BY <1>3, <1>4, <2>1, <2>2
          DEF LatchInv, HasFetched, SameInstruction, Implements, f
<1>5. CASE f # "NONE" /\ enter_fault(fetch_fault_code(f), FALSE, Zero)
  <2>1. ins = Golden!Zero /\ Zero = Golden!Zero
    BY <1>5, GoldenWords DEF ins
  <2>2. /\ Golden!enter_fault(fetch_fault_code(f), Golden!Zero, FALSE,
                              Golden!Zero)
        /\ microstate' = "Fault"
    BY <1>3, <1>5, <2>1, FaultingTick
  <2>3. Golden!FetchFault
    BY <1>1, <1>5, <2>2, Zenon DEF Golden!FetchFault, fetch_fault_code, f
  <2> QED BY <1>3, <2>2, <2>3, SMT DEF LatchInv, Implements, Golden!Step
<1> QED BY <1>4, <1>5, Zenon DEF TickFetch, f

LEMMA DecodeTick ==
  ASSUME LatchInv, TickDecode
  PROVE  Implements /\ LatchInv'
<1> DEFINE ins == latch.instruction_register
           code == IF DecodeError(ins) = "IllegalOpcode"
                     THEN "ILLEGAL_INSTRUCTION" ELSE "MALFORMED_INSTRUCTION"
           d == Decode(ins)
           c == control_for(d.opcode)
           lhs == Golden!ReadRegister(d.rs1)
           rs2 == Golden!ReadRegister(d.rs2)
           rhs == IF c.alu_src_immediate
                    THEN immediate_value(c.immediate_kind, d.imm16) ELSE rs2
<1>1. /\ microstate = "Decode" /\ Status = "RUNNING"
      /\ HasFetched /\ latch.next_pc = Golden!pc_plus_4
      /\ DOMAIN latch = LatchFields
  BY RunningStatus DEF TickDecode, LatchInv
<1>2. ins = Golden!instruction /\ Golden!Fetches
  BY <1>1 DEF HasFetched, Golden!Fetches
<1>3. DecodeError(ins) = Golden!DecodeError(Golden!instruction)
  BY <1>2, GoldenDecoder, Zenon
<1>4. CASE /\ DecodeError(ins) # "None"
           /\ UNCHANGED latch
           /\ enter_fault(code, FALSE, Zero)
  <2>1. Zero = Golden!Zero /\ latch'.instruction_register = Golden!instruction
    BY <1>2, <1>4, GoldenWords
  <2> HIDE DEF ins, code
  <2>2. /\ Golden!enter_fault(code, Golden!instruction, FALSE, Golden!Zero)
        /\ microstate' = "Fault"
    BY <1>4, <2>1, FaultingTick
  <2>3. Golden!DecodeFault
    BY <1>2, <1>3, <1>4, <2>2, Zenon DEF Golden!DecodeFault, code
  <2> QED BY <1>1, <1>4, <2>2, <2>3, SMT DEF LatchInv, Implements, Golden!Step
<1>5. CASE /\ DecodeError(ins) = "None"
           /\ latch' = [latch EXCEPT !.decoded_instruction = d,
                                     !.operand_lhs = lhs,
                                     !.operand_rhs = rhs,
                                     !.store_data = rs2]
           /\ go_to("Execute")
  <2>1. d = Golden!decoded
    BY <1>2, GoldenDecoder, Zenon DEF Golden!decoded
  <2> HIDE DEF ins, d
  <2>2. c = Golden!control
    BY <2>1, GoldenDecoder, Zenon DEF Golden!control
  <2> HIDE DEF c
  <2>3. lhs = Golden!operand_lhs /\ rs2 = Golden!store_data
    BY <2>1, Zenon DEF Golden!operand_lhs, Golden!store_data
  <2> HIDE DEF lhs, rs2
  <2>4. rhs = Golden!operand_rhs
    BY <2>1, <2>2, <2>3, GoldenExecution, Zenon DEF Golden!operand_rhs
  <2> HIDE DEF rhs
  <2>5. /\ latch'.decoded_instruction = d
        /\ latch'.operand_lhs = lhs
        /\ latch'.operand_rhs = rhs
        /\ latch'.store_data = rs2
        /\ latch'.instruction_register = latch.instruction_register
        /\ latch'.pc_plus_4 = latch.pc_plus_4
        /\ latch'.next_pc = latch.next_pc
        /\ DOMAIN latch' = LatchFields
    BY <1>1, <1>5 DEF LatchFields
  <2>6. UNCHANGED Golden!vars /\ SameInstruction /\ microstate' = "Execute"
    BY <1>1, <1>5, GoingOn
  <2>7. HasFetched' /\ HasDecoded' /\ (latch.next_pc = Golden!pc_plus_4)'
    BY <1>1, <1>3, <1>5, <2>1, <2>3, <2>4, <2>5, <2>6, SMT
       DEF HasFetched, HasDecoded, SameInstruction
  <2> QED BY <2>5, <2>6, <2>7, SMT DEF LatchInv, Implements
<1> QED BY <1>4, <1>5, Zenon DEF TickDecode

\* From Execute on, decoded and control are those of the instruction at pc,
\* and its opcode is a legal one.
LEMMA DecodedIsGolden ==
  ASSUME MachineOK, HasDecoded
  PROVE  /\ decoded = Golden!decoded
         /\ control = Golden!control
         /\ Golden!decoded.opcode \in Opcodes
         /\ ControlColumns(Golden!decoded.opcode, Golden!control)
<1>1. decoded = Golden!decoded
  BY DEF HasDecoded, decoded
<1>2. control = Golden!control
  BY <1>1, GoldenDecoder, Zenon DEF control, Golden!control
<1>3. InstructionOK
  BY InstructionTyped DEF HasDecoded
<1> QED BY <1>1, <1>2, <1>3 DEF InstructionOK

\* The kinds of instruction, as far as the microstates tell them apart.
LEMMA InstructionKinds ==
  ASSUME NEW op \in Opcodes, NEW c, ControlColumns(op, c)
  PROVE  /\ c.memory_operation \in {"None", "Load", "Store"}
         /\ \/ c.control_flow = "Sequential"
            \/ /\ c.control_flow \in {"ConditionalBranch", "RegisterJump"}
               /\ ~c.reg_write /\ c.memory_operation = "None"
            \/ c.control_flow = "RelativeJump" /\ c.memory_operation = "None"
         /\ c.writeback_source =
              IF c.memory_operation = "Load" THEN "Memory"
              ELSE IF c.reg_write /\ c.control_flow = "RelativeJump"
                THEN "PcPlus4" ELSE "Alu"
         /\ c.memory_operation = "Load" => c.control_flow = "Sequential"
         /\ c.memory_operation = "Store" => c.control_flow = "Sequential"
<1>1. op \in Int
  BY SMT DEF Opcodes
<1>2. c.memory_operation \in {"None", "Load", "Store"}
  BY SMT DEF ControlColumns
<1>4. \/ c.control_flow = "Sequential"
      \/ /\ c.control_flow \in {"ConditionalBranch", "RegisterJump"}
         /\ ~c.reg_write /\ c.memory_operation = "None"
      \/ c.control_flow = "RelativeJump" /\ c.memory_operation = "None"
  BY <1>1, SMT DEF ControlColumns
<1>5. /\ c.memory_operation = "Load" => c.control_flow = "Sequential"
      /\ c.memory_operation = "Store" => c.control_flow = "Sequential"
  BY <1>1, SMT DEF ControlColumns
<1>6. c.writeback_source =
              IF c.memory_operation = "Load" THEN "Memory"
              ELSE IF c.reg_write /\ c.control_flow = "RelativeJump"
                THEN "PcPlus4" ELSE "Alu"
  BY <1>1, SMT DEF ControlColumns
<1> QED BY <1>2, <1>4, <1>5, <1>6

\* Branches, J and JR retire in Execute; the others go on.
LEMMA ExecuteTick ==
  ASSUME MachineOK, LatchInv, TickExecute
  PROVE  Implements /\ LatchInv'
<1> DEFINE c == Golden!control
           d == Golden!decoded
           flow == c.control_flow
           jumped == Add(latch.pc_plus_4, jump_displacement(decoded.imm26))
           branched == IF branch_taken(control.branch_predicate,
                                       latch.operand_lhs, latch.operand_rhs)
                         THEN Add(latch.pc_plus_4,
                                  branch_displacement(decoded.imm16))
                         ELSE latch.pc_plus_4
           alu == Execute(control.alu_operation, latch.operand_lhs,
                          latch.operand_rhs)
<1>1. /\ microstate = "Execute" /\ Status = "RUNNING"
      /\ HasFetched /\ HasDecoded /\ latch.next_pc = Golden!pc_plus_4
      /\ DOMAIN latch = LatchFields
  BY RunningStatus, Zenon DEF TickExecute, LatchInv
<1>2. /\ decoded = d
      /\ control = c
      /\ d.opcode \in Opcodes
      /\ ControlColumns(d.opcode, c)
  BY <1>1, DecodedIsGolden, Zenon
<1>3. /\ latch.pc_plus_4 = Golden!pc_plus_4
      /\ latch.operand_lhs = Golden!operand_lhs
      /\ latch.operand_rhs = Golden!operand_rhs
  BY <1>1, Zenon DEF HasFetched, HasDecoded
<1>4. jumped = JumpTarget
  BY <1>2, <1>3, GoldenWords, GoldenExecution, Zenon DEF JumpTarget
<1>5. alu = Golden!alu_result
  BY <1>2, <1>3, GoldenExecution, Zenon DEF Golden!alu_result
<1>6. branched =
        IF Golden!branch_taken(c.branch_predicate, Golden!operand_lhs,
                               Golden!operand_rhs)
          THEN Golden!Add(Golden!pc_plus_4,
                          Golden!branch_displacement(d.imm16))
          ELSE Golden!pc_plus_4
  BY <1>2, <1>3, GoldenWords, GoldenExecution, Zenon
<1>7. Golden!Decodes
  BY <1>1, Zenon DEF Golden!Decodes, Golden!Fetches, HasFetched, HasDecoded
<1>8. latch' = [latch EXCEPT
                 !.alu_result = alu,
                 !.next_pc = IF flow = "RelativeJump" THEN jumped ELSE @]
  BY <1>2, Zenon DEF TickExecute
<1>9. CASE /\ flow # "Sequential" /\ ~c.reg_write
           /\ \/ flow = "ConditionalBranch" /\ retire_to(branched, timer)
              \/ flow = "RelativeJump" /\ retire_to(jumped, timer)
              \/ flow = "RegisterJump" /\ retire_to(latch.operand_lhs, timer)
           /\ microstate' = "Fetch"
           /\ UNCHANGED <<registers, devices>>
  <2>1. Status' = Status
    BY <1>1, <1>9, RunningStatus, Zenon
  <2>2. ASSUME NEW next, retire_to(next, timer) PROVE Golden!retire_to(next)
    BY <1>9, <2>1, <2>2, SMT DEF retire_to, Golden!retire_to, devices
  <2>3. flow = "ConditionalBranch" => Golden!Branch
    BY <1>6, <1>7, <1>9, <2>2, SMT DEF Golden!Branch
  <2>4. flow = "RelativeJump" => Golden!Jump
    BY <1>4, <1>7, <1>9, <2>2, SMT DEF Golden!Jump, JumpTarget
  <2>5. flow = "RegisterJump" => Golden!JumpRegister
    BY <1>3, <1>7, <1>9, <2>2, SMT DEF Golden!JumpRegister
  <2>6. Implements
    BY <1>9, <2>3, <2>4, <2>5, Zenon DEF Implements, Golden!Step
  <2>7. DOMAIN latch' = LatchFields
    BY <1>1, <1>8
  <2> QED BY <1>9, <2>6, <2>7, SMT DEF LatchInv
<1>10. CASE /\ flow = "Sequential" \/ c.reg_write
            /\ go_to(IF c.memory_operation = "None" THEN "Writeback"
                                                    ELSE "Memory")
  <2> DEFINE next == IF c.memory_operation = "None" THEN "Writeback"
                                                    ELSE "Memory"
  <2> HIDE DEF c, d, jumped, alu
  <2>1. next \in {"Decode", "Execute", "Memory", "Writeback"}
    OBVIOUS
  <2>2. UNCHANGED Golden!vars /\ SameInstruction /\ microstate' = next
    <3> HIDE DEF next
    <3> QED BY <1>1, <1>10, <2>1, GoingOn DEF next
  <2>3. /\ latch'.alu_result = alu
        /\ latch'.next_pc = IF flow = "RelativeJump" THEN jumped
                                                     ELSE latch.next_pc
        /\ latch'.instruction_register = latch.instruction_register
        /\ latch'.pc_plus_4 = latch.pc_plus_4
        /\ latch'.decoded_instruction = latch.decoded_instruction
        /\ latch'.operand_lhs = latch.operand_lhs
        /\ latch'.operand_rhs = latch.operand_rhs
        /\ latch'.store_data = latch.store_data
        /\ DOMAIN latch' = LatchFields
    BY <1>1, <1>8, SMT DEF LatchFields
  <2>4. HasFetched' /\ HasDecoded'
    BY <1>1, <2>2, <2>3, SMT DEF HasFetched, HasDecoded, SameInstruction
  <2>5. \/ flow = "Sequential"
        \/ /\ flow = "RelativeJump" /\ c.reg_write
           /\ c.memory_operation = "None"
    BY <1>2, <1>10, InstructionKinds, SMT
  <2>6. HasExecuted'
    BY <1>1, <1>4, <1>5, <2>2, <2>3, <2>5, SMT
       DEF HasExecuted, SameInstruction, c
  <2> QED BY <2>2, <2>3, <2>4, <2>6, SMT
          DEF LatchInv, Implements, SameInstruction, c
<1>11. flow \in {"Sequential", "ConditionalBranch", "RelativeJump",
                 "RegisterJump"}
  BY <1>2, InstructionKinds, SMT
<1> QED BY <1>2, <1>9, <1>10, <1>11, SMT DEF TickExecute

\* A load leaves its word in a latch, or faults.
LEMMA LoadTick ==
  ASSUME MachineOK, LatchInv, TickLoad
  PROVE  Implements /\ LatchInv'
<1> DEFINE f == Golden!read32_fault(latch.alu_result)
           a == Golden!alu_result
<1>1. /\ microstate = "Memory" /\ Status = "RUNNING"
      /\ HasFetched /\ HasDecoded /\ HasExecuted
      /\ DOMAIN latch = LatchFields
  BY RunningStatus, Zenon DEF TickLoad, LatchInv
<1>2. control = Golden!control
  BY <1>1, DecodedIsGolden, Zenon
<1>3. Golden!control.memory_operation = "Load"
  BY <1>2, Zenon DEF TickLoad
<1>4. Golden!Decodes /\ latch.alu_result = a
  BY <1>1, Zenon DEF Golden!Decodes, Golden!Fetches, HasFetched, HasDecoded,
     HasExecuted
<1>5. CASE /\ f = "NONE"
           /\ \E input \in GpioInputs :
                latch' = [latch EXCEPT !.memory_data =
                            Golden!read32(latch.alu_result, input)]
           /\ go_to("Writeback")
  <2>1. PICK input \in GpioInputs :
               latch' = [latch EXCEPT !.memory_data =
                           Golden!read32(latch.alu_result, input)]
    BY <1>5, Zenon
  <2> DEFINE value == Golden!read32(latch.alu_result, input)
  <2>2. value = Golden!read32(a, input)
    BY <1>4, Zenon
  <2> HIDE DEF value
  <2>3. UNCHANGED Golden!vars /\ SameInstruction /\ microstate' = "Writeback"
    BY <1>1, <1>5, GoingOn
  <2>4. /\ latch'.memory_data = value
        /\ latch'.alu_result = latch.alu_result
        /\ latch'.next_pc = latch.next_pc
        /\ latch'.instruction_register = latch.instruction_register
        /\ latch'.pc_plus_4 = latch.pc_plus_4
        /\ latch'.decoded_instruction = latch.decoded_instruction
        /\ latch'.operand_lhs = latch.operand_lhs
        /\ latch'.operand_rhs = latch.operand_rhs
        /\ latch'.store_data = latch.store_data
        /\ DOMAIN latch' = LatchFields
    BY <1>1, <2>1, SMT DEF LatchFields, value
  <2>5. HasFetched' /\ HasDecoded' /\ HasExecuted'
    BY <1>1, <2>3, <2>4, SMT
       DEF HasFetched, HasDecoded, HasExecuted, SameInstruction
  <2>6. HasLoaded'
    <3>1. Golden!read32(a, input)' = value
      BY <2>2, <2>3, Zenon DEF SameInstruction
    <3>2. Golden!read32_fault(a)' = "NONE"
      BY <1>4, <1>5, <2>3, Zenon DEF SameInstruction
    <3> QED BY <2>4, <3>1, <3>2, Zenon DEF HasLoaded
  <2> QED BY <1>3, <2>3, <2>4, <2>5, <2>6, SMT
          DEF LatchInv, Implements, SameInstruction
<1>6. CASE /\ f # "NONE"
           /\ UNCHANGED latch
           /\ enter_fault(load_fault_code(f), TRUE, latch.alu_result)
  <2>1. latch'.instruction_register = Golden!instruction
    BY <1>1, <1>6, Zenon DEF HasFetched
  <2>2. /\ Golden!enter_fault(load_fault_code(f), Golden!instruction, TRUE, a)
        /\ microstate' = "Fault"
    BY <1>4, <1>6, <2>1, FaultingTick, Zenon
  <2>3. Golden!LoadFault
    BY <1>3, <1>4, <1>6, <2>2, Zenon DEF Golden!LoadFault, load_fault_code
  <2> QED BY <1>1, <1>6, <2>2, <2>3, SMT DEF LatchInv, Implements, Golden!Step
<1> QED BY <1>5, <1>6, Zenon DEF TickLoad

\* A store takes effect and retires in Memory, or faults.
LEMMA StoreTick ==
  ASSUME MachineOK, LatchInv, TickStore
  PROVE  Implements /\ LatchInv'
<1> DEFINE f == Golden!write32_fault(latch.alu_result)
           a == Golden!alu_result
           v == Golden!store_data
<1>1. /\ microstate = "Memory" /\ Status = "RUNNING"
      /\ HasFetched /\ HasDecoded /\ HasExecuted
      /\ DOMAIN latch = LatchFields
  BY RunningStatus, Zenon DEF TickStore, LatchInv
<1>2. control = Golden!control
  BY <1>1, DecodedIsGolden, Zenon
<1>3. Golden!control.memory_operation = "Store"
  BY <1>2, Zenon DEF TickStore
<1>4. Golden!Decodes /\ latch.alu_result = a /\ latch.store_data = v
  BY <1>1, Zenon DEF Golden!Decodes, Golden!Fetches, HasFetched, HasDecoded,
     HasExecuted
<1>5. latch.next_pc = Golden!pc_plus_4
  BY <1>1, <1>3, SMT DEF HasExecuted
<1>6. UNCHANGED latch
  BY Zenon DEF TickStore
<1>7. CASE f = "NONE" /\ microstate' = "Fetch"
  <2>1. Status' = Status
    BY <1>1, <1>7, RunningStatus, Zenon
  <2>2. /\ ram' = Golden!RamWritten(a, v)
        /\ gpio' = Golden!GpioWritten(a, v)
        /\ debug_value' = Golden!DebugWritten(a, v)
        /\ uart_log' = Golden!UartWritten(a, v)
        /\ retire_to(Golden!pc_plus_4, Golden!TimerWritten(a, v))
        /\ UNCHANGED registers
    BY <1>4, <1>5, <1>7, SMT DEF TickStore, enter_fault
  <2>3. /\ pc' = Golden!pc_plus_4
        /\ timer' = Golden!RetireTick(Golden!TimerWritten(a, v))
        /\ UNCHANGED <<image, fault_info>>
    BY <2>2, Zenon DEF retire_to
  <2>4. Golden!Store
    BY <1>3, <1>4, <1>7, <2>1, <2>2, <2>3, Zenon DEF Golden!Store
  <2> QED BY <1>1, <1>6, <1>7, <2>4, SMT DEF LatchInv, Implements, Golden!Step
<1>8. CASE f # "NONE"
      /\ enter_fault(store_fault_code(f), TRUE, latch.alu_result)
  <2>1. latch'.instruction_register = Golden!instruction
    BY <1>1, <1>6, Zenon DEF HasFetched
  <2>2. /\ Golden!enter_fault(store_fault_code(f), Golden!instruction, TRUE, a)
        /\ microstate' = "Fault"
    BY <1>4, <1>8, <2>1, FaultingTick, Zenon
  <2>3. Golden!StoreFault
    BY <1>3, <1>4, <1>8, <2>2, Zenon DEF Golden!StoreFault, store_fault_code
  <2> QED BY <1>1, <1>6, <2>2, <2>3, SMT DEF LatchInv, Implements, Golden!Step
<1> QED BY <1>7, <1>8, Zenon DEF TickStore

\* Loads, ALU instructions, JAL, NOP and HALT retire in Writeback.
LEMMA WritebackTick ==
  ASSUME MachineOK, LatchInv, TickWriteback
  PROVE  Implements /\ LatchInv'
<1> DEFINE c == Golden!control
           value == CASE control.writeback_source = "Memory"  -> latch.memory_data
                      [] control.writeback_source = "PcPlus4" -> latch.pc_plus_4
                      [] OTHER -> latch.alu_result
<1>1. /\ microstate = "Writeback" /\ Status = "RUNNING"
      /\ HasFetched /\ HasDecoded /\ HasExecuted
      /\ \/ c.memory_operation = "None"
         \/ c.memory_operation = "Load" /\ HasLoaded
      /\ DOMAIN latch = LatchFields
  BY RunningStatus, Zenon DEF TickWriteback, LatchInv
<1>2. /\ decoded = Golden!decoded
      /\ control = c
      /\ Golden!decoded.opcode \in Opcodes
      /\ ControlColumns(Golden!decoded.opcode, c)
  BY <1>1, DecodedIsGolden, Zenon
<1>3. Golden!Decodes
  BY <1>1, Zenon DEF Golden!Decodes, Golden!Fetches, HasFetched, HasDecoded
<1>4. Golden!Writeback(value, latch.next_pc)
  <2>1. Status' = IF c.halt THEN "HALTED" ELSE "RUNNING"
    BY <1>2, RunningStatus, SMT DEF TickWriteback
  <2>2. registers' = IF c.reg_write
                       THEN Golden!WriteRegister(
                              IF c.register_destination = "ReturnAddress"
                                THEN 31 ELSE Golden!decoded.rd, value)
                       ELSE registers
    BY <1>2, Zenon DEF TickWriteback
  <2>3. retire_to(latch.next_pc, timer) /\ UNCHANGED devices
    BY Zenon DEF TickWriteback
  <2> HIDE DEF c, value
  <2> QED BY <2>1, <2>2, <2>3, SMT
          DEF retire_to, devices, Golden!Writeback, c
<1>5. c.writeback_source =
        IF c.memory_operation = "Load" THEN "Memory"
        ELSE IF c.reg_write /\ c.control_flow = "RelativeJump"
          THEN "PcPlus4" ELSE "Alu"
  BY <1>2, InstructionKinds, Zenon
<1>6. ASSUME c.memory_operation = "Load" PROVE Implements
  <2>1. HasLoaded
    BY <1>1, <1>6, SMT
  <2>2. value = latch.memory_data /\ latch.next_pc = Golden!pc_plus_4
    BY <1>1, <1>2, <1>5, <1>6, SMT DEF HasExecuted
  <2> HIDE DEF value
  <2>3. Golden!Load
    BY <1>3, <1>4, <1>6, <2>1, <2>2, SMT DEF HasLoaded, Golden!Load
  <2> QED BY <2>3, Zenon DEF Implements, Golden!Step
<1>7. ASSUME c.memory_operation = "None" PROVE Implements
  <2>1. CASE c.control_flow = "Sequential"
    <3>1. value = Golden!alu_result /\ latch.next_pc = Golden!pc_plus_4
      BY <1>1, <1>2, <1>5, <1>7, <2>1, SMT DEF HasExecuted
    <3> HIDE DEF value
    <3>2. Golden!Compute
      BY <1>3, <1>4, <1>7, <2>1, <3>1, SMT DEF Golden!Compute
    <3> QED BY <3>2, Zenon DEF Implements, Golden!Step
  <2>2. CASE c.control_flow = "RelativeJump" /\ c.reg_write
    <3>1. value = Golden!pc_plus_4 /\ latch.next_pc = JumpTarget
      BY <1>1, <1>2, <1>5, <1>7, <2>2, SMT DEF HasExecuted, HasFetched
    <3> HIDE DEF value
    <3>2. Golden!JumpAndLink
      BY <1>3, <1>4, <2>2, <3>1, SMT DEF Golden!JumpAndLink, JumpTarget
    <3> QED BY <3>2, Zenon DEF Implements, Golden!Step
  <2> QED BY <1>1, <2>1, <2>2, SMT DEF HasExecuted
<1>8. UNCHANGED latch /\ microstate' \in {"Halted", "Fetch"}
  BY SMT DEF TickWriteback
<1>9. LatchInv'
  BY <1>1, <1>8, SMT DEF LatchInv
<1> QED BY <1>1, <1>6, <1>7, <1>9, SMT

\* Every tick is a step of the golden model or invisible to it.
LEMMA TickImplements ==
  ASSUME MachineOK, LatchInv, tick
  PROVE  Implements /\ LatchInv' /\ MachineOK'
<1>1. Implements /\ LatchInv'
  BY FetchTick, DecodeTick, ExecuteTick, LoadTick, StoreTick, WritebackTick,
     Zenon DEF tick
<1>2. CASE Golden!Step
  BY <1>1, <1>2, GoldenStepTyped
<1>3. CASE UNCHANGED Golden!vars
  BY <1>1, <1>3 DEF Golden!vars, MachineOK
<1> QED BY <1>1, <1>2, <1>3, Zenon DEF Implements

\* CpuCore::reset() in any microstate.
LEMMA ResetImplements ==
  ASSUME MachineOK, LatchInv, reset
  PROVE  CpuResetOnly /\ LatchInv' /\ MachineOK'
<1>1. Status' = "RUNNING"
  BY RunningStatus DEF reset
<1>2. CpuResetOnly
  BY <1>1 DEF reset, CpuResetOnly
<1>3. LatchInv'
  BY DEF reset, NoLatch, LatchInv, LatchFields
<1>4. MachineOK'
  BY ConstantsAreWords DEF reset, MachineOK, devices
<1> QED BY <1>2, <1>3, <1>4

\* Whatever main() does between two ticks, the core does not move.
LEMMA CoreKept ==
  ASSUME MachineOK, LatchInv, UNCHANGED cpuVars
  PROVE  UNCHANGED Golden!vars /\ LatchInv' /\ MachineOK'
<1>1. SameInstruction
  BY InstructionKept DEF cpuVars, devices
<1>2. UNCHANGED <<latch, microstate>>
  BY DEF cpuVars
<1>3. LatchInv'
  BY <1>1, <1>2, SMT DEF LatchInv, SameInstruction, HasFetched, HasDecoded,
     HasExecuted, HasLoaded
<1>4. Status' = Status
  BY <1>2 DEF Status, halted, faulted
<1>5. UNCHANGED Golden!vars
  BY <1>4 DEF cpuVars, devices, Golden!vars
<1>6. MachineOK'
  BY DEF cpuVars, devices, MachineOK
<1> QED BY <1>3, <1>5, <1>6

\* The initial states.
LEMMA InitImplements ==
  ASSUME HostInit
  PROVE  Golden!Init /\ MachineOK /\ LatchInv
<1>1. CpuInit
  BY DEF HostInit, Init
<1>2. Status = "RUNNING"
  BY <1>1, RunningStatus DEF CpuInit
<1>3. Golden!Init
  <2> DEFINE words == [i \in 0 .. RAM_WORD_COUNT - 1 |-> Zero]
  <2>1. \A k : Golden!ByteOf(Zero, k) = 0
    BY SMT DEF Golden!ByteOf, Zero, W
  <2>2. \A k \in Golden!RamBytes : k \div 4 \in 0 .. RAM_WORD_COUNT - 1
    BY MemorySizes, SMT DEF Golden!RamBytes
  <2>3. \A k \in Golden!RamBytes : Golden!ByteOf(words[k \div 4], k % 4) = 0
    BY <2>1, <2>2, Zenon
  <2>4. ram = [k \in Golden!RamBytes |-> Golden!ByteOf(words[k \div 4], k % 4)]
    BY <1>1, <2>3, Zenon DEF CpuInit
  <2>5. words \in [0 .. RAM_WORD_COUNT - 1 -> {Zero}]
    BY Zenon
  <2> HIDE DEF words
  <2> QED BY <1>1, <1>2, <2>4, <2>5, GoldenWords DEF CpuInit, Golden!Init
<1>4. LatchInv
  BY <1>1 DEF CpuInit, NoLatch, LatchInv, LatchFields
<1>5. ram \in [RamAddress -> Byte]
  BY <1>1, SMT DEF CpuInit, Golden!RamBytes, RamAddress, Byte
<1>6. MachineOK
  BY <1>1, <1>5, ImagesAreBytes, ConstantsAreWords, GoldenWords
     DEF CpuInit, MachineOK, Golden!TimerOff, Golden!GpioOff
<1> QED BY <1>3, <1>4, <1>6

\* The microstates of CpuCore add up to whole instructions of the golden
\* model, for every image, under main() as under an embedder that resets the
\* core between any two of them.
THEOREM TicksRefineStep == HostSpec => TicksImplementStep
<1>1. HostInit => Golden!Init /\ MachineOK /\ LatchInv
  BY InitImplements
<1>2. MachineOK /\ LatchInv /\ [HostNext]_hostVars =>
        /\ [Golden!Step \/ CpuResetOnly]_(Golden!vars)
        /\ MachineOK' /\ LatchInv'
  <2> SUFFICES ASSUME MachineOK, LatchInv, [HostNext]_hostVars
               PROVE  /\ [Golden!Step \/ CpuResetOnly]_(Golden!vars)
                      /\ MachineOK' /\ LatchInv'
    OBVIOUS
  <2>1. tick \/ reset \/ UNCHANGED cpuVars
    BY Zenon DEF HostNext, Simulate, Next, Reject, Start, LimitExit, CallStep,
       StepTick, StepReturns, FaultReport, exit, EmbedderTick, EmbedderReset,
       hostVars, vars
  <2>2. CASE tick
    BY <2>2, TickImplements, Zenon DEF Implements
  <2>3. CASE reset
    BY <2>3, ResetImplements, Zenon
  <2>4. CASE UNCHANGED cpuVars
    BY <2>4, CoreKept, Zenon
  <2> QED BY <2>1, <2>2, <2>3, <2>4, Zenon
<1> QED BY <1>1, <1>2, PTL DEF HostSpec, TicksImplementStep
=============================================================================
