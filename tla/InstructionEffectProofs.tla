----------------------- MODULE InstructionEffectProofs ----------------------
(***************************************************************************)
(* First the closure of the 32-bit operators: applied to words they return *)
(* words.  Then the RTL decoder and control unit against the C++ decoder,  *)
(* for every 32-bit word.  Each machine's control is first put into the    *)
(* form of a table by columns (ControlTable for decoder.cpp, RtlColumns    *)
(* for control_unit.sv); then the two agree on illegal words, on ALU       *)
(* operation and operands, on the branch condition and on the next pc.     *)
(***************************************************************************)
EXTENDS InstructionEffect, TLAPS

------------------------------------------------------------------------------
\* Words.

\* A half is an integer of 16 bits.
LEMMA HalfRange ==
  ASSUME NEW h \in Half
  PROVE  h \in Int /\ 0 <= h /\ h <= 65535
BY SMT DEF Half, HalfMod

\* Every integer of 16 bits is a half.
LEMMA InHalf ==
  ASSUME NEW h \in Int, 0 <= h, h <= 65535
  PROVE  h \in Half
BY SMT DEF Half, HalfMod

\* The two halves of a word.
LEMMA WordHalves ==
  ASSUME NEW a \in Word
  PROVE  a.hi \in Half /\ a.lo \in Half
BY SMT DEF Word

\* The same, as integers.
LEMMA WordParts ==
  ASSUME NEW a \in Word
  PROVE  /\ a.hi \in Int /\ 0 <= a.hi /\ a.hi <= 65535
         /\ a.lo \in Int /\ 0 <= a.lo /\ a.lo <= 65535
BY SMT, WordHalves, HalfRange

\* Two halves make a word.
LEMMA WInWord ==
  ASSUME NEW h \in Half, NEW l \in Half
  PROVE  W(h, l) \in Word
BY SMT DEF W, Word

\* The constants that cpu_core.sv and the devices use.
LEMMA ConstantsAreWords == Zero \in Word /\ One \in Word /\ Four \in Word
<1>1. 0 \in Half /\ 1 \in Half /\ 4 \in Half
  BY SMT, InHalf
<1> QED BY <1>1, WInWord, SMT DEF Zero, One, Four

\* Reduction modulo 2^16 gives a half.
LEMMA HalfModRange ==
  ASSUME NEW n \in Int
  PROVE  n % HalfMod \in Half
<1>1. n % HalfMod \in Int /\ 0 <= n % HalfMod /\ n % HalfMod <= 65535
  BY SMT DEF HalfMod
<1> QED BY <1>1, InHalf, SMT

\* The carry of an addition or a subtraction is an integer.
LEMMA CarryInt ==
  ASSUME NEW n \in Int
  PROVE  n \div HalfMod \in Int
BY SMT DEF HalfMod

\* The adder wraps.
LEMMA AddInWord ==
  ASSUME NEW a \in Word, NEW b \in Word
  PROVE  Add(a, b) \in Word
<1> DEFINE low == a.lo + b.lo
           carry == low \div HalfMod
           high == a.hi + b.hi + carry
<1>1. low \in Int /\ a.hi \in Int /\ b.hi \in Int
  BY WordParts, SMT
<1>2. carry \in Int
  <2> HIDE DEF low
  <2> QED BY <1>1, CarryInt, SMT
<1>3. high \in Int
  <2> HIDE DEF carry
  <2> QED BY <1>1, <1>2, SMT
<1>4. low % HalfMod \in Half /\ high % HalfMod \in Half
  <2> HIDE DEF low, high
  <2> QED BY <1>1, <1>3, HalfModRange, SMT
<1>5. Add(a, b) = W(high % HalfMod, low % HalfMod)
  BY Zenon DEF Add
<1> HIDE DEF low, high
<1> QED BY <1>4, <1>5, WInWord, SMT

\* The subtractor wraps.
LEMMA SubInWord ==
  ASSUME NEW a \in Word, NEW b \in Word
  PROVE  Sub(a, b) \in Word
<1> DEFINE low == a.lo - b.lo
           carry == low \div HalfMod
           high == a.hi - b.hi + carry
<1>1. low \in Int /\ a.hi \in Int /\ b.hi \in Int
  BY WordParts, SMT
<1>2. carry \in Int
  <2> HIDE DEF low
  <2> QED BY <1>1, CarryInt, SMT
<1>3. high \in Int
  <2> HIDE DEF carry
  <2> QED BY <1>1, <1>2, SMT
<1>4. low % HalfMod \in Half /\ high % HalfMod \in Half
  <2> HIDE DEF low, high
  <2> QED BY <1>1, <1>3, HalfModRange, SMT
<1>5. Sub(a, b) = W(high % HalfMod, low % HalfMod)
  BY Zenon DEF Sub
<1> HIDE DEF low, high
<1> QED BY <1>4, <1>5, WInWord, SMT

\* Sixteen bits make a half.
LEMMA HalfOfBits ==
  ASSUME NEW b \in [Weights -> {0, 1}]
  PROVE  HalfOf(b) \in Half
<1>1. \A p \in Weights : b[p] \in {0, 1}
  BY SMT
<1>2. \A p \in Weights : b[p] \in Int /\ 0 <= b[p] /\ b[p] <= 1
  BY <1>1, SMT
<1>3. /\ b[1] \in Int /\ 0 <= b[1] /\ b[1] <= 1
      /\ b[2] \in Int /\ 0 <= b[2] /\ b[2] <= 1
      /\ b[4] \in Int /\ 0 <= b[4] /\ b[4] <= 1
      /\ b[8] \in Int /\ 0 <= b[8] /\ b[8] <= 1
      /\ b[16] \in Int /\ 0 <= b[16] /\ b[16] <= 1
      /\ b[32] \in Int /\ 0 <= b[32] /\ b[32] <= 1
      /\ b[64] \in Int /\ 0 <= b[64] /\ b[64] <= 1
      /\ b[128] \in Int /\ 0 <= b[128] /\ b[128] <= 1
      /\ b[256] \in Int /\ 0 <= b[256] /\ b[256] <= 1
      /\ b[512] \in Int /\ 0 <= b[512] /\ b[512] <= 1
      /\ b[1024] \in Int /\ 0 <= b[1024] /\ b[1024] <= 1
      /\ b[2048] \in Int /\ 0 <= b[2048] /\ b[2048] <= 1
      /\ b[4096] \in Int /\ 0 <= b[4096] /\ b[4096] <= 1
      /\ b[8192] \in Int /\ 0 <= b[8192] /\ b[8192] <= 1
      /\ b[16384] \in Int /\ 0 <= b[16384] /\ b[16384] <= 1
      /\ b[32768] \in Int /\ 0 <= b[32768] /\ b[32768] <= 1
  BY <1>2, SMT DEF Weights
<1> DEFINE s4  == b[1] + 2 * b[2] + 4 * b[4] + 8 * b[8]
           s8  == s4 + 16 * b[16] + 32 * b[32] + 64 * b[64] + 128 * b[128]
           s12 == s8 + 256 * b[256] + 512 * b[512] + 1024 * b[1024]
                     + 2048 * b[2048]
           s16 == s12 + 4096 * b[4096] + 8192 * b[8192] + 16384 * b[16384]
                      + 32768 * b[32768]
<1>4. s4 \in Int /\ 0 <= s4 /\ s4 <= 15
  BY <1>3, SMT
<1>5. s8 \in Int /\ 0 <= s8 /\ s8 <= 255
  <2> HIDE DEF s4
  <2> QED BY <1>3, <1>4, SMT
<1>6. s12 \in Int /\ 0 <= s12 /\ s12 <= 4095
  <2> HIDE DEF s8
  <2> QED BY <1>3, <1>5, SMT
<1>7. s16 \in Int /\ 0 <= s16 /\ s16 <= 65535
  <2> HIDE DEF s12
  <2> QED BY <1>3, <1>6, SMT
<1>8. HalfOf(b) = s16
  BY SMT DEF HalfOf
<1> HIDE DEF s16
<1> QED BY <1>7, <1>8, InHalf, SMT

\* A bit is 0 or 1.
LEMMA BitRange ==
  ASSUME NEW h \in Half, NEW p \in Weights
  PROVE  Bit(h, p) \in {0, 1}
<1>1. p \in Nat \ {0}
  BY SMT DEF Weights
<1>2. h \in Int
  BY HalfRange, SMT
<1>3. h \div p \in Int
  BY <1>1, <1>2, SMT
<1>4. ASSUME NEW n \in Int PROVE n % 2 \in {0, 1}
  BY SMT
<1> QED BY <1>3, <1>4, SMT DEF Bit

\* The three bitwise operators.
LEMMA BitwiseInWord ==
  ASSUME NEW a \in Word, NEW b \in Word
  PROVE  And(a, b) \in Word /\ Or(a, b) \in Word /\ Xor(a, b) \in Word
<1>1. ASSUME NEW x \in Half, NEW y \in Half
      PROVE  /\ AndHalf(x, y) \in Half
             /\ OrHalf(x, y) \in Half
             /\ XorHalf(x, y) \in Half
  <2>1. \A p \in Weights : Bit(x, p) \in {0, 1} /\ Bit(y, p) \in {0, 1}
    BY BitRange, SMT
  <2>2. ASSUME NEW u \in {0, 1}, NEW v \in {0, 1}
        PROVE  /\ u * v \in {0, 1}
               /\ (IF u + v = 0 THEN 0 ELSE 1) \in {0, 1}
               /\ (u + v) % 2 \in {0, 1}
    BY SMT
  <2>3. [p \in Weights |-> Bit(x, p) * Bit(y, p)] \in [Weights -> {0, 1}]
    BY <2>1, <2>2, Zenon
  <2>4. [p \in Weights |-> IF Bit(x, p) + Bit(y, p) = 0 THEN 0 ELSE 1]
          \in [Weights -> {0, 1}]
    BY <2>1, <2>2, Zenon
  <2>5. [p \in Weights |-> (Bit(x, p) + Bit(y, p)) % 2]
          \in [Weights -> {0, 1}]
    BY <2>1, <2>2, Zenon
  <2> QED BY <2>3, <2>4, <2>5, HalfOfBits, Zenon DEF AndHalf, OrHalf, XorHalf
<1>2. a.hi \in Half /\ a.lo \in Half /\ b.hi \in Half /\ b.lo \in Half
  BY WordHalves, SMT
<1> QED BY <1>1, <1>2, WInWord, Zenon DEF And, Or, Xor

\* The sixteen entries of the table of powers.
LEMMA Pow2Table ==
  /\ Pow2(0) = 1 /\ Pow2(1) = 2 /\ Pow2(2) = 4 /\ Pow2(3) = 8
  /\ Pow2(4) = 16 /\ Pow2(5) = 32 /\ Pow2(6) = 64 /\ Pow2(7) = 128
  /\ Pow2(8) = 256 /\ Pow2(9) = 512 /\ Pow2(10) = 1024 /\ Pow2(11) = 2048
  /\ Pow2(12) = 4096 /\ Pow2(13) = 8192 /\ Pow2(14) = 16384
  /\ Pow2(15) = 32768
BY SMT DEF Pow2

\* A shift amount below 16 is one of sixteen.
LEMMA SixteenCases ==
  ASSUME NEW n \in 0 .. 15
  PROVE  \/ n = 0 \/ n = 1 \/ n = 2 \/ n = 3 \/ n = 4 \/ n = 5 \/ n = 6
         \/ n = 7 \/ n = 8 \/ n = 9 \/ n = 10 \/ n = 11 \/ n = 12
         \/ n = 13 \/ n = 14 \/ n = 15
BY SMT

\* The powers are bit weights, and each has a complement to 2^16.
LEMMA Pow2Facts ==
  /\ \A n \in 0 .. 15 : Pow2(n) \in Weights
  /\ \A n \in 1 .. 15 : Pow2(n) * Pow2(16 - n) = HalfMod
  /\ \A n \in 1 .. 15 : Pow2(16 - n) \in Int
  /\ Pow2(0) = 1
<1>1. ASSUME NEW n \in 0 .. 15 PROVE Pow2(n) \in Weights
  BY Pow2Table, SixteenCases, SMT DEF Weights
<1>2. ASSUME NEW n \in 1 .. 15
      PROVE  Pow2(n) * Pow2(16 - n) = HalfMod /\ Pow2(16 - n) \in Int
  BY Pow2Table, SMT DEF HalfMod
<1>3. Pow2(0) = 1
  BY Pow2Table, SMT
<1> QED BY <1>1, <1>2, <1>3, Zenon

\* What a left shift by fewer than sixteen places puts into the high half.
LEMMA LeftPieces ==
  ASSUME NEW h \in Half, NEW l \in Half, NEW p \in Weights
  PROVE  /\ ((h * p) % HalfMod) + ((l * p) \div HalfMod) \in Half
         /\ (l * p) % HalfMod \in Half
<1> DEFINE sum == ((h * p) % HalfMod) + ((l * p) \div HalfMod)
<1>1. /\ h \in Int /\ 0 <= h /\ h <= 65535
      /\ l \in Int /\ 0 <= l /\ l <= 65535
  BY HalfRange, SMT
<1>2. sum \in Int /\ 0 <= sum /\ sum <= 65535
  BY <1>1, SMT DEF Weights, HalfMod
<1>3. l * p \in Int
  BY <1>1, SMT DEF Weights
<1> HIDE DEF sum
<1>4. sum \in Half
  BY <1>2, InHalf, SMT
<1> QED BY <1>3, <1>4, HalfModRange, Zenon DEF sum

\* What a right shift by fewer than sixteen places puts into the halves.
LEMMA RightPieces ==
  ASSUME NEW h \in Half, NEW l \in Half, NEW p \in Weights, NEW q \in Int
  PROVE  /\ h \div p \in Half
         /\ p * q = HalfMod => (l \div p) + ((h % p) * q) \in Half
<1> DEFINE sum == (l \div p) + ((h % p) * q)
           quotient == h \div p
<1>1. /\ h \in Int /\ 0 <= h /\ h <= 65535
      /\ l \in Int /\ 0 <= l /\ l <= 65535
  BY HalfRange, SMT
<1>2. quotient \in Int /\ 0 <= quotient /\ quotient <= 65535
  BY <1>1, SMT DEF Weights
<1>3. p * q = HalfMod => sum \in Int /\ 0 <= sum /\ sum <= 65535
  BY <1>1, SMT DEF Weights, HalfMod
<1> HIDE DEF sum, quotient
<1>4. quotient \in Half /\ (p * q = HalfMod => sum \in Half)
  BY <1>2, <1>3, InHalf, SMT
<1> QED BY <1>4, Zenon DEF sum, quotient

\* The left shifter.
LEMMA ShiftLeftInWord ==
  ASSUME NEW a \in Word, NEW n \in 0 .. 31
  PROVE  ShiftLeft(a, n) \in Word
<1>1. a.hi \in Half /\ a.lo \in Half /\ 0 \in Half
  BY WordHalves, InHalf, SMT
<1>2. CASE n >= 16
  <2>1. n - 16 \in 0 .. 15
    BY <1>2, SMT
  <2>2. Pow2(n - 16) \in Weights
    BY <2>1, Pow2Facts, Zenon
  <2>3. (a.lo * Pow2(n - 16)) % HalfMod \in Half
    BY <2>2, <1>1, LeftPieces, Zenon
  <2> QED BY <1>1, <1>2, <2>3, WInWord, Zenon DEF ShiftLeft
<1>3. CASE ~(n >= 16)
  <2>1. n \in 0 .. 15
    BY <1>3, SMT
  <2>2. /\ (a.lo * Pow2(n)) % HalfMod \in Half
        /\ ((a.hi * Pow2(n)) % HalfMod) + ((a.lo * Pow2(n)) \div HalfMod)
             \in Half
    BY <2>1, <1>1, Pow2Facts, LeftPieces, Zenon
  <2> QED BY <1>3, <2>2, WInWord, Zenon DEF ShiftLeft
<1> QED BY <1>2, <1>3

\* The right shifter.
LEMMA ShiftRightInWord ==
  ASSUME NEW a \in Word, NEW n \in 0 .. 31
  PROVE  ShiftRight(a, n) \in Word
<1>1. a.hi \in Half /\ a.lo \in Half /\ 0 \in Half
  BY WordHalves, InHalf, SMT
<1>2. CASE n >= 16
  <2>1. n - 16 \in 0 .. 15
    BY <1>2, SMT
  <2>2. Pow2(n - 16) \in Weights
    BY <2>1, Pow2Facts, Zenon
  <2>3. a.hi \div Pow2(n - 16) \in Half
    <3>1. 0 \in Int
      BY SMT
    <3> QED BY <2>2, <3>1, <1>1, RightPieces, Zenon
  <2> QED BY <1>1, <1>2, <2>3, WInWord, Zenon DEF ShiftRight
<1>3. CASE n = 0
  <2>1. a.hi \div Pow2(0) = a.hi /\ (a.lo \div Pow2(0)) + 0 = a.lo
    BY WordParts, Pow2Facts, SMT
  <2>2. ~(0 >= 16)
    BY SMT
  <2>3. ShiftRight(a, n) = W(a.hi \div Pow2(0), (a.lo \div Pow2(0)) + 0)
    BY <1>3, <2>2, Zenon DEF ShiftRight
  <2> QED BY <1>1, <2>1, <2>3, WInWord, Zenon
<1>4. CASE ~(n >= 16) /\ n # 0
  <2>1. n \in 1 .. 15 /\ n \in 0 .. 15
    BY <1>4, SMT
  <2>2. /\ Pow2(n) \in Weights
        /\ Pow2(16 - n) \in Int
        /\ Pow2(n) * Pow2(16 - n) = HalfMod
    BY <2>1, Pow2Facts, SMT
  <2>3. /\ a.hi \div Pow2(n) \in Half
        /\ (a.lo \div Pow2(n)) + ((a.hi % Pow2(n)) * Pow2(16 - n)) \in Half
    BY <2>2, <1>1, RightPieces, Zenon
  <2>4. ShiftRight(a, n)
          = W(a.hi \div Pow2(n),
              (a.lo \div Pow2(n)) + ((a.hi % Pow2(n)) * Pow2(16 - n)))
    BY <1>4, Zenon DEF ShiftRight
  <2> QED BY <2>3, <2>4, WInWord, Zenon
<1> QED BY <1>2, <1>3, <1>4

------------------------------------------------------------------------------
\* The two decoders.

\* The opcodes that are defined.
Opcodes == 0 .. 23

\* The opcodes one by one, for proofs by cases.
LEMMA OpcodeCases ==
  ASSUME NEW op \in Opcodes
  PROVE  \/ op = 0 \/ op = 1 \/ op = 2 \/ op = 3 \/ op = 4 \/ op = 5
         \/ op = 6 \/ op = 7 \/ op = 8 \/ op = 9 \/ op = 10 \/ op = 11
         \/ op = 12 \/ op = 13 \/ op = 14 \/ op = 15 \/ op = 16 \/ op = 17
         \/ op = 18 \/ op = 19 \/ op = 20 \/ op = 21 \/ op = 22 \/ op = 23
BY SMT DEF Opcodes

\* The control table of decoder.cpp, read by columns instead of by rows.
ControlColumns(op, c) ==
  /\ c.reg_write <=> (op \in 1 .. 14 \/ op = 21)
  /\ c.alu_src_immediate <=> op \in 9 .. 15
  /\ op = 23 => c.halt = TRUE
  /\ op # 23 => c.halt = FALSE
  /\ c.writeback_source = IF op = 14 THEN "Memory"
                          ELSE IF op = 21 THEN "PcPlus4" ELSE "Alu"
  /\ c.register_destination = IF op = 21 THEN "ReturnAddress" ELSE "DecodedRd"
  /\ c.memory_operation = IF op = 14 THEN "Load"
                          ELSE IF op = 15 THEN "Store" ELSE "None"
  /\ c.control_flow = IF op \in 16 .. 19 THEN "ConditionalBranch"
                      ELSE IF op \in {20, 21} THEN "RelativeJump"
                      ELSE IF op = 22 THEN "RegisterJump" ELSE "Sequential"
  /\ c.immediate_kind = IF op \in {9, 14, 15} THEN "Signed16"
                        ELSE IF op \in {10, 11, 12} THEN "ZeroExtended16"
                        ELSE IF op = 13 THEN "Upper16" ELSE "None"
  /\ c.branch_predicate = IF op = 16 THEN "Equal"
                          ELSE IF op = 17 THEN "NotEqual"
                          ELSE IF op = 18 THEN "SignedLessThan"
                          ELSE IF op = 19 THEN "SignedGreaterEqual"
                          ELSE "None"
  /\ c.alu_operation = IF op = 2 THEN "Sub"
                       ELSE IF op \in {3, 10} THEN "And"
                       ELSE IF op \in {4, 11} THEN "Or"
                       ELSE IF op \in {5, 12} THEN "Xor"
                       ELSE IF op = 6 THEN "Slt"
                       ELSE IF op = 7 THEN "ShiftLeft"
                       ELSE IF op = 8 THEN "ShiftRight" ELSE "Add"

\* The fields of one row.
Row(c, rw, si, alu, wb, rd, kind, mem, flow, predicate, h) ==
  /\ c.reg_write = rw /\ c.alu_src_immediate = si /\ c.alu_operation = alu
  /\ c.writeback_source = wb /\ c.register_destination = rd
  /\ c.immediate_kind = kind /\ c.memory_operation = mem
  /\ c.control_flow = flow /\ c.branch_predicate = predicate /\ c.halt = h

\* The four forms that most rows have, and the six other rows.
LEMMA RowForms ==
  /\ Row(DefaultControl, FALSE, FALSE, "Add", "Alu", "DecodedRd", "None",
         "None", "Sequential", "None", FALSE)
  /\ \A o : Row(RegisterControl(o), TRUE, FALSE, o, "Alu", "DecodedRd",
               "None", "None", "Sequential", "None", FALSE)
  /\ \A o, k : Row(ImmediateControl(o, k), TRUE, TRUE, o, "Alu", "DecodedRd",
                  k, "None", "Sequential", "None", FALSE)
  /\ \A p : Row(BranchControl(p), FALSE, FALSE, "Add", "Alu", "DecodedRd",
               "None", "None", "ConditionalBranch", p, FALSE)
BY SMT DEF Row, DefaultControl, RegisterControl, ImmediateControl,
           BranchControl

\* The row of each opcode.
LEMMA ControlRows ==
  /\ control_for(0) = DefaultControl
  /\ control_for(1) = RegisterControl("Add")
  /\ control_for(2) = RegisterControl("Sub")
  /\ control_for(3) = RegisterControl("And")
  /\ control_for(4) = RegisterControl("Or")
  /\ control_for(5) = RegisterControl("Xor")
  /\ control_for(6) = RegisterControl("Slt")
  /\ control_for(7) = RegisterControl("ShiftLeft")
  /\ control_for(8) = RegisterControl("ShiftRight")
  /\ control_for(9) = ImmediateControl("Add", "Signed16")
  /\ control_for(10) = ImmediateControl("And", "ZeroExtended16")
  /\ control_for(11) = ImmediateControl("Or", "ZeroExtended16")
  /\ control_for(12) = ImmediateControl("Xor", "ZeroExtended16")
  /\ control_for(13) = ImmediateControl("Add", "Upper16")
  /\ control_for(14) = [ImmediateControl("Add", "Signed16") EXCEPT
                             !.writeback_source = "Memory",
                             !.memory_operation = "Load"]
  /\ control_for(15) = [ImmediateControl("Add", "Signed16") EXCEPT
                             !.reg_write = FALSE,
                             !.memory_operation = "Store"]
  /\ control_for(16) = BranchControl("Equal")
  /\ control_for(17) = BranchControl("NotEqual")
  /\ control_for(18) = BranchControl("SignedLessThan")
  /\ control_for(19) = BranchControl("SignedGreaterEqual")
  /\ control_for(20) = [DefaultControl EXCEPT !.control_flow = "RelativeJump"]
  /\ control_for(21) = [DefaultControl EXCEPT
                             !.reg_write = TRUE,
                             !.writeback_source = "PcPlus4",
                             !.register_destination = "ReturnAddress",
                             !.control_flow = "RelativeJump"]
  /\ control_for(22) = [DefaultControl EXCEPT !.control_flow = "RegisterJump"]
  /\ control_for(23) = [DefaultControl EXCEPT !.halt = TRUE]
BY SMT DEF control_for, OP_NOP, OP_ADD, OP_SUB, OP_AND, OP_OR, OP_XOR, OP_SLT,
             OP_SHL, OP_SHR, OP_ADDI, OP_ANDI, OP_ORI,
             OP_XORI, OP_LUI, OP_LW, OP_SW, OP_BEQ, OP_BNE,
             OP_BLT, OP_BGE, OP_J, OP_JAL, OP_JR, OP_HALT

\* Every opcode that decodes has its control signals.
LEMMA ControlTable ==
  ASSUME NEW op \in Opcodes
  PROVE  ControlColumns(op, control_for(op))
<1>0. CASE op = 0
  <2>1. Row(control_for(0), FALSE, FALSE, "Add", "Alu", "DecodedRd", "None",
            "None", "Sequential", "None", FALSE)
    <3>1. control_for(0) = DefaultControl
      BY ControlRows, Zenon
    <3> QED BY <3>1, RowForms, Zenon
  <2> QED BY <1>0, <2>1, SMT DEF Row, ControlColumns
<1>1. CASE op = 1
  <2>1. Row(control_for(1), TRUE, FALSE, "Add", "Alu", "DecodedRd", "None",
            "None", "Sequential", "None", FALSE)
    <3>1. control_for(1) = RegisterControl("Add")
      BY ControlRows, Zenon
    <3> QED BY <3>1, RowForms, Zenon
  <2> QED BY <1>1, <2>1, SMT DEF Row, ControlColumns
<1>2. CASE op = 2
  <2>1. Row(control_for(2), TRUE, FALSE, "Sub", "Alu", "DecodedRd", "None",
            "None", "Sequential", "None", FALSE)
    <3>1. control_for(2) = RegisterControl("Sub")
      BY ControlRows, Zenon
    <3> QED BY <3>1, RowForms, Zenon
  <2> QED BY <1>2, <2>1, SMT DEF Row, ControlColumns
<1>3. CASE op = 3
  <2>1. Row(control_for(3), TRUE, FALSE, "And", "Alu", "DecodedRd", "None",
            "None", "Sequential", "None", FALSE)
    <3>1. control_for(3) = RegisterControl("And")
      BY ControlRows, Zenon
    <3> QED BY <3>1, RowForms, Zenon
  <2> QED BY <1>3, <2>1, SMT DEF Row, ControlColumns
<1>4. CASE op = 4
  <2>1. Row(control_for(4), TRUE, FALSE, "Or", "Alu", "DecodedRd", "None",
            "None", "Sequential", "None", FALSE)
    <3>1. control_for(4) = RegisterControl("Or")
      BY ControlRows, Zenon
    <3> QED BY <3>1, RowForms, Zenon
  <2> QED BY <1>4, <2>1, SMT DEF Row, ControlColumns
<1>5. CASE op = 5
  <2>1. Row(control_for(5), TRUE, FALSE, "Xor", "Alu", "DecodedRd", "None",
            "None", "Sequential", "None", FALSE)
    <3>1. control_for(5) = RegisterControl("Xor")
      BY ControlRows, Zenon
    <3> QED BY <3>1, RowForms, Zenon
  <2> QED BY <1>5, <2>1, SMT DEF Row, ControlColumns
<1>6. CASE op = 6
  <2>1. Row(control_for(6), TRUE, FALSE, "Slt", "Alu", "DecodedRd", "None",
            "None", "Sequential", "None", FALSE)
    <3>1. control_for(6) = RegisterControl("Slt")
      BY ControlRows, Zenon
    <3> QED BY <3>1, RowForms, Zenon
  <2> QED BY <1>6, <2>1, SMT DEF Row, ControlColumns
<1>7. CASE op = 7
  <2>1. Row(control_for(7), TRUE, FALSE, "ShiftLeft", "Alu", "DecodedRd",
            "None", "None", "Sequential", "None", FALSE)
    <3>1. control_for(7) = RegisterControl("ShiftLeft")
      BY ControlRows, Zenon
    <3> QED BY <3>1, RowForms, Zenon
  <2> QED BY <1>7, <2>1, SMT DEF Row, ControlColumns
<1>8. CASE op = 8
  <2>1. Row(control_for(8), TRUE, FALSE, "ShiftRight", "Alu", "DecodedRd",
            "None", "None", "Sequential", "None", FALSE)
    <3>1. control_for(8) = RegisterControl("ShiftRight")
      BY ControlRows, Zenon
    <3> QED BY <3>1, RowForms, Zenon
  <2> QED BY <1>8, <2>1, SMT DEF Row, ControlColumns
<1>9. CASE op = 9
  <2>1. Row(control_for(9), TRUE, TRUE, "Add", "Alu", "DecodedRd",
            "Signed16", "None", "Sequential", "None", FALSE)
    <3>1. control_for(9) = ImmediateControl("Add", "Signed16")
      BY ControlRows, Zenon
    <3> QED BY <3>1, RowForms, Zenon
  <2> QED BY <1>9, <2>1, SMT DEF Row, ControlColumns
<1>10. CASE op = 10
  <2>1. Row(control_for(10), TRUE, TRUE, "And", "Alu", "DecodedRd",
            "ZeroExtended16", "None", "Sequential", "None", FALSE)
    <3>1. control_for(10) = ImmediateControl("And", "ZeroExtended16")
      BY ControlRows, Zenon
    <3> QED BY <3>1, RowForms, Zenon
  <2> QED BY <1>10, <2>1, SMT DEF Row, ControlColumns
<1>11. CASE op = 11
  <2>1. Row(control_for(11), TRUE, TRUE, "Or", "Alu", "DecodedRd",
            "ZeroExtended16", "None", "Sequential", "None", FALSE)
    <3>1. control_for(11) = ImmediateControl("Or", "ZeroExtended16")
      BY ControlRows, Zenon
    <3> QED BY <3>1, RowForms, Zenon
  <2> QED BY <1>11, <2>1, SMT DEF Row, ControlColumns
<1>12. CASE op = 12
  <2>1. Row(control_for(12), TRUE, TRUE, "Xor", "Alu", "DecodedRd",
            "ZeroExtended16", "None", "Sequential", "None", FALSE)
    <3>1. control_for(12) = ImmediateControl("Xor", "ZeroExtended16")
      BY ControlRows, Zenon
    <3> QED BY <3>1, RowForms, Zenon
  <2> QED BY <1>12, <2>1, SMT DEF Row, ControlColumns
<1>13. CASE op = 13
  <2>1. Row(control_for(13), TRUE, TRUE, "Add", "Alu", "DecodedRd",
            "Upper16", "None", "Sequential", "None", FALSE)
    <3>1. control_for(13) = ImmediateControl("Add", "Upper16")
      BY ControlRows, Zenon
    <3> QED BY <3>1, RowForms, Zenon
  <2> QED BY <1>13, <2>1, SMT DEF Row, ControlColumns
<1>14. CASE op = 14
  <2>1. Row(control_for(14), TRUE, TRUE, "Add", "Memory", "DecodedRd",
            "Signed16", "Load", "Sequential", "None", FALSE)
    <3>1. control_for(14) = [ImmediateControl("Add", "Signed16") EXCEPT
                             !.writeback_source = "Memory",
                             !.memory_operation = "Load"]
      BY ControlRows, Zenon
    <3> QED BY <3>1, Zenon DEF Row, DefaultControl, RegisterControl,
                               ImmediateControl
  <2> QED BY <1>14, <2>1, SMT DEF Row, ControlColumns
<1>15. CASE op = 15
  <2>1. Row(control_for(15), FALSE, TRUE, "Add", "Alu", "DecodedRd",
            "Signed16", "Store", "Sequential", "None", FALSE)
    <3>1. control_for(15) = [ImmediateControl("Add", "Signed16") EXCEPT
                             !.reg_write = FALSE,
                             !.memory_operation = "Store"]
      BY ControlRows, Zenon
    <3> QED BY <3>1, Zenon DEF Row, DefaultControl, RegisterControl,
                               ImmediateControl
  <2> QED BY <1>15, <2>1, SMT DEF Row, ControlColumns
<1>16. CASE op = 16
  <2>1. Row(control_for(16), FALSE, FALSE, "Add", "Alu", "DecodedRd",
            "None", "None", "ConditionalBranch", "Equal", FALSE)
    <3>1. control_for(16) = BranchControl("Equal")
      BY ControlRows, Zenon
    <3> QED BY <3>1, RowForms, Zenon
  <2> QED BY <1>16, <2>1, SMT DEF Row, ControlColumns
<1>17. CASE op = 17
  <2>1. Row(control_for(17), FALSE, FALSE, "Add", "Alu", "DecodedRd",
            "None", "None", "ConditionalBranch", "NotEqual", FALSE)
    <3>1. control_for(17) = BranchControl("NotEqual")
      BY ControlRows, Zenon
    <3> QED BY <3>1, RowForms, Zenon
  <2> QED BY <1>17, <2>1, SMT DEF Row, ControlColumns
<1>18. CASE op = 18
  <2>1. Row(control_for(18), FALSE, FALSE, "Add", "Alu", "DecodedRd",
            "None", "None", "ConditionalBranch", "SignedLessThan",
            FALSE)
    <3>1. control_for(18) = BranchControl("SignedLessThan")
      BY ControlRows, Zenon
    <3> QED BY <3>1, RowForms, Zenon
  <2> QED BY <1>18, <2>1, SMT DEF Row, ControlColumns
<1>19. CASE op = 19
  <2>1. Row(control_for(19), FALSE, FALSE, "Add", "Alu", "DecodedRd",
            "None", "None", "ConditionalBranch",
            "SignedGreaterEqual", FALSE)
    <3>1. control_for(19) = BranchControl("SignedGreaterEqual")
      BY ControlRows, Zenon
    <3> QED BY <3>1, RowForms, Zenon
  <2> QED BY <1>19, <2>1, SMT DEF Row, ControlColumns
<1>20. CASE op = 20
  <2>1. Row(control_for(20), FALSE, FALSE, "Add", "Alu", "DecodedRd",
            "None", "None", "RelativeJump", "None", FALSE)
    <3>1. control_for(20) = [DefaultControl EXCEPT !.control_flow = "RelativeJump"]
      BY ControlRows, Zenon
    <3> QED BY <3>1, Zenon DEF Row, DefaultControl, RegisterControl,
                               ImmediateControl
  <2> QED BY <1>20, <2>1, SMT DEF Row, ControlColumns
<1>21. CASE op = 21
  <2>1. Row(control_for(21), TRUE, FALSE, "Add", "PcPlus4", "ReturnAddress",
            "None", "None", "RelativeJump", "None", FALSE)
    <3>1. control_for(21) = [DefaultControl EXCEPT
                             !.reg_write = TRUE,
                             !.writeback_source = "PcPlus4",
                             !.register_destination = "ReturnAddress",
                             !.control_flow = "RelativeJump"]
      BY ControlRows, Zenon
    <3> QED BY <3>1, Zenon DEF Row, DefaultControl, RegisterControl,
                               ImmediateControl
  <2> QED BY <1>21, <2>1, SMT DEF Row, ControlColumns
<1>22. CASE op = 22
  <2>1. Row(control_for(22), FALSE, FALSE, "Add", "Alu", "DecodedRd",
            "None", "None", "RegisterJump", "None", FALSE)
    <3>1. control_for(22) = [DefaultControl EXCEPT !.control_flow = "RegisterJump"]
      BY ControlRows, Zenon
    <3> QED BY <3>1, Zenon DEF Row, DefaultControl, RegisterControl,
                               ImmediateControl
  <2> QED BY <1>22, <2>1, SMT DEF Row, ControlColumns
<1>23. CASE op = 23
  <2>1. Row(control_for(23), FALSE, FALSE, "Add", "Alu", "DecodedRd",
            "None", "None", "Sequential", "None", TRUE)
    <3>1. control_for(23) = [DefaultControl EXCEPT !.halt = TRUE]
      BY ControlRows, Zenon
    <3> QED BY <3>1, Zenon DEF Row, DefaultControl, RegisterControl,
                               ImmediateControl
  <2> QED BY <1>23, <2>1, SMT DEF Row, ControlColumns
<1> QED BY OpcodeCases, <1>0, <1>1, <1>2, <1>3, <1>4, <1>5, <1>6, <1>7,
           <1>8, <1>9, <1>10, <1>11, <1>12, <1>13, <1>14, <1>15, <1>16,
           <1>17, <1>18, <1>19, <1>20, <1>21, <1>22, <1>23, Zenon

------------------------------------------------------------------------------
(***************************************************************************)
(* The two decoders.                                                       *)
(***************************************************************************)

\* The fields of a word and their names on either side.
LEMMA FieldRanges ==
  ASSUME NEW i \in Word
  PROVE  /\ Opcode(i) \in 0 .. 63
         /\ i.hi \div 1024 = Opcode(i)
         /\ Field21(i) = Bits25_21(i) /\ Field21(i) \in Register
         /\ Field16(i) = Bits20_16(i) /\ Field16(i) \in Register
         /\ Field11(i) = Bits15_11(i) /\ Field11(i) \in Register
<1>1. /\ i.hi \in Int /\ 0 <= i.hi /\ i.hi <= 65535
      /\ i.lo \in Int /\ 0 <= i.lo /\ i.lo <= 65535
  BY WordParts
<1> DEFINE h == i.hi
           l == i.lo
<1> HIDE DEF h, l
<1>2. /\ h \in Int /\ 0 <= h /\ h <= 65535
      /\ l \in Int /\ 0 <= l /\ l <= 65535
  BY <1>1 DEF h, l
<1>3. h \div 1024 \in 0 .. 63
  BY <1>2, SMT
<1>4. (h \div 32) % 32 \in 0 .. 31 /\ h % 32 \in 0 .. 31
  BY <1>2, SMT
<1>5. l \div 2048 \in 0 .. 31
  BY <1>2, SMT
<1>6. (l \div 2048) % 32 = l \div 2048
  BY <1>5, SMT
<1> USE DEF h, l
<1>7. Opcode(i) \in 0 .. 63 /\ i.hi \div 1024 = Opcode(i)
  BY <1>3 DEF Opcode
<1>8. Field21(i) = Bits25_21(i) /\ Field21(i) \in Register
  BY <1>4 DEF Field21, Bits25_21, Register
<1>9. Field16(i) = Bits20_16(i) /\ Field16(i) \in Register
  BY <1>4 DEF Field16, Bits20_16, Register
<1>10. Field11(i) = Bits15_11(i) /\ Field11(i) \in Register
  BY <1>5, <1>6 DEF Field11, Bits15_11, Register
<1> QED BY <1>7, <1>8, <1>9, <1>10

\* The formats by opcode.
LEMMA FormatTable ==
  ASSUME NEW op \in Opcodes
  PROVE  format_for(op) = IF op \in 0 .. 8 \/ op = 23 THEN "R"
                          ELSE IF op \in 9 .. 14 THEN "I"
                          ELSE IF op = 15 THEN "S"
                          ELSE IF op \in 16 .. 19 THEN "B"
                          ELSE IF op \in {20, 21} THEN "J" ELSE "Jr"
BY SMT DEF Opcodes, format_for, is_r_format, OP_NOP, OP_SHR, OP_HALT, OP_ADDI,
           OP_LW, OP_SW, OP_BEQ, OP_BGE, OP_J, OP_JAL, OP_JR

\* Both decoders refuse the same words for the same reason.
LEMMA SameDecodeError ==
  ASSUME NEW i \in Word
  PROVE  /\ RtlError(i) = DecodeError(i)
         /\ DecodeError(i) = "None" => Opcode(i) \in Opcodes
<1> DEFINE op == Opcode(i)
<1>1. op \in 0 .. 63 /\ i.hi \div 1024 = op
  BY FieldRanges
<1>2. Bits20_16(i) = i.hi % 32 /\ Field16(i) = i.hi % 32
  BY DEF Bits20_16, Field16
<1> HIDE DEF op
<1>3. CASE op \in Opcodes
  <2>1. DecodeMalformed(i) <=> Malformed(op, i)
    BY <1>2, <1>3, FormatTable, SMT
       DEF DecodeMalformed, Malformed, op, Opcodes, RTypeOps, OP_NOP, OP_ADD,
           OP_SHR, OP_LUI, OP_JR, OP_HALT
  <2>2. op \in KnownOps /\ ~(op > 23)
    BY <1>3, SMT DEF KnownOps, OP_NOP, OP_HALT, Opcodes
  <2>3. DecodeValid(i) <=> ~DecodeMalformed(i)
    BY <2>2 DEF DecodeValid, op
  <2>4. DecodeError(i) = IF Malformed(op, i) THEN "MalformedEncoding"
                                             ELSE "None"
    BY <1>1, <1>3, SMT DEF DecodeError, OP_HALT, Opcodes
  <2>5. RtlError(i) = IF DecodeMalformed(i) THEN "MalformedEncoding"
                                            ELSE "None"
    BY <2>3, Zenon DEF RtlError
  <2> QED BY <1>3, <2>1, <2>4, <2>5, Zenon DEF op
<1>4. CASE op \notin Opcodes
  <2>1. op > 23
    BY <1>1, <1>4, SMT DEF Opcodes
  <2>2. ~DecodeMalformed(i) /\ ~DecodeValid(i)
    BY <2>1, <1>1, SMT
       DEF DecodeMalformed, DecodeValid, KnownOps, op, RTypeOps, OP_NOP,
           OP_ADD, OP_SHR, OP_LUI, OP_JR, OP_HALT
  <2>3. DecodeError(i) = "IllegalOpcode"
    BY <2>1, <1>1, SMT DEF DecodeError, OP_HALT
  <2>4. RtlError(i) = "IllegalOpcode"
    BY <2>2, Zenon DEF RtlError
  <2> QED BY <2>3, <2>4
<1> QED BY <1>3, <1>4

\* What decode fills in, by opcode.
DecodedFields(i, d) ==
  LET op == Opcode(i)
  IN  /\ d.opcode = op
      /\ d.rd = IF op \in 0 .. 14 \/ op = 23 THEN Bits25_21(i) ELSE 0
      /\ d.rs1 = IF op \in 0 .. 15 \/ op = 23 THEN Bits20_16(i)
                 ELSE IF op \in 16 .. 19 \/ op = 22 THEN Bits25_21(i) ELSE 0
      /\ d.rs2 = IF op \in 0 .. 8 \/ op = 23 THEN Bits15_11(i)
                 ELSE IF op = 15 THEN Bits25_21(i)
                 ELSE IF op \in 16 .. 19 THEN Bits20_16(i) ELSE 0
      /\ d.imm16 = IF op \in 9 .. 19 THEN i.lo ELSE 0
      /\ d.imm26 = IF op \in {20, 21} THEN W(i.hi % 1024, i.lo) ELSE Zero

\* The fields of a decoded word, by opcode.
LEMMA DecodeTable ==
  ASSUME NEW i \in Word, Opcode(i) \in Opcodes
  PROVE  DecodedFields(i, Decode(i))
<1> DEFINE op == Opcode(i)
           f  == format_for(op)
           d  == Decode(i)
           o  == i.hi \div 1024
           g  == format_for(o)
<1>1. op \in Opcodes /\ o = op
  BY FieldRanges
<1>2. /\ Field21(i) = Bits25_21(i)
      /\ Field16(i) = Bits20_16(i)
      /\ Field11(i) = Bits15_11(i)
  BY FieldRanges
<1>3. /\ d.opcode = o
      /\ d.rd = IF g \in {"R", "I"} THEN Field21(i) ELSE 0
      /\ d.rs1 = CASE g \in {"R", "I", "S"} -> Field16(i)
                   [] g \in {"B", "Jr"}     -> Field21(i)
                   [] OTHER                 -> 0
      /\ d.rs2 = CASE g = "R" -> Field11(i)
                   [] g = "S" -> Field21(i)
                   [] g = "B" -> Field16(i)
                   [] OTHER   -> 0
      /\ d.imm16 = IF g \in {"I", "S", "B"} THEN i.lo ELSE 0
      /\ d.imm26 = IF g = "J" THEN W(i.hi % 1024, i.lo) ELSE Zero
  BY Zenon DEF Decode
<1>6. f = g
  BY <1>1
<1> HIDE DEF d, op, o
<1>4. f = IF op \in 0 .. 8 \/ op = 23 THEN "R"
          ELSE IF op \in 9 .. 14 THEN "I"
          ELSE IF op = 15 THEN "S"
          ELSE IF op \in 16 .. 19 THEN "B"
          ELSE IF op \in {20, 21} THEN "J" ELSE "Jr"
  BY <1>1, FormatTable
<1> HIDE DEF f, g
<1>5. op \in 0 .. 23
  BY <1>1 DEF Opcodes
<1> QED BY <1>1, <1>2, <1>3, <1>4, <1>5, <1>6, SMT DEF DecodedFields, d, op

------------------------------------------------------------------------------
(***************************************************************************)
(* Immediates, displacements, arithmetic and branches.                     *)
(***************************************************************************)

\* Doubling twice with the carry between the halves is multiplying by four.
LEMMA Quadruple ==
  ASSUME NEW h \in Int, 0 <= h, h <= 65535, NEW l \in Int, 0 <= l, l <= 65535
  PROVE  /\ (2 * ((2 * l) % 65536)) % 65536 = (4 * l) % 65536
         /\ (2 * ((2 * h + ((2 * l) \div 65536)) % 65536)
               + ((2 * ((2 * l) % 65536)) \div 65536)) % 65536
              = (4 * h + (l \div 16384)) % 65536
<1> DEFINE l2 == (2 * l) % 65536
           c1 == (2 * l) \div 65536
           h2 == (2 * h + c1) % 65536
           c2 == (2 * l2) \div 65536
<1>1. l2 \in Int /\ c1 \in Int /\ 2 * l = 65536 * c1 + l2 /\ 0 <= l2
      /\ l2 <= 65535
  BY SMT
<1> HIDE DEF l2, c1
<1>2. /\ h2 \in Int /\ \E k \in Int : 2 * h + c1 = 65536 * k + h2
      /\ c2 \in Int
  BY <1>1, SMT
<1>3. (2 * l2) % 65536 = (4 * l) % 65536
  BY <1>1, SMT
<1>4. l \div 16384 = 2 * c1 + c2
  BY <1>1, SMT
<1> HIDE DEF h2, c2
<1>5. (2 * h2 + c2) % 65536 = (4 * h + (l \div 16384)) % 65536
  BY <1>1, <1>2, <1>4, SMT
<1> QED BY <1>3, <1>5 DEF l2, c1, h2, c2

\* The halves of four times a word, modulo 2^32.
FourTimesHigh(h, l) == (4 * h + (l \div 16384)) % 65536
FourTimesLow(l)     == (4 * l) % 65536

\* A word doubled twice, by halves.
LEMMA Times4Halves ==
  ASSUME NEW h \in Half, NEW l \in Half
  PROVE  Times4(W(h, l)) = W(FourTimesHigh(h, l), FourTimesLow(l))
<1> DEFINE l2 == (2 * l) % 65536
           c1 == (2 * l) \div 65536
           h2 == (2 * h + c1) % 65536
           c2 == (2 * l2) \div 65536
<1>0. /\ h \in Int /\ 0 <= h /\ h <= 65535
      /\ l \in Int /\ 0 <= l /\ l <= 65535
  BY HalfRange
<1>1. Add(W(h, l), W(h, l)) = W(h2, l2)
  <2>1. h + h = 2 * h /\ l + l = 2 * l
    BY <1>0, SMT
  <2>2. W(h, l).hi = h /\ W(h, l).lo = l
    BY DEF W
  <2> QED BY <2>1, <2>2, SMT DEF Add, HalfMod
<1>2. h2 \in Int /\ l2 \in Int
  BY <1>0, SMT
<1>3. Add(W(h2, l2), W(h2, l2)) = W((2 * h2 + c2) % 65536, (2 * l2) % 65536)
  <2> HIDE DEF h2, l2
  <2>1. h2 + h2 = 2 * h2 /\ l2 + l2 = 2 * l2
    BY <1>2, SMT
  <2>2. W(h2, l2).hi = h2 /\ W(h2, l2).lo = l2
    BY DEF W
  <2> QED BY <1>2, <2>1, <2>2, SMT DEF Add, HalfMod, c2
<1>4. (2 * l2) % 65536 = (4 * l) % 65536
  BY <1>0, Quadruple, SMT
<1>5. (2 * h2 + c2) % 65536 = (4 * h + (l \div 16384)) % 65536
  BY <1>0, Quadruple, SMT
<1> HIDE DEF h2, l2, c1, c2
<1> QED BY <1>1, <1>3, <1>4, <1>5, SMT
        DEF Times4, FourTimesHigh, FourTimesLow

\* The RTL concatenates sign bits, immediate and two zeros; the C++ multiplies
\* the sign-extended immediate by four.
LEMMA DisplacementsAgree ==
  ASSUME NEW i \in Word
  PROVE  /\ BranchDisplacement(i) = branch_displacement(i.lo)
         /\ JumpDisplacement(i) = jump_displacement(W(i.hi % 1024, i.lo))
<1> DEFINE l == i.lo
           h == i.hi % 1024
<1>1. l \in Int /\ 0 <= l /\ l <= 65535 /\ h \in Int /\ 0 <= h /\ h <= 1023
  <2>1. i.hi \in Int /\ i.lo \in Int /\ 0 <= i.lo /\ i.lo <= 65535
    BY WordParts
  <2> QED BY <2>1, SMT
<1> HIDE DEF l, h
<1>4. l \in Half /\ h \in Half /\ 0 \in Half /\ 65535 \in Half
  BY <1>1, InHalf, SMT
<1>5. FourTimesLow(l) = (l % 16384) * 4
  BY <1>1, SMT DEF FourTimesLow
<1>2. BranchDisplacement(i) = branch_displacement(l)
  <2>1. CASE l < 32768
    <3>1. branch_displacement(l) = Times4(W(0, l))
      BY <2>1, SMT DEF branch_displacement, immediate_value
    <3>2. Times4(W(0, l)) = W(FourTimesHigh(0, l), FourTimesLow(l))
      BY <1>4, Times4Halves, SMT
    <3>3. /\ FourTimesHigh(0, l) = 0 + (l \div 16384)
          /\ ~(l >= 32768)
      BY <1>1, <2>1, SMT DEF FourTimesHigh
    <3> QED BY <3>1, <3>2, <3>3, <1>5, SMT
            DEF BranchDisplacement, DecodedImm16, l
  <2>2. CASE ~(l < 32768)
    <3>1. branch_displacement(l) = Times4(W(65535, l))
      BY <2>2, SMT DEF branch_displacement, immediate_value
    <3>2. Times4(W(65535, l)) = W(FourTimesHigh(65535, l), FourTimesLow(l))
      BY <1>4, Times4Halves, SMT
    <3>3. /\ FourTimesHigh(65535, l) = 65532 + (l \div 16384)
          /\ l >= 32768
      BY <1>1, <2>2, SMT DEF FourTimesHigh
    <3> QED BY <3>1, <3>2, <3>3, <1>5, SMT
            DEF BranchDisplacement, DecodedImm16, l
  <2> QED BY <2>1, <2>2
<1>3. JumpDisplacement(i) = jump_displacement(W(h, l))
  <2>0. W(h, l).hi = h /\ W(h, l).lo = l
    BY DEF W
  <2>1. CASE h < 512
    <3>1. jump_displacement(W(h, l)) = Times4(W(h, l))
      BY <2>0, <2>1, SMT DEF jump_displacement
    <3>2. Times4(W(h, l)) = W(FourTimesHigh(h, l), FourTimesLow(l))
      BY <1>4, Times4Halves, SMT
    <3>3. /\ FourTimesHigh(h, l) = 0 + h * 4 + (l \div 16384)
          /\ ~(h >= 512)
      BY <1>1, <2>1, SMT DEF FourTimesHigh
    <3> QED BY <3>1, <3>2, <3>3, <1>5, SMT DEF JumpDisplacement, l, h
  <2>2. CASE ~(h < 512)
    <3>1. jump_displacement(W(h, l)) = Times4(W(h + 64512, l))
      BY <2>0, <2>2, SMT DEF jump_displacement
    <3>2. h + 64512 \in Half
      BY <1>1, SMT DEF Half, HalfMod
    <3>3. Times4(W(h + 64512, l)) =
            W(FourTimesHigh(h + 64512, l), FourTimesLow(l))
      BY <1>4, <3>2, Times4Halves, SMT
    <3>4. /\ FourTimesHigh(h + 64512, l) =
                61440 + h * 4 + (l \div 16384)
          /\ h >= 512
      BY <1>1, <2>2, SMT DEF FourTimesHigh
    <3> QED BY <3>1, <3>3, <3>4, <1>5, SMT DEF JumpDisplacement, l, h
  <2> QED BY <2>1, <2>2
<1> QED BY <1>2, <1>3 DEF l, h

\* The two ALUs under their own names of the operations.
LEMMA SameAlu ==
  ASSUME NEW i \in Word, Opcode(i) \in Opcodes, NEW lhs, NEW rhs
  PROVE  AluResult(ControlAluOperation(i), lhs, rhs) =
           Execute(control_for(Opcode(i)).alu_operation, lhs, rhs)
<1> DEFINE op  == Opcode(i)
           rtl == ControlAluOperation(i)
           cpp == control_for(op).alu_operation
<1>1. /\ AluResult("ADD", lhs, rhs) = Execute("Add", lhs, rhs)
      /\ AluResult("SUB", lhs, rhs) = Execute("Sub", lhs, rhs)
      /\ AluResult("AND", lhs, rhs) = Execute("And", lhs, rhs)
      /\ AluResult("OR", lhs, rhs) = Execute("Or", lhs, rhs)
      /\ AluResult("XOR", lhs, rhs) = Execute("Xor", lhs, rhs)
      /\ AluResult("SLT", lhs, rhs) = Execute("Slt", lhs, rhs)
      /\ AluResult("SHL", lhs, rhs) = Execute("ShiftLeft", lhs, rhs)
      /\ AluResult("SHR", lhs, rhs) = Execute("ShiftRight", lhs, rhs)
  <2>1. SignedLess(lhs, rhs) <=> signed_less_than(lhs, rhs)
    BY Zenon DEF SignedLess, signed_less_than
  <2> QED BY <2>1, SMT DEF AluResult, Execute
<1>2. op \in 0 .. 23
  BY DEF Opcodes
<1>3. cpp = IF op = 2 THEN "Sub"
            ELSE IF op \in {3, 10} THEN "And"
            ELSE IF op \in {4, 11} THEN "Or"
            ELSE IF op \in {5, 12} THEN "Xor"
            ELSE IF op = 6 THEN "Slt"
            ELSE IF op = 7 THEN "ShiftLeft"
            ELSE IF op = 8 THEN "ShiftRight" ELSE "Add"
  <2>1. ControlColumns(op, control_for(op))
    BY ControlTable, Zenon
  <2> HIDE DEF op
  <2> QED BY <2>1, SMT DEF ControlColumns
<1>4. rtl = IF op = 2 THEN "SUB"
            ELSE IF op \in {3, 10} THEN "AND"
            ELSE IF op \in {4, 11} THEN "OR"
            ELSE IF op \in {5, 12} THEN "XOR"
            ELSE IF op = 6 THEN "SLT"
            ELSE IF op = 7 THEN "SHL"
            ELSE IF op = 8 THEN "SHR" ELSE "ADD"
  BY <1>2, SMT DEF ControlAluOperation, OP_SUB, OP_AND, OP_ANDI, OP_OR, OP_ORI,
                   OP_XOR, OP_XORI, OP_SLT, OP_SHL, OP_SHR
<1> HIDE DEF op, rtl, cpp
<1>5. AluResult(rtl, lhs, rhs) = Execute(cpp, lhs, rhs)
  BY <1>1, <1>3, <1>4, SMT
<1> QED BY <1>5 DEF op, rtl, cpp

\* The two immediate generators.
LEMMA SameImmediate ==
  ASSUME NEW i \in Word, Opcode(i) \in Opcodes
  PROVE  ImmediateValue(i) =
           immediate_value(control_for(Opcode(i)).immediate_kind,
                           Decode(i).imm16)
<1> DEFINE op   == Opcode(i)
           kind == control_for(op).immediate_kind
           imm  == Decode(i).imm16
<1>1. op \in 0 .. 23
  BY DEF Opcodes
<1>2. kind = IF op \in {9, 14, 15} THEN "Signed16"
             ELSE IF op \in {10, 11, 12} THEN "ZeroExtended16"
             ELSE IF op = 13 THEN "Upper16" ELSE "None"
  <2>1. ControlColumns(op, control_for(op))
    BY ControlTable, Zenon
  <2> HIDE DEF op
  <2> QED BY <2>1, SMT DEF ControlColumns
<1>3. imm = IF op \in 9 .. 19 THEN i.lo ELSE 0
  BY DecodeTable DEF DecodedFields
<1>4. ControlImmediateKind(i) =
        IF op \in {9, 14, 15} THEN "SIGNED16"
        ELSE IF op \in {10, 11, 12} THEN "ZERO_EXTENDED16"
        ELSE IF op = 13 THEN "UPPER16" ELSE "NONE"
  BY <1>1, SMT DEF ControlImmediateKind, OP_ADDI, OP_LW, OP_SW, OP_ANDI,
                   OP_ORI, OP_XORI, OP_LUI
<1> HIDE DEF op, kind, imm
<1>5. ImmediateValue(i) = immediate_value(kind, imm)
  <2> DEFINE lo == i.lo
             rtl == ControlImmediateKind(i)
  <2>1. ImmediateValue(i) =
          CASE rtl = "SIGNED16" -> W(IF lo >= 32768 THEN 65535 ELSE 0, lo)
            [] rtl = "ZERO_EXTENDED16" -> W(0, lo)
            [] rtl = "UPPER16" -> W(lo, 0)
            [] OTHER -> Zero
    BY SMT DEF ImmediateValue, DecodedImm16
  <2>2. lo \in Int
    BY WordParts
  <2> HIDE DEF rtl, lo
  <2>3. CASE op \in {9, 14, 15}
    <3>1. rtl = "SIGNED16" /\ kind = "Signed16" /\ imm = lo
      BY <2>3, <1>2, <1>3, <1>4, SMT DEF rtl, lo
    <3> QED BY <2>1, <2>2, <3>1, SMT DEF immediate_value
  <2>4. CASE op \in {10, 11, 12}
    <3>1. rtl = "ZERO_EXTENDED16" /\ kind = "ZeroExtended16" /\ imm = lo
      BY <2>4, <1>2, <1>3, <1>4, SMT DEF rtl, lo
    <3> QED BY <2>1, <3>1, SMT DEF immediate_value
  <2>5. CASE op = 13
    <3>1. rtl = "UPPER16" /\ kind = "Upper16" /\ imm = lo
      BY <2>5, <1>2, <1>3, <1>4, SMT DEF rtl, lo
    <3> QED BY <2>1, <3>1, SMT DEF immediate_value
  <2>6. CASE op \notin {9, 10, 11, 12, 13, 14, 15}
    <3>1. rtl = "NONE" /\ kind = "None"
      BY <2>6, <1>2, <1>4, SMT DEF rtl
    <3> QED BY <2>1, <3>1, SMT DEF immediate_value
  <2> QED BY <2>3, <2>4, <2>5, <2>6
<1> QED BY <1>5 DEF op, kind, imm

\* The control signals of the RTL, by opcode.
LEMMA RtlColumns ==
  ASSUME NEW i \in Word, Opcode(i) \in Opcodes
  PROVE  LET op == Opcode(i)
         IN  /\ ControlRegWrite(i) <=> (op \in 1 .. 14 \/ op = 21)
             /\ ControlAluSrcImmediate(i) <=> op \in 9 .. 15
             /\ op = 23 => ControlHalt(i) = TRUE
             /\ op # 23 => ControlHalt(i) = FALSE
             /\ ControlMemoryOperation(i) =
                  IF op = 14 THEN "LOAD" ELSE IF op = 15 THEN "STORE" ELSE "NONE"
             /\ ControlWritebackSource(i) =
                  IF op = 14 THEN "MEMORY"
                  ELSE IF op = 21 THEN "PC_PLUS_4" ELSE "ALU"
             /\ ControlFlow(i) =
                  IF op \in 16 .. 19 THEN "CONDITIONAL_BRANCH"
                  ELSE IF op \in {20, 21} THEN "RELATIVE_JUMP"
                  ELSE IF op = 22 THEN "REGISTER_JUMP" ELSE "SEQUENTIAL"
             /\ WritebackDestination(i) = IF op = 21 THEN 31 ELSE Bits25_21(i)
             /\ DecodedRs1(i) = IF op \in 16 .. 19 \/ op = 22
                                  THEN Bits25_21(i) ELSE Bits20_16(i)
             /\ DecodedRs2(i) = IF op = 15 THEN Bits25_21(i)
                                ELSE IF op \in 16 .. 19 THEN Bits20_16(i)
                                ELSE Bits15_11(i)
<1> DEFINE op == Opcode(i)
<1>1. op \in 0 .. 23
  BY DEF Opcodes
<1>2. /\ ControlRegWrite(i) <=> (op \in 1 .. 14 \/ op = 21)
      /\ ControlAluSrcImmediate(i) <=> op \in 9 .. 15
  BY <1>1, SMT DEF ControlRegWrite, ControlAluSrcImmediate, OP_ADD, OP_LW,
                   OP_JAL, OP_ADDI, OP_SW
<1>3. /\ op = 23 => ControlHalt(i) = TRUE
      /\ op # 23 => ControlHalt(i) = FALSE
  BY Zenon DEF ControlHalt, OP_HALT
<1>4. /\ ControlMemoryOperation(i) =
           IF op = 14 THEN "LOAD" ELSE IF op = 15 THEN "STORE" ELSE "NONE"
      /\ ControlWritebackSource(i) =
           IF op = 14 THEN "MEMORY"
           ELSE IF op = 21 THEN "PC_PLUS_4" ELSE "ALU"
  BY <1>1, SMT DEF ControlMemoryOperation, ControlWritebackSource, OP_LW, OP_SW,
                   OP_JAL
<1>5. ControlFlow(i) =
        IF op \in 16 .. 19 THEN "CONDITIONAL_BRANCH"
        ELSE IF op \in {20, 21} THEN "RELATIVE_JUMP"
        ELSE IF op = 22 THEN "REGISTER_JUMP" ELSE "SEQUENTIAL"
  BY <1>1, SMT DEF ControlFlow, BranchOps, OP_BEQ, OP_BGE, OP_J, OP_JAL, OP_JR
<1>6. WritebackDestination(i) = IF op = 21 THEN 31 ELSE Bits25_21(i)
  BY Zenon DEF WritebackDestination, DecodedRd, OP_JAL
<1>7. DecodedRs1(i) = IF op \in 16 .. 19 \/ op = 22
                        THEN Bits25_21(i) ELSE Bits20_16(i)
  BY <1>1, SMT DEF DecodedRs1, BranchOps, OP_BEQ, OP_BGE, OP_JR
<1>8. DecodedRs2(i) = IF op = 15 THEN Bits25_21(i)
                      ELSE IF op \in 16 .. 19 THEN Bits20_16(i)
                      ELSE Bits15_11(i)
  BY <1>1, SMT DEF DecodedRs2, BranchOps, OP_BEQ, OP_BGE, OP_SW
<1> HIDE DEF op
<1> QED BY <1>2, <1>3, <1>4, <1>5, <1>6, <1>7, <1>8, Zenon DEF op

\* The two branch comparisons.
LEMMA SameBranch ==
  ASSUME NEW i \in Word, Opcode(i) \in 16 .. 19, NEW lhs, NEW rhs
  PROVE  BranchTaken(i, lhs, rhs) <=>
           branch_taken(control_for(Opcode(i)).branch_predicate, lhs, rhs)
<1> DEFINE op == Opcode(i)
           predicate == control_for(op).branch_predicate
           less == SignedLess(lhs, rhs)
<1>1. predicate = IF op = 16 THEN "Equal" ELSE IF op = 17 THEN "NotEqual"
                  ELSE IF op = 18 THEN "SignedLessThan"
                  ELSE "SignedGreaterEqual"
  <2>1. op \in Opcodes
    BY SMT DEF Opcodes
  <2>2. ControlColumns(op, control_for(op))
    BY <2>1, ControlTable, Zenon
  <2> HIDE DEF op
  <2> QED BY <2>2, SMT DEF ControlColumns, op
<1>2. less <=> signed_less_than(lhs, rhs)
  BY Zenon DEF SignedLess, signed_less_than
<1>3. BranchTaken(i, lhs, rhs) <=>
        \/ op = 16 /\ lhs = rhs
        \/ op = 17 /\ lhs # rhs
        \/ op = 18 /\ less
        \/ op = 19 /\ ~less
  BY SMT DEF BranchTaken, OP_BEQ, OP_BNE, OP_BLT, OP_BGE
<1>4. branch_taken(predicate, lhs, rhs) <=>
        \/ op = 16 /\ lhs = rhs
        \/ op = 17 /\ lhs # rhs
        \/ op = 18 /\ less
        \/ op = 19 /\ ~less
  <2>1. /\ branch_taken("Equal", lhs, rhs) <=> lhs = rhs
        /\ branch_taken("NotEqual", lhs, rhs) <=> lhs # rhs
        /\ branch_taken("SignedLessThan", lhs, rhs)
             <=> signed_less_than(lhs, rhs)
        /\ branch_taken("SignedGreaterEqual", lhs, rhs)
             <=> ~signed_less_than(lhs, rhs)
    BY SMT DEF branch_taken
  <2>2. op = 16 \/ op = 17 \/ op = 18 \/ op = 19
    BY SMT
  <2> HIDE DEF predicate, less, op
  <2>3. CASE op = 16
    BY <2>3, <2>1, <1>1, SMT
  <2>4. CASE op = 17
    BY <2>4, <2>1, <1>1, SMT
  <2>5. CASE op = 18
    BY <2>5, <2>1, <1>1, <1>2, SMT
  <2>6. CASE op = 19
    BY <2>6, <2>1, <1>1, <1>2, SMT
  <2> QED BY <2>2, <2>3, <2>4, <2>5, <2>6
<1> QED BY <1>3, <1>4

------------------------------------------------------------------------------
(***************************************************************************)
(* The effects, field by field.                                            *)
(***************************************************************************)

\* The next pc of a valid instruction.
LEMMA SameNextPc ==
  ASSUME NEW i \in Word, Opcode(i) \in Opcodes, NEW pc,
         NEW l1, NEW r1, NEW l2, NEW r2,
         Opcode(i) \in 16 .. 19 => l1 = l2 /\ r1 = r2,
         Opcode(i) = 22 => l1 = l2
  PROVE  RtlNextPc(i, pc, l1, r1) =
           CppNextPc(Decode(i), control_for(Opcode(i)), pc, l2, r2)
<1> DEFINE op == Opcode(i)
           d  == Decode(i)
           c  == control_for(op)
           flow == ControlFlow(i)
           next == Plus4(pc)
<1>1. op \in 0 .. 23
  BY DEF Opcodes
<1>2. flow = IF op \in 16 .. 19 THEN "CONDITIONAL_BRANCH"
             ELSE IF op \in {20, 21} THEN "RELATIVE_JUMP"
             ELSE IF op = 22 THEN "REGISTER_JUMP" ELSE "SEQUENTIAL"
  BY RtlColumns, Zenon
<1>3. c.control_flow = IF op \in 16 .. 19 THEN "ConditionalBranch"
                       ELSE IF op \in {20, 21} THEN "RelativeJump"
                       ELSE IF op = 22 THEN "RegisterJump" ELSE "Sequential"
  <2>1. ControlColumns(op, c)
    BY ControlTable, Zenon
  <2> HIDE DEF op, c
  <2> QED BY <2>1, Zenon DEF ControlColumns
<1>4. /\ d.imm16 = IF op \in 9 .. 19 THEN i.lo ELSE 0
      /\ d.imm26 = IF op \in {20, 21} THEN W(i.hi % 1024, i.lo) ELSE Zero
  <2>1. DecodedFields(i, d)
    BY DecodeTable, Zenon
  <2> HIDE DEF d
  <2> QED BY <2>1, Zenon DEF DecodedFields
<1>5. /\ BranchDisplacement(i) = branch_displacement(i.lo)
      /\ JumpDisplacement(i) = jump_displacement(W(i.hi % 1024, i.lo))
  BY DisplacementsAgree, SMT
<1> HIDE DEF op, d, c, flow, next
<1>6. CASE op \in 16 .. 19
  <2>1. /\ flow = "CONDITIONAL_BRANCH" /\ c.control_flow = "ConditionalBranch"
        /\ d.imm16 = i.lo
    BY <1>2, <1>3, <1>4, <1>6, SMT
  <2>2. BranchTaken(i, l1, r1) <=> branch_taken(c.branch_predicate, l2, r2)
    BY <1>6, SameBranch, Zenon DEF op, c
  <2>3. RtlNextPc(i, pc, l1, r1) =
          IF BranchTaken(i, l1, r1) THEN Add(next, BranchDisplacement(i))
                                    ELSE next
    BY <2>1, SMT DEF RtlNextPc, flow, next
  <2>4. CppNextPc(d, c, pc, l2, r2) =
          IF branch_taken(c.branch_predicate, l2, r2)
            THEN Add(next, branch_displacement(d.imm16)) ELSE next
    BY <2>1, SMT DEF CppNextPc, next
  <2>5. RtlNextPc(i, pc, l1, r1) = CppNextPc(d, c, pc, l2, r2)
    BY <2>1, <2>2, <2>3, <2>4, <1>5, Zenon
  <2> QED BY <2>5 DEF d, c, op
<1>7. CASE op \in {20, 21}
  <2>1. /\ flow = "RELATIVE_JUMP" /\ c.control_flow = "RelativeJump"
        /\ d.imm26 = W(i.hi % 1024, i.lo)
    BY <1>2, <1>3, <1>4, <1>7, SMT
  <2>3. RtlNextPc(i, pc, l1, r1) = Add(next, JumpDisplacement(i))
    BY <2>1, SMT DEF RtlNextPc, flow, next
  <2>4. CppNextPc(d, c, pc, l2, r2) = Add(next, jump_displacement(d.imm26))
    BY <2>1, SMT DEF CppNextPc, next
  <2>5. RtlNextPc(i, pc, l1, r1) = CppNextPc(d, c, pc, l2, r2)
    BY <2>1, <2>3, <2>4, <1>5, SMT
  <2> QED BY <2>5 DEF d, c, op
<1>8. CASE op = 22
  <2>1. flow = "REGISTER_JUMP" /\ c.control_flow = "RegisterJump"
    BY <1>2, <1>3, <1>8, SMT
  <2>2. l1 = l2
    BY <1>8 DEF op
  <2>3. RtlNextPc(i, pc, l1, r1) = l1
    BY <2>1, SMT DEF RtlNextPc, flow
  <2>4. CppNextPc(d, c, pc, l2, r2) = l2
    BY <2>1, SMT DEF CppNextPc
  <2> QED BY <2>2, <2>3, <2>4 DEF d, c, op
<1>9. CASE op \in 0 .. 15 \/ op = 23
  <2>1. flow = "SEQUENTIAL" /\ c.control_flow = "Sequential"
    BY <1>2, <1>3, <1>9, SMT
  <2>3. RtlNextPc(i, pc, l1, r1) = next
    BY <2>1, SMT DEF RtlNextPc, flow, next
  <2>4. CppNextPc(d, c, pc, l2, r2) = next
    BY <2>1, SMT DEF CppNextPc, next
  <2> QED BY <2>3, <2>4 DEF d, c, op
<1> QED BY <1>1, <1>6, <1>7, <1>8, <1>9, SMT

\* For every instruction word, every content of the registers and every pc,
\* the RTL core and the C++ model have the same effect: the same decode
\* error, or the same next pc, register written, memory access and halt.
THEOREM BothDecodersAgree ==
  \A i \in Word : \A file, pc : SameEffect(i, file, pc)
<1> SUFFICES ASSUME NEW i \in Word, NEW file, NEW pc
             PROVE  SameEffect(i, file, pc)
  OBVIOUS
<1>1. RtlError(i) = DecodeError(i)
  BY SameDecodeError, Zenon
<1>2. CASE DecodeError(i) # "None"
  BY <1>1, <1>2, Zenon DEF SameEffect, RtlEffect, CppEffect
<1>3. CASE DecodeError(i) = "None"
  <2> DEFINE op == Opcode(i)
             d  == Decode(i)
             c  == control_for(op)
             l1 == file[DecodedRs1(i)]
             s1 == file[DecodedRs2(i)]
             r1 == IF ControlAluSrcImmediate(i) THEN ImmediateValue(i) ELSE s1
             a1 == AluResult(ControlAluOperation(i), l1, r1)
             m1 == ControlMemoryOperation(i)
             w1 == ControlRegWrite(i) /\ WritebackDestination(i) # 0
             l2 == file[d.rs1]
             s2 == file[d.rs2]
             r2 == IF c.alu_src_immediate
                     THEN immediate_value(c.immediate_kind, d.imm16) ELSE s2
             a2 == Execute(c.alu_operation, l2, r2)
             m2 == c.memory_operation
             t2 == IF c.register_destination = "ReturnAddress" THEN 31
                                                               ELSE d.rd
             w2 == c.reg_write /\ t2 # 0
             v1 == CASE ~w1 \/ m1 = "LOAD" -> Zero
                     [] w1 /\ ControlWritebackSource(i) = "PC_PLUS_4" ->
                          Plus4(pc)
                     [] OTHER -> a1
             v2 == CASE ~w2 \/ m2 = "Load" -> Zero
                     [] w2 /\ c.writeback_source = "PcPlus4" -> Plus4(pc)
                     [] OTHER -> a2
             k1 == CASE m1 = "LOAD"  -> "Load"
                     [] m1 = "STORE" -> "Store"
                     [] m1 = "NONE"  -> "None"
  <2>1. op \in Opcodes /\ op \in 0 .. 23
    <3>1. op \in Opcodes
      BY <1>1, <1>3, SameDecodeError, Zenon
    <3> QED BY <3>1 DEF Opcodes
  <2>2. DecodedFields(i, d)
    BY <2>1, DecodeTable, Zenon
  <2>3. ControlColumns(op, c)
    BY <2>1, ControlTable, Zenon
  <2>4. d.opcode = op
    BY <2>2, Zenon DEF DecodedFields
  <2>5. RtlEffect(i, file, pc) =
          [error |-> "None", next_pc |-> RtlNextPc(i, pc, l1, r1),
           rd |-> IF w1 THEN WritebackDestination(i) ELSE 0, value |-> v1,
           memory |-> k1, address |-> IF m1 = "NONE" THEN Zero ELSE a1,
           data |-> IF m1 = "STORE" THEN s1 ELSE Zero,
           halt |-> ControlHalt(i)]
    BY <1>1, <1>3, Zenon DEF RtlEffect
  <2>6. CppEffect(i, file, pc) =
          [error |-> "None", next_pc |-> CppNextPc(d, c, pc, l2, r2),
           rd |-> IF w2 THEN t2 ELSE 0, value |-> v2,
           memory |-> m2, address |-> IF m2 = "None" THEN Zero ELSE a2,
           data |-> IF m2 = "Store" THEN s2 ELSE Zero, halt |-> c.halt]
    BY <2>4, <1>3, Zenon DEF CppEffect
  <2>7. /\ w1 <=> ControlRegWrite(i) /\ WritebackDestination(i) # 0
        /\ w2 <=> c.reg_write /\ t2 # 0
        /\ t2 = IF c.register_destination = "ReturnAddress" THEN 31 ELSE d.rd
        /\ r1 = IF ControlAluSrcImmediate(i) THEN ImmediateValue(i) ELSE s1
        /\ r2 = IF c.alu_src_immediate
                  THEN immediate_value(c.immediate_kind, d.imm16) ELSE s2
    BY Zenon
  <2>8. /\ ControlRegWrite(i) <=> (op \in 1 .. 14 \/ op = 21)
        /\ ControlAluSrcImmediate(i) <=> op \in 9 .. 15
        /\ op = 23 => ControlHalt(i) = TRUE
        /\ op # 23 => ControlHalt(i) = FALSE
        /\ m1 = IF op = 14 THEN "LOAD" ELSE IF op = 15 THEN "STORE" ELSE "NONE"
        /\ ControlWritebackSource(i) =
             IF op = 14 THEN "MEMORY"
             ELSE IF op = 21 THEN "PC_PLUS_4" ELSE "ALU"
        /\ WritebackDestination(i) = IF op = 21 THEN 31 ELSE Bits25_21(i)
        /\ DecodedRs1(i) = IF op \in 16 .. 19 \/ op = 22
                             THEN Bits25_21(i) ELSE Bits20_16(i)
        /\ DecodedRs2(i) = IF op = 15 THEN Bits25_21(i)
                           ELSE IF op \in 16 .. 19 THEN Bits20_16(i)
                           ELSE Bits15_11(i)
    BY <2>1, RtlColumns, Zenon
  <2>9. ImmediateValue(i) = immediate_value(c.immediate_kind, d.imm16)
    BY <2>1, SameImmediate, Zenon
  <2>10. \A x, y : AluResult(ControlAluOperation(i), x, y) =
                     Execute(c.alu_operation, x, y)
    BY <2>1, SameAlu, Zenon
  <2>11. /\ d.rd = IF op \in 0 .. 14 \/ op = 23 THEN Bits25_21(i) ELSE 0
         /\ d.rs1 = IF op \in 0 .. 15 \/ op = 23 THEN Bits20_16(i)
                    ELSE IF op \in 16 .. 19 \/ op = 22 THEN Bits25_21(i) ELSE 0
         /\ d.rs2 = IF op \in 0 .. 8 \/ op = 23 THEN Bits15_11(i)
                    ELSE IF op = 15 THEN Bits25_21(i)
                    ELSE IF op \in 16 .. 19 THEN Bits20_16(i) ELSE 0
    <3> HIDE DEF d
    <3> QED BY <2>2, Zenon DEF DecodedFields
  <2>12. /\ c.reg_write <=> (op \in 1 .. 14 \/ op = 21)
         /\ c.alu_src_immediate <=> op \in 9 .. 15
         /\ op = 23 => c.halt = TRUE
         /\ op # 23 => c.halt = FALSE
         /\ c.writeback_source = IF op = 14 THEN "Memory"
                                 ELSE IF op = 21 THEN "PcPlus4" ELSE "Alu"
         /\ c.register_destination = IF op = 21 THEN "ReturnAddress"
                                                ELSE "DecodedRd"
         /\ m2 = IF op = 14 THEN "Load" ELSE IF op = 15 THEN "Store" ELSE "None"
    <3> HIDE DEF c, op
    <3> QED BY <2>3, Zenon DEF ControlColumns
  <2> HIDE DEF op, d, c, m1, m2, t2
  <2>13. op \in 0 .. 19 \/ op \in {22, 23} => l1 = l2
    <3>1. op \in 0 .. 19 \/ op \in {22, 23} => DecodedRs1(i) = d.rs1
      BY <2>1, <2>8, <2>11, SMT
    <3> QED BY <3>1, Zenon
  <2>14. op \in 0 .. 8 \/ op \in 15 .. 19 \/ op = 23 => s1 = s2
    <3>1. op \in 0 .. 8 \/ op \in 15 .. 19 \/ op = 23 => DecodedRs2(i) = d.rs2
      BY <2>1, <2>8, <2>11, SMT
    <3> QED BY <3>1, Zenon
  <2> HIDE DEF l1, l2, s1, s2
  <2>15. op \in 0 .. 19 => r1 = r2
    <3> HIDE DEF r1, r2
    <3>1. ControlAluSrcImmediate(i) <=> c.alu_src_immediate
      BY <2>8, <2>12, Zenon
    <3>2. op \in 0 .. 19 /\ ~ControlAluSrcImmediate(i) => s1 = s2
      BY <2>8, <2>14, SMT
    <3> QED BY <3>1, <3>2, <2>7, <2>9, Zenon
  <2> HIDE DEF r1, r2
  <2>16. op \in 0 .. 15 => a1 = a2
    <3>1. op \in 0 .. 15 => l1 = l2 /\ r1 = r2
      BY <2>13, <2>15, SMT
    <3> QED BY <3>1, <2>10, Zenon
  <2>17. RtlNextPc(i, pc, l1, r1) = CppNextPc(d, c, pc, l2, r2)
    <3>1. /\ op \in 16 .. 19 => l1 = l2 /\ r1 = r2
          /\ op = 22 => l1 = l2
      BY <2>13, <2>15, SMT
    <3> QED BY <3>1, <2>1, SameNextPc, SMT DEF op, d, c
  <2> HIDE DEF a1, a2, w1, w2
  <2>18. (w1 <=> w2) /\ (w1 => WritebackDestination(i) = t2)
    BY <2>1, <2>7, <2>8, <2>11, <2>12, SMT
  <2>19. v1 = v2
    <3>1. CASE ~w1 \/ op = 14
      <4>1. /\ ~w1 \/ (m1 = "LOAD" /\ ControlWritebackSource(i) # "PC_PLUS_4")
            /\ ~w2 \/ (m2 = "Load" /\ c.writeback_source # "PcPlus4")
        BY <3>1, <2>8, <2>12, <2>18, SMT
      <4>2. v1 = Zero
        BY <4>1, SMT
      <4>3. v2 = Zero
        BY <4>1, SMT
      <4> QED BY <4>2, <4>3
    <3>2. CASE w1 /\ op = 21
      <4>1. /\ w1 /\ m1 # "LOAD" /\ ControlWritebackSource(i) = "PC_PLUS_4"
            /\ w2 /\ m2 # "Load" /\ c.writeback_source = "PcPlus4"
        BY <3>2, <2>8, <2>12, <2>18, SMT
      <4>2. v1 = Plus4(pc)
        BY <4>1, SMT
      <4>3. v2 = Plus4(pc)
        BY <4>1, SMT
      <4> QED BY <4>2, <4>3
    <3>3. CASE w1 /\ op \notin {14, 21}
      <4>1. /\ w1 /\ m1 # "LOAD" /\ ControlWritebackSource(i) # "PC_PLUS_4"
            /\ w2 /\ m2 # "Load" /\ c.writeback_source # "PcPlus4"
        BY <3>3, <2>8, <2>12, <2>18, SMT
      <4>2. v1 = a1
        BY <4>1, SMT
      <4>3. v2 = a2
        BY <4>1, SMT
      <4>4. a1 = a2
        BY <3>3, <2>7, <2>8, <2>16, SMT
      <4> QED BY <4>2, <4>3, <4>4
    <3> QED BY <3>1, <3>2, <3>3
  <2>20. /\ k1 = m2
         /\ m1 = "NONE" <=> m2 = "None"
         /\ m1 = "STORE" <=> m2 = "Store"
    BY <2>8, <2>12, SMT
  <2> HIDE DEF v1, v2, k1
  <2>21. /\ (IF m1 = "NONE" THEN Zero ELSE a1) =
               (IF m2 = "None" THEN Zero ELSE a2)
         /\ (IF m1 = "STORE" THEN s1 ELSE Zero) =
               (IF m2 = "Store" THEN s2 ELSE Zero)
    <3>1. /\ m1 # "NONE" => op \in 0 .. 15
          /\ m1 = "STORE" => op \in 15 .. 19
      BY <2>8, SMT
    <3> QED BY <3>1, <2>20, <2>16, <2>14, Zenon
  <2>22. ControlHalt(i) = c.halt
    BY <2>8, <2>12, Zenon
  <2>23. (IF w1 THEN WritebackDestination(i) ELSE 0) = (IF w2 THEN t2 ELSE 0)
    BY <2>18, Zenon
  <2>24. RtlEffect(i, file, pc) = CppEffect(i, file, pc)
    BY <2>5, <2>6, <2>17, <2>19, <2>20, <2>21, <2>22, <2>23, SMT
  <2> QED BY <2>24, Zenon DEF SameEffect
<1> QED BY <1>2, <1>3

\* The fields and control signals that decode returns for a legal word.
LegalFields(d, c) ==
  /\ d.opcode \in Opcodes
  /\ ControlColumns(d.opcode, c)
  /\ d.rd \in Register
  /\ d.rs1 \in Register
  /\ d.rs2 \in Register
  /\ d.imm16 \in Half
  /\ d.imm26.hi \in 0 .. 1023
  /\ d.imm26.lo \in Half
  /\ d.imm26 = W(d.imm26.hi, d.imm26.lo)

\* A word without decode error has legal fields and a row of the table.
LEMMA DecodeTyped ==
  ASSUME NEW i \in Word, DecodeError(i) = "None"
  PROVE  LegalFields(Decode(i), control_for(Decode(i).opcode))
<1>1. Opcode(i) \in Opcodes
  BY SameDecodeError, Zenon
<1>2. DecodedFields(i, Decode(i))
  BY <1>1, DecodeTable, Zenon
<1>3. Decode(i).opcode = Opcode(i)
  BY <1>2, Zenon DEF DecodedFields
<1>4. ControlColumns(Decode(i).opcode, control_for(Decode(i).opcode))
  BY <1>1, <1>3, ControlTable, Zenon
<1>5. /\ Bits25_21(i) \in Register /\ Bits20_16(i) \in Register
      /\ Bits15_11(i) \in Register
  BY FieldRanges, SMT
<1>6. 0 \in Register /\ 0 \in Half
  BY InHalf, SMT DEF Register
<1>7. i.lo \in Half /\ i.hi \in Half
  BY WordHalves, Zenon
<1>8. /\ Decode(i).rd \in Register
      /\ Decode(i).rs1 \in Register
      /\ Decode(i).rs2 \in Register
      /\ Decode(i).imm16 \in Half
  BY <1>2, <1>5, <1>6, <1>7, Zenon DEF DecodedFields
<1>9. \/ Decode(i).imm26 = W(i.hi % 1024, i.lo)
      \/ Decode(i).imm26 = W(0, 0)
  BY <1>2, Zenon DEF DecodedFields, Zero
<1>10. /\ Decode(i).imm26.hi \in 0 .. 1023
       /\ Decode(i).imm26.lo \in Half
       /\ Decode(i).imm26 = W(Decode(i).imm26.hi, Decode(i).imm26.lo)
  <2>1. i.hi % 1024 \in 0 .. 1023
    BY <1>7, HalfRange, SMT
  <2>2. \A h, l : W(h, l).hi = h /\ W(h, l).lo = l
    BY DEF W
  <2>3. 0 \in 0 .. 1023
    BY SMT
  <2> HIDE DEF Half
  <2> QED BY <1>6, <1>7, <1>9, <2>1, <2>2, <2>3
<1> QED BY <1>1, <1>3, <1>4, <1>8, <1>10, SMT DEF LegalFields

\* Immediates and displacements are words.
LEMMA DisplacementTyped ==
  /\ \A n \in Half : \A k \in {"None", "Signed16", "ZeroExtended16", "Upper16"} :
       immediate_value(k, n) \in Word
  /\ \A n \in Half : branch_displacement(n) \in Word
  /\ \A w : w.hi \in 0 .. 1023 /\ w.lo \in Half /\ w = W(w.hi, w.lo) =>
       jump_displacement(w) \in Word
<1>1. 0 \in Half /\ 65535 \in Half
  BY InHalf, SMT
<1>2. ASSUME NEW n \in Half,
             NEW k \in {"None", "Signed16", "ZeroExtended16", "Upper16"}
      PROVE  immediate_value(k, n) \in Word
  <2>1. W(0, n) \in Word /\ W(65535, n) \in Word /\ W(n, 0) \in Word
    BY <1>1, WInWord, SMT
  <2>2. Zero \in Word
    BY ConstantsAreWords, SMT
  <2> HIDE DEF Word
  <2> QED BY <2>1, <2>2, SMT DEF immediate_value
<1>3. ASSUME NEW w \in Word PROVE Times4(w) \in Word
  BY AddInWord, Zenon DEF Times4
<1>4. ASSUME NEW n \in Half PROVE branch_displacement(n) \in Word
  BY <1>2, <1>3, SMT DEF branch_displacement
<1>5. ASSUME NEW w, w.hi \in 0 .. 1023, w.lo \in Half, w = W(w.hi, w.lo)
      PROVE  jump_displacement(w) \in Word
  <2>1. w.hi \in Half /\ (~(w.hi < 512) => w.hi + 64512 \in Half)
    BY <1>5, InHalf, SMT
  <2>2. w \in Word
    BY <1>5, <2>1, WInWord, SMT
  <2>3. ~(w.hi < 512) => W(w.hi + 64512, w.lo) \in Word
    BY <1>5, <2>1, WInWord, SMT
  <2> QED BY <1>3, <2>2, <2>3, SMT DEF jump_displacement
<1> QED BY <1>2, <1>4, <1>5, SMT

\* The ALU returns a word.
LEMMA ExecuteTyped ==
  ASSUME NEW o \in {"Add", "Sub", "And", "Or", "Xor", "Slt", "ShiftLeft",
                    "ShiftRight"},
         NEW a \in Word, NEW b \in Word
  PROVE  Execute(o, a, b) \in Word
<1>1. b.lo % 32 \in 0 .. 31
  BY WordParts, SMT
<1>2. /\ ShiftLeft(a, b.lo % 32) \in Word
      /\ ShiftRight(a, b.lo % 32) \in Word
  BY <1>1, ShiftLeftInWord, ShiftRightInWord, Zenon
<1>3. And(a, b) \in Word /\ Or(a, b) \in Word /\ Xor(a, b) \in Word
  BY BitwiseInWord, Zenon
<1>4. Add(a, b) \in Word /\ Sub(a, b) \in Word
  BY AddInWord, SubInWord, Zenon
<1>5. One \in Word /\ Zero \in Word
  BY ConstantsAreWords, Zenon
<1> QED BY <1>2, <1>3, <1>4, <1>5, SMT DEF Execute
=============================================================================
