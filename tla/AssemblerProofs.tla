-------------------------- MODULE AssemblerProofs ---------------------------
(***************************************************************************)
(* What assembler.py emits, for every source file.  The inductive          *)
(* invariant says that statements were laid out from the source with       *)
(* addresses and labels that are multiples of 4 (LaidOut), and that the    *)
(* words so far are the packed forms of accepted statements (Emitted).     *)
(* From it: each word decodes to its statement in the C++ decoder, runs    *)
(* alike on both machines, and is printed by disassembler.py as a          *)
(* statement that assembles to the same word.  A third part of the         *)
(* invariant says why the assembler stopped (Refused): a statement it      *)
(* refuses has no encoding.                                                *)
(***************************************************************************)
EXTENDS Assembler, InstructionEffectProofs, SequenceTheorems

------------------------------------------------------------------------------
(***************************************************************************)
(* Integers as words: addition modulo 2^32 is what Add computes.           *)
(***************************************************************************)

\* Quotient and remainder of a sum, from those of its terms.
LEMMA SumOfParts ==
  ASSUME NEW x \in Int, NEW y \in Int
  PROVE  LET low == (x % 65536) + (y % 65536)
         IN  /\ (x + y) % 65536 = low % 65536
             /\ (x + y) \div 65536
                  = (x \div 65536) + (y \div 65536) + (low \div 65536)
<1> DEFINE xl == x % 65536
           xq == x \div 65536
           yl == y % 65536
           yq == y \div 65536
<1>1. /\ x = 65536 * xq + xl /\ xq \in Int /\ xl \in Int
      /\ y = 65536 * yq + yl /\ yq \in Int /\ yl \in Int
  BY SMT
<1> HIDE DEF xl, xq, yl, yq
<1>2. /\ (x + y) % 65536 = (xl + yl) % 65536
      /\ (x + y) \div 65536 = xq + yq + ((xl + yl) \div 65536)
  BY <1>1, SMT
<1> QED BY <1>2 DEF xl, xq, yl, yq

\* The reduction of a sum with three terms, two of them reduced already.
LEMMA ReducedSum ==
  ASSUME NEW p \in Int, NEW q \in Int, NEW r \in Int
  PROVE  ((p % 65536) + (q % 65536) + r) % 65536 = (p + q + r) % 65536
<1> DEFINE pl == p % 65536
           pq == p \div 65536
           ql == q % 65536
           qq == q \div 65536
<1>1. /\ p = 65536 * pq + pl /\ pq \in Int /\ pl \in Int
      /\ q = 65536 * qq + ql /\ qq \in Int /\ ql \in Int
  BY SMT
<1> HIDE DEF pl, pq, ql, qq
<1>2. (pl + ql + r) % 65536 = (p + q + r) % 65536
  BY <1>1, SMT
<1> QED BY <1>2 DEF pl, ql

\* Adding words is adding integers.
LEMMA WordOfSum ==
  ASSUME NEW x \in Int, NEW y \in Int
  PROVE  Add(WordOf(x), WordOf(y)) = WordOf(x + y)
<1> DEFINE xq == x \div 65536
           yq == y \div 65536
           xl == x % 65536
           yl == y % 65536
           low == xl + yl
           carry == low \div 65536
<1>1. Add(WordOf(x), WordOf(y)) =
        W(((xq % 65536) + (yq % 65536) + carry) % 65536, low % 65536)
  BY SMT DEF Add, WordOf, W, HalfMod
<1>2. xq \in Int /\ yq \in Int /\ carry \in Int
  BY SMT
<1>3. ((xq % 65536) + (yq % 65536) + carry) % 65536 = (xq + yq + carry) % 65536
  <2> HIDE DEF xq, yq, carry
  <2> QED BY <1>2, ReducedSum, SMT
<1>4. (x + y) % 65536 = low % 65536 /\ (x + y) \div 65536 = xq + yq + carry
  BY SumOfParts, SMT
<1>5. WordOf(x + y) = W((xq + yq + carry) % 65536, low % 65536)
  <2> HIDE DEF xq, yq, carry, low
  <2> QED BY <1>4, SMT DEF WordOf
<1> HIDE DEF xq, yq, carry, low
<1> QED BY <1>1, <1>3, <1>5, SMT

\* Two doublings are a multiplication by four.
LEMMA WordOfTimes4 ==
  ASSUME NEW v \in Int
  PROVE  Times4(WordOf(v)) = WordOf(4 * v)
<1> DEFINE v2 == v + v
<1>1. Add(WordOf(v), WordOf(v)) = WordOf(v2)
  BY WordOfSum, SMT
<1>2. v2 \in Int /\ v2 + v2 = 4 * v
  BY SMT
<1> HIDE DEF v2
<1>3. Add(WordOf(v2), WordOf(v2)) = WordOf(v2 + v2)
  BY <1>2, WordOfSum, Zenon
<1> QED BY <1>1, <1>2, <1>3, SMT DEF Times4

------------------------------------------------------------------------------
(***************************************************************************)
(* What encode_statement packs.                                            *)
(***************************************************************************)

\* RET is an abbreviation.
CodeOf(s) == IF s.text.op = RET THEN OP_JR ELSE s.text.op
RegA(s)   == IF s.text.op = RET THEN 31 ELSE s.text.a

\* The numbers that fit their fields, for the opcodes 9 .. 21.
InRange(op, v) ==
  /\ v \in Int
  /\ op \in {9, 14, 15} \cup 16 .. 19 => -32768 <= v /\ v <= 32767
  /\ op \in 10 .. 13 => 0 <= v /\ v <= 65535
  /\ op \in {20, 21} => -33554432 <= v /\ v <= 33554431

\* A statement other than .WORD whose registers fit their fields and whose
\* label is known.
Operand(s) ==
  /\ CodeOf(s) \in Opcodes
  /\ RegA(s) \in 0 .. 31 /\ s.text.b \in 0 .. 31 /\ s.text.c \in 0 .. 31
  /\ CodeOf(s) \notin 1 .. 8 => s.text.c = 0
  /\ CodeOf(s) \in {0, 13, 20, 21, 22, 23} => s.text.b = 0
  /\ CodeOf(s) \in {0, 20, 21, 23} => RegA(s) = 0
  /\ CodeOf(s) \in 9 .. 21 => Value(s) \in Int

\* The halves of the word.
High(s) == CodeOf(s) * 1024
             + (IF CodeOf(s) \in {20, 21} THEN (Value(s) \div 65536) % 1024
                                          ELSE RegA(s) * 32 + s.text.b)
Low(s)  == IF CodeOf(s) \in 1 .. 8 THEN s.text.c * 2048
           ELSE IF CodeOf(s) \in {0, 22, 23} THEN 0
           ELSE Value(s) % 65536

\* The range checks, without intervals.
LEMMA CheckedRange ==
  ASSUME NEW v, NEW low \in Int, NEW high \in Int
  PROVE  checked_range(v, low, high) <=> v \in Int /\ low <= v /\ v <= high
BY SMT DEF checked_range

\* ImmediateInRange by opcode.
LEMMA RangeTable ==
  ASSUME NEW op \in Opcodes, NEW v
  PROVE  /\ op \in 9 .. 21 => (ImmediateInRange(op, v) <=> InRange(op, v))
         /\ op \in 0 .. 8 \/ op \in {22, 23} => ImmediateInRange(op, v)
<1> DEFINE s16 == checked_range(v, -32768, 32767)
           u16 == checked_range(v, 0, 65535)
           s26 == checked_range(v, -33554432, 33554431)
<1>1. /\ s16 <=> v \in Int /\ -32768 <= v /\ v <= 32767
      /\ u16 <=> v \in Int /\ 0 <= v /\ v <= 65535
      /\ s26 <=> v \in Int /\ -33554432 <= v /\ v <= 33554431
  BY CheckedRange, SMT
<1>2. ImmediateInRange(op, v) =
        CASE op \in BRANCH_INSTRUCTIONS \cup {OP_ADDI, OP_LW, OP_SW} -> s16
          [] op \in {OP_ANDI, OP_ORI, OP_XORI, OP_LUI} -> u16
          [] op \in JUMP_INSTRUCTIONS -> s26
          [] OTHER -> TRUE
  BY SMT DEF ImmediateInRange
<1>3. op \in 0 .. 23
  BY DEF Opcodes
<1> HIDE DEF s16, u16, s26
<1>4. /\ op \in {9, 14, 15} \cup 16 .. 19 => (ImmediateInRange(op, v) <=> s16)
      /\ op \in 10 .. 13 => (ImmediateInRange(op, v) <=> u16)
      /\ op \in {20, 21} => (ImmediateInRange(op, v) <=> s26)
      /\ op \in 0 .. 8 \/ op \in {22, 23} => ImmediateInRange(op, v)
  BY <1>2, <1>3, SMT DEF BRANCH_INSTRUCTIONS, JUMP_INSTRUCTIONS, OP_ADDI,
     OP_LW, OP_SW, OP_ANDI, OP_ORI, OP_XORI, OP_LUI, OP_BEQ, OP_BGE, OP_J,
     OP_JAL
<1> QED BY <1>1, <1>4, SMT DEF InRange

\* RET and .WORD are no opcodes.
LEMMA PseudoOps ==
  /\ Opcodes = OP_NOP .. OP_HALT
  /\ RET \notin Opcodes /\ WORD \notin Opcodes /\ RET # WORD
<1>1. Opcodes = OP_NOP .. OP_HALT
  BY SMT DEF Opcodes, OP_NOP, OP_HALT
<1> QED BY <1>1, PseudoAreNoOpcodes, SMT

\* The parts of a parsed statement, by opcode.
LEMMA StatementFields ==
  ASSUME NEW t \in Statement
  PROVE  /\ t.op \in Opcodes \cup {RET, WORD}
         /\ t.imm \in Int /\ t.a \in Nat /\ t.b \in Nat /\ t.c \in Nat
         /\ t.data \in [hi : Int, lo : Half]
         /\ t.target # NoLabel => t.op \in 16 .. 21
         /\ t.op \notin 1 .. 8 => t.c = 0
         /\ t.op \in {0, 13, 20, 21, 22, 23} => t.b = 0
         /\ t.op \in {0, 20, 21, 23} => t.a = 0
         /\ t.op \in {RET, WORD} => t.a = 0 /\ t.b = 0
<1>1. /\ t.op \in (OP_NOP .. OP_HALT) \cup {RET, WORD}
      /\ t.imm \in Int /\ t.a \in Nat /\ t.b \in Nat /\ t.c \in Nat
      /\ t.data \in [hi : Int, lo : Half]
      /\ t.target # NoLabel =>
           t.op \in BRANCH_INSTRUCTIONS \cup JUMP_INSTRUCTIONS
      /\ t.op \notin R_INSTRUCTIONS => t.c = 0
      /\ t.op \in {OP_NOP, OP_HALT, OP_LUI, OP_JR} \cup JUMP_INSTRUCTIONS =>
           t.b = 0
      /\ t.op \in {OP_NOP, OP_HALT} \cup JUMP_INSTRUCTIONS => t.a = 0
      /\ t.op \in {RET, WORD} => t.a = 0 /\ t.b = 0
  BY SMT DEF Statement
<1>2. /\ BRANCH_INSTRUCTIONS \cup JUMP_INSTRUCTIONS = 16 .. 21
      /\ R_INSTRUCTIONS = 1 .. 8
      /\ {OP_NOP, OP_HALT, OP_LUI, OP_JR} \cup JUMP_INSTRUCTIONS
           = {0, 13, 20, 21, 22, 23}
      /\ {OP_NOP, OP_HALT} \cup JUMP_INSTRUCTIONS = {0, 20, 21, 23}
  BY SMT DEF BRANCH_INSTRUCTIONS, JUMP_INSTRUCTIONS, R_INSTRUCTIONS, OP_BEQ,
     OP_BGE, OP_J, OP_JAL, OP_ADD, OP_SHR, OP_NOP, OP_HALT, OP_LUI, OP_JR
<1> QED BY <1>1, <1>2, PseudoOps, Zenon

\* What an accepted statement has passed.
LEMMA EncodableParts ==
  ASSUME NEW s, Encodable(s)
  PROVE  /\ s.text.op = WORD => s.text.data.hi \in Half
         /\ s.text.a \in 0 .. 31 /\ s.text.b \in 0 .. 31 /\ s.text.c \in 0 .. 31
         /\ s.text.target # NoLabel => s.text.target \in DOMAIN labels
         /\ s.text.op # WORD => ImmediateInRange(s.text.op, Value(s))
<1> DEFINE x == s.text.data.hi
<1>1. /\ s.text.op = WORD => checked_range(x, 0, 65535)
      /\ {s.text.a, s.text.b, s.text.c} \subseteq Register
      /\ s.text.target # NoLabel => s.text.target \in DOMAIN labels
      /\ s.text.op # WORD => ImmediateInRange(s.text.op, Value(s))
  BY SMT DEF Encodable
<1>2. checked_range(x, 0, 65535) => x \in Half
  <2> HIDE DEF x
  <2>1. checked_range(x, 0, 65535) => x \in Int /\ 0 <= x /\ x <= 65535
    BY CheckedRange, SMT
  <2> QED BY <2>1, InHalf, SMT
<1>3. s.text.a \in 0 .. 31 /\ s.text.b \in 0 .. 31 /\ s.text.c \in 0 .. 31
  BY <1>1, SMT DEF Register
<1> QED BY <1>1, <1>2, <1>3, SMT

\* The operands of an accepted statement fit their fields.
LEMMA OperandsInRange ==
  ASSUME NEW s, s.text \in Statement, Encodable(s), s.text.op # WORD
  PROVE  /\ Operand(s)
         /\ CodeOf(s) \in 9 .. 21 => InRange(CodeOf(s), Value(s))
         /\ s.text.target # NoLabel => CodeOf(s) \in 16 .. 21
<1> DEFINE t  == s.text
           op == CodeOf(s)
           a  == RegA(s)
           v  == Value(s)
<1>1. /\ t.op \in Opcodes \cup {RET, WORD}
      /\ t.target # NoLabel => t.op \in 16 .. 21
      /\ t.op \notin 1 .. 8 => t.c = 0
      /\ t.op \in {0, 13, 20, 21, 22, 23} => t.b = 0
      /\ t.op \in {0, 20, 21, 23} => t.a = 0
      /\ t.op \in {RET, WORD} => t.a = 0 /\ t.b = 0
  BY StatementFields, SMT
<1>2. /\ t.a \in 0 .. 31 /\ t.b \in 0 .. 31 /\ t.c \in 0 .. 31
      /\ t.target # NoLabel => t.target \in DOMAIN labels
      /\ ImmediateInRange(t.op, v)
  BY EncodableParts, SMT
<1>3. /\ t.op = RET => op = 22 /\ a = 31
      /\ t.op # RET => op = t.op /\ a = t.a
  BY SMT DEF CodeOf, RegA, OP_JR
<1>4. t.op = RET => t.op \notin 0 .. 23
  BY PseudoOps DEF Opcodes
<1>5. t.op # RET => t.op \in 0 .. 23
  BY <1>1 DEF Opcodes
<1>6. op \in 9 .. 21 => InRange(op, v)
  <2> HIDE DEF op, t, v
  <2>1. CASE t.op = RET
    BY <1>3, <2>1, SMT
  <2>2. CASE t.op # RET
    <3>1. op \in Opcodes /\ op \in 0 .. 23 /\ ImmediateInRange(op, v)
      BY <1>2, <1>3, <1>5, <2>2, SMT DEF Opcodes
    <3>2. op \in 9 .. 21 => (ImmediateInRange(op, v) <=> InRange(op, v))
      BY <3>1, RangeTable, Zenon
    <3> QED BY <3>1, <3>2, SMT
  <2> QED BY <2>1, <2>2
<1> HIDE DEF t, op, a, v
<1>7. /\ op \in Opcodes
      /\ a \in 0 .. 31 /\ t.b \in 0 .. 31 /\ t.c \in 0 .. 31
      /\ op \notin 1 .. 8 => t.c = 0
      /\ op \in {0, 13, 20, 21, 22, 23} => t.b = 0
      /\ op \in {0, 20, 21, 23} => a = 0
      /\ t.target # NoLabel => op \in 16 .. 21
  <2>1. CASE t.op = RET
    BY <2>1, <1>1, <1>2, <1>3, <1>4, SMT DEF Opcodes
  <2>2. CASE t.op # RET
    BY <2>2, <1>1, <1>2, <1>3, <1>5, SMT DEF Opcodes
  <2> QED BY <2>1, <2>2
<1>8. op \in 9 .. 21 => v \in Int
  <2>1. InRange(op, v) => v \in Int
    BY SMT DEF InRange
  <2> QED BY <1>6, <2>1, Zenon
<1> QED BY <1>6, <1>7, <1>8, Zenon DEF Operand, t, op, a, v

\* The packed word, as two halves.
LEMMA PackedHalves ==
  ASSUME NEW s, s.text.op # WORD, CodeOf(s) \in Opcodes,
         CodeOf(s) \in {0, 13, 22, 23} => s.text.b = 0,
         CodeOf(s) \in {0, 23} => RegA(s) = 0,
         RegA(s) \in Int, s.text.b \in Int
  PROVE  Packed(s) = W(High(s), Low(s))
<1> DEFINE op == CodeOf(s)
           a  == RegA(s)
           b  == s.text.b
           v  == Value(s)
           cc == s.text.c
           data == s.text.data
<1>1. Packed(s) =
        CASE op = WORD                -> data
          [] op \in {OP_NOP, OP_HALT} -> W(op * 1024, 0)
          [] op \in R_INSTRUCTIONS    -> W(op * 1024 + a * 32 + b, cc * 2048)
          [] op = OP_LUI              -> W(op * 1024 + a * 32, v % 65536)
          [] op \in JUMP_INSTRUCTIONS ->
               W(op * 1024 + ((v \div 65536) % 1024), v % 65536)
          [] op = OP_JR               -> W(op * 1024 + a * 32, 0)
          [] OTHER                    -> W(op * 1024 + a * 32 + b, v % 65536)
  BY SMT DEF Packed, CodeOf, RegA
<1>2. op # WORD /\ op \in 0 .. 23
  BY PseudoOps DEF Opcodes
<1>3. /\ op \in {0, 13, 22, 23} => b = 0
      /\ op \in {0, 23} => a = 0
      /\ a \in Int /\ b \in Int
  BY SMT
<1>4. /\ High(s) = op * 1024 + (IF op \in {20, 21} THEN (v \div 65536) % 1024
                                                   ELSE a * 32 + b)
      /\ Low(s) = IF op \in 1 .. 8 THEN cc * 2048
                  ELSE IF op \in {0, 22, 23} THEN 0 ELSE v % 65536
  BY SMT DEF High, Low
<1> HIDE DEF op, a, b, v, cc, data
<1>5. CASE op \in {0, 23}
  <2>1. Packed(s) = W(op * 1024, 0)
    BY <1>1, <1>2, <1>5, SMT
       DEF OP_NOP, OP_HALT, R_INSTRUCTIONS, OP_ADD, OP_SHR, OP_LUI, OP_JR,
           JUMP_INSTRUCTIONS, OP_J, OP_JAL
  <2>2. High(s) = op * 1024 /\ Low(s) = 0
    BY <1>3, <1>4, <1>5, SMT
  <2> QED BY <2>1, <2>2
<1>6. CASE op \in 1 .. 8
  BY <1>1, <1>2, <1>3, <1>4, <1>6, SMT
     DEF OP_NOP, OP_HALT, R_INSTRUCTIONS, OP_ADD, OP_SHR, OP_LUI, OP_JR,
         JUMP_INSTRUCTIONS, OP_J, OP_JAL
<1>7. CASE op \in {20, 21}
  BY <1>1, <1>2, <1>3, <1>4, <1>7, SMT
     DEF OP_NOP, OP_HALT, R_INSTRUCTIONS, OP_ADD, OP_SHR, OP_LUI, OP_JR,
         JUMP_INSTRUCTIONS, OP_J, OP_JAL
<1>8. CASE op = 13 \/ op = 22
  <2>1. Packed(s) = W(op * 1024 + a * 32, IF op = 13 THEN v % 65536 ELSE 0)
    BY <1>1, <1>2, <1>8, SMT
       DEF OP_NOP, OP_HALT, R_INSTRUCTIONS, OP_ADD, OP_SHR, OP_LUI, OP_JR,
           JUMP_INSTRUCTIONS, OP_J, OP_JAL
  <2>2. /\ High(s) = op * 1024 + a * 32
        /\ Low(s) = IF op = 13 THEN v % 65536 ELSE 0
    BY <1>3, <1>4, <1>8, SMT
  <2> QED BY <2>1, <2>2
<1>9. CASE op \in 9 .. 12 \/ op \in 14 .. 19
  <2>1. Packed(s) = W(op * 1024 + a * 32 + b, v % 65536)
    BY <1>1, <1>2, <1>9, SMT
       DEF OP_NOP, OP_HALT, R_INSTRUCTIONS, OP_ADD, OP_SHR, OP_LUI, OP_JR,
           JUMP_INSTRUCTIONS, OP_J, OP_JAL
  <2>2. High(s) = op * 1024 + a * 32 + b /\ Low(s) = v % 65536
    BY <1>2, <1>3, <1>4, <1>9, SMT
  <2> QED BY <2>1, <2>2
<1> QED BY <1>2, <1>5, <1>6, <1>7, <1>8, <1>9, SMT

\* The packed word is a word, and its fields are the operands.
LEMMA PackedFields ==
  ASSUME NEW s, Operand(s)
  PROVE  /\ High(s) \in Half /\ Low(s) \in Half
         /\ High(s) \div 1024 = CodeOf(s)
         /\ CodeOf(s) \notin {20, 21} => /\ (High(s) \div 32) % 32 = RegA(s)
                                         /\ High(s) % 32 = s.text.b
                                         /\ High(s) % 1024 = RegA(s) * 32 + s.text.b
         /\ CodeOf(s) \in {20, 21} =>
              High(s) % 1024 = (Value(s) \div 65536) % 1024
         /\ CodeOf(s) \in 1 .. 8 => /\ Low(s) \div 2048 = s.text.c
                                    /\ Low(s) % 2048 = 0
         /\ CodeOf(s) \in {0, 22, 23} => Low(s) = 0
         /\ CodeOf(s) \in 9 .. 21 => Low(s) = Value(s) % 65536
<1> DEFINE op == CodeOf(s)
           a  == RegA(s)
           b  == s.text.b
           cc == s.text.c
           v  == Value(s)
           x  == (v \div 65536) % 1024
<1>1. /\ op \in Int /\ 0 <= op /\ op <= 23
      /\ a \in Int /\ 0 <= a /\ a <= 31
      /\ b \in Int /\ 0 <= b /\ b <= 31
      /\ cc \in Int /\ 0 <= cc /\ cc <= 31
      /\ op \in 9 .. 21 => v \in Int
  BY SMT DEF Operand, Opcodes
<1>2. /\ High(s) = op * 1024 + (IF op \in {20, 21} THEN x ELSE a * 32 + b)
      /\ Low(s) = IF op \in 1 .. 8 THEN cc * 2048
                  ELSE IF op \in {0, 22, 23} THEN 0 ELSE v % 65536
  BY SMT DEF High, Low
<1> HIDE DEF op, a, b, cc, v
<1>3. op \in {20, 21} => x \in Int /\ 0 <= x /\ x <= 1023
  BY <1>1, SMT
<1>4. op \in {20, 21} => /\ High(s) \in Int /\ 0 <= High(s) /\ High(s) <= 65535
                         /\ High(s) \div 1024 = op
                         /\ High(s) % 1024 = x
  <2> HIDE DEF x
  <2> QED BY <1>1, <1>2, <1>3, SMT
<1>5. op \notin {20, 21} =>
        /\ High(s) \in Int /\ 0 <= High(s) /\ High(s) <= 65535
                            /\ High(s) \div 1024 = op
                            /\ (High(s) \div 32) % 32 = a
                            /\ High(s) % 32 = b
                            /\ High(s) % 1024 = a * 32 + b
  BY <1>1, <1>2, SMT
<1>6. /\ Low(s) \in Int /\ 0 <= Low(s) /\ Low(s) <= 65535
      /\ op \in 1 .. 8 => Low(s) \div 2048 = cc /\ Low(s) % 2048 = 0
      /\ op \in {0, 22, 23} => Low(s) = 0
      /\ op \in 9 .. 21 => Low(s) = v % 65536
  BY <1>1, <1>2, SMT
<1>7. High(s) \in Half /\ Low(s) \in Half
  BY <1>4, <1>5, <1>6, InHalf, SMT
<1> HIDE DEF x
<1>8. /\ High(s) \div 1024 = op
      /\ op \notin {20, 21} => /\ (High(s) \div 32) % 32 = a
                               /\ High(s) % 32 = b
                               /\ High(s) % 1024 = a * 32 + b
      /\ op \in {20, 21} => High(s) % 1024 = x
  BY <1>4, <1>5, SMT
<1> QED BY <1>6, <1>7, <1>8, SMT DEF op, a, b, cc, v, x

\* .WORD emits its number.
LEMMA PackedData ==
  ASSUME NEW s, s.text.op = WORD
  PROVE  Packed(s) = s.text.data
<1>1. WORD \notin 0 .. 23 /\ RET # WORD
  BY PseudoOps DEF Opcodes
<1>2. /\ WORD \notin {OP_NOP, OP_HALT} /\ WORD \notin R_INSTRUCTIONS
      /\ WORD # OP_LUI /\ WORD \notin JUMP_INSTRUCTIONS /\ WORD # OP_JR
  BY <1>1, SMT DEF OP_NOP, OP_HALT, R_INSTRUCTIONS, OP_ADD, OP_SHR, OP_LUI,
                   JUMP_INSTRUCTIONS, OP_J, OP_JAL, OP_JR
<1> QED BY <1>1, <1>2, SMT DEF Packed

\* Everything the assembler packs is a 32-bit word.
LEMMA PackedInWord ==
  ASSUME NEW s, s.text \in Statement, Encodable(s)
  PROVE  Packed(s) \in Word
<1>1. CASE s.text.op = WORD
  <2>1. s.text.data \in [hi : Int, lo : Half] /\ s.text.data.hi \in Half
    BY <1>1, StatementFields, EncodableParts, SMT
  <2>2. s.text.data = W(s.text.data.hi, s.text.data.lo)
        /\ s.text.data.lo \in Half
    BY <2>1, SMT DEF W
  <2>3. s.text.data \in Word
    BY <2>1, <2>2, WInWord, Zenon
  <2>4. Packed(s) = s.text.data
    BY <1>1, PackedData, Zenon
  <2> QED BY <2>3, <2>4
<1>2. CASE s.text.op # WORD
  <2>1. Operand(s)
    BY <1>2, OperandsInRange, Zenon
  <2>2. Packed(s) = W(High(s), Low(s))
    BY <1>2, <2>1, PackedHalves, SMT DEF Operand
  <2>3. High(s) \in Half /\ Low(s) \in Half
    BY <2>1, PackedFields, SMT
  <2> QED BY <2>2, <2>3, WInWord, SMT
<1> QED BY <1>1, <1>2

------------------------------------------------------------------------------
(***************************************************************************)
(* What the packed word means to the decoder.                              *)
(***************************************************************************)

\* The immediates and displacements that the C++ decoder recovers.
LEMMA RecoveredSigned ==
  ASSUME NEW v \in Int, -32768 <= v, v <= 32767
  PROVE  immediate_value("Signed16", v % 65536) = WordOf(v)
<1>1. CASE v >= 0
  <2>1. v % 65536 = v /\ (v \div 65536) % 65536 = 0
    BY <1>1, SMT
  <2>2. immediate_value("Signed16", v) = W(0, v)
    BY SMT DEF immediate_value
  <2> QED BY <2>1, <2>2, SMT DEF WordOf
<1>2. CASE v < 0
  <2>1. v % 65536 = v + 65536 /\ (v \div 65536) % 65536 = 65535
    BY <1>2, SMT
  <2>2. immediate_value("Signed16", v + 65536) = W(65535, v + 65536)
    BY SMT DEF immediate_value
  <2> QED BY <2>1, <2>2, SMT DEF WordOf
<1> QED BY <1>1, <1>2

\* The decoder's zero extension gives the number again.
LEMMA RecoveredUnsigned ==
  ASSUME NEW v \in Int, 0 <= v, v <= 65535
  PROVE  /\ immediate_value("ZeroExtended16", v % 65536) = WordOf(v)
         /\ immediate_value("Upper16", v % 65536) = W(v, 0)
<1>1. v % 65536 = v /\ (v \div 65536) % 65536 = 0
  BY SMT
<1>2. /\ immediate_value("ZeroExtended16", v) = W(0, v)
      /\ immediate_value("Upper16", v) = W(v, 0)
  BY SMT DEF immediate_value
<1> QED BY <1>1, <1>2, SMT DEF WordOf

\* The decoder's 26-bit displacement gives the number again.
LEMMA RecoveredJump ==
  ASSUME NEW v \in Int, -33554432 <= v, v <= 33554431
  PROVE  jump_displacement(W((v \div 65536) % 1024, v % 65536)) = WordOf(4 * v)
<1> DEFINE q == v \div 65536
           l == v % 65536
<1>1. q \in Int /\ -512 <= q /\ q <= 511
  BY SMT
<1>2. WordOf(v) = W(q % 65536, l)
  BY DEF WordOf
<1> HIDE DEF q, l
<1>3. W(q % 1024, l).hi = q % 1024 /\ W(q % 1024, l).lo = l
  BY DEF W
<1>4. CASE q >= 0
  <2>1. q % 1024 = q /\ q % 65536 = q /\ q < 512
    BY <1>1, <1>4, SMT
  <2> QED BY <1>2, <1>3, <2>1, WordOfTimes4, SMT DEF jump_displacement, q, l
<1>5. CASE q < 0
  <2>1. q % 1024 = q + 1024 /\ q % 65536 = q + 1024 + 64512 /\ ~(q + 1024 < 512)
    BY <1>1, <1>5, SMT
  <2>2. jump_displacement(W(q % 1024, l)) = Times4(W(q + 1024 + 64512, l))
    BY <1>3, <2>1, SMT DEF jump_displacement
  <2> QED BY <1>2, <2>1, <2>2, WordOfTimes4, SMT DEF q, l
<1> QED BY <1>1, <1>4, <1>5, SMT

\* A packed word decodes without error to its opcode and its operands.
LEMMA PackedDecodes ==
  ASSUME NEW s, Operand(s)
  PROVE  LET w == W(High(s), Low(s))
         IN  /\ w \in Word
             /\ Opcode(w) = CodeOf(s)
             /\ DecodeError(w) = "None"
             /\ Decode(w).opcode = CodeOf(s)
             /\ Operands(Decode(w)) = <<RegA(s), s.text.b, s.text.c>>
             /\ CodeOf(s) \in 9 .. 19 => Decode(w).imm16 = Value(s) % 65536
             /\ CodeOf(s) \in {20, 21} =>
                  Decode(w).imm26 = W((Value(s) \div 65536) % 1024,
                                      Value(s) % 65536)
<1> DEFINE w  == W(High(s), Low(s))
           op == CodeOf(s)
           a  == RegA(s)
           b  == s.text.b
           cc == s.text.c
           v  == Value(s)
           d  == Decode(w)
<1>1. /\ op \in Opcodes /\ op \in 0 .. 23
      /\ op \notin 1 .. 8 => cc = 0
      /\ op \in {0, 13, 20, 21, 22, 23} => b = 0
      /\ op \in {0, 20, 21, 23} => a = 0
  BY SMT DEF Operand, Opcodes
<1>2. /\ High(s) \in Half /\ Low(s) \in Half
      /\ High(s) \div 1024 = op
      /\ op \notin {20, 21} => /\ (High(s) \div 32) % 32 = a
                               /\ High(s) % 32 = b
                               /\ High(s) % 1024 = a * 32 + b
      /\ op \in {20, 21} => High(s) % 1024 = (v \div 65536) % 1024
      /\ op \in 1 .. 8 => Low(s) \div 2048 = cc /\ Low(s) % 2048 = 0
      /\ op \in {0, 22, 23} => Low(s) = 0
      /\ op \in 9 .. 21 => Low(s) = v % 65536
  BY PackedFields, SMT
<1>3. w.hi = High(s) /\ w.lo = Low(s)
  BY DEF W
<1>4. w \in Word
  BY <1>2, WInWord, SMT
<1> HIDE DEF w, op, a, b, cc, v, d
<1>5. /\ Opcode(w) = op
      /\ op \notin {20, 21} => Bits25_21(w) = a /\ Bits20_16(w) = b
      /\ op \in 0 .. 8 \/ op = 23 => Bits15_11(w) = cc
      /\ op \notin {20, 21} => w.hi % 1024 = a * 32 + b
      /\ op \in {20, 21} => w.hi % 1024 = (v \div 65536) % 1024
      /\ op \in 1 .. 8 => w.lo % 2048 = 0
      /\ op \in {0, 22, 23} => w.lo = 0
      /\ op \in 9 .. 21 => w.lo = v % 65536
  BY <1>1, <1>2, <1>3, SMT DEF Opcode, Bits25_21, Bits20_16, Bits15_11
<1>6. DecodedFields(w, d)
  <2>1. Opcode(w) \in Opcodes
    BY <1>1, <1>5, SMT
  <2> QED BY <1>4, <2>1, DecodeTable, Zenon DEF d
<1>7. format_for(op) =
        IF op \in 0 .. 8 \/ op = 23 THEN "R"
        ELSE IF op \in 9 .. 14 THEN "I"
        ELSE IF op = 15 THEN "S"
        ELSE IF op \in 16 .. 19 THEN "B"
        ELSE IF op \in {20, 21} THEN "J" ELSE "Jr"
  BY <1>1, FormatTable
<1>8. DecodeError(w) = "None"
  <2>1. ~DecodeMalformed(w)
    BY <1>1, <1>5, SMT DEF DecodeMalformed, OP_NOP, OP_HALT, RTypeOps, OP_ADD,
       OP_SHR, OP_LUI, OP_JR
  <2>2. DecodeValid(w)
    BY <1>1, <1>5, <2>1, SMT DEF DecodeValid, KnownOps, OP_NOP, OP_HALT
  <2>3. RtlError(w) = "None"
    BY <2>2, Zenon DEF RtlError
  <2> QED BY <1>4, <2>3, SameDecodeError, Zenon
<1>9. /\ d.opcode = op
      /\ op \in 9 .. 19 => d.imm16 = v % 65536
      /\ op \in {20, 21} => d.imm26 = W(w.hi % 1024, w.lo)
      /\ op \in 0 .. 14 \/ op = 23 => d.rd = a
      /\ op \in 0 .. 15 \/ op = 23 => d.rs1 = b
      /\ op \in 16 .. 19 \/ op = 22 => d.rs1 = a
      /\ op \in 0 .. 8 \/ op = 23 => d.rs2 = cc
      /\ op = 15 => d.rs2 = a
      /\ op \in 16 .. 19 => d.rs2 = b
  BY <1>1, <1>5, <1>6, SMT DEF DecodedFields
<1>10. Operands(d) = <<a, b, cc>>
  <2>1. CASE op \in 0 .. 8 \/ op = 23
    BY <2>1, <1>1, <1>7, <1>9, SMT DEF Operands, OP_LUI
  <2>2. CASE op = 13
    BY <2>2, <1>1, <1>7, <1>9, SMT DEF Operands, OP_LUI
  <2>3. CASE op \in 9 .. 14 /\ op # 13
    BY <2>3, <1>1, <1>7, <1>9, SMT DEF Operands, OP_LUI
  <2>4. CASE op = 15
    BY <2>4, <1>1, <1>7, <1>9, SMT DEF Operands, OP_LUI
  <2>5. CASE op \in 16 .. 19
    BY <2>5, <1>1, <1>7, <1>9, SMT DEF Operands, OP_LUI
  <2>6. CASE op \in {20, 21}
    BY <2>6, <1>1, <1>7, <1>9, SMT DEF Operands, OP_LUI
  <2>7. CASE op = 22
    BY <2>7, <1>1, <1>7, <1>9, SMT DEF Operands, OP_LUI
  <2> QED BY <1>1, <2>1, <2>2, <2>3, <2>4, <2>5, <2>6, <2>7, SMT
<1>11. op \in {20, 21} => d.imm26 = W((v \div 65536) % 1024, v % 65536)
  BY <1>5, <1>9, SMT
<1> QED BY <1>4, <1>5, <1>8, <1>9, <1>10, <1>11, SMT
        DEF w, op, a, b, cc, v, d

\* A statement whose address and label are those of instructions.
Placed(s) ==
  /\ s.text \in Statement
  /\ s.address \in Int /\ s.address % 4 = 0
  /\ s.text.target \in DOMAIN labels =>
       /\ labels[s.text.target] \in Int
       /\ labels[s.text.target] % 4 = 0

\* It names no label, or a defined one.
KnownLabel(s) == s.text.target # NoLabel => s.text.target \in DOMAIN labels

\* Value is the number, or four times it is the distance to the label.
LEMMA ValueOfLabel ==
  ASSUME NEW s, Placed(s), KnownLabel(s)
  PROVE  /\ Value(s) \in Int
         /\ s.text.target = NoLabel => Value(s) = s.text.imm
         /\ s.text.target # NoLabel =>
              s.address + 4 + 4 * Value(s) = labels[s.text.target]
<1> DEFINE x == labels[s.text.target]
<1>1. CASE s.text.target = NoLabel
  BY <1>1, StatementFields, SMT DEF Value, Placed
<1>2. CASE s.text.target # NoLabel
  <2>1. Value(s) = (x - (s.address + 4)) \div 4
    BY <1>2, SMT DEF Value, byte_delta
  <2>2. /\ x \in Int /\ x % 4 = 0
        /\ s.address \in Int /\ s.address % 4 = 0
    BY <1>2, SMT DEF Placed, KnownLabel
  <2> HIDE DEF x
  <2>3. Value(s) \in Int /\ s.address + 4 + 4 * Value(s) = x
    BY <2>1, <2>2, SMT
  <2> QED BY <1>2, <2>3 DEF x
<1> QED BY <1>1, <1>2

\* Where a displacement of v instructions leads.
LEMMA Destination ==
  ASSUME NEW s, Placed(s), KnownLabel(s)
  PROVE  Add(WordOf(s.address + 4), WordOf(4 * Value(s))) =
           IF s.text.target # NoLabel THEN WordOf(labels[s.text.target])
           ELSE Add(WordOf(s.address + 4), Times4(WordOf(s.text.imm)))
<1> DEFINE n == s.address + 4
           v == Value(s)
<1>1. n \in Int /\ v \in Int /\ 4 * v \in Int
  BY ValueOfLabel, SMT DEF Placed
<1>2. CASE s.text.target # NoLabel
  <2>1. n + 4 * v = labels[s.text.target]
    BY <1>2, ValueOfLabel, SMT
  <2> DEFINE m == 4 * v
  <2>2. m \in Int
    BY <1>1
  <2> HIDE DEF n, m
  <2>3. Add(WordOf(n), WordOf(m)) = WordOf(n + m)
    BY <1>1, <2>2, WordOfSum, Zenon
  <2> QED BY <1>2, <2>1, <2>3, SMT DEF n, m
<1>3. CASE s.text.target = NoLabel
  <2>1. v = s.text.imm
    BY <1>3, ValueOfLabel
  <2>2. Times4(WordOf(v)) = WordOf(4 * v)
    BY <1>1, WordOfTimes4, SMT
  <2> QED BY <1>3, <2>1, <2>2, SMT
<1> QED BY <1>2, <1>3

\* The meaning of an accepted statement's word.
LEMMA PackedMeans ==
  ASSUME NEW s, Placed(s), Encodable(s)
  PROVE  MeansStatement(Packed(s), s)
<1> DEFINE t == s.text
           word == Packed(s)
<1>0. t \in Statement
  BY DEF Placed
<1>1. CASE t.op = WORD
  <2>1. word \in Word
    BY <1>0, PackedInWord, Zenon
  <2>2. word = t.data
    BY <1>1, PackedData, Zenon
  <2> QED BY <1>1, <2>1, <2>2, SMT DEF MeansStatement
<1>2. CASE t.op # WORD
  <2> DEFINE op   == CodeOf(s)
             v    == Value(s)
             d    == Decode(word)
             c    == control_for(d.opcode)
             kind == c.immediate_kind
             flow == c.control_flow
             after == WordOf(s.address + 4)
             goes == CASE flow = "ConditionalBranch" ->
                            Add(after, branch_displacement(d.imm16))
                       [] flow = "RelativeJump" ->
                            Add(after, jump_displacement(d.imm26))
                       [] OTHER -> Zero
             wanted == IF t.target # NoLabel THEN WordOf(labels[t.target])
                       ELSE Add(after, Times4(WordOf(t.imm)))
  <2>1. Operand(s)
    BY <1>0, <1>2, OperandsInRange, Zenon
  <2>2. word = W(High(s), Low(s))
    BY <1>2, <2>1, PackedHalves, SMT DEF Operand
  <2>3. /\ DecodeError(word) = "None"
        /\ d.opcode = op
        /\ Operands(d) = <<RegA(s), t.b, t.c>>
        /\ op \in 9 .. 19 => d.imm16 = v % 65536
        /\ op \in {20, 21} => d.imm26 = W((v \div 65536) % 1024, v % 65536)
    BY <2>1, <2>2, PackedDecodes, SMT
  <2>4. op = IF t.op = RET THEN OP_JR ELSE t.op
    BY DEF CodeOf
  <2>5. Operands(d) = IF t.op = RET THEN <<31, 0, 0>> ELSE <<t.a, t.b, t.c>>
    <3>1. t.op = RET => t.b = 0 /\ t.c = 0
      <4>1. t.op = RET => t.op \notin 1 .. 8
        BY PseudoOps DEF Opcodes
      <4> QED BY <1>0, <4>1, StatementFields, SMT
    <3> HIDE DEF d
    <3> QED BY <2>3, <3>1, SMT DEF RegA
  <2>6. /\ kind = IF op \in {9, 14, 15} THEN "Signed16"
                  ELSE IF op \in {10, 11, 12} THEN "ZeroExtended16"
                  ELSE IF op = 13 THEN "Upper16" ELSE "None"
        /\ flow = IF op \in 16 .. 19 THEN "ConditionalBranch"
                  ELSE IF op \in {20, 21} THEN "RelativeJump"
                  ELSE IF op = 22 THEN "RegisterJump" ELSE "Sequential"
    <3>1. op \in Opcodes
      BY <2>1, Zenon DEF Operand
    <3>2. ControlColumns(op, c)
      BY <2>3, <3>1, ControlTable, SMT
    <3> HIDE DEF c, op
    <3> QED BY <3>2, Zenon DEF ControlColumns
  <2>7. /\ op \in 9 .. 21 => InRange(op, v)
        /\ t.target # NoLabel => op \in 16 .. 21
    BY <1>0, <1>2, OperandsInRange, Zenon
  <2>0. KnownLabel(s)
    BY EncodableParts, Zenon DEF KnownLabel
  <2>8. v \in Int /\ (t.target = NoLabel => v = t.imm)
    BY <2>0, ValueOfLabel, Zenon
  <2>9. Add(after, WordOf(4 * v)) = wanted
    BY <2>0, Destination, SMT
  <2> HIDE DEF op, v, d, kind, flow, after, wanted, word, t
  <2>10. /\ kind \in {"Signed16", "ZeroExtended16"} =>
              immediate_value(kind, d.imm16) = WordOf(t.imm)
         /\ kind = "Upper16" => immediate_value(kind, d.imm16) = W(t.imm, 0)
    <3>1. CASE op \in {9, 14, 15}
      <4>1. /\ v = t.imm /\ kind = "Signed16" /\ d.imm16 = v % 65536
            /\ -32768 <= v /\ v <= 32767
        BY <3>1, <2>3, <2>6, <2>7, <2>8, SMT DEF InRange
      <4> QED BY <2>8, <4>1, RecoveredSigned, SMT
    <3>2. CASE op \in {10, 11, 12}
      <4>1. /\ v = t.imm /\ kind = "ZeroExtended16" /\ d.imm16 = v % 65536
            /\ 0 <= v /\ v <= 65535
        BY <3>2, <2>3, <2>6, <2>7, <2>8, SMT DEF InRange
      <4> QED BY <2>8, <4>1, RecoveredUnsigned, SMT
    <3>3. CASE op = 13
      <4>1. /\ v = t.imm /\ kind = "Upper16" /\ d.imm16 = v % 65536
            /\ 0 <= v /\ v <= 65535
        BY <3>3, <2>3, <2>6, <2>7, <2>8, SMT DEF InRange
      <4> QED BY <2>8, <4>1, RecoveredUnsigned, SMT
    <3>4. CASE op \notin 9 .. 15
      BY <3>4, <2>6, SMT
    <3> QED BY <3>1, <3>2, <3>3, <3>4, SMT
  <2>11. flow \in {"ConditionalBranch", "RelativeJump"} => goes = wanted
    <3>1. CASE op \in 16 .. 19
      <4>1. /\ flow = "ConditionalBranch" /\ d.imm16 = v % 65536
            /\ -32768 <= v /\ v <= 32767
        BY <3>1, <2>3, <2>6, <2>7, SMT DEF InRange
      <4>2. branch_displacement(d.imm16) = WordOf(4 * v)
        <5>1. immediate_value("Signed16", d.imm16) = WordOf(v)
          BY <2>8, <4>1, RecoveredSigned, SMT
        <5> QED BY <2>8, <5>1, WordOfTimes4, SMT DEF branch_displacement
      <4>3. goes = Add(after, branch_displacement(d.imm16))
        BY <4>1, SMT
      <4> HIDE DEF goes
      <4> QED BY <2>9, <4>2, <4>3
    <3>2. CASE op \in {20, 21}
      <4>1. /\ flow = "RelativeJump"
            /\ d.imm26 = W((v \div 65536) % 1024, v % 65536)
            /\ -33554432 <= v /\ v <= 33554431
        BY <3>2, <2>3, <2>6, <2>7, SMT DEF InRange
      <4>2. jump_displacement(d.imm26) = WordOf(4 * v)
        BY <2>8, <4>1, RecoveredJump, SMT
      <4>3. goes = Add(after, jump_displacement(d.imm26))
        BY <4>1, SMT
      <4> HIDE DEF goes
      <4> QED BY <2>9, <4>2, <4>3
    <3>3. CASE op \notin 16 .. 21
      BY <3>3, <2>6, SMT
    <3> QED BY <3>1, <3>2, <3>3, SMT
  <2> HIDE DEF goes
  <2>12. /\ DecodeError(word) = "None"
         /\ d.opcode = IF t.op = RET THEN OP_JR ELSE t.op
    BY <2>3, <2>4
  <2> QED BY <1>2, <2>5, <2>10, <2>11, <2>12, Zenon
          DEF MeansStatement, d, kind, flow, after, goes, wanted, word, t
<1> QED BY <1>1, <1>2

------------------------------------------------------------------------------
(***************************************************************************)
(* The two passes.                                                         *)
(***************************************************************************)

Laid       == [address : Nat, text : Statement]
SourceLine == [labels : Seq(STRING), count : Nat, text : Statement]

\* What the first pass has laid out.
LaidOut ==
  /\ source \in Seq(SourceLine)
  /\ line \in Nat \ {0}
  /\ address \in Nat /\ address % 4 = 0
  /\ \A l \in DOMAIN labels : labels[l] \in Int /\ labels[l] % 4 = 0
  /\ statements \in Seq(Laid)
  /\ \A i \in 1 .. Len(statements) : statements[i].address % 4 = 0

\* What the second pass has encoded.
Emitted ==
  /\ words \in Seq(Word)
  /\ pass = "scan" => words = <<>>
  /\ pass = "encode" => line = Len(words) + 1
  /\ Len(words) <= Len(statements)
  /\ \A i \in 1 .. Len(words) : \A s \in {statements[i]} :
       Encodable(s) /\ words[i] = Packed(s)

\* Once the labels are known, an encoding does not change.
LEMMA LabelsDecide ==
  ASSUME NEW s, labels' = labels
  PROVE  (Encodable(s)' <=> Encodable(s)) /\ Packed(s)' = Packed(s)
<1>1. Value(s)' = Value(s)
  BY SMT DEF Value, byte_delta
<1> QED BY <1>1, SMT DEF Encodable, Packed

\* Every step keeps the layout.
LEMMA LaidOutStep ==
  ASSUME LaidOut, [Next]_asmVars
  PROVE  LaidOut'
<1> USE DEF LaidOut
<1>1. ASSUME ScanLine, pass' # pass
      PROVE  LaidOut'
  <2>1. UNCHANGED <<source, line, address, labels, statements>>
    BY <1>1, Zenon DEF ScanLine
  <2> QED BY <2>1, SMT
<1>2. ASSUME ScanLine, pass' = pass
      PROVE  LaidOut'
  <2> DEFINE this == source[line]
  <2>1. /\ this \in SourceLine
        /\ labels' = [l \in DOMAIN labels \cup ToSet(this.labels) |->
                         IF l \in ToSet(this.labels) THEN address ELSE labels[l]]
        /\ statements' =
             IF this.count = 0 THEN statements
             ELSE Append(statements, [address |-> address, text |-> this.text])
        /\ address' = address + 4 * this.count
        /\ line' = line + 1
        /\ source' = source
    <3>1. this \in SourceLine
      <4>1. line \in 1 .. Len(source)
        BY <1>2, SMT DEF ScanLine
      <4> QED BY <4>1, SMT
    <3>2. pass' # "duplicate label"
      BY <1>2, SMT DEF ScanLine
    <3> QED BY <1>2, <3>1, <3>2, Zenon DEF ScanLine
  <2> HIDE DEF this
  <2>2. this.count \in Nat /\ this.text \in Statement
    BY <2>1, SMT DEF SourceLine
  <2>3. address' \in Nat /\ address' % 4 = 0
    BY <2>1, <2>2, SMT
  <2>4. \A l \in DOMAIN labels' : labels'[l] \in Int /\ labels'[l] % 4 = 0
    <3>1. address \in Int
      BY SMT
    <3> QED BY <2>1, <3>1, Zenon
  <2>8. source' \in Seq(SourceLine) /\ line' \in Nat \ {0}
    BY <2>1, SMT
  <2>5. CASE statements' = statements
    BY <2>3, <2>4, <2>5, <2>8, Zenon
  <2>6. CASE statements' # statements
    <3> DEFINE new == [address |-> address, text |-> this.text]
    <3>1. new \in Laid /\ new.address % 4 = 0
      BY <2>2, SMT DEF Laid
    <3>2. statements' = Append(statements, new)
      BY <2>1, <2>6, Zenon
    <3> HIDE DEF new
    <3>3. /\ statements' \in Seq(Laid)
          /\ Len(statements') = Len(statements) + 1
          /\ \A i \in 1 .. Len(statements) : statements'[i] = statements[i]
          /\ statements'[Len(statements) + 1] = new
      <4>1. /\ Append(statements, new) \in Seq(Laid)
            /\ Len(Append(statements, new)) = Len(statements) + 1
            /\ \A i \in 1 .. Len(statements) :
                 Append(statements, new)[i] = statements[i]
            /\ Append(statements, new)[Len(statements) + 1] = new
        <5>1. statements \in Seq(Laid) /\ new \in Laid
          BY <3>1
        <5> HIDE DEF LaidOut
        <5> QED BY <5>1, SMT
      <4> QED BY <3>2, <4>1, SMT
    <3>4. Len(statements) \in Nat
      BY LenProperties, Zenon
    <3>5. ASSUME NEW i \in 1 .. Len(statements')
          PROVE  statements'[i].address % 4 = 0
      <4>1. i \in 1 .. Len(statements) \/ i = Len(statements) + 1
        BY <3>3, <3>4, SMT
      <4> QED BY <3>1, <3>3, <4>1, Zenon
    <3> QED BY <2>3, <2>4, <2>8, <3>3, <3>5, Zenon
  <2> QED BY <2>5, <2>6
<1>3. CASE EndScan
  BY <1>3, SMT DEF EndScan
<1>4. CASE EncodeStatement
  <2>1. /\ UNCHANGED <<source, address, labels, statements>>
        /\ line' = line \/ line' = line + 1
    BY <1>4, Zenon DEF EncodeStatement
  <2> QED BY <2>1, SMT
<1>5. CASE Finish
  BY <1>5, SMT DEF Finish
<1>6. CASE UNCHANGED asmVars
  BY <1>6, SMT DEF asmVars
<1> QED BY <1>1, <1>2, <1>3, <1>4, <1>5, <1>6 DEF Next

\* Every step keeps the words packed from accepted statements.
LEMMA EmittedStep ==
  ASSUME LaidOut, Emitted, [Next]_asmVars
  PROVE  Emitted'
<1>1. CASE ScanLine
  <2>1. words' = words /\ words = <<>> /\ pass' # "encode"
    <3>1. /\ words' = words /\ pass = "scan"
          /\ pass' = pass \/ pass' = "duplicate label"
      BY <1>1, Zenon DEF ScanLine
    <3> QED BY <3>1, Zenon DEF Emitted
  <2>2. Len(words') = 0 /\ Len(statements') \in Nat
    <3>1. statements' \in Seq(Laid)
      BY LaidOutStep, Zenon DEF LaidOut
    <3> QED BY <2>1, <3>1, SMT
  <2> QED BY <2>1, <2>2, SMT DEF Emitted
<1>2. CASE EndScan
  <2>1. /\ words' = words /\ words = <<>> /\ pass' = "encode" /\ line' = 1
        /\ statements' = statements
    BY <1>2, SMT DEF EndScan, Emitted
  <2> QED BY <2>1, SMT DEF Emitted, LaidOut
<1>3. CASE EncodeStatement
  <2> DEFINE st == statements[line]
  <2>1. labels' = labels /\ statements' = statements /\ pass = "encode"
        /\ line = Len(words) + 1 /\ line <= Len(statements)
    <3>1. /\ labels' = labels /\ statements' = statements /\ pass = "encode"
          /\ line <= Len(statements)
      BY <1>3, Zenon DEF EncodeStatement
    <3> QED BY <3>1, SMT DEF Emitted
  <2>2. \A s : (Encodable(s)' <=> Encodable(s)) /\ Packed(s)' = Packed(s)
    BY <2>1, LabelsDecide
  <2>3. CASE pass' = "bad statement" /\ words' = words
    <3>1. \A i \in 1 .. Len(words') : \A s \in {statements'[i]} :
            Encodable(s)' /\ words'[i] = Packed(s)'
      BY <2>1, <2>2, <2>3, Zenon DEF Emitted
    <3>2. words' \in Seq(Word) /\ Len(words') <= Len(statements')
      BY <2>1, <2>3, Zenon DEF Emitted
    <3>3. pass' # "scan" /\ pass' # "encode"
      BY <2>3, Zenon
    <3> QED BY <3>1, <3>2, <3>3, Zenon DEF Emitted
  <2>4. ASSUME Encodable(st), words' = Append(words, Packed(st)),
               line' = line + 1, pass' = pass
        PROVE  Emitted'
    <3>1. st.text \in Statement
      <4>1. line \in 1 .. Len(statements)
        BY <2>1, SMT DEF LaidOut
      <4>2. st \in Laid
        BY <4>1, ElementOfSeq, Zenon DEF LaidOut
      <4> HIDE DEF st
      <4> QED BY <4>2, SMT DEF Laid
    <3>2. Packed(st) \in Word
      BY <3>1, <2>4, PackedInWord, SMT
    <3> DEFINE word == Packed(st)
    <3> HIDE DEF word
    <3>3. words' \in Seq(Word) /\ Len(words') = Len(words) + 1
      BY <2>4, <3>2, SMT DEF Emitted, word
    <3>4. \A i \in 1 .. Len(words') : \A s \in {statements[i]} :
            Encodable(s) /\ words'[i] = Packed(s)
      BY <2>1, <2>4, <3>3, SMT DEF Emitted, word
    <3>5. \A i \in 1 .. Len(words') : \A s \in {statements'[i]} :
            Encodable(s)' /\ words'[i] = Packed(s)'
      BY <3>4, <2>1, <2>2, Zenon
    <3> QED BY <3>3, <3>5, <2>1, <2>4, SMT DEF Emitted
  <2> QED BY <1>3, <2>3, <2>4, Zenon DEF EncodeStatement
<1>4. CASE Finish
  <2>1. /\ labels' = labels /\ statements' = statements /\ pass' = "done"
        /\ words' = words
    BY <1>4, SMT DEF Finish
  <2>2. \A s : (Encodable(s)' <=> Encodable(s)) /\ Packed(s)' = Packed(s)
    BY <2>1, LabelsDecide
  <2> QED BY <2>1, <2>2, SMT DEF Emitted
<1>5. CASE UNCHANGED asmVars
  <2>1. /\ labels' = labels /\ statements' = statements /\ pass' = pass
        /\ words' = words /\ line' = line
    BY <1>5 DEF asmVars
  <2>2. \A s : (Encodable(s)' <=> Encodable(s)) /\ Packed(s)' = Packed(s)
    BY <2>1, LabelsDecide
  <2> QED BY <2>1, <2>2, SMT DEF Emitted
<1> QED BY <1>1, <1>2, <1>3, <1>4, <1>5 DEF Next

\* The inductive invariant holds throughout.
LEMMA AssemblerInvariant == Spec => [](LaidOut /\ Emitted)
<1>1. Init => LaidOut /\ Emitted
  <2> SUFFICES ASSUME Init PROVE LaidOut /\ Emitted
    OBVIOUS
  <2>1. source \in Seq(SourceLine)
    BY SourcesAreParsed, Zenon DEF Init, SourceLine
  <2>2. /\ pass = "scan" /\ line = 1 /\ address = 0 /\ labels = <<>>
        /\ statements = <<>> /\ words = <<>>
    BY DEF Init
  <2>3. LaidOut
    BY <2>1, <2>2, SMT DEF LaidOut
  <2>4. Emitted
    BY <2>2, SMT DEF Emitted
  <2> QED BY <2>3, <2>4
<1>2. LaidOut /\ Emitted /\ [Next]_asmVars => (LaidOut /\ Emitted)'
  BY LaidOutStep, EmittedStep
<1> QED BY <1>1, <1>2, PTL DEF Spec

\* Every word emitted so far, with its statement.
LEMMA EmittedWord ==
  ASSUME LaidOut, Emitted, NEW i \in DOMAIN words
  PROVE  /\ words[i] \in Word
         /\ Placed(statements[i]) /\ Encodable(statements[i])
         /\ words[i] = Packed(statements[i])
<1> DEFINE s == statements[i]
<1>1. i \in 1 .. Len(words) /\ words[i] \in Word
  BY LenProperties, ElementOfSeq, Zenon DEF Emitted
<1>2. i \in 1 .. Len(statements)
  <2>1. Len(words) \in Nat /\ Len(statements) \in Nat
    BY LenProperties, Zenon DEF Emitted, LaidOut
  <2> QED BY <1>1, <2>1, SMT DEF Emitted
<1>3. Encodable(s) /\ words[i] = Packed(s)
  BY <1>1, Zenon DEF Emitted
<1>4. s \in Laid /\ s.address % 4 = 0
  BY <1>2, ElementOfSeq, Zenon DEF LaidOut
<1>5. s.text \in Statement /\ s.address \in Int
  <2> HIDE DEF s
  <2> QED BY <1>4, SMT DEF Laid
<1>6. Placed(s)
  BY <1>4, <1>5, Zenon DEF Placed, LaidOut
<1> QED BY <1>1, <1>3, <1>6

\* For every source file: each emitted word means its statement to the CPU;
\* a branch or a jump to a label lands on that label over every distance
\* that encode_statement accepts.
THEOREM EmittedWordsMeanStatements == Spec => []WordsMeanTheirStatements
<1>1. LaidOut /\ Emitted => WordsMeanTheirStatements
  <2> SUFFICES ASSUME LaidOut, Emitted, NEW i \in DOMAIN words
               PROVE  MeansStatement(words[i], statements[i])
    BY DEF WordsMeanTheirStatements
  <2>1. /\ Placed(statements[i]) /\ Encodable(statements[i])
        /\ words[i] = Packed(statements[i])
    BY EmittedWord
  <2>2. MeansStatement(Packed(statements[i]), statements[i])
    BY <2>1, PackedMeans, Zenon
  <2> QED BY <2>1, <2>2, Zenon
<1> QED BY <1>1, AssemblerInvariant, PTL

\* For every source file and all register contents, the RTL core and the
\* C++ model do the same with every emitted word, .WORD data included.
THEOREM EmittedWordsRunAlike == Spec => []WordsRunAlike
<1>1. LaidOut /\ Emitted => WordsRunAlike
  <2> SUFFICES ASSUME LaidOut, Emitted, NEW i \in DOMAIN words,
                      NEW file \in Files
               PROVE  SameEffect(words[i], file, WordOf(statements[i].address))
    BY DEF WordsRunAlike
  <2>1. words[i] \in Word
    BY EmittedWord, Zenon
  <2> QED BY <2>1, BothDecodersAgree, Zenon
<1> QED BY <1>1, AssemblerInvariant, PTL

------------------------------------------------------------------------------
(***************************************************************************)
(* The disassembler.                                                       *)
(***************************************************************************)

\* A line with text t at address at is accepted and gives the word w.
Reassembles(at, t, w) == LET s == [address |-> at, text |-> t]
                         IN  Encodable(s) /\ Packed(s) = w

\* The halves that encode_statement packs.
HighOf(op, a, b, n) ==
  op * 1024 + (IF op \in {20, 21} THEN (n \div 65536) % 1024 ELSE a * 32 + b)
LowOf(op, c, n) ==
  IF op \in 1 .. 8 THEN c * 2048
  ELSE IF op \in {0, 22, 23} THEN 0 ELSE n % 65536

\* What encode_statement makes of a printed statement with numbers only.
LEMMA StmtReassembles ==
  ASSUME NEW at, NEW op \in Opcodes, NEW a \in 0 .. 31, NEW b \in 0 .. 31,
         NEW c \in 0 .. 31, NEW n \in Int,
         op \in 0 .. 8 \/ op \in {22, 23} \/ InRange(op, n),
         op \in {0, 13, 22, 23} => b = 0,
         op \in {0, 23} => a = 0
  PROVE  Reassembles(at, Stmt(op, a, b, c, n),
                     W(HighOf(op, a, b, n), LowOf(op, c, n)))
<1> DEFINE s == [address |-> at, text |-> Stmt(op, a, b, c, n)]
<1>1. /\ s.text.op = op /\ s.text.a = a /\ s.text.b = b /\ s.text.c = c
      /\ s.text.imm = n /\ s.text.target = NoLabel
  BY DEF Stmt
<1> HIDE DEF s
<1>2. op # RET /\ op # WORD
  BY PseudoOps
<1>3. CodeOf(s) = op /\ RegA(s) = a /\ Value(s) = n
  BY <1>1, <1>2, SMT DEF CodeOf, RegA, Value
<1>4. Encodable(s)
  <2>1. op \in 0 .. 23
    BY DEF Opcodes
  <2>2. ImmediateInRange(op, n)
    <3>1. /\ op \in 9 .. 21 => (ImmediateInRange(op, n) <=> InRange(op, n))
          /\ op \in 0 .. 8 \/ op \in {22, 23} => ImmediateInRange(op, n)
      BY RangeTable, Zenon
    <3> QED BY <2>1, <3>1, SMT
  <2>3. {a, b, c} \subseteq Register
    BY SMT DEF Register
  <2> QED BY <1>1, <1>2, <1>3, <2>2, <2>3, SMT DEF Encodable
<1>5. Packed(s) = W(High(s), Low(s))
  BY <1>1, <1>2, <1>3, PackedHalves, SMT
<1>6. High(s) = HighOf(op, a, b, n) /\ Low(s) = LowOf(op, c, n)
  BY <1>1, <1>3, SMT DEF High, Low, HighOf, LowOf
<1> QED BY <1>4, <1>5, <1>6, SMT DEF s, Reassembles

\* What encode_statement makes of printed data.
LEMMA DataReassembles ==
  ASSUME NEW at, NEW w \in Word
  PROVE  Reassembles(at, Data(w), w)
<1> DEFINE s == [address |-> at, text |-> Data(w)]
<1>1. /\ s.text.op = WORD /\ s.text.a = 0 /\ s.text.b = 0 /\ s.text.c = 0
      /\ s.text.data = w /\ s.text.target = NoLabel
  BY DEF Data, Stmt
<1> HIDE DEF s
<1>2. checked_range(w.hi, 0, 65535)
  <2> DEFINE x == w.hi
  <2>1. x \in Int /\ 0 <= x /\ x <= 65535
    BY WordParts
  <2> HIDE DEF x
  <2>2. checked_range(x, 0, 65535)
    BY <2>1, CheckedRange, SMT
  <2> QED BY <2>2 DEF x
<1>3. Encodable(s)
  <2>1. {0} \subseteq Register
    BY SMT DEF Register
  <2> QED BY <1>1, <1>2, <2>1, SMT DEF Encodable
<1>4. Packed(s) = w
  BY <1>1, PackedData, SMT
<1> QED BY <1>3, <1>4, SMT DEF s, Reassembles

\* sign_extend is undone by the mask.
LEMMA SignExtend ==
  ASSUME NEW x \in Int
  PROVE  /\ sign_extend(x, 16) = IF x >= 32768 THEN x - 65536 ELSE x
         /\ sign_extend(x, 26) = IF x >= 33554432 THEN x - 67108864 ELSE x
<1>1. /\ 2^(16 - 1) = 32768 /\ 2^16 = 65536
      /\ 2^(26 - 1) = 33554432 /\ 2^26 = 67108864
  BY SMT
<1> QED BY <1>1, SMT DEF sign_extend

\* The number printed for a 16-bit field, masked, is the field.
LEMMA SignExtend16 ==
  ASSUME NEW x \in Int, 0 <= x, x <= 65535
  PROVE  /\ sign_extend(x, 16) \in Int
         /\ -32768 <= sign_extend(x, 16) /\ sign_extend(x, 16) <= 32767
         /\ sign_extend(x, 16) % 65536 = x
BY SignExtend, SMT

\* The number printed for a jump.
JumpNumber(h, l) == sign_extend(h * 65536 + l, 26)

\* Its fields are those of the word.
LEMMA SignExtend26 ==
  ASSUME NEW h \in Int, 0 <= h, h <= 1023, NEW l \in Int, 0 <= l, l <= 65535
  PROVE  /\ JumpNumber(h, l) \in Int
         /\ -33554432 <= JumpNumber(h, l) /\ JumpNumber(h, l) <= 33554431
         /\ JumpNumber(h, l) % 65536 = l
         /\ (JumpNumber(h, l) \div 65536) % 1024 = h
<1> DEFINE x == h * 65536 + l
           n == JumpNumber(h, l)
<1>1. n = IF x >= 33554432 THEN x - 67108864 ELSE x
  <2>1. x \in Int
    BY SMT
  <2>2. n = sign_extend(x, 26)
    BY DEF JumpNumber
  <2> HIDE DEF n, x
  <2> QED BY <2>1, <2>2, SignExtend, SMT
<1> HIDE DEF n
<1>2. CASE x >= 33554432
  <2>1. n = (h - 1024) * 65536 + l /\ h >= 512
    BY <1>1, <1>2, SMT
  <2>2. n \div 65536 = h - 1024 /\ n % 65536 = l
    BY <2>1, SMT
  <2>3. (h - 1024) % 1024 = h
    BY SMT
  <2> QED BY <2>1, <2>2, <2>3, SMT DEF n
<1>3. CASE ~(x >= 33554432)
  <2>1. n = h * 65536 + l /\ h <= 511
    BY <1>1, <1>3, SMT
  <2>2. n \div 65536 = h /\ n % 65536 = l
    BY <2>1, SMT
  <2>3. h % 1024 = h
    BY SMT
  <2> QED BY <2>1, <2>2, <2>3, SMT DEF n
<1> QED BY <1>2, <1>3

\* What disassemble_word prints, by opcode.
LEMMA Printed ==
  ASSUME NEW w,
         NEW op, op = w.hi \div 1024, NEW rd, rd = (w.hi \div 32) % 32,
         NEW rs1, rs1 = w.hi % 32, NEW rs2, rs2 = (w.lo \div 2048) % 32,
         op \in Opcodes
  PROVE  \/ disassemble_word(w) = Data(w)
         \/ /\ op \in {0, 23} /\ w = W(op * 1024, 0)
            /\ disassemble_word(w) = Stmt(op, 0, 0, 0, 0)
         \/ /\ op \in 1 .. 8 /\ w.lo % 2048 = 0
            /\ disassemble_word(w) = Stmt(op, rd, rs1, rs2, 0)
         \/ /\ op = 22 /\ rs1 = 0 /\ w.lo = 0
            /\ disassemble_word(w) = Stmt(op, rd, 0, 0, 0)
         \/ /\ op = 13 /\ rs1 = 0
            /\ disassemble_word(w) = Stmt(op, rd, 0, 0, w.lo)
         \/ /\ op \in {20, 21}
            /\ disassemble_word(w) =
                 Stmt(op, 0, 0, 0, JumpNumber(w.hi % 1024, w.lo))
         \/ /\ op \in 10 .. 12
            /\ disassemble_word(w) = Stmt(op, rd, rs1, 0, w.lo)
         \/ /\ op \in {9, 14, 15} \cup 16 .. 19
            /\ disassemble_word(w) = Stmt(op, rd, rs1, 0, sign_extend(w.lo, 16))
<1> DEFINE imm == IF op \in 10 .. 13 THEN w.lo ELSE sign_extend(w.lo, 16)
           invalid == \/ op \in {0, 23} /\ w # W(op * 1024, 0)
                      \/ op \in 1 .. 8 /\ w.lo % 2048 # 0
                      \/ op = 22 /\ (rs1 # 0 \/ w.lo # 0)
                      \/ op = 13 /\ rs1 # 0
           data == Data(w)
           jump == Stmt(op, 0, 0, 0, JumpNumber(w.hi % 1024, w.lo))
<1>1. /\ op \in {OP_NOP, OP_HALT} <=> op \in {0, 23}
      /\ op \in R_INSTRUCTIONS <=> op \in 1 .. 8
      /\ op = OP_JR <=> op = 22
      /\ op = OP_LUI <=> op = 13
      /\ op \in JUMP_INSTRUCTIONS <=> op \in {20, 21}
      /\ SignedImmediate(op) <=> op \notin 10 .. 13
      /\ ~(op > OP_HALT)
  BY SMT DEF Opcodes, OP_NOP, OP_HALT, R_INSTRUCTIONS, OP_ADD, OP_SHR, OP_LUI,
             JUMP_INSTRUCTIONS, OP_J, OP_JAL, OP_JR, SignedImmediate, OP_ANDI,
             OP_ORI, OP_XORI
<1>2. disassemble_word(w) =
        CASE invalid                       -> data
          [] ~invalid /\ op \in {0, 23}    -> Stmt(op, 0, 0, 0, 0)
          [] ~invalid /\ op \in 1 .. 8     -> Stmt(op, rd, rs1, rs2, 0)
          [] ~invalid /\ op = 22           -> Stmt(op, rd, 0, 0, 0)
          [] ~invalid /\ op = 13           -> Stmt(op, rd, 0, 0, imm)
          [] op \in {20, 21}               -> jump
          [] OTHER                         -> Stmt(op, rd, rs1, 0, imm)
  BY <1>1, SMT DEF disassemble_word, JumpNumber
<1> HIDE DEF data, jump
<1>3. CASE invalid
  BY <1>2, <1>3, SMT DEF data, Opcodes
<1>4. CASE ~invalid
  <2>1. CASE op \in {0, 23}
    BY <1>2, <1>4, <2>1, SMT
  <2>2. CASE op \in 1 .. 8
    BY <1>2, <1>4, <2>2, SMT
  <2>3. CASE op = 22
    BY <1>2, <1>4, <2>3, SMT
  <2>4. CASE op = 13
    BY <1>2, <1>4, <2>4, SMT
  <2>5. CASE op \in {20, 21}
    BY <1>2, <1>4, <2>5, SMT DEF jump
  <2>6. CASE op \in {9, 10, 11, 12, 14, 15, 16, 17, 18, 19}
    BY <1>2, <1>4, <2>6, SMT
  <2> QED BY <2>1, <2>2, <2>3, <2>4, <2>5, <2>6, SMT DEF Opcodes
<1> QED BY <1>3, <1>4

\* The fields of a half put it together again.
LEMMA FieldsOfHalf ==
  ASSUME NEW h \in Int, 0 <= h, h <= 65535,
         NEW op, op = h \div 1024, NEW low, low = h % 1024,
         NEW rd, rd = (h \div 32) % 32, NEW rs1, rs1 = h % 32
  PROVE  /\ op \in 0 .. 63 /\ rd \in 0 .. 31 /\ rs1 \in 0 .. 31
         /\ low \in Int /\ 0 <= low /\ low <= 1023
         /\ h = op * 1024 + low /\ low = rd * 32 + rs1
<1>1. op \in Int /\ low \in Int /\ 0 <= low /\ low < 1024 /\ h = 1024 * op + low
  BY SMT
<1>2. op \in 0 .. 63
  BY <1>1, SMT
<1>3. PICK q \in Int : q = h \div 32
  BY SMT
<1>4. rs1 \in Int /\ 0 <= rs1 /\ rs1 < 32 /\ h = 32 * q + rs1
  BY <1>3, SMT
<1>5. PICK u \in Int : u = q \div 32
  BY SMT
<1>6. rd \in Int /\ 0 <= rd /\ rd < 32 /\ q = 32 * u + rd
  BY <1>3, <1>5, SMT
<1>7. low = rd * 32 + rs1
  <2>1. h = 1024 * u + (rd * 32 + rs1) /\ 0 <= rd * 32 + rs1
        /\ rd * 32 + rs1 < 1024
    BY <1>4, <1>6, SMT
  <2> QED BY <1>1, <1>4, <1>6, <2>1, SMT
<1> QED BY <1>1, <1>2, <1>4, <1>6, <1>7, SMT

\* The last register field and the bits below it.
LEMMA Rs2OfHalf ==
  ASSUME NEW l \in Int, 0 <= l, l <= 65535, NEW rs2, rs2 = (l \div 2048) % 32
  PROVE  /\ rs2 \in 0 .. 31
         /\ l % 2048 = 0 => l = rs2 * 2048
BY SMT

\* h and l are the halves of a word with these fields.
Fields(h, l, op, rd, rs1, low) ==
  /\ l \in Int /\ 0 <= l /\ l <= 65535
  /\ low \in Int /\ 0 <= low /\ low <= 1023
  /\ h = op * 1024 + low /\ low = rd * 32 + rs1

\* The forms that disassemble_word prints, put together again.
FormsGive(at, h, l, op, rd, rs1, rs2, low) ==
  /\ op \in {0, 23} => Reassembles(at, Stmt(op, 0, 0, 0, 0), W(op * 1024, 0))
  /\ op \in 1 .. 8 /\ l = rs2 * 2048 =>
       Reassembles(at, Stmt(op, rd, rs1, rs2, 0), W(h, l))
  /\ op = 22 /\ rs1 = 0 /\ l = 0 =>
       Reassembles(at, Stmt(op, rd, 0, 0, 0), W(h, l))
  /\ op = 13 /\ rs1 = 0 => Reassembles(at, Stmt(op, rd, 0, 0, l), W(h, l))
  /\ op \in {20, 21} =>
       Reassembles(at, Stmt(op, 0, 0, 0, JumpNumber(low, l)), W(h, l))
  /\ op \in 10 .. 12 => Reassembles(at, Stmt(op, rd, rs1, 0, l), W(h, l))
  /\ op \in {9, 14, 15} \cup 16 .. 19 =>
       Reassembles(at, Stmt(op, rd, rs1, 0, sign_extend(l, 16)), W(h, l))

\* Each printed form packs to the word it was printed for.
LEMMA FormsReassemble ==
  ASSUME NEW at, NEW h, NEW l \in Int, NEW op \in Opcodes,
         NEW rd \in 0 .. 31, NEW rs1 \in 0 .. 31, NEW rs2 \in 0 .. 31,
         NEW low \in Int, Fields(h, l, op, rd, rs1, low)
  PROVE  FormsGive(at, h, l, op, rd, rs1, rs2, low)
<1> DEFINE jump == JumpNumber(low, l)
           simm == sign_extend(l, 16)
<1>1. /\ simm \in Int /\ -32768 <= simm /\ simm <= 32767
      /\ simm % 65536 = l
  BY SignExtend16, SMT DEF Fields
<1>2. /\ jump \in Int /\ -33554432 <= jump /\ jump <= 33554431
      /\ jump % 65536 = l /\ (jump \div 65536) % 1024 = low
  BY SignExtend26, SMT DEF Fields
<1> HIDE DEF jump, simm
<1>3. 0 \in 0 .. 31 /\ 0 \in Int
  BY SMT
<1>4. ASSUME op \in {0, 23}
       PROVE  Reassembles(at, Stmt(op, 0, 0, 0, 0), W(op * 1024, 0))
  <2>1. HighOf(op, 0, 0, 0) = op * 1024 /\ LowOf(op, 0, 0) = 0
    BY <1>4, SMT DEF HighOf, LowOf, Fields
  <2>2. op \in 0 .. 8 \/ op \in {22, 23}
    BY <1>4, SMT
  <2>3. /\ op \in {0, 13, 22, 23} => 0 = 0
        /\ op \in {0, 23} => 0 = 0
    BY <1>4, SMT
  <2>4. 0 \in Int
    BY <1>3, SMT
  <2>5. Reassembles(at, Stmt(op, 0, 0, 0, 0),
                    W(HighOf(op, 0, 0, 0), LowOf(op, 0, 0)))
    BY <1>3, <2>2, <2>3, <2>4, StmtReassembles, Zenon
  <2> QED BY <2>1, <2>5, SMT
<1>5. ASSUME op \in 1 .. 8, l = rs2 * 2048
       PROVE  Reassembles(at, Stmt(op, rd, rs1, rs2, 0), W(h, l))
  <2>1. HighOf(op, rd, rs1, 0) = h /\ LowOf(op, rs2, 0) = l
    BY <1>5, SMT DEF HighOf, LowOf, Fields
  <2>2. op \in 0 .. 8 \/ op \in {22, 23}
    BY <1>5, SMT
  <2>3. /\ op \in {0, 13, 22, 23} => rs1 = 0
        /\ op \in {0, 23} => rd = 0
    BY <1>5, SMT
  <2>4. 0 \in Int
    BY <1>3, SMT
  <2>5. Reassembles(at, Stmt(op, rd, rs1, rs2, 0),
                    W(HighOf(op, rd, rs1, 0), LowOf(op, rs2, 0)))
    BY <1>3, <2>2, <2>3, <2>4, StmtReassembles, Zenon
  <2> QED BY <2>1, <2>5, SMT
<1>6. ASSUME op = 22, rs1 = 0, l = 0
       PROVE  Reassembles(at, Stmt(op, rd, 0, 0, 0), W(h, l))
  <2>1. HighOf(op, rd, 0, 0) = h /\ LowOf(op, 0, 0) = l
    BY <1>6, SMT DEF HighOf, LowOf, Fields
  <2>2. op \in 0 .. 8 \/ op \in {22, 23}
    BY <1>6, SMT
  <2>3. /\ op \in {0, 13, 22, 23} => 0 = 0
        /\ op \in {0, 23} => rd = 0
    BY <1>6, SMT
  <2>4. 0 \in Int
    BY <1>3, SMT
  <2>5. Reassembles(at, Stmt(op, rd, 0, 0, 0),
                    W(HighOf(op, rd, 0, 0), LowOf(op, 0, 0)))
    BY <1>3, <2>2, <2>3, <2>4, StmtReassembles, Zenon
  <2> QED BY <2>1, <2>5, SMT
<1>7. ASSUME op = 13, rs1 = 0
       PROVE  Reassembles(at, Stmt(op, rd, 0, 0, l), W(h, l))
  <2>1. HighOf(op, rd, 0, l) = h /\ LowOf(op, 0, l) = l
    BY <1>7, SMT DEF HighOf, LowOf, Fields
  <2>2. InRange(op, l)
    BY <1>7, SMT DEF InRange, Fields
  <2>3. /\ op \in {0, 13, 22, 23} => 0 = 0
        /\ op \in {0, 23} => rd = 0
    BY <1>7, SMT
  <2>4. l \in Int
    BY <1>3, SMT
  <2>5. Reassembles(at, Stmt(op, rd, 0, 0, l),
                    W(HighOf(op, rd, 0, l), LowOf(op, 0, l)))
    BY <1>3, <2>2, <2>3, <2>4, StmtReassembles, Zenon
  <2> QED BY <2>1, <2>5, SMT
<1>8. ASSUME op \in {20, 21}
       PROVE  Reassembles(at, Stmt(op, 0, 0, 0, jump), W(h, l))
  <2>1. HighOf(op, 0, 0, jump) = h /\ LowOf(op, 0, jump) = l
    BY <1>2, <1>8, SMT DEF HighOf, LowOf, Fields
  <2>2. InRange(op, jump)
    BY <1>2, <1>8, SMT DEF InRange, Fields
  <2>3. /\ op \in {0, 13, 22, 23} => 0 = 0
        /\ op \in {0, 23} => 0 = 0
    BY <1>8, SMT
  <2>4. jump \in Int
    BY <1>3, <1>2, SMT
  <2>5. Reassembles(at, Stmt(op, 0, 0, 0, jump),
                    W(HighOf(op, 0, 0, jump), LowOf(op, 0, jump)))
    BY <1>3, <2>2, <2>3, <2>4, StmtReassembles, Zenon
  <2> QED BY <2>1, <2>5, SMT
<1>9. ASSUME op \in 10 .. 12
       PROVE  Reassembles(at, Stmt(op, rd, rs1, 0, l), W(h, l))
  <2>1. HighOf(op, rd, rs1, l) = h /\ LowOf(op, 0, l) = l
    BY <1>9, SMT DEF HighOf, LowOf, Fields
  <2>2. InRange(op, l)
    BY <1>9, SMT DEF InRange, Fields
  <2>3. /\ op \in {0, 13, 22, 23} => rs1 = 0
        /\ op \in {0, 23} => rd = 0
    BY <1>9, SMT
  <2>4. l \in Int
    BY <1>3, SMT
  <2>5. Reassembles(at, Stmt(op, rd, rs1, 0, l),
                    W(HighOf(op, rd, rs1, l), LowOf(op, 0, l)))
    BY <1>3, <2>2, <2>3, <2>4, StmtReassembles, Zenon
  <2> QED BY <2>1, <2>5, SMT
<1>10. ASSUME op \in {9, 14, 15} \cup 16 .. 19
       PROVE  Reassembles(at, Stmt(op, rd, rs1, 0, simm), W(h, l))
  <2>1. HighOf(op, rd, rs1, simm) = h /\ LowOf(op, 0, simm) = l
    BY <1>1, <1>10, SMT DEF HighOf, LowOf, Fields
  <2>2. InRange(op, simm)
    BY <1>1, <1>10, SMT DEF InRange, Fields
  <2>3. /\ op \in {0, 13, 22, 23} => rs1 = 0
        /\ op \in {0, 23} => rd = 0
    BY <1>10, SMT
  <2>4. simm \in Int
    BY <1>3, <1>1, SMT
  <2>5. Reassembles(at, Stmt(op, rd, rs1, 0, simm),
                    W(HighOf(op, rd, rs1, simm), LowOf(op, 0, simm)))
    BY <1>3, <2>2, <2>3, <2>4, StmtReassembles, Zenon
  <2> QED BY <2>1, <2>5, SMT
<1> QED BY <1>4, <1>5, <1>6, <1>7, <1>8, <1>9, <1>10, SMT DEF jump, simm,
     FormsGive

\* An opcode beyond HALT is printed as data.
LEMMA PrintedAsData ==
  ASSUME NEW w, w.hi \div 1024 \in 0 .. 63, w.hi \div 1024 \notin Opcodes
  PROVE  disassemble_word(w) = Data(w)
<1> DEFINE op == w.hi \div 1024
           data == Data(w)
<1>1. /\ op > OP_HALT /\ op \notin {OP_NOP, OP_HALT} /\ op \notin R_INSTRUCTIONS
      /\ op # OP_JR /\ op # OP_LUI /\ op \notin JUMP_INSTRUCTIONS
  BY SMT DEF Opcodes, OP_NOP, OP_HALT, R_INSTRUCTIONS, OP_ADD, OP_SHR, OP_LUI,
             JUMP_INSTRUCTIONS, OP_J, OP_JAL, OP_JR
<1>2. disassemble_word(w) = data
  <2> HIDE DEF data
  <2> QED BY <1>1, SMT DEF disassemble_word, data
<1> QED BY <1>2

\* disassembler.py undone by assembler.py, for every 32-bit word at any address.
LEMMA WordReassembles ==
  ASSUME NEW at, NEW w \in Word
  PROVE  Reassembles(at, disassemble_word(w), w)
<1> DEFINE h   == w.hi
           l   == w.lo
           op  == h \div 1024
           rd  == (h \div 32) % 32
           rs1 == h % 32
           rs2 == (l \div 2048) % 32
           low == h % 1024
<1>1. /\ h \in Int /\ 0 <= h /\ h <= 65535
      /\ l \in Int /\ 0 <= l /\ l <= 65535
  BY WordParts, SMT
<1>2. w = W(h, l)
  BY SMT DEF W, Word
<1> HIDE DEF h, l
<1>3. /\ op \in 0 .. 63 /\ rd \in 0 .. 31 /\ rs1 \in 0 .. 31 /\ low \in Int
      /\ Fields(h, l, op, rd, rs1, low)
  <2>1. /\ op \in 0 .. 63 /\ rd \in 0 .. 31 /\ rs1 \in 0 .. 31
        /\ low \in Int /\ 0 <= low /\ low <= 1023
        /\ h = op * 1024 + low /\ low = rd * 32 + rs1
    BY <1>1, FieldsOfHalf, SMT
  <2> HIDE DEF op, rd, rs1, low
  <2> QED BY <1>1, <2>1, SMT DEF Fields
<1>0. rs2 \in 0 .. 31 /\ (l % 2048 = 0 => l = rs2 * 2048)
  BY <1>1, Rs2OfHalf, SMT
<1>4. Reassembles(at, Data(w), w)
  BY DataReassembles, SMT
<1>5. CASE op \notin Opcodes
  <2>1. disassemble_word(w) = Data(w)
    BY <1>3, <1>5, PrintedAsData, SMT DEF h
  <2> QED BY <1>4, <2>1, SMT
<1>6. CASE op \in Opcodes
  <2> DEFINE jump == JumpNumber(low, l)
             simm == sign_extend(l, 16)
             text == disassemble_word(w)
  <2>1. \/ text = Data(w)
        \/ op \in {0, 23} /\ w = W(op * 1024, 0) /\ text = Stmt(op, 0, 0, 0, 0)
        \/ op \in 1 .. 8 /\ l % 2048 = 0 /\ text = Stmt(op, rd, rs1, rs2, 0)
        \/ op = 22 /\ rs1 = 0 /\ l = 0 /\ text = Stmt(op, rd, 0, 0, 0)
        \/ op = 13 /\ rs1 = 0 /\ text = Stmt(op, rd, 0, 0, l)
        \/ op \in {20, 21} /\ text = Stmt(op, 0, 0, 0, jump)
        \/ op \in 10 .. 12 /\ text = Stmt(op, rd, rs1, 0, l)
        \/ op \in {9, 14, 15} \cup 16 .. 19 /\ text = Stmt(op, rd, rs1, 0, simm)
    <3> USE DEF h, l
    <3> QED BY <1>6, Printed, SMT
  <2>2. FormsGive(at, h, l, op, rd, rs1, rs2, low)
    <3>1. rs2 \in 0 .. 31 /\ l \in Int
      BY <1>0, <1>1, SMT
    <3> HIDE DEF op, rd, rs1, rs2, low
    <3> QED BY <1>3, <1>6, <3>1, FormsReassemble, Zenon
  <2> HIDE DEF op, rd, rs1, rs2, low, jump, simm, text
  <2>4. Reassembles(at, text, w)
    BY <1>0, <1>2, <1>4, <2>1, <2>2, SMT DEF FormsGive, jump, simm
  <2> QED BY <2>4 DEF text
<1> QED BY <1>5, <1>6

\* For every source file, what the disassembler prints for an emitted word is
\* accepted by the assembler and gives that word again (assembler/README.md
\* 21).
THEOREM DisassemblyIsReassemblable == Spec => []DisassemblyReassembles
<1>1. LaidOut /\ Emitted => DisassemblyReassembles
  <2> SUFFICES ASSUME LaidOut, Emitted, NEW i \in DOMAIN words
               PROVE  LET again == [address |-> statements[i].address,
                                    text    |-> disassemble_word(words[i])]
                      IN  Encodable(again) /\ Packed(again) = words[i]
    BY DEF DisassemblyReassembles
  <2>1. words[i] \in Word
    BY EmittedWord, Zenon
  <2> QED BY <2>1, WordReassembles, Zenon DEF Reassembles
<1> QED BY <1>1, AssemblerInvariant, PTL

------------------------------------------------------------------------------
(***************************************************************************)
(* What the assembler refuses.                                             *)
(***************************************************************************)

\* Numbers less than 2^32 apart that are the same word are the same number.
LEMMA SameWord ==
  ASSUME NEW x \in Int, NEW y \in Int, WordOf(x) = WordOf(y),
         x - y < 4294967296, y - x < 4294967296
  PROVE  x = y
<1> DEFINE xq == x \div 65536
           yq == y \div 65536
           l == x % 65536
           h == xq % 65536
           xt == xq \div 65536
           yt == yq \div 65536
<1>1. l = y % 65536 /\ h = yq % 65536
  BY SMT DEF WordOf, W
<1>2. /\ x = 65536 * xq + l /\ y = 65536 * yq + l
      /\ xq \in Int /\ yq \in Int /\ l \in Int
  BY <1>1, SMT
<1>3. /\ xq = 65536 * xt + h /\ yq = 65536 * yt + h
      /\ xt \in Int /\ yt \in Int /\ h \in Int
  <2> HIDE DEF l
  <2>1. xq \in Int /\ yq \in Int
    BY <1>2
  <2> HIDE DEF xq, yq
  <2> QED BY <1>1, <2>1, SMT
<1> HIDE DEF xq, yq, l, h, xt, yt
<1>4. x - y = 4294967296 * (xt - yt)
  BY <1>2, <1>3, SMT
<1>5. xt - yt = 0
  BY <1>3, <1>4, SMT
<1> QED BY <1>4, <1>5, <1>3, SMT

\* Adding the same word is injective.
LEMMA SameSum ==
  ASSUME NEW n \in Int, NEW x \in Int, NEW y \in Int,
         Add(WordOf(n), WordOf(x)) = Add(WordOf(n), WordOf(y)),
         x - y < 4294967296, y - x < 4294967296
  PROVE  x = y
<1>1. WordOf(n + x) = WordOf(n + y)
  BY WordOfSum, SMT
<1> DEFINE p == n + x
           q == n + y
<1>2. /\ p \in Int /\ q \in Int
      /\ p - q < 4294967296 /\ q - p < 4294967296
  BY SMT
<1>3. WordOf(p) = WordOf(q)
  BY <1>1
<1>4. p = q => x = y
  BY SMT
<1> HIDE DEF p, q
<1> QED BY <1>2, <1>3, <1>4, SameWord, SMT

\* The number with the same low half that fits 16 bits.
LEMMA Signed16Of ==
  ASSUME NEW v \in Int
  PROVE  \E u \in Int : /\ -32768 <= u /\ u <= 32767
                        /\ u % 65536 = v % 65536
<1> DEFINE x == v % 65536
<1>1. x \in Int /\ 0 <= x /\ x <= 65535
  BY SMT
<1> HIDE DEF x
<1>2. CASE x < 32768
  <2>1. x % 65536 = x
    BY <1>1, SMT
  <2> QED BY <1>1, <1>2, <2>1, SMT DEF x
<1>3. CASE ~(x < 32768)
  <2> DEFINE u == x - 65536
  <2>1. u \in Int /\ -32768 <= u /\ u <= 32767 /\ u % 65536 = x
    BY <1>1, <1>3, SMT
  <2> HIDE DEF u
  <2> QED BY <2>1, SMT DEF x
<1> QED BY <1>2, <1>3

\* The number with the same low 26 bits that fits a jump.
LEMMA Signed26Of ==
  ASSUME NEW v \in Int
  PROVE  \E u \in Int : /\ -33554432 <= u /\ u <= 33554431
                        /\ u % 65536 = v % 65536
                        /\ (u \div 65536) % 1024 = (v \div 65536) % 1024
<1> DEFINE l == v % 65536
           q == v \div 65536
           h == q % 1024
<1>1. l \in Int /\ 0 <= l /\ l <= 65535 /\ q \in Int
  BY SMT
<1>2. h \in Int /\ 0 <= h /\ h <= 1023
  <2> HIDE DEF q
  <2> QED BY <1>1, SMT
<1> HIDE DEF l, h
<1> DEFINE u == JumpNumber(h, l)
<1>3. /\ u \in Int /\ -33554432 <= u /\ u <= 33554431
      /\ u % 65536 = l /\ (u \div 65536) % 1024 = h
  BY <1>1, <1>2, SignExtend26, SMT
<1> DEFINE Fits(n) == /\ -33554432 <= n /\ n <= 33554431
                      /\ n % 65536 = v % 65536
                      /\ (n \div 65536) % 1024 = (v \div 65536) % 1024
<1>4. Fits(u)
  <2>1. l = v % 65536 /\ h = (v \div 65536) % 1024
    BY DEF l, h
  <2> HIDE DEF u
  <2> QED BY <1>3, <2>1
<1> HIDE DEF u, Fits
<1>5. \E n \in Int : Fits(n)
  BY <1>3, <1>4
<1> QED BY <1>5 DEF Fits

\* A number that the decoder recovers from its masked form fits the field.
LEMMA SignedFits ==
  ASSUME NEW v \in Int, -2147483648 <= v, v <= 2147483647,
         immediate_value("Signed16", v % 65536) = WordOf(v)
  PROVE  -32768 <= v /\ v <= 32767
<1>1. PICK u \in Int : -32768 <= u /\ u <= 32767 /\ u % 65536 = v % 65536
  BY Signed16Of
<1>2. WordOf(u) = WordOf(v)
  BY <1>1, RecoveredSigned, SMT
<1>3. u - v < 4294967296 /\ v - u < 4294967296
  BY <1>1, SMT
<1>4. u = v
  BY <1>2, <1>3, SameWord, SMT
<1> QED BY <1>1, <1>4

\* The same for the zero-extended immediates and for LUI.
LEMMA UnsignedFits ==
  ASSUME NEW v \in Int, -2147483648 <= v, v <= 2147483647,
         \/ immediate_value("ZeroExtended16", v % 65536) = WordOf(v)
         \/ immediate_value("Upper16", v % 65536) = W(v, 0)
  PROVE  0 <= v /\ v <= 65535
<1> DEFINE u == v % 65536
<1>1. u \in Int /\ 0 <= u /\ u <= 65535
  BY SMT
<1> HIDE DEF u
<1>2. u % 65536 = u
  BY <1>1, SMT
<1>3. CASE immediate_value("ZeroExtended16", u) = WordOf(v)
  <2>1. WordOf(u) = WordOf(v)
    BY <1>1, <1>2, <1>3, RecoveredUnsigned, SMT
  <2>2. u - v < 4294967296 /\ v - u < 4294967296
    BY <1>1, SMT
  <2>3. u = v
    BY <1>1, <2>1, <2>2, SameWord, SMT
  <2> QED BY <1>1, <2>3
<1>4. CASE immediate_value("Upper16", u) = W(v, 0)
  <2>1. W(u, 0) = W(v, 0)
    BY <1>1, <1>2, <1>4, RecoveredUnsigned, SMT
  <2>2. u = v
    BY <2>1, SMT DEF W
  <2> QED BY <1>1, <2>2
<1> QED BY <1>3, <1>4 DEF u

\* A distance that the decoder recovers from the 16 bits of a branch, or the
\* 26 bits of a jump, fits them.
LEMMA DistanceFits ==
  ASSUME NEW n \in Int, NEW v \in Int, -536870912 <= v, v <= 536870911
  PROVE  /\ Add(WordOf(n), branch_displacement(v % 65536))
              = Add(WordOf(n), WordOf(4 * v)) => -32768 <= v /\ v <= 32767
         /\ Add(WordOf(n),
                jump_displacement(W((v \div 65536) % 1024, v % 65536)))
              = Add(WordOf(n), WordOf(4 * v)) =>
                -33554432 <= v /\ v <= 33554431
<1>1. ASSUME NEW u \in Int, -33554432 <= u, u <= 33554431,
             Add(WordOf(n), WordOf(4 * u)) = Add(WordOf(n), WordOf(4 * v))
      PROVE  u = v
  <2> DEFINE x == 4 * u
             y == 4 * v
  <2>1. x \in Int /\ y \in Int /\ x - y < 4294967296 /\ y - x < 4294967296
    BY <1>1, SMT
  <2>2. x = y => u = v
    BY <1>1, SMT
  <2>3. Add(WordOf(n), WordOf(x)) = Add(WordOf(n), WordOf(y))
    BY <1>1
  <2> HIDE DEF x, y
  <2> QED BY <2>1, <2>2, <2>3, SameSum, SMT
<1>2. ASSUME Add(WordOf(n), branch_displacement(v % 65536))
               = Add(WordOf(n), WordOf(4 * v))
      PROVE  -32768 <= v /\ v <= 32767
  <2>1. PICK u \in Int : -32768 <= u /\ u <= 32767 /\ u % 65536 = v % 65536
    BY Signed16Of
  <2>2. branch_displacement(v % 65536) = WordOf(4 * u)
    <3>1. immediate_value("Signed16", v % 65536) = WordOf(u)
      BY <2>1, RecoveredSigned, SMT
    <3> QED BY <3>1, WordOfTimes4, SMT DEF branch_displacement
  <2>3. u = v
    <3>1. -33554432 <= u /\ u <= 33554431
      BY <2>1, SMT
    <3>2. Add(WordOf(n), WordOf(4 * u)) = Add(WordOf(n), WordOf(4 * v))
      BY <1>2, <2>2
    <3> QED BY <1>1, <3>1, <3>2
  <2> QED BY <2>1, <2>3
<1>3. ASSUME Add(WordOf(n),
                 jump_displacement(W((v \div 65536) % 1024, v % 65536)))
               = Add(WordOf(n), WordOf(4 * v))
      PROVE  -33554432 <= v /\ v <= 33554431
  <2>1. PICK u \in Int : /\ -33554432 <= u /\ u <= 33554431
                         /\ u % 65536 = v % 65536
                         /\ (u \div 65536) % 1024 = (v \div 65536) % 1024
    BY Signed26Of
  <2>2. jump_displacement(W((v \div 65536) % 1024, v % 65536)) = WordOf(4 * u)
    <3>1. jump_displacement(W((u \div 65536) % 1024, u % 65536))
            = WordOf(4 * u)
      BY <2>1, RecoveredJump, SMT
    <3>2. W((u \div 65536) % 1024, u % 65536)
            = W((v \div 65536) % 1024, v % 65536)
      BY <2>1
    <3> QED BY <3>1, <3>2
  <2>3. Add(WordOf(n), WordOf(4 * u)) = Add(WordOf(n), WordOf(4 * v))
    BY <1>3, <2>2
  <2>4. u = v
    BY <1>1, <2>1, <2>3
  <2> QED BY <2>1, <2>4
<1> QED BY <1>2, <1>3

\* The register fields have five bits, whatever the halves hold.
LEMMA DecodedRegisters ==
  ASSUME NEW w, w.hi \in Int, w.lo \in Int, Decode(w).opcode \in Opcodes,
         NEW a, NEW b, NEW c, Operands(Decode(w)) = <<a, b, c>>
  PROVE  a \in 0 .. 31 /\ b \in 0 .. 31 /\ c \in 0 .. 31
<1> DEFINE op == w.hi \div 1024
           d  == Decode(w)
           f  == format_for(op)
           f21 == Field21(w)
           f16 == Field16(w)
           f11 == Field11(w)
<1>1. f21 \in 0 .. 31 /\ f16 \in 0 .. 31 /\ f11 \in 0 .. 31 /\ 0 \in 0 .. 31
  BY SMT DEF Field21, Field16, Field11
<1>2. /\ d.opcode = op
      /\ d.rd = IF f \in {"R", "I"} THEN f21 ELSE 0
      /\ d.rs1 = CASE f \in {"R", "I", "S"} -> f16
                   [] f \in {"B", "Jr"}     -> f21
                   [] OTHER                 -> 0
      /\ d.rs2 = CASE f = "R" -> f11
                   [] f = "S" -> f21
                   [] f = "B" -> f16
                   [] OTHER   -> 0
  BY DEF Decode
<1> HIDE DEF op, d, f21, f16, f11
<1>3. f = IF op \in 0 .. 8 \/ op = 23 THEN "R"
          ELSE IF op \in 9 .. 14 THEN "I"
          ELSE IF op = 15 THEN "S"
          ELSE IF op \in 16 .. 19 THEN "B"
          ELSE IF op \in {20, 21} THEN "J" ELSE "Jr"
  BY <1>2, FormatTable DEF d
<1>4. f \in {"R", "I", "S", "B", "J", "Jr"}
  BY <1>3
<1>5. d.rd \in 0 .. 31 /\ d.rs1 \in 0 .. 31 /\ d.rs2 \in 0 .. 31
  <2> HIDE DEF f
  <2> QED BY <1>1, <1>2, <1>4, SMT
<1>6. <<a, b, c>> =
        CASE f = "R"           -> <<d.rd, d.rs1, d.rs2>>
          [] d.opcode = OP_LUI -> <<d.rd, 0, 0>>
          [] f = "I"           -> <<d.rd, d.rs1, 0>>
          [] f = "S"           -> <<d.rs2, d.rs1, 0>>
          [] f = "B"           -> <<d.rs1, d.rs2, 0>>
          [] f = "J"           -> <<0, 0, 0>>
          [] f = "Jr"          -> <<d.rs1, 0, 0>>
  <2>1. Operands(d) = <<a, b, c>>
    BY DEF d
  <2> QED BY <1>2, <2>1 DEF Operands
<1>7. d.opcode = OP_LUI => f = "I"
  BY <1>2, <1>3, SMT DEF OP_LUI
<1> DEFINE Five(u) == \E x, y, z \in 0 .. 31 : u = <<x, y, z>>
<1>8. /\ Five(<<d.rd, d.rs1, d.rs2>>) /\ Five(<<d.rd, 0, 0>>)
      /\ Five(<<d.rd, d.rs1, 0>>) /\ Five(<<d.rs2, d.rs1, 0>>)
      /\ Five(<<d.rs1, d.rs2, 0>>) /\ Five(<<0, 0, 0>>)
      /\ Five(<<d.rs1, 0, 0>>)
  BY <1>1, <1>5, Zenon
<1> HIDE DEF Five, f
<1>9. Five(<<a, b, c>>)
  BY <1>4, <1>6, <1>7, <1>8, Zenon
<1> QED BY <1>9, SMT DEF Five

\* A word that means its statement names the statement's registers, so they
\* fit their fields.
LEMMA MeansOperand ==
  ASSUME NEW s, Placed(s), KnownLabel(s), s.text.op # WORD,
         MeansStatement(Packed(s), s)
  PROVE  /\ Operand(s)
         /\ Packed(s) = W(High(s), Low(s))
         /\ s.text.a \in 0 .. 31
<1> DEFINE t  == s.text
           w  == Packed(s)
           op == CodeOf(s)
           a  == RegA(s)
           v  == Value(s)
<1>1. /\ t.op \in Opcodes \cup {RET, WORD}
      /\ t.a \in Nat /\ t.b \in Nat /\ t.c \in Nat
      /\ t.op \notin 1 .. 8 => t.c = 0
      /\ t.op \in {0, 13, 20, 21, 22, 23} => t.b = 0
      /\ t.op \in {0, 20, 21, 23} => t.a = 0
      /\ t.op \in {RET, WORD} => t.a = 0 /\ t.b = 0
  <2>1. t \in Statement
    BY DEF Placed
  <2> HIDE DEF t
  <2> QED BY <2>1, StatementFields, SMT
<1>2. v \in Int
  BY ValueOfLabel, Zenon
<1>3. /\ Decode(w).opcode = IF t.op = RET THEN OP_JR ELSE t.op
      /\ Operands(Decode(w)) = IF t.op = RET THEN <<31, 0, 0>>
                               ELSE <<t.a, t.b, t.c>>
  BY Zenon DEF MeansStatement
<1>4. /\ t.op = RET => op = 22 /\ a = 31
      /\ t.op # RET => op = t.op /\ a = t.a
  BY SMT DEF CodeOf, RegA, OP_JR
<1>5. /\ t.op = RET => t.op \notin 0 .. 23
      /\ t.op # RET => t.op \in 0 .. 23
      /\ Opcodes = 0 .. 23
  BY <1>1, PseudoOps DEF Opcodes
<1>6. Decode(w).opcode = op
  BY <1>3 DEF CodeOf
<1> HIDE DEF t, w, op, a, v
<1>7. /\ op \in 0 .. 23
      /\ a \in Nat
      /\ op \notin 1 .. 8 => t.c = 0
      /\ op \in {0, 13, 20, 21, 22, 23} => t.b = 0
      /\ op \in {0, 20, 21, 23} => a = 0
      /\ Operands(Decode(w)) = <<a, t.b, t.c>>
  <2>1. CASE t.op = RET
    BY <2>1, <1>1, <1>3, <1>4, <1>5, SMT
  <2>2. CASE t.op # RET
    BY <2>2, <1>1, <1>3, <1>4, <1>5, SMT
  <2> QED BY <2>1, <2>2
<1>8. w = W(High(s), Low(s))
  <2>1. a \in Int /\ t.b \in Int
    BY <1>1, <1>7, SMT
  <2>2. /\ op \in Opcodes
        /\ op \in {0, 13, 22, 23} => t.b = 0
        /\ op \in {0, 23} => a = 0
    BY <1>5, <1>7, SMT
  <2> QED BY <2>1, <2>2, PackedHalves, Zenon DEF t, w, op, a
<1>9. High(s) \in Int /\ Low(s) \in Int
  <2> DEFINE x == (v \div 65536) % 1024
             y == v % 65536
  <2>1. x \in Int /\ y \in Int
    BY <1>2, SMT
  <2>2. /\ High(s) = op * 1024 + (IF op \in {20, 21} THEN x ELSE a * 32 + t.b)
        /\ Low(s) = IF op \in 1 .. 8 THEN t.c * 2048
                    ELSE IF op \in {0, 22, 23} THEN 0 ELSE y
    BY SMT DEF High, Low, op, a, t, v
  <2> HIDE DEF x, y
  <2> QED BY <1>1, <1>7, <2>1, <2>2, SMT
<1>10. w.hi \in Int /\ w.lo \in Int
  BY <1>8, <1>9, SMT DEF W
<1>11. Decode(w).opcode \in Opcodes
  BY <1>5, <1>6, <1>7
<1>12. a \in 0 .. 31 /\ t.b \in 0 .. 31 /\ t.c \in 0 .. 31
  BY <1>7, <1>10, <1>11, DecodedRegisters, Zenon
<1>13. t.a \in 0 .. 31
  BY <1>1, <1>4, <1>12, SMT
<1>14. Operand(s)
  BY <1>2, <1>5, <1>7, <1>12, Zenon DEF Operand, t, op, a, v
<1> QED BY <1>8, <1>13, <1>14 DEF t, w

\* A 32-bit number whose word means the statement fits its field.
LEMMA MeansInRange ==
  ASSUME NEW s, Placed(s), KnownLabel(s), InThirtyTwoBits(s),
         s.text.op # WORD, MeansStatement(Packed(s), s), CodeOf(s) \in 9 .. 21
  PROVE  InRange(CodeOf(s), Value(s))
<1> DEFINE t  == s.text
           word == Packed(s)
           op == CodeOf(s)
           v  == Value(s)
           d    == Decode(word)
           c    == control_for(d.opcode)
           kind == c.immediate_kind
           flow == c.control_flow
           after == WordOf(s.address + 4)
           goes == CASE flow = "ConditionalBranch" ->
                          Add(after, branch_displacement(d.imm16))
                     [] flow = "RelativeJump" ->
                          Add(after, jump_displacement(d.imm26))
                     [] OTHER -> Zero
           wanted == IF t.target # NoLabel THEN WordOf(labels[t.target])
                     ELSE Add(after, Times4(WordOf(t.imm)))
<1>1. Operand(s) /\ word = W(High(s), Low(s))
  BY MeansOperand, Zenon
<1>2. /\ d.opcode = op /\ op \in Opcodes
      /\ op \in 9 .. 19 => d.imm16 = v % 65536
      /\ op \in {20, 21} => d.imm26 = W((v \div 65536) % 1024, v % 65536)
  BY <1>1, PackedDecodes, SMT DEF Operand
<1>3. /\ kind \in {"Signed16", "ZeroExtended16"} =>
           immediate_value(kind, d.imm16) = WordOf(t.imm)
      /\ kind = "Upper16" => immediate_value(kind, d.imm16) = W(t.imm, 0)
      /\ flow \in {"ConditionalBranch", "RelativeJump"} => goes = wanted
  BY Zenon DEF MeansStatement
<1>4. /\ kind = IF op \in {9, 14, 15} THEN "Signed16"
                ELSE IF op \in {10, 11, 12} THEN "ZeroExtended16"
                ELSE IF op = 13 THEN "Upper16" ELSE "None"
      /\ flow = IF op \in 16 .. 19 THEN "ConditionalBranch"
                ELSE IF op \in {20, 21} THEN "RelativeJump"
                ELSE IF op = 22 THEN "RegisterJump" ELSE "Sequential"
  <2>1. ControlColumns(op, c)
    BY <1>2, ControlTable, SMT
  <2> HIDE DEF c, op
  <2> QED BY <2>1, Zenon DEF ControlColumns
<1>5. /\ v \in Int /\ s.address + 4 \in Int
      /\ t.target = NoLabel => v = t.imm
  BY ValueOfLabel, SMT DEF Placed
<1>6. Add(after, WordOf(4 * v)) = wanted
  BY Destination, SMT
<1>7. /\ t.op = op
      /\ t.target # NoLabel => op \in 16 .. 21
  <2>1. t.op = op
    BY SMT DEF CodeOf, OP_JR
  <2>2. t.target # NoLabel => t.op \in 16 .. 21
    BY StatementFields, Zenon DEF Placed
  <2> QED BY <2>1, <2>2
<1>8. IF op \in 16 .. 21 THEN -536870912 <= v /\ v <= 536870911
                         ELSE -2147483648 <= t.imm /\ t.imm <= 2147483647
  <2>1. BRANCH_INSTRUCTIONS \cup JUMP_INSTRUCTIONS = 16 .. 21
    BY SMT DEF BRANCH_INSTRUCTIONS, JUMP_INSTRUCTIONS, OP_BEQ, OP_BGE, OP_J,
               OP_JAL
  <2>2. IF t.op \in 16 .. 21
          THEN -536870912 <= v /\ v <= 536870911
          ELSE -2147483647 - 1 <= t.imm /\ t.imm <= 2147483647
    BY <2>1, SMT DEF InThirtyTwoBits
  <2> HIDE DEF v, t, op
  <2> QED BY <1>7, <2>2, SMT
<1> HIDE DEF op, v, d, kind, flow, after, wanted, word, t
<1>9. CASE op \in {9, 14, 15}
  <2>1. /\ v = t.imm /\ kind = "Signed16" /\ d.imm16 = v % 65536
        /\ -2147483648 <= v /\ v <= 2147483647
    BY <1>9, <1>2, <1>4, <1>5, <1>7, <1>8, SMT
  <2>2. immediate_value("Signed16", v % 65536) = WordOf(v)
    BY <1>3, <2>1
  <2>3. -32768 <= v /\ v <= 32767
    BY <1>5, <2>1, <2>2, SignedFits, SMT
  <2> QED BY <1>5, <1>9, <2>3, SMT DEF InRange, op, v
<1>10. CASE op \in 10 .. 13
  <2>1. /\ v = t.imm /\ d.imm16 = v % 65536
        /\ -2147483648 <= v /\ v <= 2147483647
        /\ kind = "ZeroExtended16" \/ kind = "Upper16"
    BY <1>10, <1>2, <1>4, <1>5, <1>7, <1>8, SMT
  <2>2. \/ immediate_value("ZeroExtended16", v % 65536) = WordOf(v)
        \/ immediate_value("Upper16", v % 65536) = W(v, 0)
    BY <1>3, <2>1
  <2>3. 0 <= v /\ v <= 65535
    BY <1>5, <2>1, <2>2, UnsignedFits, SMT
  <2> QED BY <1>5, <1>10, <2>3, SMT DEF InRange, op, v
<1>11. CASE op \in 16 .. 19
  <2>1. /\ flow = "ConditionalBranch" /\ d.imm16 = v % 65536
        /\ -536870912 <= v /\ v <= 536870911
    BY <1>11, <1>2, <1>4, <1>8, SMT
  <2>2. goes = Add(after, branch_displacement(d.imm16))
    BY <2>1, SMT
  <2> HIDE DEF goes
  <2>3. Add(after, branch_displacement(v % 65536)) = Add(after, WordOf(4 * v))
    BY <1>3, <1>6, <2>1, <2>2
  <2>4. -32768 <= v /\ v <= 32767
    BY <1>5, <2>1, <2>3, DistanceFits, SMT DEF after
  <2> QED BY <1>5, <1>11, <2>4, SMT DEF InRange, op, v
<1>12. CASE op \in {20, 21}
  <2>1. /\ flow = "RelativeJump"
        /\ d.imm26 = W((v \div 65536) % 1024, v % 65536)
        /\ -536870912 <= v /\ v <= 536870911
    BY <1>12, <1>2, <1>4, <1>8, SMT
  <2>2. goes = Add(after, jump_displacement(d.imm26))
    BY <2>1, SMT
  <2> HIDE DEF goes
  <2>3. Add(after, jump_displacement(W((v \div 65536) % 1024, v % 65536)))
          = Add(after, WordOf(4 * v))
    BY <1>3, <1>6, <2>1, <2>2
  <2>4. -33554432 <= v /\ v <= 33554431
    BY <1>5, <2>1, <2>3, DistanceFits, SMT DEF after
  <2> QED BY <1>5, <1>12, <2>4, SMT DEF InRange, op, v
<1>13. op \in 9 .. 21
  BY DEF op
<1> QED BY <1>9, <1>10, <1>11, <1>12, <1>13, SMT

\* The assembler accepts a statement that the CPU would understand.
LEMMA MeansEncodable ==
  ASSUME NEW s, Placed(s), KnownLabel(s), InThirtyTwoBits(s),
         MeansStatement(Packed(s), s)
  PROVE  Encodable(s)
<1> DEFINE t == s.text
<1>1. t \in Statement
  BY DEF Placed
<1>2. CASE t.op = WORD
  <2> DEFINE x == t.data.hi
  <2>1. t.data \in Word
    BY <1>2, Zenon DEF MeansStatement
  <2>2. x \in Int /\ 0 <= x /\ x <= 65535
    BY <2>1, WordParts
  <2>3. checked_range(x, 0, 65535)
    <3> HIDE DEF x
    <3> QED BY <2>2, CheckedRange, SMT
  <2>4. t.a = 0 /\ t.b = 0 /\ t.c = 0
    <3>1. WORD \notin 1 .. 8
      BY PseudoOps DEF Opcodes
    <3> HIDE DEF t
    <3> QED BY <1>1, <1>2, <3>1, StatementFields, SMT
  <2>5. {t.a, t.b, t.c} \subseteq Register
    BY <2>4, SMT DEF Register
  <2> QED BY <1>2, <2>3, <2>5, SMT DEF Encodable, KnownLabel
<1>3. CASE t.op # WORD
  <2> DEFINE op == CodeOf(s)
             v  == Value(s)
  <2>1. /\ Operand(s)
        /\ t.a \in 0 .. 31
    BY <1>3, MeansOperand, Zenon
  <2>2. {t.a, t.b, t.c} \subseteq Register
    BY <2>1, SMT DEF Register, Operand
  <2>3. ImmediateInRange(t.op, v)
    <3>1. CASE t.op = RET
      <4>1. RET \notin 0 .. 23
        BY PseudoOps DEF Opcodes
      <4>2. /\ RET \notin BRANCH_INSTRUCTIONS \cup {OP_ADDI, OP_LW, OP_SW}
            /\ RET \notin {OP_ANDI, OP_ORI, OP_XORI, OP_LUI}
            /\ RET \notin JUMP_INSTRUCTIONS
        BY <4>1, SMT DEF BRANCH_INSTRUCTIONS, JUMP_INSTRUCTIONS, OP_ADDI,
           OP_LW, OP_SW, OP_ANDI, OP_ORI, OP_XORI, OP_LUI, OP_BEQ, OP_BGE,
           OP_J, OP_JAL
      <4>3. ImmediateInRange(RET, v)
        <5> HIDE DEF v
        <5> QED BY <4>2, SMT DEF ImmediateInRange
      <4> QED BY <3>1, <4>3
    <3>2. CASE t.op # RET
      <4>1. t.op = op /\ op \in Opcodes /\ op \in 0 .. 23
        BY <3>2, <2>1, SMT DEF CodeOf, Operand, Opcodes
      <4>2. op \in 9 .. 21 => InRange(op, v)
        BY <1>3, MeansInRange, Zenon
      <4> HIDE DEF op, v
      <4>3. /\ op \in 9 .. 21 => (ImmediateInRange(op, v) <=> InRange(op, v))
            /\ op \in 0 .. 8 \/ op \in {22, 23} => ImmediateInRange(op, v)
        BY <4>1, RangeTable, Zenon
      <4> QED BY <4>1, <4>2, <4>3, SMT
    <3> QED BY <3>1, <3>2
  <2> QED BY <1>3, <2>2, <2>3, SMT DEF Encodable, KnownLabel
<1> QED BY <1>2, <1>3

\* Two lines, or one line twice, define a label.
DefinedTwice ==
  \E i, j \in DOMAIN source :
    \E l \in ToSet(source[i].labels) \cap ToSet(source[j].labels) :
      i # j \/ ~IsInjective(source[i].labels)

\* Where the labels come from, and why the assembler stopped.
Refused ==
  /\ pass = "scan" => \A l \in DOMAIN labels : \E i \in DOMAIN source :
                        i < line /\ l \in ToSet(source[i].labels)
  /\ pass = "duplicate label" => DefinedTwice
  /\ pass = "bad statement" => /\ line \in 1 .. Len(statements)
                               /\ ~Encodable(statements[line])

\* Every step keeps the reasons.
LEMMA RefusedStep ==
  ASSUME LaidOut, Refused, [Next]_asmVars
  PROVE  Refused'
<1>1. CASE ScanLine
  <2> DEFINE new == source[line].labels
             clash == ~IsInjective(new) \/ ToSet(new) \cap DOMAIN labels # {}
  <2>1. /\ source' = source /\ pass = "scan" /\ line \in DOMAIN source
        /\ line \in Nat
    <3>1. line <= Len(source) /\ source' = source /\ pass = "scan"
      BY <1>1, Zenon DEF ScanLine
    <3>2. line \in 1 .. Len(source) /\ line \in Nat
      BY <3>1, SMT DEF LaidOut
    <3>3. DOMAIN source = 1 .. Len(source)
      BY LenProperties, Zenon DEF LaidOut
    <3> QED BY <3>1, <3>2, <3>3, Zenon
  <2>2. \A l \in DOMAIN labels : \E i \in DOMAIN source :
          i < line /\ l \in ToSet(source[i].labels)
    BY <2>1, Zenon DEF Refused
  <2>3. CASE clash /\ pass' = "duplicate label"
    <3>1. ASSUME ~IsInjective(new)
          PROVE  DefinedTwice
      <4>1. PICK x \in DOMAIN new : TRUE
        BY <3>1, Zenon DEF IsInjective
      <4>2. new[x] \in ToSet(new)
        BY <4>1, Zenon DEF ToSet
      <4> QED BY <2>1, <3>1, <4>2, Zenon DEF DefinedTwice
    <3>2. ASSUME NEW l \in ToSet(new) \cap DOMAIN labels
          PROVE  DefinedTwice
      <4>1. PICK i \in DOMAIN source :
              i < line /\ l \in ToSet(source[i].labels)
        BY <2>2, Zenon
      <4>2. i # line
        BY <2>1, <4>1, SMT
      <4> QED BY <2>1, <4>1, <4>2, Zenon DEF DefinedTwice
    <3>3. DefinedTwice
      BY <2>3, <3>1, <3>2, Zenon
    <3>4. DefinedTwice'
      BY <2>1, <3>3, Zenon DEF DefinedTwice
    <3> QED BY <2>3, <3>4, Zenon DEF Refused
  <2>4. CASE /\ labels' = [l \in DOMAIN labels \cup ToSet(new) |->
                             IF l \in ToSet(new) THEN address ELSE labels[l]]
             /\ line' = line + 1
             /\ pass' = pass
    <3>1. ASSUME NEW l \in DOMAIN labels'
          PROVE  \E i \in DOMAIN source :
                   i < line + 1 /\ l \in ToSet(source[i].labels)
      <4>1. l \in ToSet(new) \/ l \in DOMAIN labels
        BY <2>4, <3>1, Zenon
      <4>2. CASE l \in ToSet(new)
        <5>1. line < line + 1
          BY <2>1, SMT
        <5> QED BY <2>1, <4>2, <5>1, Zenon
      <4>3. CASE l \in DOMAIN labels
        <5>1. PICK i \in DOMAIN source :
                i < line /\ l \in ToSet(source[i].labels)
          BY <2>2, <4>3, Zenon
        <5>2. i \in Int
          BY LenProperties, SMT DEF LaidOut
        <5>3. i < line + 1
          BY <2>1, <5>1, <5>2, SMT
        <5> QED BY <5>1, <5>3, Zenon
      <4> QED BY <4>1, <4>2, <4>3
    <3> QED BY <2>1, <2>4, <3>1, Zenon DEF Refused
  <2> QED BY <1>1, <2>3, <2>4, Zenon DEF ScanLine
<1>2. CASE EndScan
  BY <1>2, Zenon DEF EndScan, Refused
<1>3. CASE EncodeStatement
  <2>1. labels' = labels /\ statements' = statements /\ pass = "encode"
        /\ line <= Len(statements)
    BY <1>3, Zenon DEF EncodeStatement
  <2>2. line \in 1 .. Len(statements)
    BY <2>1, SMT DEF LaidOut
  <2>3. \/ pass' = pass
        \/ pass' = "bad statement" /\ line' = line
           /\ ~Encodable(statements[line])
    BY <1>3, Zenon DEF EncodeStatement
  <2>4. \A s : Encodable(s)' <=> Encodable(s)
    BY <2>1, LabelsDecide
  <2>5. CASE pass' = pass
    BY <2>1, <2>5, Zenon DEF Refused
  <2>6. CASE pass' = "bad statement" /\ line' = line
             /\ ~Encodable(statements[line])
    <3>1. ~Encodable(statements[line])'
      BY <2>1, <2>4, <2>6, Zenon
    <3>2. line' \in 1 .. Len(statements')
      BY <2>1, <2>2, <2>6, Zenon
    <3>3. pass' # "scan" /\ pass' # "duplicate label"
      BY <2>6, Zenon
    <3> QED BY <3>1, <3>2, <3>3, Zenon DEF Refused
  <2> QED BY <2>3, <2>5, <2>6, Zenon
<1>4. CASE Finish
  BY <1>4, Zenon DEF Finish, Refused
<1>5. CASE UNCHANGED asmVars
  <2>1. /\ labels' = labels /\ statements' = statements /\ pass' = pass
        /\ line' = line /\ source' = source
    BY <1>5 DEF asmVars
  <2>2. \A s : Encodable(s)' <=> Encodable(s)
    BY <2>1, LabelsDecide
  <2>3. pass = "bad statement" => ~Encodable(statements[line])'
    BY <2>1, <2>2, Zenon DEF Refused
  <2>4. pass = "duplicate label" => DefinedTwice'
    BY <2>1, Zenon DEF Refused, DefinedTwice
  <2>5. pass = "bad statement" => line' \in 1 .. Len(statements')
    BY <2>1, Zenon DEF Refused
  <2>6. pass = "scan" => \A l \in DOMAIN labels' : \E i \in DOMAIN source' :
                           i < line' /\ l \in ToSet(source'[i].labels)
    BY <2>1, Zenon DEF Refused
  <2>7. pass' = pass
    BY <2>1
  <2> QED BY <2>3, <2>4, <2>5, <2>6, <2>7, Zenon DEF Refused
<1> QED BY <1>1, <1>2, <1>3, <1>4, <1>5 DEF Next

\* For every source file, the assembler gives up only where it must: a label
\* is undefined or defined twice, a number is beyond 32 bits, or the word it
\* would have packed means something else to the CPU (assembler.py 90-102 and
\* checked_range against decoder.cpp).
THEOREM RefusalsAreNeeded == Spec => []RefusesOnlyTheUnencodable
<1>1. Init => Refused
  <2> SUFFICES ASSUME Init PROVE Refused
    OBVIOUS
  <2>1. pass = "scan" /\ labels = <<>>
    BY DEF Init
  <2>2. DOMAIN labels = {}
    BY <2>1, SMT
  <2> QED BY <2>1, <2>2, Zenon DEF Refused
<1>2. LaidOut /\ Refused /\ [Next]_asmVars => Refused'
  BY RefusedStep
<1>3. LaidOut /\ Refused => RefusesOnlyTheUnencodable
  <2> SUFFICES ASSUME LaidOut, Refused
               PROVE  RefusesOnlyTheUnencodable
    OBVIOUS
  <2> DEFINE s == statements[line]
  <2>1. ASSUME pass = "bad statement", KnownLabel(s), InThirtyTwoBits(s),
               MeansStatement(Packed(s), s)
        PROVE  FALSE
    <3>1. line \in 1 .. Len(statements) /\ ~Encodable(s)
      BY <2>1, Zenon DEF Refused
    <3>2. s \in Laid /\ s.address % 4 = 0
      BY <3>1, ElementOfSeq, Zenon DEF LaidOut
    <3>3. s.text \in Statement /\ s.address \in Int
      <4> HIDE DEF s
      <4> QED BY <3>2, SMT DEF Laid
    <3>4. Placed(s)
      BY <3>2, <3>3, Zenon DEF Placed, LaidOut
    <3> QED BY <2>1, <3>1, <3>4, MeansEncodable, Zenon
  <2>2. pass = "duplicate label" => DefinedTwice
    BY Zenon DEF Refused
  <2> QED BY <2>1, <2>2, Zenon
          DEF RefusesOnlyTheUnencodable, KnownLabel, DefinedTwice
<1> QED BY <1>1, <1>2, <1>3, AssemblerInvariant, PTL DEF Spec
=============================================================================
