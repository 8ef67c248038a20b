----------------------------- MODULE Assembler ------------------------------
(***************************************************************************)
(* assembler/assembler.py and disassembler.py.  A line holds labels and a  *)
(* statement, already split into its parts: the text is left out.  A line  *)
(* stands for count equal statements (0: it holds labels only), so that    *)
(* labels can be as far apart as the displacement fields allow.  What the  *)
(* encoded words mean is taken from the C++ decoder (GoldenIsa).           *)
(***************************************************************************)
EXTENDS InstructionEffect, Sequences, SequencesExt

CONSTANTS Sources,   \* the source files
          RET, WORD, \* the mnemonics that have no opcode
          Files      \* register contents the program may run with

ASSUME PseudoAreNoOpcodes ==
  RET # WORD /\ {RET, WORD} \cap (OP_NOP .. OP_HALT) = {}

VARIABLES
  source,
  pass,        \* "scan", "encode", "done", "duplicate label", "bad statement"
  line,        \* the line or the statement that is next
  address,
  labels,      \* label -> address, for the labels met so far
  statements,  \* the statements with their addresses
  words        \* the words of the statements encoded so far

asmVars == <<source, pass, line, address, labels, statements, words>>

NoLabel == "no label"   \* not an identifier

\* A statement; a, b and c are its registers in the order of the text, imm
\* its number, target its label (or NoLabel), data the value of .WORD, whose hi
\* may be too large for a word.
Stmt(op, a, b, c, imm) ==
  [op |-> op, a |-> a, b |-> b, c |-> c, imm |-> imm, target |-> NoLabel,
   data |-> Zero]
Goto(op, a, b, label) == [Stmt(op, a, b, 0, 0) EXCEPT !.target = label]
Data(value)           == [Stmt(WORD, 0, 0, 0, 0) EXCEPT !.data = value]

R_INSTRUCTIONS      == OP_ADD .. OP_SHR
BRANCH_INSTRUCTIONS == OP_BEQ .. OP_BGE
JUMP_INSTRUCTIONS   == {OP_J, OP_JAL}

\* What a line can say: the operands that a mnemonic does not take (the counts
\* that split_operands checks) are 0, and only branches and jumps name labels.
Statement ==
  {t \in [op : (OP_NOP .. OP_HALT) \cup {RET, WORD}, a : Nat, b : Nat,
          c : Nat, imm : Int, target : STRING, data : [hi : Int, lo : Half]] :
     /\ t.target # NoLabel =>
          t.op \in BRANCH_INSTRUCTIONS \cup JUMP_INSTRUCTIONS
     /\ t.op \notin R_INSTRUCTIONS => t.c = 0
     /\ t.op \in {OP_NOP, OP_HALT, OP_LUI, OP_JR} \cup JUMP_INSTRUCTIONS =>
          t.b = 0
     /\ t.op \in {OP_NOP, OP_HALT} \cup JUMP_INSTRUCTIONS => t.a = 0
     /\ t.op \in {RET, WORD} => t.a = 0 /\ t.b = 0}

ASSUME SourcesAreParsed ==
  Sources \subseteq Seq([labels : Seq(STRING), count : Nat, text : Statement])

Init ==
  /\ source \in Sources
  /\ pass = "scan"
  /\ line = 1
  /\ address = 0
  /\ labels = <<>>
  /\ statements = <<>>
  /\ words = <<>>

------------------------------------------------------------------------------
\* parse_source, one line at a time.

ScanLine ==
  /\ pass = "scan"
  /\ line <= Len(source)
  /\ LET new   == source[line].labels
         clash == ~IsInjective(new) \/ ToSet(new) \cap DOMAIN labels # {}
     IN  \/ /\ clash
            /\ pass' = "duplicate label"
            /\ UNCHANGED <<line, address, labels, statements>>
         \/ /\ ~clash
            /\ labels' = [l \in DOMAIN labels \cup ToSet(new) |->
                            IF l \in ToSet(new) THEN address ELSE labels[l]]
            /\ statements' =
                 IF source[line].count = 0 THEN statements
                 ELSE Append(statements, [address |-> address,
                                          text |-> source[line].text])
            /\ address' = address + 4 * source[line].count
            /\ line' = line + 1
            /\ UNCHANGED pass
  /\ UNCHANGED <<source, words>>

EndScan ==
  /\ pass = "scan"
  /\ line > Len(source)
  /\ pass' = "encode"
  /\ line' = 1
  /\ UNCHANGED <<source, address, labels, statements, words>>

------------------------------------------------------------------------------
\* encode_statement.

checked_range(value, minimum, maximum) == value \in minimum .. maximum

\* Mutant: the distance is measured from the branch itself.
byte_delta_FromPc(s) == labels[s.text.target] - s.address

byte_delta(s) == labels[s.text.target] - (s.address + 4)

\* resolve_displacement, and the plain number of the other instructions.
Value(s) ==
  IF s.text.target = NoLabel THEN s.text.imm ELSE byte_delta(s) \div 4

\* Mutant: the most negative value is taken for out of range.
ImmediateInRange_Symmetric(op, value) ==
  CASE op \in BRANCH_INSTRUCTIONS \cup {OP_ADDI, OP_LW, OP_SW} ->
         checked_range(value, -32767, 32767)
    [] op \in {OP_ANDI, OP_ORI, OP_XORI, OP_LUI} ->
         checked_range(value, 0, 65535)
    [] op \in JUMP_INSTRUCTIONS ->
         checked_range(value, -33554432, 33554431)
    [] OTHER -> TRUE

ImmediateInRange(op, value) ==
  CASE op \in BRANCH_INSTRUCTIONS \cup {OP_ADDI, OP_LW, OP_SW} ->
         checked_range(value, -32768, 32767)
    [] op \in {OP_ANDI, OP_ORI, OP_XORI, OP_LUI} ->
         checked_range(value, 0, 65535)
    [] op \in JUMP_INSTRUCTIONS ->
         checked_range(value, -33554432, 33554431)
    [] OTHER -> TRUE

\* No AssemblyError is raised.
Encodable(s) ==
  /\ s.text.op = WORD => checked_range(s.text.data.hi, 0, 65535)
  /\ s.text.target # NoLabel => s.text.target \in DOMAIN labels
  /\ {s.text.a, s.text.b, s.text.c} \subseteq Register
  /\ s.text.op # WORD => ImmediateInRange(s.text.op, Value(s))

\* The word that the shifts and masks put together.
Packed(s) ==
  LET op    == IF s.text.op = RET THEN OP_JR ELSE s.text.op
      a     == IF s.text.op = RET THEN 31 ELSE s.text.a
      upper == op * 1024 + a * 32 + s.text.b
  IN  CASE op = WORD                    -> s.text.data
        [] op \in {OP_NOP, OP_HALT}     -> W(op * 1024, 0)
        [] op \in R_INSTRUCTIONS        -> W(upper, s.text.c * 2048)
        [] op = OP_LUI                  -> W(op * 1024 + a * 32, Value(s) % 65536)
        [] op \in JUMP_INSTRUCTIONS     ->
             W(op * 1024 + ((Value(s) \div 65536) % 1024), Value(s) % 65536)
        [] op = OP_JR                   -> W(op * 1024 + a * 32, 0)
        [] OTHER                        -> W(upper, Value(s) % 65536)

EncodeStatement ==
  /\ pass = "encode"
  /\ line <= Len(statements)
  /\ \/ /\ Encodable(statements[line])
        /\ words' = Append(words, Packed(statements[line]))
        /\ line' = line + 1
        /\ UNCHANGED pass
     \/ /\ ~Encodable(statements[line])
        /\ pass' = "bad statement"
        /\ UNCHANGED <<line, words>>
  /\ UNCHANGED <<source, address, labels, statements>>

Finish ==
  /\ pass = "encode"
  /\ line > Len(statements)
  /\ pass' = "done"
  /\ UNCHANGED <<source, line, address, labels, statements, words>>

Next == ScanLine \/ EndScan \/ EncodeStatement \/ Finish

Spec == Init /\ [][Next]_asmVars

------------------------------------------------------------------------------
\* disassemble_word: the statement it prints.

\* Mutant: every 16-bit immediate is printed signed.
SignedImmediate_Always(op) == op # OP_LUI

SignedImmediate(op) == op \notin {OP_ANDI, OP_ORI, OP_XORI, OP_LUI}

sign_extend(value, width) ==
  IF value >= 2^(width - 1) THEN value - 2^width ELSE value

disassemble_word(w) ==
  LET op  == w.hi \div 1024
      rd  == (w.hi \div 32) % 32
      rs1 == w.hi % 32
      rs2 == (w.lo \div 2048) % 32
      imm == IF SignedImmediate(op) THEN sign_extend(w.lo, 16) ELSE w.lo
      invalid == \/ op > OP_HALT
                 \/ op \in {OP_NOP, OP_HALT} /\ w # W(op * 1024, 0)
                 \/ op \in R_INSTRUCTIONS /\ w.lo % 2048 # 0
                 \/ op = OP_JR /\ (rs1 # 0 \/ w.lo # 0)
                 \/ op = OP_LUI /\ rs1 # 0
  IN  CASE invalid                              -> Data(w)
        [] ~invalid /\ op \in {OP_NOP, OP_HALT} -> Stmt(op, 0, 0, 0, 0)
        [] ~invalid /\ op \in R_INSTRUCTIONS    -> Stmt(op, rd, rs1, rs2, 0)
        [] ~invalid /\ op = OP_JR               -> Stmt(op, rd, 0, 0, 0)
        [] ~invalid /\ op = OP_LUI              -> Stmt(op, rd, 0, 0, imm)
        [] op \in JUMP_INSTRUCTIONS             ->
             Stmt(op, 0, 0, 0, sign_extend((w.hi % 1024) * 65536 + w.lo, 26))
        [] OTHER                                -> Stmt(op, rd, rs1, 0, imm)

------------------------------------------------------------------------------
\* The 32-bit word of an integer.
WordOf(n) == W((n \div 65536) % 65536, n % 65536)

\* The registers that an instruction of this format reads and writes, in the
\* order in which assembly source writes them.
Operands(d) ==
  CASE format_for(d.opcode) = "R"  -> <<d.rd, d.rs1, d.rs2>>
    [] d.opcode = OP_LUI           -> <<d.rd, 0, 0>>
    [] format_for(d.opcode) = "I"  -> <<d.rd, d.rs1, 0>>
    [] format_for(d.opcode) = "S"  -> <<d.rs2, d.rs1, 0>>
    [] format_for(d.opcode) = "B"  -> <<d.rs1, d.rs2, 0>>
    [] format_for(d.opcode) = "J"  -> <<0, 0, 0>>
    [] format_for(d.opcode) = "Jr" -> <<d.rs1, 0, 0>>

\* The CPU, given this word at this address, does what the statement says:
\* the same operation on the same registers with the same number, and a
\* branch or jump to a label goes to the address of that label.
MeansStatement(word, s) ==
  LET d      == Decode(word)
      kind   == control_for(d.opcode).immediate_kind
      after  == WordOf(s.address + 4)
      flow   == control_for(d.opcode).control_flow
      goes   == CASE flow = "ConditionalBranch" ->
                       Add(after, branch_displacement(d.imm16))
                  [] flow = "RelativeJump" ->
                       Add(after, jump_displacement(d.imm26))
                  [] OTHER -> Zero
      wanted == IF s.text.target # NoLabel THEN WordOf(labels[s.text.target])
                ELSE Add(after, Times4(WordOf(s.text.imm)))
  IN  IF s.text.op = WORD THEN word = s.text.data /\ word \in Word
      ELSE /\ DecodeError(word) = "None"
           /\ d.opcode = IF s.text.op = RET THEN OP_JR ELSE s.text.op
           /\ Operands(d) = IF s.text.op = RET THEN <<31, 0, 0>>
                            ELSE <<s.text.a, s.text.b, s.text.c>>
           /\ kind \in {"Signed16", "ZeroExtended16"} =>
                immediate_value(kind, d.imm16) = WordOf(s.text.imm)
           /\ kind = "Upper16" =>
                immediate_value(kind, d.imm16) = W(s.text.imm, 0)
           /\ flow \in {"ConditionalBranch", "RelativeJump"} => goes = wanted

\* Every word the assembler emits means its statement to the CPU: in
\* particular a label branch lands on the label for every distance the
\* assembler accepts (assembler.py 90-102 against decoder.cpp).
WordsMeanTheirStatements ==
  \A i \in DOMAIN words : MeansStatement(words[i], statements[i])

\* The number, or the distance in bytes, is a signed 32-bit integer.  The
\* CPU computes modulo 2^32: a larger one stands for the same word as a
\* smaller one, and is refused all the same.
InThirtyTwoBits(s) ==
  IF s.text.op \in BRANCH_INSTRUCTIONS \cup JUMP_INSTRUCTIONS
    THEN -536870912 <= Value(s) /\ Value(s) <= 536870911
    ELSE -2147483647 - 1 <= s.text.imm /\ s.text.imm <= 2147483647

\* The assembler gives up only where it must: a label is undefined or defined
\* twice, the number is beyond 32 bits, or the word it would have packed out
\* of the refused statement means something else.
RefusesOnlyTheUnencodable ==
  /\ pass = "bad statement" =>
       LET s == statements[line]
       IN  \/ s.text.target # NoLabel /\ s.text.target \notin DOMAIN labels
           \/ ~InThirtyTwoBits(s)
           \/ ~MeansStatement(Packed(s), s)
  /\ pass = "duplicate label" =>
       \E i, j \in DOMAIN source :
         \E l \in ToSet(source[i].labels) \cap ToSet(source[j].labels) :
           i # j \/ ~IsInjective(source[i].labels)

\* "the disassembler emits numeric displacements so its output is directly
\* reassemblable" (assembler/README.md 21): what it prints for an emitted
\* word is accepted and gives that word again, at any address.
DisassemblyReassembles ==
  \A i \in DOMAIN words :
    LET again == [address |-> statements[i].address,
                  text    |-> disassemble_word(words[i])]
    IN  Encodable(again) /\ Packed(again) = words[i]

\* Both machines do the same with every word that a source can put into ROM,
\* .WORD included, so with every opcode and malformed encoding: the RTL
\* routes register fields that the C++ decoder leaves at zero (decoder.sv
\* 15-18), and displacements are scaled in different widths (cpu_core.sv
\* 110-111, decoder.cpp 207-217).
WordsRunAlike ==
  \A i \in DOMAIN words : \A file \in Files :
    SameEffect(words[i], file, WordOf(statements[i].address))
=============================================================================
