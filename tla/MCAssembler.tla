---------------------------- MODULE MCAssembler -----------------------------
(***************************************************************************)
(* Source files for TLC: every kind of statement with literals at the      *)
(* limits of their fields, and label references over distances around the  *)
(* limits of the displacement fields, forwards and backwards.              *)
(***************************************************************************)
EXTENDS Assembler

Line(names, count, text) == [labels |-> names, count |-> count, text |-> text]
Plain(text)              == Line(<<>>, 1, text)
Nop                      == Stmt(OP_NOP, 0, 0, 0, 0)

Edges16 == {-32769, -32768, -1, 0, 1, 32767, 32768, 65535, 65536,
            -2147483647, 2147483647}
Edges26 == {-33554433, -33554432, -1, 33554431, 33554432,
            -536870912, 536870911}

Literals ==
  {Stmt(op, 31, 1, 0, n) :
     op \in {OP_ADDI, OP_ANDI, OP_ORI, OP_XORI, OP_LW, OP_SW, OP_BEQ, OP_BNE,
             OP_BLT, OP_BGE}, n \in Edges16}
    \cup {Stmt(OP_LUI, 30, 0, 0, n) : n \in Edges16}
    \cup {Stmt(op, 0, 0, 0, n) : op \in JUMP_INSTRUCTIONS, n \in Edges26}
    \cup {Stmt(op, 1, 30, c, 0) : op \in R_INSTRUCTIONS, c \in {0, 31, 32}}
    \cup {Stmt(OP_JR, a, 0, 0, 0) : a \in {0, 31, 32}}
    \cup {Nop, Stmt(OP_HALT, 0, 0, 0, 0), Stmt(RET, 0, 0, 0, 0)}
    \cup {Data(W(65536, lo)) : lo \in {0, 65535}}   \* .WORD 2^32 and more

\* .WORD: every opcode, with the fields below it at their boundaries.
RawWords ==
  {Data(W(op * 1024 + upper, lower)) :
     op \in 0 .. 63,
     upper \in {0, 1, 31, 32, 33, 511, 512, 992, 1023},
     lower \in {0, 1, 2047, 2048, 16384, 32767, 32768, 63488, 65535}}

\* Statements that refer to the label, on either side of a run of NOPs.
References == {Goto(OP_BEQ, 1, 2, "a"), Goto(OP_BGE, 0, 31, "a"),
               Goto(OP_J, 0, 0, "a"), Goto(OP_JAL, 0, 0, "a"),
               Goto(OP_BNE, 1, 2, "nowhere")}
Distances  == {0, 1, 2, 32766, 32767, 32768, 32769,
               33554430, 33554431, 33554432}

\* A label may stand alone on the last line, and two may share a line.
Labelled ==
  {<<Line(first, 1, r), Line(<<>>, n, Nop), Line(second, count, Nop)>> :
     first \in {<<>>, <<"b">>}, r \in References, n \in Distances,
     second \in {<<"a">>, <<"a", "c">>, <<"a", "b">>, <<"c", "c">>},
     count \in {0, 1}}
    \cup {<<Line(<<"a">>, n, Nop), Line(second, 1, r), Plain(q)>> :
            n \in Distances, second \in {<<>>, <<"a">>, <<"c">>},
            r \in References, q \in References}

MCSources ==
  {<<Plain(s)>> : s \in Literals}
    \cup {<<Line(<<"a">>, 1, s), Plain(Goto(OP_BLT, 3, 4, "a"))>> :
            s \in Literals}
    \cup {<<Line(<<>>, n, Nop), Plain(s)>> : n \in {0, 33554432}, s \in RawWords}
    \cup Labelled \cup {<<>>}

\* r1 and r31 hold these, every other register its own number.
Pairs == {<<Zero, W(65535, 65535)>>, <<W(32767, 65535), W(32768, 0)>>,
          <<W(32768, 0), W(32767, 65535)>>, <<W(4660, 22136), W(0, 31)>>,
          <<W(32768, 1), W(32768, 1)>>}
MCFiles ==
  {[r \in Register |-> CASE r = 1 -> p[1] [] r = 31 -> p[2]
                         [] OTHER -> W(0, r)] : p \in Pairs}
=============================================================================
