------------------------------ MODULE Programs ------------------------------
(***************************************************************************)
(* Programs for the model-checking instances.  A program is a fixed        *)
(* prologue and every sequence of instructions from a pool; each pool aims *)
(* at one part of the machine.  The words behind a program are zero, that  *)
(* is NOP, so a program that does not stop runs off the end of the ROM.    *)
(***************************************************************************)
EXTENDS Mini32Pkg, SequencesExt

RFormat(op, rd, rs1, rs2)  == W(op * 1024 + rd * 32 + rs1, rs2 * 2048)
IFormat(op, rd, rs1, imm)  == W(op * 1024 + rd * 32 + rs1, imm % 65536)
SFormat(rs2, rs1, imm)     == W(OP_SW * 1024 + rs2 * 32 + rs1, imm % 65536)
BFormat(op, rs1, rs2, imm) == W(op * 1024 + rs1 * 32 + rs2, imm % 65536)
JFormat(op, imm) ==
  W(op * 1024 + ((imm \div 65536) % 1024), imm % 65536)

HALT == W(OP_HALT * 1024, 0)

BytesOf(w) == <<w.lo % 256, w.lo \div 256, w.hi % 256, w.hi \div 256>>

ImageOf(words) == FlattenSeq([k \in 1 .. Len(words) |-> BytesOf(words[k])])

ImagesOf(prologue, first, second, third) ==
  {ImageOf(prologue \o <<a, b, c>>) :
     a \in first, b \in second, c \in third}

------------------------------------------------------------------------------
\* Devices: r1 is the base of the device windows, r2 starts as 2^32 - 1.
LW_(rd, rs1, imm) == IFormat(OP_LW, rd, rs1, imm)

DevicePool ==
  {SFormat(2, 1, 256),           \* timer COUNTER := r2
   SFormat(2, 1, 264),           \* timer CONTROL := r2[0]
   SFormat(2, 1, 260),           \* timer COMPARE := r2
   LW_(3, 1, 256),               \* read the counter
   LW_(2, 1, 268),               \* read the match flag into r2
   SFormat(2, 1, 0),             \* send a byte
   LW_(2, 1, 512),               \* read the pins
   SFormat(2, 1, 520),           \* GPIO direction
   SFormat(3, 1, 768),           \* debug value
   HALT}

\* Any two accesses, and two more once the timer runs.  What stands behind a
\* HALT is never reached.
DeviceImages ==
  LET prologue == <<IFormat(OP_LUI, 1, 0, 8192), IFormat(OP_ADDI, 2, 0, -1)>>
      on       == DevicePool \ {HALT}
  IN  ImagesOf(prologue, on, DevicePool, {HALT})
        \cup ImagesOf(prologue, {SFormat(2, 1, 264)}, on,
                      {SFormat(2, 1, 260), LW_(3, 1, 256), LW_(2, 1, 268),
                       SFormat(2, 1, 0)})

------------------------------------------------------------------------------
\* Memory and faults: r1 is the base of RAM, two words long.
StoppingPool ==
  {SFormat(2, 1, 8),             \* beyond RAM
   LW_(2, 1, -4),                \* below RAM
   LW_(2, 1, 2),                 \* misaligned load
   SFormat(1, 1, 1),             \* misaligned store
   SFormat(1, 0, 4),             \* store to ROM
   BFormat(OP_JR, 1, 0, 0),      \* jump into RAM
   W(24 * 1024, 0),              \* unknown opcode
   HALT}

MemoryPool ==
  {SFormat(1, 1, 0), SFormat(2, 1, 4), LW_(2, 1, 0), LW_(3, 1, 4),
   LW_(2, 0, 4),                 \* load from ROM
   LW_(0, 1, 0),                 \* load into r0
   RFormat(OP_ADD, 2, 1, 2)}
    \cup StoppingPool

MemoryImages ==
  LET prologue == <<IFormat(OP_LUI, 1, 0, 4096)>>
      first    == {SFormat(1, 1, 0), LW_(2, 1, 4)}
      on       == MemoryPool \ StoppingPool
  IN  ImagesOf(prologue, first, on, on \cup {HALT})
        \cup ImagesOf(prologue, first, StoppingPool, {HALT})

DataImages == DeviceImages \cup MemoryImages

------------------------------------------------------------------------------
\* Control flow and the ALU: r1 is 2^32 - 1, r2 is 3.  No instruction
\* feeds its own destination, so that loops revisit states.
ControlPool ==
  {RFormat(OP_ADD, 3, 1, 2), RFormat(OP_SUB, 3, 0, 2),
   RFormat(OP_AND, 3, 1, 2), RFormat(OP_OR, 3, 1, 2),
   RFormat(OP_XOR, 3, 1, 2), RFormat(OP_SLT, 3, 1, 2),
   RFormat(OP_SHL, 3, 1, 2), RFormat(OP_SHR, 3, 1, 2),
   RFormat(OP_SHL, 3, 2, 1),     \* by 31 places: r3 is -2^31
   IFormat(OP_ANDI, 3, 1, -1), IFormat(OP_ORI, 3, 2, -1),
   IFormat(OP_XORI, 3, 1, -1),
   BFormat(OP_BEQ, 1, 3, -2), BFormat(OP_BNE, 1, 3, 1),
   BFormat(OP_BLT, 3, 2, -3), BFormat(OP_BGE, 3, 0, -1),
   JFormat(OP_J, -2), JFormat(OP_JAL, 1), BFormat(OP_JR, 31, 0, 0),
   BFormat(OP_JR, 2, 0, 0),      \* jump to a misaligned address
   W(OP_ADD * 1024, 1),          \* malformed
   JFormat(OP_J, -33554432),     \* the farthest jump back
   HALT}

ControlImages ==
  ImagesOf(<<IFormat(OP_ADDI, 1, 0, -1), IFormat(OP_ADDI, 2, 0, 3)>>,
           ControlPool, ControlPool,
           {HALT, JFormat(OP_J, -3), BFormat(OP_JR, 31, 0, 0)})

------------------------------------------------------------------------------
\* Jumps into device windows, the reserved STM32 window included.
WindowImages ==
  {ImageOf(<<IFormat(OP_LUI, 1, 0, 8192), IFormat(OP_ADDI, 1, 1, offset),
             BFormat(OP_JR, 1, 0, 0)>>) : offset \in {0, 768, 1024, 1280}}

\* One store to RAM.
StoreImages ==
  {ImageOf(<<IFormat(OP_LUI, 1, 0, 4096), SFormat(1, 1, 0), HALT>>)}
=============================================================================
