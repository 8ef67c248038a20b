----------------------------- MODULE Mini32Pkg ------------------------------
(***************************************************************************)
(* The address map, the opcodes and the bus vocabulary that the RTL        *)
(* (rtl/include/mini32_pkg.sv) and the C++ golden model share.             *)
(*                                                                         *)
(* Every device window and the RAM base are the real 32-bit addresses.     *)
(* Only the two memory sizes are parameters: the hardware has 16384 words  *)
(* of each, a model-checking instance a handful.                           *)
(***************************************************************************)
EXTENDS Word32

CONSTANTS ROM_WORD_COUNT, RAM_WORD_COUNT

\* The sizes a 14-bit word index can address.
ASSUME MemorySizes ==
  /\ ROM_WORD_COUNT \in Nat \ {0} /\ ROM_WORD_COUNT <= 16384
  /\ RAM_WORD_COUNT \in Nat \ {0} /\ RAM_WORD_COUNT <= 16384

ROM_LAST   == W(0, 4 * ROM_WORD_COUNT - 1)
RAM_BASE   == W(4096, 0)
RAM_LAST   == W(4096, 4 * RAM_WORD_COUNT - 1)
UART_BASE  == W(8192, 0)
UART_LAST  == W(8192, 15)
TIMER_BASE == W(8192, 256)
TIMER_LAST == W(8192, 271)
GPIO_BASE  == W(8192, 512)
GPIO_LAST  == W(8192, 527)
DEBUG_BASE == W(8192, 768)
DEBUG_LAST == W(8192, 783)
STM32_BASE == W(8192, 1024)
STM32_LAST == W(8192, 1279)

InWindow(a, base, last) == ULeq(base, a) /\ ULeq(a, last)

OP_NOP  == 0
OP_ADD  == 1
OP_SUB  == 2
OP_AND  == 3
OP_OR   == 4
OP_XOR  == 5
OP_SLT  == 6
OP_SHL  == 7
OP_SHR  == 8
OP_ADDI == 9
OP_ANDI == 10
OP_ORI  == 11
OP_XORI == 12
OP_LUI  == 13
OP_LW   == 14
OP_SW   == 15
OP_BEQ  == 16
OP_BNE  == 17
OP_BLT  == 18
OP_BGE  == 19
OP_J    == 20
OP_JAL  == 21
OP_JR   == 22
OP_HALT == 23

BusAccess == {"FETCH", "READ", "WRITE"}
BusFault  == {"NONE", "MISALIGNED", "UNMAPPED", "READ_ONLY", "NON_EXECUTABLE"}

CpuFault ==
  {"NONE", "MISALIGNED_INSTRUCTION_FETCH", "UNMAPPED_INSTRUCTION_FETCH",
   "NON_EXECUTABLE_INSTRUCTION_FETCH", "ILLEGAL_INSTRUCTION",
   "MALFORMED_INSTRUCTION", "UNSUPPORTED_INSTRUCTION", "MISALIGNED_LOAD",
   "UNMAPPED_LOAD", "MISALIGNED_STORE", "UNMAPPED_STORE", "READ_ONLY_STORE"}

Register == 0 .. 31
Byte     == {n \in Nat : n < 256}

\* Mutant: the byte select is forgotten.
LowByte_Untruncated(w) == w.lo

LowByte(w) == w.lo % 256
=============================================================================
