------------------------------- MODULE Word32 -------------------------------
(***************************************************************************)
(* The 32-bit words of Mini32.  A word is the record of its two 16-bit     *)
(* halves, so that every intermediate value stays below 2^31 and TLC       *)
(* evaluates the full 32-bit arithmetic of the machine without scaling it. *)
(* The operators are those that SystemVerilog's logic [31:0] and C++'s     *)
(* std::uint32_t share: arithmetic wraps modulo 2^32.                      *)
(***************************************************************************)
EXTENDS Integers

HalfMod == 65536
Half    == {n \in Nat : n < HalfMod}
Word    == [hi : Half, lo : Half]

W(h, l) == [hi |-> h, lo |-> l]

Zero == W(0, 0)
One  == W(0, 1)
Four == W(0, 4)

Add(a, b) ==
  LET low == a.lo + b.lo
  IN  W((a.hi + b.hi + (low \div HalfMod)) % HalfMod, low % HalfMod)

\* A borrow out of the low half is a carry of -1 into the high half.
Sub(a, b) ==
  LET low == a.lo - b.lo
  IN  W((a.hi - b.hi + (low \div HalfMod)) % HalfMod, low % HalfMod)

ULess(a, b) == a.hi < b.hi \/ (a.hi = b.hi /\ a.lo < b.lo)
ULeq(a, b)  == a = b \/ ULess(a, b)

SignBit(a) == a.hi >= 32768

\* The bit of weight p (a power of two) of a half.
Bit(h, p) == (h \div p) % 2

\* The half whose bit of weight p is b[p].
Weights == {1, 2, 4, 8, 16, 32, 64, 128, 256, 512, 1024, 2048, 4096, 8192,
            16384, 32768}
HalfOf(b) ==
  b[1] + 2 * b[2] + 4 * b[4] + 8 * b[8] + 16 * b[16] + 32 * b[32]
    + 64 * b[64] + 128 * b[128] + 256 * b[256] + 512 * b[512]
    + 1024 * b[1024] + 2048 * b[2048] + 4096 * b[4096] + 8192 * b[8192]
    + 16384 * b[16384] + 32768 * b[32768]

AndHalf(x, y) == HalfOf([p \in Weights |-> Bit(x, p) * Bit(y, p)])
XorHalf(x, y) == HalfOf([p \in Weights |-> (Bit(x, p) + Bit(y, p)) % 2])
OrHalf(x, y)  ==
  HalfOf([p \in Weights |-> IF Bit(x, p) + Bit(y, p) = 0 THEN 0 ELSE 1])

And(a, b) == W(AndHalf(a.hi, b.hi), AndHalf(a.lo, b.lo))
Or(a, b)  == W(OrHalf(a.hi, b.hi), OrHalf(a.lo, b.lo))
Xor(a, b) == W(XorHalf(a.hi, b.hi), XorHalf(a.lo, b.lo))

\* 2^n for a shift amount; a table, because every amount is below 16.
Pow2(n) == <<1, 2, 4, 8, 16, 32, 64, 128, 256, 512, 1024, 2048, 4096, 8192,
             16384, 32768>>[n + 1]

\* Logical shifts by 0 .. 31 places.
ShiftLeft(a, n) ==
  IF n >= 16
    THEN W((a.lo * Pow2(n - 16)) % HalfMod, 0)
    ELSE W(((a.hi * Pow2(n)) % HalfMod) + ((a.lo * Pow2(n)) \div HalfMod),
           (a.lo * Pow2(n)) % HalfMod)

ShiftRight(a, n) ==
  IF n >= 16
    THEN W(0, a.hi \div Pow2(n - 16))
    ELSE W(a.hi \div Pow2(n),
           (a.lo \div Pow2(n))
             + (IF n = 0 THEN 0 ELSE (a.hi % Pow2(n)) * Pow2(16 - n)))
=============================================================================
