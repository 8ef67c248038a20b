--------------------------- MODULE UartPathProofs ---------------------------
(***************************************************************************)
(* Proofs about the serial path for every FIFO depth, clock and baud rate, *)
(* and every pattern of events and resets.  The inductive invariant ties   *)
(* the receiver to the transmitter: outside reset the receiver's clock is  *)
(* the transmitter's position in the frame (InStep), and the bits sampled  *)
(* so far are the low bits of the byte on the line (BitsSampled).          *)
(***************************************************************************)
EXTENDS UartPath, UartTxFifoProofs

\* The weights of the bits of a byte.
LEMMA BytePowers ==
  /\ Pow2(0) = 1 /\ Pow2(1) = 2 /\ Pow2(2) = 4 /\ Pow2(3) = 8
  /\ Pow2(4) = 16 /\ Pow2(5) = 32 /\ Pow2(6) = 64 /\ Pow2(7) = 128
BY SMT DEF Pow2

C    == CLKS_PER_BIT
HalfC == CLKS_PER_BIT \div 2

\* The clock of the frame at which bit k of it begins: 0 is the start bit, 1
\* to 8 are the data bits, 9 is the stop bit.
FrameClock(k) == k * C

\* Receiver and transmitter are in the same clock of the frame.
InStep ==
  /\ phy_state = "IDLE" => rx_clock = 0 /\ baud_count = 0
  /\ phy_state = "START" => rx_clock = baud_count
  /\ phy_state = "DATA" => rx_clock = FrameClock(bit_index + 1) + baud_count
  /\ phy_state = "STOP" /\ baud_count <= HalfC =>
       rx_clock = FrameClock(9) + baud_count
  /\ phy_state = "STOP" /\ baud_count > HalfC => rx_clock = 0
  /\ phy_state # "DATA" => bit_index = 0

\* How many bits the receiver has sampled.
Sampled ==
  CASE phy_state = "DATA" ->
         IF baud_count <= HalfC THEN bit_index ELSE bit_index + 1
    [] phy_state = "STOP" -> IF baud_count <= HalfC THEN 8 ELSE 0
    [] OTHER -> 0

\* Bit k (from 0) of a byte.
BitOf(byte, k) == (byte \div Pow2(k)) % 2

BitsAre(bits, n, byte) ==
  /\ Len(bits) = n
  /\ \A k \in 1 .. n : bits[k] = BitOf(byte, k - 1)

\* They are the low bits of the byte on the line.
BitsSampled == BitsAre(rx_bits, Sampled, latched_data)

\* The receiver never runs past its last sample.
RxBounded == rx_clock <= SampleClock(8)

------------------------------------------------------------------------------
\* Clocks and bits.

\* A bit lasts at least one clock and its middle lies within it.
LEMMA Clocks == C \in Nat /\ C >= 1 /\ HalfC \in Nat /\ HalfC < C
<1>1. CLKS_PER_BIT \in Nat /\ CLKS_PER_BIT >= 1
  <2> DEFINE rounded == (CLOCK_HZ + (BAUD_RATE \div 2)) \div BAUD_RATE
  <2>1. rounded \in Int
    BY ClockAssumption, SMT
  <2> HIDE DEF rounded
  <2>2. CLKS_PER_BIT = IF rounded < 1 THEN 1 ELSE rounded
    BY DEF CLKS_PER_BIT, rounded
  <2> QED BY <2>1, <2>2, SMT
<1> HIDE DEF CLKS_PER_BIT
<1> QED BY <1>1, SMT DEF C, HalfC

\* The bits of the frame follow each other.
LEMMA FrameClocks ==
  /\ FrameClock(0) = 0 /\ FrameClock(1) = C
  /\ \A k \in 0 .. 9 : FrameClock(k) \in Nat
  /\ \A k \in 0 .. 8 : FrameClock(k + 1) = FrameClock(k) + C
  /\ \A j, k \in 0 .. 9 : j < k => FrameClock(j) + C <= FrameClock(k)
<1>1. C \in Nat
  BY Clocks
<1>2. ASSUME NEW j \in 0 .. 9, NEW k \in 0 .. 9, j < k
      PROVE  FrameClock(j) + C <= FrameClock(k)
  <2>1. PICK m \in Nat : k = j + 1 + m
    BY <1>2, SMT
  <2>2. k * C = j * C + C + m * C /\ m * C >= 0
    BY <1>1, <2>1, SMT
  <2> QED BY <1>1, <2>2, SMT DEF FrameClock
<1> QED BY <1>1, <1>2, SMT DEF FrameClock

\* The receiver samples bit k of the byte in the middle of frame bit k + 1.
LEMMA SampleClocks ==
  \A k \in 0 .. 8 : SampleClock(k) = FrameClock(k + 1) + HalfC
<1>1. CLKS_PER_BIT \in Nat /\ CLKS_PER_BIT \div 2 \in Nat
  BY Clocks DEF C, HalfC
<1> QED BY <1>1, SMT DEF SampleClock, FrameClock, C, HalfC

\* In clock u of frame bit b, bit k is sampled exactly when it is on the line
\* and u is its middle.
LEMMA SampleWhen ==
  ASSUME NEW b \in 1 .. 9, NEW u \in Nat, u < C, NEW k \in 0 .. 8
  PROVE  FrameClock(b) + u = SampleClock(k) <=> b = k + 1 /\ u = HalfC
<1>1. SampleClock(k) = FrameClock(k + 1) + HalfC
  BY SampleClocks
<1>2. C \in Nat /\ HalfC \in Nat /\ HalfC < C
  BY Clocks
<1>3. k + 1 \in 0 .. 9 /\ b \in 0 .. 9
  BY SMT
<1>4. FrameClock(b) \in Nat /\ FrameClock(k + 1) \in Nat
  BY <1>3, FrameClocks
<1>5. CASE b < k + 1
  <2>1. FrameClock(b) + C <= FrameClock(k + 1)
    BY <1>3, <1>5, FrameClocks
  <2> QED BY <1>1, <1>2, <1>4, <1>5, <2>1, SMT
<1>6. CASE k + 1 < b
  <2>1. FrameClock(k + 1) + C <= FrameClock(b)
    BY <1>3, <1>6, FrameClocks
  <2> QED BY <1>1, <1>2, <1>4, <1>6, <2>1, SMT
<1>7. CASE b = k + 1
  BY <1>1, <1>2, <1>4, <1>7, SMT
<1> QED BY <1>5, <1>6, <1>7, SMT

\* Clock 0 and the clocks of the start bit are no samples.
LEMMA NoEarlySample ==
  ASSUME NEW u \in Nat, u < C, NEW k \in 0 .. 8
  PROVE  u # SampleClock(k) /\ SampleClock(k) <= SampleClock(8)
<1>1. C \in Nat /\ HalfC \in Nat
  BY Clocks
<1>2. SampleClock(k) = FrameClock(k + 1) + HalfC
      /\ SampleClock(8) = FrameClock(9) + HalfC
  BY SampleClocks, SMT
<1>3. k + 1 \in 0 .. 9 /\ 0 \in 0 .. 9 /\ 9 \in 0 .. 9
  BY SMT
<1>4. FrameClock(0) = 0 /\ FrameClock(k + 1) \in Nat /\ FrameClock(9) \in Nat
  BY <1>3, FrameClocks
<1>5. FrameClock(0) + C <= FrameClock(k + 1)
  BY <1>3, FrameClocks, SMT
<1>6. k + 1 < 9 => FrameClock(k + 1) + C <= FrameClock(9)
  BY <1>3, FrameClocks
<1> QED BY <1>1, <1>2, <1>4, <1>5, <1>6, SMT

\* A byte is put together again from its eight bits.
LEMMA ByteOfItsBits ==
  ASSUME NEW x \in 0 .. 255, NEW b, \A k \in 1 .. 8 : b[k] = BitOf(x, k - 1)
  PROVE  ByteOfBits(b) = x
<1>1. /\ b[1] = BitOf(x, 0) /\ b[2] = BitOf(x, 1) /\ b[3] = BitOf(x, 2)
      /\ b[4] = BitOf(x, 3) /\ b[5] = BitOf(x, 4) /\ b[6] = BitOf(x, 5)
      /\ b[7] = BitOf(x, 6) /\ b[8] = BitOf(x, 7)
  BY SMT
<1>2. /\ BitOf(x, 0) = x % 2         /\ BitOf(x, 1) = (x \div 2) % 2
      /\ BitOf(x, 2) = (x \div 4) % 2  /\ BitOf(x, 3) = (x \div 8) % 2
      /\ BitOf(x, 4) = (x \div 16) % 2 /\ BitOf(x, 5) = (x \div 32) % 2
      /\ BitOf(x, 6) = (x \div 64) % 2 /\ BitOf(x, 7) = (x \div 128) % 2
  BY BytePowers, SMT DEF BitOf
<1>3. x = (x % 2) + 2 * ((x \div 2) % 2) + 4 * ((x \div 4) % 2)
            + 8 * ((x \div 8) % 2) + 16 * ((x \div 16) % 2)
            + 32 * ((x \div 32) % 2) + 64 * ((x \div 64) % 2)
            + 128 * ((x \div 128) % 2)
  BY SMT
<1>4. \A k \in 0 .. 7 : BitOf(x, k) \in Int
  BY <1>2, SMT
<1>5. x = BitOf(x, 0) + 2 * BitOf(x, 1) + 4 * BitOf(x, 2) + 8 * BitOf(x, 3)
            + 16 * BitOf(x, 4) + 32 * BitOf(x, 5) + 64 * BitOf(x, 6)
            + 128 * BitOf(x, 7)
  BY <1>2, <1>3, Zenon
<1> QED BY <1>1, <1>4, <1>5, SMT DEF ByteOfBits
------------------------------------------------------------------------------
\* The receiver and the transmitter, one edge at a time.

\* The level of the line.
LEMMA TxLevel ==
  ASSUME PhyTypeOK
  PROVE  /\ tx \in {0, 1}
         /\ phy_state = "START" => tx = 0
         /\ phy_state = "DATA" => tx = BitOf(latched_data, bit_index)
         /\ phy_state \in {"IDLE", "STOP"} => tx = 1
<1>1. /\ phy_state = "START" => tx = 0
      /\ phy_state = "DATA" => tx = BitOf(latched_data, bit_index)
      /\ phy_state \in {"IDLE", "STOP"} => tx = 1
  BY SMT DEF tx, BitOf
<1>2. BitOf(latched_data, bit_index) \in {0, 1}
  <2> DEFINE p == Pow2(bit_index)
  <2>1. p \in {1, 2, 4, 8, 16, 32, 64, 128} /\ latched_data \in Nat
    BY BytePowers, SMT DEF PhyTypeOK
  <2> DEFINE q == latched_data \div p
  <2>2. q \in Int
    <3> HIDE DEF p
    <3> QED BY <2>1, SMT
  <2>3. q % 2 \in {0, 1}
    <3> HIDE DEF q
    <3> QED BY <2>2, SMT
  <2> QED BY <2>3 DEF BitOf
<1> QED BY <1>1, <1>2 DEF PhyTypeOK

\* The receiver's reaction, by the part of the frame it is in.
LEMMA RxMoves ==
  ASSUME RxEdge
  PROVE  /\ rx_clock = 0 => /\ rx_clock' = (IF tx = 0 THEN 1 ELSE 0)
                            /\ rx_bits' = <<>> /\ ~Stopping
         /\ \A u \in Nat : rx_clock = u /\ 0 < u /\ u < C =>
              rx_clock' = u + 1 /\ rx_bits' = rx_bits /\ ~Stopping
         /\ \A b \in 1 .. 9, u \in Nat :
              rx_clock = FrameClock(b) + u /\ u < C =>
                /\ Stopping <=> b = 9 /\ u = HalfC
                /\ Stopping => rx_clock' = 0 /\ rx_bits' = <<>>
                /\ ~Stopping => rx_clock' = rx_clock + 1
                /\ b # 9 /\ u = HalfC => rx_bits' = Append(rx_bits, tx)
                /\ u # HalfC => rx_bits' = rx_bits
<1>0. C \in Nat /\ C >= 1 /\ HalfC \in Nat /\ HalfC < C
  BY Clocks
<1>1. ASSUME rx_clock = 0
      PROVE  rx_clock' = (IF tx = 0 THEN 1 ELSE 0) /\ rx_bits' = <<>>
             /\ ~Stopping
  <2>1. \A k \in 0 .. 8 : rx_clock # SampleClock(k)
    BY <1>0, <1>1, NoEarlySample, SMT
  <2>2. ~Stopping /\ ~\E k \in 0 .. 7 : rx_clock = SampleClock(k)
    BY <2>1, SMT DEF Stopping
  <2> QED BY <1>1, <2>2, Zenon DEF RxEdge
<1>2. ASSUME NEW u \in Nat, rx_clock = u, 0 < u, u < C
      PROVE  rx_clock' = u + 1 /\ rx_bits' = rx_bits /\ ~Stopping
  <2>1. \A k \in 0 .. 8 : rx_clock # SampleClock(k)
    BY <1>2, NoEarlySample, SMT
  <2>2. ~Stopping /\ ~\E k \in 0 .. 7 : rx_clock = SampleClock(k)
    BY <2>1, SMT DEF Stopping
  <2>3. rx_clock # 0
    BY <1>2, SMT
  <2> QED BY <1>2, <2>2, <2>3, Zenon DEF RxEdge
<1>3. ASSUME NEW b \in 1 .. 9, NEW u \in Nat, rx_clock = FrameClock(b) + u, u < C
      PROVE  /\ Stopping <=> b = 9 /\ u = HalfC
             /\ Stopping => rx_clock' = 0 /\ rx_bits' = <<>>
             /\ ~Stopping => rx_clock' = rx_clock + 1
             /\ b # 9 /\ u = HalfC => rx_bits' = Append(rx_bits, tx)
             /\ u # HalfC => rx_bits' = rx_bits
  <2>1. \A k \in 0 .. 8 : rx_clock = SampleClock(k) <=> b = k + 1 /\ u = HalfC
    BY <1>3, SampleWhen
  <2>2. Stopping <=> b = 9 /\ u = HalfC
    BY <2>1, SMT DEF Stopping
  <2>3. (\E k \in 0 .. 7 : rx_clock = SampleClock(k)) <=> b # 9 /\ u = HalfC
    <3>1. b # 9 => b - 1 \in 0 .. 7 /\ b - 1 \in 0 .. 8 /\ b = (b - 1) + 1
      BY SMT
    <3>2. \A k \in 0 .. 7 : k \in 0 .. 8 /\ (b = k + 1 => b # 9)
      BY SMT
    <3> QED BY <2>1, <3>1, <3>2, Zenon
  <2>4. rx_clock # 0
    <3>1. 0 \in 0 .. 9 /\ b \in 0 .. 9 /\ 0 < b
      BY SMT
    <3>2. FrameClock(0) = 0 /\ FrameClock(b) \in Nat
          /\ FrameClock(0) + C <= FrameClock(b)
      BY <3>1, FrameClocks, SMT
    <3> QED BY <1>0, <1>3, <3>2, SMT
  <2> QED BY <2>2, <2>3, <2>4, Zenon DEF RxEdge
<1> QED BY <1>1, <1>2, <1>3

\* The receiver stays within its frame, whatever the line does.
LEMMA RxTyped ==
  ASSUME RxEdge, PhyTypeOK, rx_clock \in Nat, RxBounded, rx_bits \in Seq({0, 1})
  PROVE  /\ rx_clock' \in Nat /\ RxBounded' /\ rx_bits' \in Seq({0, 1})
         /\ rx_clock' = 0 => rx_bits' = <<>>
<1>1. tx \in {0, 1}
  BY TxLevel
<1>2. SampleClock(8) \in Nat /\ SampleClock(8) >= 1
  <2>1. SampleClock(8) = FrameClock(9) + HalfC /\ FrameClock(9) \in Nat
    BY SampleClocks, FrameClocks, SMT
  <2>2. FrameClock(0) = 0 /\ FrameClock(0) + C <= FrameClock(9)
    BY FrameClocks, SMT
  <2> QED BY <2>1, <2>2, Clocks, SMT
<1>3. rx_clock' \in Nat /\ rx_clock' <= SampleClock(8)
  BY <1>1, <1>2, SMT DEF RxEdge, RxBounded, Stopping
<1>4. rx_bits' \in Seq({0, 1})
  <2>1. Append(rx_bits, tx) \in Seq({0, 1}) /\ <<>> \in Seq({0, 1})
    BY <1>1, AppendProperties, EmptySeq
  <2> QED BY <2>1, Zenon DEF RxEdge
<1>5. SampleClock(8)' = SampleClock(8)
  BY DEF SampleClock, CLKS_PER_BIT
<1>6. rx_clock' = 0 => rx_bits' = <<>>
  <2>1. rx_clock' = 0 => rx_clock = 0 \/ Stopping
    BY SMT DEF RxEdge
  <2>2. \A k \in 0 .. 7 : SampleClock(k) # 0 /\ SampleClock(k) # SampleClock(8)
    <3> SUFFICES ASSUME NEW k \in 0 .. 7
                 PROVE  SampleClock(k) # 0 /\ SampleClock(k) # SampleClock(8)
      OBVIOUS
    <3>1. k \in 0 .. 8 /\ k + 1 \in 0 .. 9 /\ 9 \in 0 .. 9 /\ k + 1 < 9
      BY SMT
    <3>2. SampleClock(k) # 0
      BY <3>1, Clocks, NoEarlySample, SMT
    <3>3. SampleClock(k) = FrameClock(k + 1) + HalfC
          /\ SampleClock(8) = FrameClock(9) + HalfC
      BY <3>1, SampleClocks, SMT
    <3>4. /\ FrameClock(k + 1) + C <= FrameClock(9)
          /\ FrameClock(k + 1) \in Nat /\ FrameClock(9) \in Nat
      BY <3>1, FrameClocks, Zenon
    <3> QED BY <3>2, <3>3, <3>4, Clocks, SMT
  <2> QED BY <2>1, <2>2, Zenon DEF RxEdge, Stopping
<1> QED BY <1>3, <1>4, <1>5, <1>6 DEF RxBounded
\* Sampling one more bit.
LEMMA BitsGrow ==
  ASSUME NEW bits \in Seq({0, 1}), NEW n \in Nat, NEW byte, BitsAre(bits, n, byte),
         NEW t \in {0, 1}, t = BitOf(byte, n)
  PROVE  BitsAre(Append(bits, t), n + 1, byte)
<1>1. /\ Len(Append(bits, t)) = n + 1
      /\ \A k \in 1 .. n : Append(bits, t)[k] = bits[k]
      /\ Append(bits, t)[n + 1] = t
  BY AppendProperties DEF BitsAre
<1>2. \A k \in 1 .. n + 1 : Append(bits, t)[k] = BitOf(byte, k - 1)
  <2> SUFFICES ASSUME NEW k \in 1 .. n + 1
               PROVE  Append(bits, t)[k] = BitOf(byte, k - 1)
    OBVIOUS
  <2>1. CASE k \in 1 .. n
    <3>1. bits[k] = BitOf(byte, k - 1)
      BY <2>1, Zenon DEF BitsAre
    <3> QED BY <1>1, <2>1, <3>1, Zenon
  <2>2. CASE k = n + 1
    <3>1. k - 1 = n
      BY <2>2, SMT
    <3> QED BY <1>1, <2>2, <3>1, Zenon
  <2>3. k \in 1 .. n \/ k = n + 1
    BY SMT
  <2> QED BY <2>1, <2>2, <2>3, Zenon
<1> QED BY <1>1, <1>2, Zenon DEF BitsAre

\* Before the first sample there is nothing to agree with.
LEMMA NoBits == \A byte : BitsAre(<<>>, 0, byte)
BY SMT DEF BitsAre

\* The bits of the frame, for the positions that the data bits use.
LEMMA NextFrameBit ==
  ASSUME NEW j \in 0 .. 7
  PROVE  /\ FrameClock(j + 1) \in Nat
            /\ FrameClock(j + 2) = FrameClock(j + 1) + C
         /\ j + 1 \in 1 .. 9
<1>1. j + 1 \in 0 .. 9 /\ j + 1 \in 0 .. 8 /\ (j + 1) + 1 = j + 2
      /\ j + 1 \in 1 .. 9
  BY SMT
<1>2. FrameClock((j + 1) + 1) = FrameClock(j + 1) + C
  BY <1>1, FrameClocks, Zenon
<1> QED BY <1>1, <1>2, FrameClocks, Zenon

\* One edge outside reset keeps receiver and transmitter in step, and the
\* receiver ends a frame exactly in the middle of the stop bit.
LEMMA LockStep ==
  ASSUME PhyTypeOK, rx_bits \in Seq({0, 1}), InStep, BitsSampled,
         NEW v, NEW d, PhyEdge(v, d), RxEdge
  PROVE  /\ InStep' /\ BitsSampled'
         /\ Stopping <=> phy_state = "STOP" /\ baud_count = HalfC
<1> DEFINE u == baud_count
           j == bit_index
<1>0. /\ C \in Nat /\ C >= 1 /\ HalfC \in Nat /\ HalfC < C
      /\ u \in Nat /\ u < C /\ j \in 0 .. 7
      /\ C' = C /\ HalfC' = HalfC
  <2>1. C \in Nat /\ C >= 1 /\ HalfC \in Nat /\ HalfC < C
    BY Clocks
  <2>2. u \in 0 .. C - 1 /\ j \in 0 .. 7
    BY DEF PhyTypeOK, C
  <2>3. C' = C /\ HalfC' = HalfC
    BY DEF C, HalfC, CLKS_PER_BIT
  <2> QED BY <2>1, <2>2, <2>3, SMT
<1>F. \A k : FrameClock(k)' = FrameClock(k)
  BY <1>0 DEF FrameClock
<1>1. /\ latched_data' = latched_data \/ phy_state = "IDLE"
      /\ phy_state \in {"IDLE", "START", "DATA", "STOP"}
  BY SMT DEF PhyEdge, PhyIdle, PhyAccept, PhyHoldBit, PhyNextBit, PhyTypeOK
<1>2. CASE phy_state = "IDLE"
  <2>1. /\ baud_count' = 0 /\ bit_index' = 0
        /\ phy_state' \in {"IDLE", "START"}
    BY <1>2, SMT DEF PhyEdge, PhyIdle, PhyAccept, PhyHoldBit, PhyNextBit
  <2>2. tx = 1 /\ rx_clock = 0
    BY <1>2, TxLevel DEF InStep
  <2>3. rx_clock' = 0 /\ rx_bits' = <<>> /\ ~Stopping
    BY <2>2, RxMoves, SMT
  <2>4. Sampled' = 0
    BY <2>1, SMT DEF Sampled
  <2>5. InStep'
    BY <2>1, <2>3, SMT DEF InStep
  <2> QED BY <1>2, <2>3, <2>4, <2>5, NoBits, SMT DEF BitsSampled
<1>3. CASE phy_state = "START"
  <2>1. rx_clock = u /\ j = 0 /\ tx = 0
    BY <1>3, TxLevel, SMT DEF InStep
  <2>2. Sampled = 0
    BY <1>3, SMT DEF Sampled
  <2>3. rx_clock' = u + 1 /\ (rx_bits' = rx_bits \/ rx_bits' = <<>>)
        /\ ~Stopping
    BY <1>0, <2>1, RxMoves, SMT
  <2>4. BitsAre(rx_bits', 0, latched_data')
    BY <2>2, <2>3, <1>1, <1>3, NoBits, SMT DEF BitsSampled
  <2>5. CASE u # C - 1
    <3>1. phy_state' = "START" /\ baud_count' = u + 1 /\ bit_index' = j
      BY <1>3, <2>5, SMT DEF PhyEdge, PhyIdle, PhyAccept, PhyHoldBit,
           PhyNextBit, C
    <3>2. Sampled' = 0
      BY <3>1, SMT DEF Sampled
    <3>3. InStep'
      BY <2>1, <2>3, <3>1, SMT DEF InStep
    <3> QED BY <1>3, <2>3, <2>4, <3>2, <3>3, SMT DEF BitsSampled
  <2>6. CASE u = C - 1
    <3>1. phy_state' = "DATA" /\ baud_count' = 0 /\ bit_index' = 0
      BY <1>3, <2>1, <2>6, SMT DEF PhyEdge, PhyIdle, PhyAccept, PhyHoldBit,
           PhyNextBit,
            C, StateAfterBit, BitIndexAfterBit
    <3>2. Sampled' = 0
      BY <1>0, <3>1, SMT DEF Sampled
    <3>3. rx_clock' = FrameClock(0 + 1)'
      BY <1>0, <1>F, <2>3, <2>6, FrameClocks, SMT
    <3>4. InStep'
      BY <1>0, <1>F, <3>1, <3>3, FrameClocks, SMT DEF InStep
    <3> QED BY <1>3, <2>3, <2>4, <3>2, <3>4, SMT DEF BitsSampled
  <2> QED BY <2>5, <2>6
<1>4. CASE phy_state = "DATA"
  <2>1. rx_clock = FrameClock(j + 1) + u /\ tx = BitOf(latched_data, j)
        /\ tx \in {0, 1}
    BY <1>4, TxLevel, SMT DEF InStep
  <2>2. /\ FrameClock(j + 1) \in Nat
           /\ FrameClock(j + 2) = FrameClock(j + 1) + C
        /\ j + 1 \in 1 .. 9 /\ j + 1 # 9
    <3>1. j + 1 # 9
      BY <1>0, SMT
    <3> QED BY <1>0, <3>1, NextFrameBit, Zenon
  <2>3. /\ ~Stopping /\ rx_clock' = rx_clock + 1
        /\ u = HalfC => rx_bits' = Append(rx_bits, tx)
        /\ u # HalfC => rx_bits' = rx_bits
    BY <1>0, <2>1, <2>2, RxMoves, Zenon
  <2>4. /\ u <= HalfC => BitsAre(rx_bits, j, latched_data)
        /\ u > HalfC => BitsAre(rx_bits, j + 1, latched_data)
    BY <1>0, <1>4, SMT DEF BitsSampled, Sampled
  <2>5. /\ u < HalfC => BitsAre(rx_bits', j, latched_data')
        /\ u >= HalfC => BitsAre(rx_bits', j + 1, latched_data')
    <3>1. latched_data' = latched_data
      BY <1>1, <1>4
    <3>2. CASE u = HalfC
      <4>1. BitsAre(Append(rx_bits, tx), j + 1, latched_data)
        <5>1. j \in Nat /\ BitsAre(rx_bits, j, latched_data)
          BY <1>0, <2>4, <3>2, SMT
        <5> QED BY <2>1, <5>1, BitsGrow, SMT
      <4>2. BitsAre(rx_bits', j + 1, latched_data')
        BY <2>3, <3>1, <3>2, <4>1, Zenon
      <4>3. ~(u < HalfC)
        BY <1>0, <3>2, SMT
      <4> QED BY <4>2, <4>3, Zenon
    <3>3. CASE u # HalfC
      BY <1>0, <2>3, <2>4, <3>1, <3>3, SMT
    <3> QED BY <3>2, <3>3
  <2>6. CASE u # C - 1
    <3>1. phy_state' = "DATA" /\ baud_count' = u + 1 /\ bit_index' = j
      BY <1>4, <2>6, SMT DEF PhyEdge, PhyIdle, PhyAccept, PhyHoldBit,
           PhyNextBit, C
    <3>2. Sampled' = IF u < HalfC THEN j ELSE j + 1
      BY <1>0, <3>1, SMT DEF Sampled
    <3>3. InStep'
      BY <1>0, <1>F, <2>1, <2>2, <2>3, <3>1, SMT DEF InStep
    <3>4. BitsSampled'
      BY <1>0, <2>5, <3>2, SMT DEF BitsSampled
    <3> QED BY <1>4, <2>3, <3>3, <3>4
  <2>7. CASE u = C - 1
    <3>0. u >= HalfC
      BY <1>0, <2>7, SMT
    <3>1. baud_count' = 0
      BY <1>4, <2>7, SMT DEF PhyEdge, PhyIdle, PhyAccept, PhyHoldBit,
           PhyNextBit, C
    <3>2. rx_clock' = FrameClock(j + 2)
      BY <1>0, <2>1, <2>2, <2>3, <2>7, SMT
    <3>3. CASE j # 7
      <4>1. phy_state' = "DATA" /\ bit_index' = j + 1
        BY <1>4, <2>7, <3>3, SMT DEF PhyEdge, PhyIdle, PhyAccept, PhyHoldBit,
             PhyNextBit, C, StateAfterBit, BitIndexAfterBit
      <4>2. Sampled' = j + 1
        BY <1>0, <3>1, <4>1, SMT DEF Sampled
      <4>3. rx_clock' = FrameClock(bit_index + 1)' + baud_count'
        <5>1. bit_index' + 1 = j + 2 /\ FrameClock(j + 2) \in Nat
          BY <1>0, <2>2, <4>1, SMT
        <5> QED BY <1>F, <3>1, <3>2, <4>1, <5>1, SMT
      <4>4. InStep'
        BY <4>1, <4>3, SMT DEF InStep
      <4> QED BY <1>4, <2>3, <2>5, <3>0, <4>2, <4>4, SMT DEF BitsSampled
    <3>4. CASE j = 7
      <4>1. phy_state' = "STOP" /\ bit_index' = 0
        BY <1>4, <2>7, <3>4, SMT DEF PhyEdge, PhyIdle, PhyAccept, PhyHoldBit,
             PhyNextBit, C, StateAfterBit, BitIndexAfterBit
      <4>2. Sampled' = j + 1
        BY <1>0, <3>1, <3>4, <4>1, SMT DEF Sampled
      <4>3. rx_clock' = FrameClock(9)' + baud_count'
        <5>1. j + 2 = 9 /\ FrameClock(j + 2) \in Nat
          BY <1>0, <2>2, <3>4, SMT
        <5> QED BY <1>F, <3>1, <3>2, <5>1, SMT
      <4>4. InStep'
        BY <1>0, <3>1, <4>1, <4>3, SMT DEF InStep
      <4> QED BY <1>4, <2>3, <2>5, <3>0, <4>2, <4>4, SMT DEF BitsSampled
    <3> QED BY <3>3, <3>4
  <2> QED BY <2>6, <2>7
<1>5. CASE phy_state = "STOP"
  <2>0. FrameClock(9) \in Nat /\ tx = 1 /\ 9 \in 1 .. 9 /\ j = 0
    BY <1>5, FrameClocks, TxLevel, SMT DEF InStep
  <2>1. CASE u < HalfC
    <3>1. rx_clock = FrameClock(9) + u
      BY <1>0, <1>5, <2>1, SMT DEF InStep
    <3>2. ~Stopping /\ rx_clock' = rx_clock + 1 /\ rx_bits' = rx_bits
      <4>1. u # HalfC
        BY <1>0, <2>1, SMT
      <4> QED BY <1>0, <2>0, <3>1, <4>1, RxMoves, Zenon
    <3>3. /\ phy_state' = "STOP" /\ baud_count' = u + 1 /\ bit_index' = j
          /\ latched_data' = latched_data
      <4>1. u # C - 1
        BY <1>0, <2>1, SMT
      <4> QED BY <1>5, <4>1, SMT DEF PhyEdge, PhyIdle, PhyAccept, PhyHoldBit,
           PhyNextBit, C
    <3>4. Sampled' = 8 /\ Sampled = 8
      BY <1>0, <1>5, <2>1, <3>3, SMT DEF Sampled
    <3>5. InStep'
      BY <1>0, <1>F, <2>0, <2>1, <3>1, <3>2, <3>3, SMT DEF InStep
    <3>6. ~(u = HalfC)
      BY <1>0, <2>1, SMT
    <3> QED BY <3>2, <3>3, <3>4, <3>5, <3>6 DEF BitsSampled
  <2>2. CASE u >= HalfC
    <3>1. /\ rx_clock' = 0 /\ rx_bits' = <<>>
          /\ Stopping <=> u = HalfC
      <4>1. CASE u = HalfC
        <5>1. rx_clock = FrameClock(9) + u
          BY <1>0, <1>5, <4>1, SMT DEF InStep
        <5>2. Stopping /\ rx_clock' = 0 /\ rx_bits' = <<>>
          BY <1>0, <2>0, <4>1, <5>1, RxMoves, Zenon
        <5> QED BY <4>1, <5>2
      <4>2. CASE u > HalfC
        <5>1. rx_clock = 0
          BY <1>5, <4>2, SMT DEF InStep
        <5>2. ~Stopping /\ rx_clock' = 0 /\ rx_bits' = <<>>
          BY <2>0, <5>1, RxMoves, SMT
        <5> QED BY <1>0, <4>2, <5>2, SMT
      <4> QED BY <1>0, <2>2, <4>1, <4>2, SMT
    <3>2. \/ phy_state' = "STOP" /\ baud_count' = u + 1 /\ bit_index' = 0
          \/ phy_state' = "IDLE" /\ baud_count' = 0 /\ bit_index' = 0
      BY <1>5, <2>0, SMT DEF PhyEdge, PhyIdle, PhyAccept, PhyHoldBit,
           PhyNextBit, C, StateAfterBit, BitIndexAfterBit
    <3>3. Sampled' = 0
      BY <1>0, <2>2, <3>2, SMT DEF Sampled
    <3>4. InStep'
      BY <1>0, <2>2, <3>1, <3>2, SMT DEF InStep
    <3> QED BY <1>5, <3>1, <3>3, <3>4, NoBits, SMT DEF BitsSampled
  <2> QED BY <1>0, <2>1, <2>2, SMT
<1> QED BY <1>1, <1>2, <1>3, <1>4, <1>5
\* The transmitter's registers stay in range.
LEMMA PhyTyped ==
  ASSUME PhyTypeOK, NEW v, NEW d \in 0 .. 255, PhyEdge(v, d)
  PROVE  PhyTypeOK'
<1>1. CLKS_PER_BIT \in Nat /\ CLKS_PER_BIT >= 1 /\ CLKS_PER_BIT' = CLKS_PER_BIT
  BY Clocks DEF C, CLKS_PER_BIT
<1> HIDE DEF CLKS_PER_BIT
<1> USE DEF PhyTypeOK
<1>2. CASE PhyIdle(v)
  BY <1>1, <1>2, SMT DEF PhyIdle
<1>3. CASE PhyAccept(v, d)
  BY <1>1, <1>3, SMT DEF PhyAccept
<1>4. CASE PhyHoldBit
  BY <1>1, <1>4, SMT DEF PhyHoldBit
<1>5. CASE PhyNextBit
  BY <1>1, <1>5, SMT DEF PhyNextBit, StateAfterBit, BitIndexAfterBit
<1> QED BY <1>2, <1>3, <1>4, <1>5 DEF PhyEdge

\* A frame that ends gives the byte on the line, with a high stop bit.
LEMMA FrameReceived ==
  ASSUME PhyTypeOK, InStep, BitsSampled, phy_state = "STOP", baud_count = HalfC
  PROVE  ByteOfBits(rx_bits) = latched_data /\ tx # 0 /\ rx_clock # 0
<1>1. HalfC \in Nat /\ C \in Nat /\ C >= 1 /\ HalfC <= HalfC
  BY Clocks, SMT
<1>2. Sampled = 8
  BY <1>1, SMT DEF Sampled
<1>3. \A k \in 1 .. 8 : rx_bits[k] = BitOf(latched_data, k - 1)
  BY <1>2, Zenon DEF BitsSampled, BitsAre
<1>4. ByteOfBits(rx_bits) = latched_data
  BY <1>3, ByteOfItsBits, Zenon DEF PhyTypeOK
<1>5. tx # 0
  BY TxLevel, SMT
<1>6. rx_clock # 0
  <2>1. rx_clock = FrameClock(9) + HalfC
    BY <1>1, SMT DEF InStep
  <2>2. FrameClock(0) = 0 /\ FrameClock(0) + C <= FrameClock(9)
        /\ FrameClock(9) \in Nat
    BY FrameClocks, SMT
  <2> QED BY <1>1, <2>1, <2>2, SMT
<1> QED BY <1>4, <1>5, <1>6

------------------------------------------------------------------------------
\* The inductive invariant.
PathInv ==
  /\ TypeOK /\ RxBounded
  /\ PointersAgree
  /\ ~reset => InStep /\ BitsSampled
  /\ NoFramingError
  /\ OverflowIffLoss
  /\ LineCarriesAccepted

\* Everything holds when the FPGA is configured.
LEMMA PathInit == Init => PathInv
<1> SUFFICES ASSUME Init PROVE PathInv
  OBVIOUS
<1>1. FifoTypeOK /\ PointersAgree
  BY FifoInitTyped DEF Init
<1>2. CLKS_PER_BIT \in Nat /\ CLKS_PER_BIT >= 1
  BY Clocks DEF C
<1>3. PhyTypeOK
  <2> HIDE DEF CLKS_PER_BIT
  <2> QED BY <1>2, SMT DEF Init, PhyInit, PhyTypeOK
<1>4. rx_clock \in 0 .. 10 * CLKS_PER_BIT /\ RxBounded
  <2>1. SampleClock(8) = FrameClock(9) + HalfC /\ FrameClock(9) \in Nat
    BY SampleClocks, FrameClocks, SMT
  <2> HIDE DEF CLKS_PER_BIT
  <2> QED BY <1>2, <2>1, Clocks, SMT DEF Init, RxBounded
<1>5. /\ accepted = <<>> /\ received = <<>> /\ rx_bits = <<>>
      /\ dropped = 0 /\ rx_framing = FALSE /\ reset = TRUE
  BY DEF Init
<1>6. accepted \in Seq(Data) /\ received \in Seq(0 .. 255)
      /\ rx_bits \in Seq({0, 1})
  BY <1>5, EmptySeq
<1>7. dropped \in 0 .. MaxEvents
  BY <1>5, BytesAssumption, SMT
<1>8. TypeOK
  BY <1>1, <1>3, <1>4, <1>5, <1>6, <1>7, Zenon DEF TypeOK
<1> QED BY <1>1, <1>4, <1>5, <1>8, Zenon DEF PathInv, NoFramingError,
     OverflowIffLoss,
            LineCarriesAccepted
\* The receiver's clock fits the bound of the type invariant.
LEMMA RxClockRange ==
  ASSUME NEW c \in Nat, c <= SampleClock(8)
  PROVE  c \in 0 .. 10 * CLKS_PER_BIT
<1>1. SampleClock(8) = FrameClock(9) + HalfC
  BY SampleClocks, SMT
<1>2. FrameClock(9) = 9 * C /\ C = CLKS_PER_BIT
  BY DEF FrameClock, C
<1> HIDE DEF CLKS_PER_BIT
<1> QED BY <1>1, <1>2, Clocks, SMT

\* An edge under reset.
LEMMA PathReset ==
  ASSUME PathInv, ResetEdge
  PROVE  PathInv'
<1>1. TypeOK /\ RxBounded /\ reset
  BY DEF PathInv, ResetEdge
<1>2. FifoTypeOK /\ PhyTypeOK /\ rx_clock \in Nat /\ rx_bits \in Seq({0, 1})
  <2>1. CLKS_PER_BIT \in Nat
    BY Clocks DEF C
  <2>2. rx_clock \in 0 .. 10 * CLKS_PER_BIT
    BY <1>1 DEF TypeOK
  <2>3. rx_clock \in Nat
    <3> HIDE DEF CLKS_PER_BIT
    <3> QED BY <2>1, <2>2, SMT
  <2> QED BY <1>1, <2>3 DEF TypeOK
<1>3. FifoTypeOK' /\ PointersAgree' /\ Contents' = <<>> /\ overflow' = FALSE
  BY <1>2, FifoResetTyped DEF ResetEdge, FifoReset
<1>4. PhyTypeOK' /\ phy_state' = "IDLE" /\ baud_count' = 0 /\ bit_index' = 0
  <2>1. CLKS_PER_BIT \in Nat /\ CLKS_PER_BIT >= 1
        /\ CLKS_PER_BIT' = CLKS_PER_BIT
    BY Clocks DEF C, CLKS_PER_BIT
  <2> HIDE DEF CLKS_PER_BIT
  <2> QED BY <2>1, SMT DEF ResetEdge, PhyReset, PhyTypeOK
<1>5. /\ rx_clock' \in Nat /\ RxBounded' /\ rx_bits' \in Seq({0, 1})
      /\ rx_clock' = 0 => rx_bits' = <<>>
  BY <1>1, <1>2, RxTyped DEF ResetEdge
<1>6. rx_clock' \in 0 .. 10 * CLKS_PER_BIT'
  <2>1. CLKS_PER_BIT' = CLKS_PER_BIT /\ SampleClock(8)' = SampleClock(8)
    BY DEF CLKS_PER_BIT, SampleClock
  <2>2. rx_clock' <= SampleClock(8)
    BY <1>5, <2>1 DEF RxBounded
  <2> QED BY <1>5, <2>1, <2>2, RxClockRange, Zenon
<1>7. /\ accepted' = <<>> /\ received' = <<>> /\ dropped' = 0
      /\ rx_framing' = FALSE /\ reset' \in BOOLEAN /\ (~reset' => rx_clock' = 0)
  BY DEF ResetEdge
<1>8. TypeOK'
  <2>1. accepted' \in Seq(Data) /\ received' \in Seq(0 .. 255)
    BY <1>7, EmptySeq
  <2>2. dropped' \in 0 .. MaxEvents
    BY <1>7, BytesAssumption, SMT
  <2> QED BY <1>3, <1>4, <1>5, <1>6, <1>7, <2>1, <2>2, Zenon DEF TypeOK
<1>9. ASSUME ~reset' PROVE InStep' /\ BitsSampled'
  <2>1. rx_clock' = 0 /\ rx_bits' = <<>>
    BY <1>5, <1>7, <1>9
  <2>2. Sampled' = 0
    BY <1>4, SMT DEF Sampled
  <2>3. InStep'
    BY <1>4, <2>1, SMT DEF InStep
  <2>4. BitsSampled'
    BY <2>1, <2>2, NoBits, Zenon DEF BitsSampled
  <2> QED BY <2>3, <2>4
<1>10. OverflowIffLoss'
  BY <1>3, <1>7, SMT DEF OverflowIffLoss
<1>11. LineCarriesAccepted'
  <2>1. InFlight' = <<>>
    BY <1>4 DEF InFlight
  <2>2. <<>> \o <<>> \o <<>> = <<>>
    BY SMT
  <2> QED BY <1>3, <1>7, <2>1, <2>2, Zenon DEF LineCarriesAccepted
<1> QED BY <1>3, <1>5, <1>7, <1>8, <1>9, <1>10, <1>11, Zenon
        DEF PathInv, NoFramingError

\* The bytes that are received or on the line, after an edge that leaves the
\* queue's head where it is.
LEMMA LineMoves ==
  ASSUME PhyTypeOK, InStep, BitsSampled, rx_bits \in Seq({0, 1}),
         received \in Seq(0 .. 255), NEW v, NEW d, PhyEdge(v, d), RxEdge,
         received' = IF Stopping THEN Append(received, ByteOfBits(rx_bits))
                                 ELSE received
  PROVE  /\ ~(v /\ phy_state = "IDLE") =>
              received' \o InFlight' = received \o InFlight
         /\ v /\ phy_state = "IDLE" =>
              received' = received /\ InFlight = <<>> /\ InFlight' = <<d>>
         /\ received' \in Seq(0 .. 255) /\ InFlight \in Seq(0 .. 255)
         /\ ~(Stopping /\ tx = 0)
<1>1. /\ InStep' /\ BitsSampled'
      /\ Stopping <=> phy_state = "STOP" /\ baud_count = HalfC
  BY LockStep
<1>2. /\ HalfC \in Nat /\ C \in Nat /\ HalfC < C /\ HalfC' = HalfC
      /\ baud_count \in Nat /\ baud_count < C
  <2>1. HalfC' = HalfC /\ baud_count \in 0 .. C - 1
    BY DEF HalfC, C, CLKS_PER_BIT, PhyTypeOK
  <2> QED BY <2>1, Clocks, SMT
<1>3. latched_data \in 0 .. 255 /\ <<latched_data>> \in Seq(0 .. 255)
      /\ <<>> \in Seq(0 .. 255)
  BY SMT DEF PhyTypeOK
<1>4. InFlight \in Seq(0 .. 255)
  BY <1>3, Zenon DEF InFlight
<1>5. CASE Stopping
  <2>1. phy_state = "STOP" /\ baud_count = HalfC
    BY <1>1, <1>5
  <2>2. ByteOfBits(rx_bits) = latched_data /\ tx # 0 /\ rx_clock # 0
    BY <2>1, FrameReceived
  <2>3. InFlight = <<latched_data>>
    BY <2>1, <2>2 DEF InFlight
  <2>4. InFlight' = <<>>
    <3>1. rx_clock' = 0 /\ phy_state' \in {"IDLE", "STOP"}
      BY <1>5, <2>1, <2>2, SMT DEF RxEdge, PhyEdge, PhyIdle, PhyAccept,
           PhyHoldBit, PhyNextBit, StateAfterBit
    <3> QED BY <3>1, SMT DEF InFlight
  <2>5. received' = Append(received, latched_data)
    BY <1>5, <2>2
  <2>6. /\ Append(received, latched_data) = received \o <<latched_data>>
        /\ received' \in Seq(0 .. 255)
    <3> DEFINE S == 0 .. 255
    <3>1. received \in Seq(S) /\ latched_data \in S
      BY <1>3
    <3> HIDE DEF S
    <3>2. /\ Append(received, latched_data) = received \o <<latched_data>>
          /\ Append(received, latched_data) \in Seq(S)
      BY <3>1, AppendIsConcat, AppendProperties, Zenon
    <3> QED BY <2>5, <3>2 DEF S
  <2>7. received' \o <<>> = received'
    BY <2>6, ConcatEmptySeq
  <2> QED BY <1>4, <2>1, <2>2, <2>3, <2>4, <2>5, <2>6, <2>7
<1>6. CASE ~Stopping
  <2>1. received' = received
    BY <1>6
  <2>2. CASE phy_state = "IDLE"
    <3>1. InFlight = <<>>
      BY <2>2 DEF InFlight
    <3>2. ~v => InFlight' = <<>>
      BY <2>2, SMT DEF PhyEdge, PhyIdle, PhyAccept, PhyHoldBit, PhyNextBit,
           InFlight
    <3>3. v => InFlight' = <<d>>
      BY <2>2, SMT DEF PhyEdge, PhyIdle, PhyAccept, PhyHoldBit, PhyNextBit,
           InFlight
    <3> QED BY <1>4, <1>6, <2>1, <2>2, <3>1, <3>2, <3>3
  <2>3. CASE phy_state # "IDLE"
    <3>1. latched_data' = latched_data
      BY <2>3, SMT DEF PhyEdge, PhyIdle, PhyAccept, PhyHoldBit, PhyNextBit
    <3>2. InFlight' = InFlight
      <4>1. CASE phy_state \in {"START", "DATA"}
        <5>1. InFlight = <<latched_data>>
          BY <4>1, SMT DEF InFlight
        <5>2. phy_state' \in {"START", "DATA", "STOP"}
          BY <4>1, SMT DEF PhyEdge, PhyIdle, PhyAccept, PhyHoldBit,
               PhyNextBit, StateAfterBit
        <5>3. phy_state' = "STOP" => rx_clock' # 0
          <6>1. phy_state' = "STOP" => baud_count' = 0
            BY <4>1, SMT DEF PhyEdge, PhyIdle, PhyAccept, PhyHoldBit,
                 PhyNextBit, StateAfterBit
          <6>2. phy_state' = "STOP" => rx_clock' = FrameClock(9)'
            <7>1. FrameClock(9)' = FrameClock(9) /\ FrameClock(9) \in Nat
              <8>1. C' = C
                BY DEF C, CLKS_PER_BIT
              <8> QED BY <8>1, FrameClocks, SMT DEF FrameClock
            <7> QED BY <1>1, <1>2, <6>1, <7>1, SMT DEF InStep
          <6>3. FrameClock(9)' = FrameClock(9) /\ FrameClock(9) # 0
            <7>1. C' = C
              BY DEF C, CLKS_PER_BIT
            <7>2. FrameClock(9)' = FrameClock(9)
              BY <7>1 DEF FrameClock
            <7>3. FrameClock(9) = 9 * C
              BY DEF FrameClock
            <7> QED BY <7>2, <7>3, Clocks, SMT
          <6> QED BY <6>2, <6>3
        <5> QED BY <3>1, <5>1, <5>2, <5>3, SMT DEF InFlight
      <4>2. CASE phy_state = "STOP" /\ baud_count < HalfC
        <5>1. baud_count # C - 1
          BY <1>2, <4>2, SMT
        <5>2. phy_state' = "STOP" /\ baud_count' = baud_count + 1
          BY <4>2, <5>1, SMT DEF PhyEdge, PhyIdle, PhyAccept, PhyHoldBit,
               PhyNextBit, C
        <5>3. rx_clock # 0 /\ rx_clock' # 0
          <6>1. C' = C
            BY DEF C, CLKS_PER_BIT
          <6>2. FrameClock(9) = 9 * C /\ FrameClock(9)' = 9 * C
            BY <6>1 DEF FrameClock
          <6>3. rx_clock = 9 * C + baud_count /\ rx_clock' = 9 * C + baud_count'
            BY <1>1, <1>2, <4>2, <5>2, <6>2, SMT DEF InStep
          <6> QED BY <1>2, <4>2, <5>2, <6>3, SMT
        <5> QED BY <3>1, <4>2, <5>2, <5>3, SMT DEF InFlight
      <4>3. CASE phy_state = "STOP" /\ baud_count > HalfC
        <5>1. rx_clock = 0
          BY <4>3, SMT DEF InStep
        <5>2. tx = 1
          BY <4>3, TxLevel, SMT
        <5>3. rx_clock' = 0
          BY <5>1, <5>2, RxMoves, SMT
        <5>4. phy_state' \in {"IDLE", "STOP"}
          BY <4>3, SMT DEF PhyEdge, PhyIdle, PhyAccept, PhyHoldBit,
               PhyNextBit, StateAfterBit
        <5> QED BY <4>3, <5>1, <5>3, <5>4, SMT DEF InFlight
      <4>4. phy_state = "STOP" => baud_count # HalfC
        BY <1>1, <1>6
      <4> QED BY <1>2, <2>3, <4>1, <4>2, <4>3, <4>4, SMT DEF PhyTypeOK
    <3> QED BY <1>4, <1>6, <2>1, <2>3, <3>2
  <2> QED BY <2>2, <2>3
<1> QED BY <1>5, <1>6
\* An edge outside reset.
LEMMA PathEdge ==
  ASSUME PathInv, NEW ev \in BOOLEAN, NEW d \in Data, Edge(ev, d),
         ev => Len(accepted) + dropped < MaxEvents
  PROVE  PathInv'
<1> DEFINE enq  == enqueue(ev, tx_ready)
           deq  == dequeue(tx_ready)
           kept == IF deq THEN Tail(Contents) ELSE Contents
           new  == IF enq THEN <<d>> ELSE <<>>
           Byte == 0 .. 255
<1>1. TypeOK /\ RxBounded /\ PointersAgree /\ ~reset /\ InStep /\ BitsSampled
  BY DEF PathInv, Edge
<1>2. /\ FifoTypeOK /\ PhyTypeOK /\ rx_bits \in Seq({0, 1})
      /\ accepted \in Seq(Data) /\ received \in Seq(0 .. 255)
      /\ dropped \in 0 .. MaxEvents /\ rx_framing \in BOOLEAN
  BY <1>1 DEF TypeOK
<1>3. rx_clock \in Nat
  <2>1. CLKS_PER_BIT \in Nat /\ rx_clock \in 0 .. 10 * CLKS_PER_BIT
    BY <1>1, Clocks DEF C, TypeOK
  <2> HIDE DEF CLKS_PER_BIT
  <2> QED BY <2>1, SMT
<1>4. /\ FifoEdge(ev, d, tx_ready) /\ PhyEdge(out_valid, out_data) /\ RxEdge
      /\ received' = IF Stopping THEN Append(received, ByteOfBits(rx_bits))
                                 ELSE received
      /\ rx_framing' = (rx_framing \/ (Stopping /\ tx = 0))
      /\ accepted' = IF enq THEN Append(accepted, d) ELSE accepted
      /\ dropped' = IF ev /\ ~enq THEN dropped + 1 ELSE dropped
      /\ reset' \in BOOLEAN
  BY DEF Edge
<1>5. out_data \in Data /\ Data \subseteq 0 .. 255
  BY <1>2, BytesAssumption DEF FifoTypeOK, out_data
<1>6. FifoTypeOK' /\ PointersAgree'
  BY <1>1, <1>2, <1>4, FifoEdgeTyped, PointersStep, Zenon
<1>7. PhyTypeOK'
  <2>1. out_data \in 0 .. 255
    BY <1>5
  <2> QED BY <1>2, <1>4, <2>1, PhyTyped, Zenon
<1>8. rx_clock' \in Nat /\ RxBounded' /\ rx_bits' \in Seq({0, 1})
  BY <1>1, <1>2, <1>3, <1>4, RxTyped
<1>9. rx_clock' \in 0 .. 10 * CLKS_PER_BIT'
  <2>1. CLKS_PER_BIT' = CLKS_PER_BIT /\ SampleClock(8)' = SampleClock(8)
    BY DEF CLKS_PER_BIT, SampleClock
  <2>2. rx_clock' <= SampleClock(8)
    BY <1>8, <2>1 DEF RxBounded
  <2> QED BY <1>8, <2>1, <2>2, RxClockRange, Zenon
<1>10. InStep' /\ BitsSampled'
  BY <1>1, <1>2, <1>4, LockStep, Zenon
<1>11. /\ ~(out_valid /\ tx_ready) =>
            received' \o InFlight' = received \o InFlight
       /\ out_valid /\ tx_ready => /\ received' = received /\ InFlight = <<>>
                                   /\ InFlight' = <<out_data>>
       /\ received' \in Seq(0 .. 255) /\ InFlight \in Seq(0 .. 255)
       /\ ~(Stopping /\ tx = 0)
  BY <1>1, <1>2, <1>4, LineMoves, Zenon DEF tx_ready
<1>12. NoFramingError'
  BY <1>4, <1>11 DEF PathInv, NoFramingError
<1>13. overflow' = (overflow \/ (ev /\ ~enq))
  BY <1>4, EdgeCases, Zenon
<1>14. dropped' \in 0 .. MaxEvents
  <2>1. Len(accepted) \in Nat
    BY <1>2, LenProperties
  <2> HIDE DEF enq
  <2> QED BY <1>2, <1>4, <2>1, BytesAssumption, SMT
<1>15. OverflowIffLoss'
  <2>1. overflow \in BOOLEAN /\ (overflow <=> dropped > 0)
    BY <1>1, <1>2 DEF PathInv, OverflowIffLoss, FifoTypeOK
  <2> HIDE DEF enq
  <2> QED BY <1>2, <1>4, <1>13, <2>1, BytesAssumption, SMT DEF OverflowIffLoss
<1>16. accepted' = accepted \o new /\ accepted' \in Seq(Data)
  <2>1. Append(accepted, d) = accepted \o <<d>>
        /\ Append(accepted, d) \in Seq(Data)
    BY <1>2, AppendIsConcat, AppendProperties, Zenon
  <2>2. accepted \o <<>> = accepted
    BY <1>2, ConcatEmptySeq, Zenon
  <2> QED BY <1>2, <1>4, <2>1, <2>2, Zenon
<1>17. TypeOK'
  BY <1>4, <1>6, <1>7, <1>8, <1>9, <1>11, <1>12, <1>14, <1>16, Zenon
     DEF TypeOK, NoFramingError
<1>18. LineCarriesAccepted'
  <2>1. Contents' = kept \o new
    BY <1>1, <1>2, <1>4, ContentsStep, Zenon
  <2>2. ContentsWellFormed
    BY <1>2, ContentsIsSeq
  <2>3. Contents \in Seq(Byte)
    <3>1. Contents \in Seq(Data) /\ Data \subseteq Byte
      BY <1>5, <2>2 DEF ContentsWellFormed
    <3> HIDE DEF Byte
    <3> QED BY <3>1, SeqMonotonic, Zenon
  <2>4. new \in Seq(Byte)
    <3>1. d \in Byte
      BY <1>5
    <3> HIDE DEF Byte
    <3>2. <<d>> \in Seq(Byte) /\ <<>> \in Seq(Byte)
      BY <3>1, SMT
    <3> QED BY <3>2, Zenon
  <2>5. out_valid => Contents # <<>> /\ out_data = Contents[1]
    <3>1. out_valid => count >= 1 /\ 1 \in 1 .. count
      BY <2>2, SMT DEF out_valid, ContentsWellFormed
    <3>2. SlotOf(1) = read_pointer
      BY <1>2, DepthAssumption, SMT DEF SlotOf, FifoTypeOK, Slot
    <3>3. out_valid => Contents # <<>>
      BY <2>2, <3>1, EmptySeq, SMT DEF ContentsWellFormed
    <3> QED BY <2>2, <3>1, <3>2, <3>3, Zenon DEF ContentsWellFormed, out_data
  <2>6. kept \in Seq(Byte)
    <3>1. deq => out_valid
      BY DEF dequeue
    <3> HIDE DEF Byte, deq
    <3> QED BY <2>3, <2>5, <3>1, HeadTailProperties, Zenon
  <2>7. received' \in Seq(Byte) /\ received \in Seq(Byte)
        /\ InFlight \in Seq(Byte)
    BY <1>2, <1>11
  <2>8. InFlight' \in Seq(Byte)
    <3>1. latched_data' \in Byte
      BY <1>7 DEF PhyTypeOK
    <3> HIDE DEF Byte
    <3>2. <<latched_data'>> \in Seq(Byte) /\ <<>> \in Seq(Byte)
      BY <3>1, SMT
    <3> QED BY <3>2, Zenon DEF InFlight
  <2>9. received' \o InFlight' \o kept = received \o InFlight \o Contents
    <3>1. CASE deq
      <4>1. out_valid /\ tx_ready
        BY <3>1 DEF dequeue
      <4>2. received \o <<Contents[1]>> \o Tail(Contents) = received \o <<>> \o Contents
        <5> HIDE DEF Byte
        <5> QED BY <2>3, <2>5, <2>7, <4>1, TakeHead, Zenon
      <4> QED BY <1>11, <2>5, <3>1, <4>1, <4>2, Zenon
    <3>2. CASE ~deq
      <4>1. ~(out_valid /\ tx_ready)
        BY <3>2 DEF dequeue
      <4> QED BY <1>11, <3>2, <4>1, Zenon
    <3> QED BY <3>1, <3>2
  <2>10. (received' \o InFlight' \o kept) \o new = received' \o InFlight' \o (kept \o new)
    <3> DEFINE done == received'
               fly  == InFlight'
    <3>1. (done \o fly \o kept) \o new = done \o fly \o (kept \o new)
      <4>1. done \in Seq(Byte) /\ fly \in Seq(Byte)
        BY <2>7, <2>8
      <4> DEFINE front == done \o fly
      <4>2. front \in Seq(Byte)
        <5> HIDE DEF Byte, done, fly
        <5> QED BY <4>1, ConcatProperties
      <4>3. (front \o kept) \o new = front \o (kept \o new)
        <5> HIDE DEF Byte, kept, new, front
        <5> QED BY <2>4, <2>6, <4>2, ConcatAssociative
      <4> QED BY <4>3
    <3> QED BY <3>1
  <2>11. accepted = received \o InFlight \o Contents
    BY <1>1 DEF PathInv, LineCarriesAccepted
  <2> HIDE DEF kept, new
  <2> QED BY <1>16, <2>1, <2>9, <2>10, <2>11, Zenon DEF LineCarriesAccepted
<1> QED BY <1>6, <1>8, <1>10, <1>12, <1>15, <1>17, <1>18, Zenon DEF PathInv

\* PathInv holds at every edge, with and without reset.
LEMMA PathInvariant == Spec => []PathInv
<1>1. PathInv /\ [Next]_vars => PathInv'
  <2> SUFFICES ASSUME PathInv, [Next]_vars PROVE PathInv'
    OBVIOUS
  <2>1. CASE QuietEdge
    <3>1. PICK d \in Data : Edge(FALSE, d)
      BY <2>1 DEF QuietEdge
    <3> QED BY <3>1, PathEdge
  <2>2. CASE EventEdge
    <3>1. PICK d \in Data : Edge(TRUE, d)
      BY <2>2 DEF EventEdge
    <3> QED BY <2>2, <3>1, PathEdge DEF EventEdge
  <2>3. CASE ResetEdge
    BY <2>3, PathReset
  <2>4. CASE UNCHANGED vars
    <3>1. UNCHANGED <<fifoVars, phyVars, reset, accepted, dropped, rxVars>>
      BY <2>4 DEF vars
    <3>2. /\ FifoTypeOK' /\ PointersAgree' /\ Contents' = Contents
          /\ overflow' = overflow
      BY <3>1, FifoUnchanged DEF PathInv, TypeOK, fifoVars
    <3>3. /\ phy_state' = phy_state /\ baud_count' = baud_count
          /\ bit_index' = bit_index /\ latched_data' = latched_data
          /\ reset' = reset /\ accepted' = accepted /\ dropped' = dropped
          /\ rx_clock' = rx_clock /\ rx_bits' = rx_bits
          /\ received' = received /\ rx_framing' = rx_framing
      BY <3>1, Zenon DEF phyVars, rxVars
    <3>4. CLKS_PER_BIT' = CLKS_PER_BIT /\ SampleClock(8)' = SampleClock(8)
          /\ C' = C /\ HalfC' = HalfC /\ \A k : FrameClock(k)' = FrameClock(k)
      BY DEF CLKS_PER_BIT, SampleClock, C, HalfC, FrameClock
    <3>5. TypeOK'
      <4>1. PhyTypeOK'
        BY <3>3, <3>4, Zenon DEF PathInv, TypeOK, PhyTypeOK
      <4> QED BY <3>2, <3>3, <3>4, <4>1, Zenon DEF PathInv, TypeOK
    <3>6. RxBounded' /\ NoFramingError' /\ OverflowIffLoss'
      BY <3>2, <3>3, <3>4, Zenon DEF PathInv, RxBounded, NoFramingError,
           OverflowIffLoss
    <3>7. LineCarriesAccepted'
      BY <3>2, <3>3, Zenon DEF PathInv, LineCarriesAccepted, InFlight
    <3>8. ~reset' => InStep' /\ BitsSampled'
      <4>1. Sampled' = Sampled
        BY <3>3, <3>4, Zenon DEF Sampled
      <4>2. ~reset => BitsSampled'
        BY <3>3, <4>1, Zenon DEF PathInv, BitsSampled
      <4>3. ~reset => InStep'
        BY <3>3, <3>4, Zenon DEF PathInv, InStep
      <4> QED BY <3>3, <4>2, <4>3
    <3> QED BY <3>2, <3>5, <3>6, <3>7, <3>8, Zenon DEF PathInv
  <2> QED BY <2>1, <2>2, <2>3, <2>4 DEF Next
<1> QED BY <1>1, PathInit, PTL DEF Spec

------------------------------------------------------------------------------
\* Every register of FIFO, transmitter and receiver stays in range, for every
\* depth, clock rate and baud rate, those that round to one clock per bit or
\* to an odd number included.
THEOREM PathTypeCorrect == Spec => []TypeOK
BY PathInvariant, PTL DEF PathInv

\* Whatever the processor sends and whenever reset strikes, the receiver has
\* got, is getting or will get every byte that entered the FIFO since the last
\* reset, once and in order.
THEOREM LineIsFaithful == Spec => []LineCarriesAccepted
BY PathInvariant, PTL DEF PathInv

\* Every frame of uart_tx_phy.sv has a high stop bit where the receiver looks
\* for it: the receiver never loses the frame boundaries.
THEOREM FramesAreWellFormed == Spec => []NoFramingError
BY PathInvariant, PTL DEF PathInv

\* uart_fifo_overflow is high exactly when a byte was lost since reset.
THEOREM OverflowTellsLoss == Spec => []OverflowIffLoss
BY PathInvariant, PTL DEF PathInv
=============================================================================
