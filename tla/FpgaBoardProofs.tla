--------------------------- MODULE FpgaBoardProofs --------------------------
(***************************************************************************)
(* Proofs about the board.  For every program, FIFO depth, baud rate and   *)
(* number of presses: while LED5 is dark nothing the program has sent is   *)
(* lost.  The invariant does not mention reset: a press raises reset and   *)
(* changes nothing else, and the edge that samples reset clears processor, *)
(* FIFO and transmitter together.  For every set of blocks behind reset:   *)
(* no press of the button is lost and all leave reset at the same edge.    *)
(***************************************************************************)
EXTENDS FpgaBoard, ResetDomains, Mini32SystemProofs, UartTxFifoProofs

PhyState == {"IDLE", "START", "DATA", "STOP"}

\* What has been sent is on the line, in the transmitter or in the FIFO.
NothingLost == ~overflow => uart_log = line \o Transmitting \o Contents

BoardInv ==
  /\ TypeOK
  /\ FifoTypeOK
  /\ PointersAgree
  /\ phy_state \in PhyState
  /\ latched_data \in Data
  /\ line \in Seq(Data)
  /\ NothingLost

\* The FIFO's bytes are the bytes of uart_mmio.sv.
LEMMA EventIsByte == TypeOK => uart_tx_data \in Data
<1>1. TypeOK => uart_tx_data \in Byte
  BY Zenon DEF TypeOK, BusTypeOK, MmioTypeOK
<1>2. \A n \in Byte : n \in Data
  BY DataIsByte, SMT DEF Byte
<1> QED BY <1>1, <1>2, Zenon

\* The board powers up with everything empty.
LEMMA BoardInitial == BoardInit => BoardInv
<1> SUFFICES ASSUME BoardInit PROVE BoardInv
  OBVIOUS
<1>1. TypeOK
  <2>1. reset \in BOOLEAN
    BY Zenon DEF BoardInit
  <2> QED BY <2>1, TypeInit, Zenon DEF BoardInit, PowerUp
<1>2. FifoTypeOK /\ PointersAgree
  BY FifoInitTyped, Zenon DEF BoardInit
<1>3. phy_state = "IDLE" /\ latched_data = 0 /\ line = <<>> /\ uart_log = <<>>
  BY Zenon DEF BoardInit, PhyInit
<1>4. 0 \in Data
  BY DataIsByte, SMT
<1>5. Contents = <<>>
  BY SMT DEF BoardInit, FifoInit, Contents
<1>6. Transmitting = <<>>
  BY <1>3, Zenon DEF Transmitting
<1>7. line \in Seq(Data) /\ <<>> \o <<>> \o <<>> = <<>>
  BY <1>3, SMT
<1> QED BY <1>1, <1>2, <1>3, <1>4, <1>5, <1>6, <1>7, Zenon
        DEF BoardInv, NothingLost, PhyState

\* A press or a release of S1 touches no register behind the synchroniser.
LEMMA ButtonKeeps ==
  ASSUME BoardInv, UNCHANGED <<cpuVars, busVars, uart_log, fifoVars, phyVars,
                               line>>,
         reset' \in BOOLEAN
  PROVE  BoardInv'
<1>1. TypeOK'
  BY Zenon DEF BoardInv, cpuVars, busVars, latches, memoryVars, timerVars,
     mmioVars, TypeOK, CpuTypeOK, BusTypeOK, TimerTypeOK, MmioTypeOK
<1>2. /\ FifoTypeOK' /\ PointersAgree' /\ Contents' = Contents
      /\ overflow' = overflow
  BY FifoUnchanged, Zenon DEF BoardInv, fifoVars
<1>3. phy_state' = phy_state /\ latched_data' = latched_data /\ line' = line
  BY Zenon DEF phyVars
<1>4. Transmitting' = Transmitting
  BY <1>3, Zenon DEF Transmitting
<1> QED BY <1>1, <1>2, <1>3, <1>4, Zenon DEF BoardInv, NothingLost

\* An edge that samples reset empties everything at once.
LEMMA ResetEmpties ==
  ASSUME BoardInv, ResetEdge, FifoReset, PhyReset, line' = <<>>
  PROVE  BoardInv'
<1>1. TypeOK'
  BY TypeStep, Zenon DEF BoardInv, Next
<1>2. FifoTypeOK' /\ PointersAgree' /\ Contents' = <<>>
  BY FifoResetTyped, Zenon DEF BoardInv
<1>3. phy_state' = "IDLE" /\ latched_data' = 0 /\ uart_log' = <<>>
  BY Zenon DEF PhyReset, ResetEdge
<1>4. 0 \in Data
  BY DataIsByte, SMT
<1>5. Transmitting' = <<>>
  BY <1>3, Zenon DEF Transmitting
<1>6. line' \in Seq(Data) /\ <<>> \o <<>> \o <<>> = <<>>
  BY SMT
<1> QED BY <1>1, <1>2, <1>3, <1>4, <1>5, <1>6, Zenon
        DEF BoardInv, NothingLost, PhyState

\* The transmitter takes the byte it is offered when it is idle, and hands
\* the byte it has to the line when its stop bit ends.
LEMMA TransmitterStep ==
  ASSUME phy_state \in PhyState, latched_data \in Data, line \in Seq(Data),
         NEW v, NEW d \in Data, PhyEdge(v, d),
         line' = IF FrameEnds THEN Append(line, latched_data) ELSE line
  PROVE  /\ phy_state' \in PhyState
         /\ latched_data' \in Data
         /\ line' \in Seq(Data)
         /\ Transmitting' \in Seq(Data)
         /\ (v /\ phy_state = "IDLE") =>
              line' = line /\ Transmitting = <<>> /\ Transmitting' = <<d>>
         /\ ~(v /\ phy_state = "IDLE") =>
              line' \o Transmitting' = line \o Transmitting
<1> USE DEF PhyState
<1>1. phy_state' \in PhyState /\ latched_data' \in Data
  BY Zenon DEF PhyEdge, PhyIdle, PhyAccept, PhyHoldBit, PhyNextBit,
               StateAfterBit
<1>2. /\ <<latched_data>> \in Seq(Data) /\ <<latched_data'>> \in Seq(Data)
      /\ <<>> \in Seq(Data)
  BY <1>1, SMT
<1>3. Append(line, latched_data) = line \o <<latched_data>>
      /\ Append(line, latched_data) \in Seq(Data)
  BY AppendIsConcat, AppendProperties, Zenon
<1>4. line' \in Seq(Data)
  BY <1>3, Zenon
<1>5. Transmitting' \in Seq(Data)
  BY <1>2, Zenon DEF Transmitting
<1>6. CASE phy_state = "IDLE"
  <2>1. ~FrameEnds /\ Transmitting = <<>>
    BY <1>6, Zenon DEF FrameEnds, Transmitting
  <2>2. v => Transmitting' = <<d>>
    BY <1>6, Zenon DEF PhyEdge, PhyIdle, PhyAccept, PhyHoldBit, PhyNextBit,
                       Transmitting
  <2>3. ~v => Transmitting' = <<>>
    BY <1>6, Zenon DEF PhyEdge, PhyIdle, PhyAccept, PhyHoldBit, PhyNextBit,
                       Transmitting
  <2> QED BY <1>1, <1>4, <1>5, <1>6, <2>1, <2>2, <2>3, Zenon
<1>7. CASE FrameEnds
  <2>1. phy_state = "STOP"
    BY <1>7, Zenon DEF FrameEnds
  <2>2. phy_state' = "IDLE"
    BY <1>7, <2>1, Zenon DEF FrameEnds, PhyEdge, PhyIdle, PhyAccept,
                             PhyHoldBit, PhyNextBit, StateAfterBit
  <2>3. Transmitting = <<latched_data>> /\ Transmitting' = <<>>
    BY <2>1, <2>2, Zenon DEF Transmitting
  <2>4. line' \o <<>> = line'
    BY <1>4, ConcatEmptySeq
  <2> QED BY <1>1, <1>3, <1>4, <1>5, <1>7, <2>1, <2>3, <2>4, Zenon
<1>8. CASE phy_state # "IDLE" /\ ~FrameEnds
  <2>1. phy_state' # "IDLE" /\ latched_data' = latched_data
    BY <1>8, Zenon DEF FrameEnds, PhyEdge, PhyIdle, PhyAccept, PhyHoldBit,
                       PhyNextBit, StateAfterBit
  <2>2. Transmitting' = Transmitting
    BY <1>8, <2>1, Zenon DEF Transmitting
  <2> QED BY <1>1, <1>4, <1>5, <1>8, <2>2, Zenon
<1> QED BY <1>6, <1>7, <1>8

\* An edge outside reset moves each byte one place on at most, and drops one
\* only by raising overflow.
LEMMA RunMoves ==
  ASSUME BoardInv, RunEdge,
         FifoEdge(uart_tx_valid, uart_tx_data, tx_ready),
         PhyEdge(out_valid, out_data),
         line' = IF FrameEnds THEN Append(line, latched_data) ELSE line
  PROVE  BoardInv'
<1> DEFINE deq  == dequeue(tx_ready)
           enq  == enqueue(uart_tx_valid, tx_ready)
           kept == IF deq THEN Tail(Contents) ELSE Contents
           new  == IF enq THEN <<uart_tx_data>> ELSE <<>>
           fly  == Transmitting'
           done == line'
<1>1. /\ TypeOK /\ FifoTypeOK /\ PointersAgree /\ phy_state \in PhyState
      /\ latched_data \in Data /\ line \in Seq(Data) /\ NothingLost
  BY Zenon DEF BoardInv
<1>2. uart_tx_data \in Data
  BY <1>1, EventIsByte
<1>3. TypeOK'
  BY <1>1, TypeStep, Zenon DEF Next
<1>4. FifoTypeOK' /\ PointersAgree'
  BY <1>1, <1>2, FifoEdgeTyped, PointersStep, Zenon
<1>5. ContentsWellFormed
  BY <1>1, ContentsIsSeq
<1>6. out_data \in Data /\ Contents \in Seq(Data)
  BY <1>1, <1>5, Zenon DEF out_data, FifoTypeOK, ContentsWellFormed
<1>7. out_valid => Contents # <<>> /\ out_data = Contents[1]
  <2>1. out_valid => count >= 1 /\ 1 \in 1 .. count
    BY <1>5, SMT DEF out_valid, ContentsWellFormed
  <2>2. SlotOf(1) = read_pointer
    BY <1>1, DepthAssumption, SMT DEF SlotOf, FifoTypeOK, Slot
  <2>3. out_valid => Contents # <<>>
    BY <1>5, <2>1, EmptySeq, SMT DEF ContentsWellFormed
  <2> QED BY <1>5, <2>1, <2>2, <2>3, Zenon DEF ContentsWellFormed, out_data
<1>8. /\ phy_state' \in PhyState
      /\ latched_data' \in Data
      /\ line' \in Seq(Data)
      /\ Transmitting' \in Seq(Data)
      /\ (out_valid /\ phy_state = "IDLE") =>
           line' = line /\ Transmitting = <<>> /\ Transmitting' = <<out_data>>
      /\ ~(out_valid /\ phy_state = "IDLE") =>
           line' \o Transmitting' = line \o Transmitting
  BY <1>1, <1>6, TransmitterStep, Zenon
<1>9. Contents' = kept \o new
  BY <1>1, <1>2, ContentsStep, Zenon
<1>10. deq <=> out_valid /\ phy_state = "IDLE"
  BY Zenon DEF dequeue, tx_ready
<1>11. done \o fly \o kept = line \o Transmitting \o Contents
  <2>1. CASE deq
    <3>1. line \o <<Contents[1]>> \o Tail(Contents) = line \o <<>> \o Contents
      BY <1>1, <1>6, <1>7, <1>10, <2>1, TakeHead, Zenon
    <3> QED BY <1>7, <1>8, <1>10, <2>1, <3>1, Zenon
  <2>2. CASE ~deq
    BY <1>8, <1>10, <2>2, Zenon
  <2> QED BY <2>1, <2>2
<1>12. ASSUME ~overflow' PROVE uart_log' = line' \o Transmitting' \o Contents'
  <2>1. ~overflow /\ (uart_tx_valid <=> enq)
    <3>1. enq => uart_tx_valid
      BY Zenon DEF enqueue
    <3> QED BY <1>12, <3>1, EdgeCases, Zenon
  <2>2. uart_log = line \o Transmitting \o Contents
    BY <1>1, <2>1, Zenon DEF NothingLost
  <2>3. uart_log' = uart_log \o new
    <3>1. uart_log \in Seq(Byte) /\ uart_tx_data \in Byte
      BY <1>1, Zenon DEF TypeOK, BusTypeOK, MmioTypeOK
    <3>2. /\ Append(uart_log, uart_tx_data) = uart_log \o <<uart_tx_data>>
          /\ uart_log \o <<>> = uart_log
      BY <3>1, AppendIsConcat, ConcatEmptySeq, Zenon
    <3> QED BY <2>1, <3>2, Zenon DEF RunEdge
  <2>4. kept \in Seq(Data) /\ new \in Seq(Data)
    <3>1. <<uart_tx_data>> \in Seq(Data) /\ <<>> \in Seq(Data)
      BY <1>2, SMT
    <3>2. deq => Tail(Contents) \in Seq(Data)
      BY <1>6, <1>7, <1>10, HeadTailProperties, Zenon
    <3> QED BY <1>6, <3>1, <3>2, Zenon
  <2>5. (done \o fly \o kept) \o new = done \o fly \o (kept \o new)
    <3> DEFINE front == done \o fly
    <3>1. done \in Seq(Data) /\ fly \in Seq(Data)
      BY <1>8
    <3>2. front \in Seq(Data)
      <4> HIDE DEF done, fly
      <4> QED BY <3>1, ConcatProperties
    <3>3. (front \o kept) \o new = front \o (kept \o new)
      <4> HIDE DEF front, kept, new
      <4> QED BY <2>4, <3>2, ConcatAssociative
    <3> QED BY <3>3
  <2> HIDE DEF kept, new
  <2> QED BY <1>9, <1>11, <2>2, <2>3, <2>5, Zenon
<1> QED BY <1>3, <1>4, <1>8, <1>12, Zenon DEF BoardInv, NothingLost

\* Every step of the board keeps the invariant.
LEMMA BoardStep ==
  ASSUME BoardInv, [BoardNext]_boardVars
  PROVE  BoardInv'
<1>0. reset \in BOOLEAN
  BY Zenon DEF BoardInv, TypeOK
<1>1. CASE PressS1
  BY <1>1, ButtonKeeps, Zenon DEF PressS1
<1>2. CASE ReleaseS1
  BY <1>0, <1>2, ButtonKeeps, Zenon DEF ReleaseS1, vars
<1>3. CASE ClockEdge
  BY <1>3, RunMoves, ResetEmpties, Zenon DEF ClockEdge
<1>4. CASE UNCHANGED boardVars
  BY <1>0, <1>4, ButtonKeeps, Zenon DEF boardVars, vars
<1> QED BY <1>1, <1>2, <1>3, <1>4 DEF BoardNext

\* tang_nano_20k_top.sv's LED5, for every program that runs on the board and
\* however often S1 is pressed: while it is dark, each byte the program has
\* sent since the last reset is on the line, in the transmitter or in the
\* FIFO, once and in order.
THEOREM DarkLed5IsTrue == BoardSpec => []DarkLed5MeansNoLoss
<1>1. BoardInv /\ [BoardNext]_boardVars => BoardInv'
  BY BoardStep
<1>2. BoardInv => DarkLed5MeansNoLoss
  <2>1. overflow => 5 \in led_on
    BY Zenon DEF led_on
  <2> QED BY <2>1, Zenon DEF BoardInv, NothingLost, DarkLed5MeansNoLoss
<1> QED BY <1>1, <1>2, BoardInitial, PTL DEF BoardSpec

------------------------------------------------------------------------------
\* The registers of reset_sync.sv.  Only the first flip-flop can be metastable,
\* and while the button is pressed both are cleared.
SyncTypeOK ==
  /\ reset_n_async \in BOOLEAN
  /\ \E first \in {"0", "1", "X"}, second \in {"0", "1"} :
       release_sync = <<first, second>>
  /\ ~reset_n_async => release_sync = <<"0", "0">>

\* A first flip-flop that left 0 did so at an edge that found reset high: from
\* there on every block has been reset and all are equally old.
ReleasedAfterReset ==
  (release_sync[1] # "0" \/ release_sync[2] # "0") =>
    missed = {} /\ \A b, c \in Blocks : age[b] = age[c]

\* The invariant of the induction.  EveryPressResets and BlocksStartTogether
\* look at the second flip-flop only; one edge earlier the fact that keeps
\* them true is about the first.
ReleaseInv == SyncTypeOK /\ ReleasedAfterReset

\* An edge that finds reset high on the second flip-flop resets every block.
LEMMA SampleInReset ==
  ASSUME NEW level, level = "0",
         NEW resets \in SomeSampling(level),
         BlocksSample(resets), missed \subseteq Blocks
  PROVE  missed' = {} /\ \A b, c \in Blocks : age'[b] = age'[c]
<1>1. resets = Blocks
  BY DEF SomeSampling
<1> QED BY <1>1 DEF BlocksSample

\* An edge that finds it low resets none, and equal ages stay equal.
LEMMA SampleInRun ==
  ASSUME NEW level, level = "1",
         NEW resets \in SomeSampling(level),
         BlocksSample(resets),
         missed = {}, \A b, c \in Blocks : age[b] = age[c]
  PROVE  missed' = {} /\ \A b, c \in Blocks : age'[b] = age'[c]
<1>1. resets = {}
  BY DEF SomeSampling
<1> QED BY <1>1 DEF BlocksSample, Older

\* Every step keeps the invariant.
LEMMA ReleaseStep ==
  ASSUME ReleaseInv, missed \subseteq Blocks, [DomainNext]_domainVars
  PROVE  ReleaseInv' /\ (missed \subseteq Blocks)'
<1>1. PICK first \in {"0", "1", "X"}, second \in {"0", "1"} :
         release_sync = <<first, second>>
  BY DEF ReleaseInv, SyncTypeOK
<1>2. CASE Press
  BY <1>2 DEF Press, AssertReset, ReleaseInv, SyncTypeOK, ReleasedAfterReset
<1>3. CASE Release
  BY <1>3 DEF Release, ReleaseReset, ReleaseInv, SyncTypeOK,
              ReleasedAfterReset
<1>4. CASE Edge
  <2>1. PICK resets \in SomeSampling(second) : BlocksSample(resets)
    BY <1>1, <1>4 DEF Edge, reset_level
  <2>2. missed' \subseteq Blocks
    BY <2>1 DEF BlocksSample
  <2>3. SyncTypeOK'
    BY <1>1, <1>4 DEF Edge, SyncEdge, Seen, ReleaseInv, SyncTypeOK
  <2>4. missed' = {} /\ \A b, c \in Blocks : age'[b] = age'[c]
    <3>1. CASE second = "0"
      BY <3>1, <2>1, SampleInReset
    <3>2. CASE second = "1"
      BY <3>2, <1>1, <2>1, SampleInRun DEF ReleaseInv, ReleasedAfterReset
    <3> QED BY <3>1, <3>2
  <2> QED BY <2>2, <2>3, <2>4 DEF ReleaseInv, ReleasedAfterReset
<1>5. CASE PressAtEdge
  BY <1>5 DEF PressAtEdge, AssertReset, ReleaseInv, SyncTypeOK,
              ReleasedAfterReset
<1>6. CASE ReleaseAtEdge
  <2>1. second = "0"
    BY <1>1, <1>6 DEF ReleaseAtEdge, ReleaseResetAtEdge, ReleaseInv,
                      SyncTypeOK
  <2>2. PICK resets \in SomeSampling(second) : BlocksSample(resets)
    BY <1>1, <1>6 DEF ReleaseAtEdge, reset_level
  <2>3. missed' = {} /\ \A b, c \in Blocks : age'[b] = age'[c]
    BY <2>1, <2>2, SampleInReset
  <2>4. SyncTypeOK'
    BY <1>6 DEF ReleaseAtEdge, ReleaseResetAtEdge, SyncTypeOK
  <2> QED BY <2>3, <2>4 DEF ReleaseInv, ReleasedAfterReset
<1>7. CASE UNCHANGED domainVars
  BY <1>7 DEF domainVars, syncVars, ReleaseInv, SyncTypeOK, ReleasedAfterReset
<1> QED BY <1>2, <1>3, <1>4, <1>5, <1>6, <1>7 DEF DomainNext

\* The invariant holds of every behaviour.
LEMMA ReleaseInvariant == DomainSpec => []ReleaseInv
<1>1. DomainInit => ReleaseInv /\ missed \subseteq Blocks
  <2> SUFFICES ASSUME DomainInit PROVE ReleaseInv /\ missed \subseteq Blocks
    OBVIOUS
  <2>1. SyncTypeOK
    BY DEF DomainInit, SyncInit, SyncTypeOK
  <2>2. ReleasedAfterReset
    BY DEF DomainInit, SyncInit, ReleasedAfterReset
  <2> QED BY <2>1, <2>2 DEF ReleaseInv, DomainInit
<1>2. ReleaseInv /\ missed \subseteq Blocks /\ [DomainNext]_domainVars
        => ReleaseInv' /\ (missed \subseteq Blocks)'
  BY ReleaseStep
<1> QED BY <1>1, <1>2, PTL DEF DomainSpec

\* However short a press is and wherever its two ends fall between the clock
\* edges, no block runs without having been reset since (reset_sync.sv 9-10).
THEOREM NoPressIsLost == DomainSpec => []EveryPressResets
<1>1. ReleaseInv => EveryPressResets
  BY DEF ReleaseInv, ReleasedAfterReset, EveryPressResets, reset_level
<1> QED BY <1>1, ReleaseInvariant, PTL

\* Metastability of the first flip-flop delays the release of reset but
\* never splits it: at every edge all blocks find the same level of reset.
THEOREM BlocksLeaveResetTogether == DomainSpec => []BlocksStartTogether
<1>1. ReleaseInv => BlocksStartTogether
  BY DEF ReleaseInv, ReleasedAfterReset, BlocksStartTogether, reset_level
<1> QED BY <1>1, ReleaseInvariant, PTL
=============================================================================
