------------------------------ MODULE UartPath ------------------------------
(***************************************************************************)
(* The UART half of rtl/top/mini32_fpga_platform.sv: the event FIFO feeds  *)
(* the transmitter, and a receiver at the other end of the line samples    *)
(* each bit at its centre, as tb_mini32_fpga_platform_uart.sv does.        *)
(*                                                                         *)
(* The processor's uart_tx_valid pulses are the environment: a byte may    *)
(* arrive at any edge.  The receiver is another machine and knows nothing  *)
(* of reset; reset is taken to last until the line has been idle for the   *)
(* frame it may have cut short (a button press lasts far longer).          *)
(***************************************************************************)
EXTENDS UartTxFifo, UartTxPhy, Sequences

CONSTANT MaxEvents   \* bound: the bytes sent between two resets

ASSUME BytesAssumption == Data \subseteq 0 .. 255 /\ MaxEvents \in Nat

VARIABLES
  reset,
  accepted,    \* the bytes that entered the FIFO since reset
  dropped,     \* how many more arrived
  rx_clock,    \* receiver: clocks since the falling edge, 0 when waiting
  rx_bits,     \* receiver: the data bits sampled so far
  received,    \* the bytes received since reset
  rx_framing   \* receiver: a stop bit was low

rxVars == <<rx_clock, rx_bits, received, rx_framing>>
vars == <<fifoVars, phyVars, reset, accepted, dropped, rxVars>>

\* Pointers, count, baud and bit counters of the FIFO and the transmitter
\* stay within their registers, and the receiver sees whole frames only.
TypeOK ==
  /\ FifoTypeOK
  /\ PhyTypeOK
  /\ reset \in BOOLEAN
  /\ accepted \in Seq(Data)
  /\ dropped \in 0 .. MaxEvents
  /\ rx_clock \in 0 .. 10 * CLKS_PER_BIT
  /\ rx_bits \in Seq({0, 1})
  /\ received \in Seq(0 .. 255)
  /\ rx_framing \in BOOLEAN

Init ==
  /\ FifoInit
  /\ PhyInit
  /\ reset = TRUE
  /\ accepted = <<>>
  /\ dropped = 0
  /\ rx_clock = 0
  /\ rx_bits = <<>>
  /\ received = <<>>
  /\ rx_framing = FALSE

------------------------------------------------------------------------------
\* The receiver.

\* The clock at which data bit k (from 0) is sampled; k = 8 is the stop bit.
SampleClock(k) == CLKS_PER_BIT + (CLKS_PER_BIT \div 2) + k * CLKS_PER_BIT

ByteOfBits(b) ==
  b[1] + 2 * b[2] + 4 * b[3] + 8 * b[4] + 16 * b[5] + 32 * b[6] + 64 * b[7]
    + 128 * b[8]

Stopping == rx_clock = SampleClock(8)

\* The receiver's reaction to the level of the line before the edge.
RxEdge ==
  /\ rx_clock' = CASE rx_clock = 0 -> IF tx = 0 THEN 1 ELSE 0
                   [] Stopping     -> 0
                   [] OTHER        -> rx_clock + 1
  /\ rx_bits' = IF \E k \in 0 .. 7 : rx_clock = SampleClock(k)
                  THEN Append(rx_bits, tx)
                  ELSE IF rx_clock = 0 \/ Stopping THEN <<>> ELSE rx_bits

------------------------------------------------------------------------------
\* Clock edges.  The event wires are quiet once MaxEvents bytes arrived.

Edge(event_valid, event_data) ==
  /\ ~reset
  /\ FifoEdge(event_valid, event_data, tx_ready)
  /\ PhyEdge(out_valid, out_data)
  /\ RxEdge
  /\ received' = IF Stopping THEN Append(received, ByteOfBits(rx_bits))
                             ELSE received
  /\ rx_framing' = (rx_framing \/ (Stopping /\ tx = 0))
  /\ accepted' = IF enqueue(event_valid, tx_ready)
                   THEN Append(accepted, event_data) ELSE accepted
  /\ dropped' = IF event_valid /\ ~enqueue(event_valid, tx_ready)
                  THEN dropped + 1 ELSE dropped
  /\ reset' \in BOOLEAN

QuietEdge == \E data \in Data : Edge(FALSE, data)

EventEdge ==
  /\ Len(accepted) + dropped < MaxEvents
  /\ \E data \in Data : Edge(TRUE, data)

\* What the receiver makes of a frame that reset cuts is discarded.
ResetEdge ==
  /\ reset
  /\ FifoReset
  /\ PhyReset
  /\ RxEdge
  /\ received' = <<>>
  /\ rx_framing' = FALSE
  /\ accepted' = <<>>
  /\ dropped' = 0
  /\ reset' \in BOOLEAN
  /\ ~reset' => rx_clock' = 0

Next == QuietEdge \/ EventEdge \/ ResetEdge

Spec == Init /\ [][Next]_vars

\* The clock never stops while reset is low.  Neither an event nor a reset is
\* ever forced; at most MaxEvents of the edges can carry an event.
FairSpec == Spec /\ WF_vars(QuietEdge /\ ~reset')

------------------------------------------------------------------------------
\* The byte that is on the line and not yet complete at the receiver.
InFlight ==
  IF phy_state = "IDLE" \/ (phy_state = "STOP" /\ rx_clock = 0)
    THEN <<>> ELSE <<latched_data>>

\* Every byte that entered the FIFO since reset is received, on the line or
\* queued, once and in order: nothing is lost or sent twice at the handoff
\* between FIFO and transmitter, and no byte from before a reset survives it.
LineCarriesAccepted ==
  ~reset => accepted = received \o InFlight \o Contents

\* No frame is malformed at the receiver.
NoFramingError == ~rx_framing

\* The sticky overflow output tells exactly whether a byte was lost.
OverflowIffLoss == ~reset => (overflow <=> dropped > 0)

\* Every accepted byte is received in the end, once reset stays released.
EverythingDelivered == <>[](~reset) => []<>(received = accepted)
=============================================================================
