-------------------------- MODULE UartTxFifoQueue ---------------------------
(***************************************************************************)
(* The FIFO of UartTxFifo on a clock, with inputs that change freely, and  *)
(* its refinement of the abstract queue of UartQueue.                      *)
(***************************************************************************)
EXTENDS UartTxFifo, Sequences

VARIABLE wires   \* reset, event_valid, event_data, out_ready

ringVars == <<fifoVars, wires>>

Wires == [reset : BOOLEAN, event_valid : BOOLEAN, event_data : Data,
          out_ready : BOOLEAN]

RingInit ==
  /\ FifoInit
  /\ wires \in Wires

RingClockEdge ==
  /\ ~wires.reset
  /\ FifoEdge(wires.event_valid, wires.event_data, wires.out_ready)
  /\ wires' \in Wires

RingResetEdge ==
  /\ wires.reset
  /\ FifoReset
  /\ wires' \in Wires

RingNext == RingClockEdge \/ RingResetEdge

RingSpec == RingInit /\ [][RingNext]_ringVars

------------------------------------------------------------------------------
\* The pointers of uart_tx_fifo.sv name slots and count is at most DEPTH: the
\* counter never runs past full or below empty.
RingTypeOK == FifoTypeOK /\ wires \in Wires

Queue == INSTANCE UartQueue WITH queue <- Contents

\* The ring buffer is the promised queue: no byte is lost, duplicated or
\* reordered except one that arrives while the FIFO is full and not being
\* read, and overflow is set exactly by such a loss.
ImplementsQueue == Queue!Spec
=============================================================================
