----------------------------- MODULE UartTxFifo -----------------------------
(***************************************************************************)
(* rtl/platform/uart_tx_fifo.sv: the ring buffer between the UART register *)
(* block, which cannot wait, and the serial transmitter.                   *)
(***************************************************************************)
EXTENDS Integers

CONSTANTS DEPTH, Data,
          PowerUpData   \* what the slots may hold before they are written

ASSUME DepthAssumption == DEPTH \in Nat \ {0}

ASSUME PowerUpIsData == PowerUpData \subseteq Data

VARIABLES storage, write_pointer, read_pointer, count, overflow

fifoVars == <<storage, write_pointer, read_pointer, count, overflow>>

Slot == 0 .. DEPTH - 1

\* The pointers name slots and count is at most DEPTH.
FifoTypeOK ==
  /\ storage \in [Slot -> Data]
  /\ write_pointer \in Slot
  /\ read_pointer \in Slot
  /\ count \in 0 .. DEPTH
  /\ overflow \in BOOLEAN

\* The storage has no reset: it powers up with anything.
FifoInit ==
  /\ storage \in [Slot -> PowerUpData]
  /\ write_pointer = 0
  /\ read_pointer = 0
  /\ count = 0
  /\ overflow = FALSE

\* Mutant: the pointer does not wrap at DEPTH.
advance_pointer_NoWrap(pointer) == pointer + 1

advance_pointer(pointer) == IF pointer = DEPTH - 1 THEN 0 ELSE pointer + 1

out_valid == count # 0
out_data  == storage[read_pointer]

\* Mutant: the consumer's readiness is ignored.
dequeue_Unready(out_ready) == out_valid

dequeue(out_ready) == out_valid /\ out_ready

\* Mutant: a slot that is being freed does not count as free.
enqueue_NoBypass(event_valid, out_ready) == event_valid /\ count < DEPTH

\* A simultaneous dequeue frees a slot of a full FIFO.
enqueue(event_valid, out_ready) ==
  event_valid /\ (count < DEPTH \/ dequeue(out_ready))

FifoReset ==
  /\ write_pointer' = 0
  /\ read_pointer' = 0
  /\ count' = 0
  /\ overflow' = FALSE
  /\ UNCHANGED storage

\* Mutant: an enqueue hides a simultaneous dequeue.
CountNext_EnqueueWins(enq, deq) ==
  CASE enq         -> count + 1
    [] ~enq /\ deq -> count - 1
    [] OTHER       -> count

CountNext(enq, deq) ==
  CASE enq /\ ~deq -> count + 1
    [] ~enq /\ deq -> count - 1
    [] OTHER       -> count

\* Mutant: overflow is a pulse, not sticky.
OverflowNext_Pulse(event_valid, enq) == event_valid /\ ~enq

OverflowNext(event_valid, enq) == overflow \/ (event_valid /\ ~enq)

FifoEdge(event_valid, event_data, out_ready) ==
  LET enq == enqueue(event_valid, out_ready)
      deq == dequeue(out_ready)
  IN  /\ storage' = IF enq
                      THEN [storage EXCEPT ![write_pointer] = event_data]
                      ELSE storage
      /\ write_pointer' = IF enq THEN advance_pointer(write_pointer)
                                 ELSE write_pointer
      /\ read_pointer' = IF deq THEN advance_pointer(read_pointer)
                                ELSE read_pointer
      /\ count' = CountNext(enq, deq)
      /\ overflow' = OverflowNext(event_valid, enq)

------------------------------------------------------------------------------
\* The write pointer is count slots ahead of the read pointer, around the
\* ring: the two pointers and the counter, three registers updated apart in
\* uart_tx_fifo.sv, never disagree about which slots are occupied.
PointersAgree ==
  write_pointer = IF read_pointer + count < DEPTH
                    THEN read_pointer + count
                    ELSE read_pointer + count - DEPTH

\* The slot that holds the k-th byte of the queue (k counts from 1).
SlotOf(k) == IF read_pointer + k - 1 < DEPTH THEN read_pointer + k - 1
                                             ELSE read_pointer + k - 1 - DEPTH

\* The queued bytes, oldest first.
Contents == [k \in 1 .. count |-> storage[SlotOf(k)]]
=============================================================================
