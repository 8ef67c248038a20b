-------------------------- MODULE UartTxFifoProofs --------------------------
(***************************************************************************)
(* Proofs about the event FIFO for every DEPTH and every set of bytes: the *)
(* registers keep their types and agree with each other, and the ring      *)
(* buffer implements the queue of UartQueue.                               *)
(***************************************************************************)
EXTENDS UartTxFifoQueue, SequenceTheorems, TLAPS

\* CountNext, OverflowNext and the two pointers, in the two forms of an edge.
LEMMA EdgeCases ==
  ASSUME NEW ev, NEW d, NEW rdy, FifoEdge(ev, d, rdy)
  PROVE  /\ enqueue(ev, rdy) =>
              /\ storage' = [storage EXCEPT ![write_pointer] = d]
              /\ write_pointer' = advance_pointer(write_pointer)
         /\ ~enqueue(ev, rdy) =>
              /\ storage' = storage
              /\ write_pointer' = write_pointer
         /\ dequeue(rdy) => read_pointer' = advance_pointer(read_pointer)
         /\ ~dequeue(rdy) => read_pointer' = read_pointer
         /\ (enqueue(ev, rdy) /\ ~dequeue(rdy)) => count' = count + 1
         /\ (~enqueue(ev, rdy) /\ dequeue(rdy)) => count' = count - 1
         /\ (enqueue(ev, rdy) <=> dequeue(rdy)) => count' = count
         /\ overflow' = (overflow \/ (ev /\ ~enqueue(ev, rdy)))
BY Zenon DEF FifoEdge, CountNext, OverflowNext

\* The FIFO's power-up values are in range.
LEMMA FifoInitTyped == FifoInit => FifoTypeOK /\ PointersAgree
<1>1. 0 \in Slot /\ 0 \in 0 .. DEPTH
  BY DepthAssumption DEF Slot
<1>2. FifoInit => FifoTypeOK
  BY <1>1, PowerUpIsData, Zenon DEF FifoInit, FifoTypeOK
<1>3. FifoInit => PointersAgree
  BY DepthAssumption DEF FifoInit, PointersAgree
<1> QED BY <1>2, <1>3

\* Reset empties the queue.
LEMMA FifoResetTyped ==
  ASSUME FifoTypeOK, FifoReset
  PROVE  FifoTypeOK' /\ PointersAgree' /\ Contents' = <<>>
<1>1. 0 \in Slot /\ 0 \in 0 .. DEPTH
  BY DepthAssumption DEF Slot
<1>2. storage' \in [Slot -> Data]
  BY DEF FifoReset, FifoTypeOK
<1>3. FifoTypeOK'
  BY <1>1, <1>2, Zenon DEF FifoReset, FifoTypeOK
<1>4. PointersAgree'
  BY DepthAssumption DEF FifoReset, PointersAgree
<1>5. Contents' = <<>>
  BY DEF FifoReset, Contents
<1> QED BY <1>3, <1>4, <1>5

\* An edge keeps every register in its range, whatever the wires carry.
LEMMA FifoEdgeTyped ==
  ASSUME FifoTypeOK, NEW ev, NEW d \in Data, NEW rdy, FifoEdge(ev, d, rdy)
  PROVE  FifoTypeOK'
<1>2. \A p \in Slot : advance_pointer(p) \in Slot
  BY DepthAssumption DEF Slot, advance_pointer
<1>3. storage' \in [Slot -> Data] /\ write_pointer' \in Slot
  BY <1>2, EdgeCases DEF FifoTypeOK
<1>4. read_pointer' \in Slot
  BY <1>2, EdgeCases DEF FifoTypeOK
<1>5. dequeue(rdy) => count # 0
  BY DEF dequeue, out_valid
<1>6. enqueue(ev, rdy) => (count < DEPTH \/ dequeue(rdy))
  BY DEF enqueue
<1>7. count' \in 0 .. DEPTH
  <2>1. count \in 0 .. DEPTH
    BY DEF FifoTypeOK
  <2>2. CASE enqueue(ev, rdy) /\ ~dequeue(rdy)
    <3>1. count' = count + 1
      BY <2>2, EdgeCases
    <3> QED BY <3>1, <2>1, <2>2, <1>6, DepthAssumption
  <2>3. CASE ~enqueue(ev, rdy) /\ dequeue(rdy)
    <3>1. count' = count - 1
      BY <2>3, EdgeCases
    <3> QED BY <3>1, <2>1, <2>3, <1>5, DepthAssumption
  <2>4. CASE enqueue(ev, rdy) <=> dequeue(rdy)
    <3>1. count' = count
      BY <2>4, EdgeCases
    <3> QED BY <3>1, <2>1
  <2> QED BY <2>2, <2>3, <2>4
<1>8. overflow' \in BOOLEAN
  BY EdgeCases
<1> QED BY <1>3, <1>4, <1>7, <1>8 DEF FifoTypeOK

\* The registers are a function of fifoVars.
LEMMA FifoUnchanged ==
  ASSUME UNCHANGED fifoVars
  PROVE  /\ FifoTypeOK' <=> FifoTypeOK
         /\ PointersAgree' <=> PointersAgree
         /\ Contents' = Contents
BY DEF fifoVars, FifoTypeOK, PointersAgree, Contents, SlotOf

\* The step that keeps the pointers and the counter in agreement.
LEMMA PointersStep ==
  ASSUME FifoTypeOK, PointersAgree, NEW ev, NEW d, NEW rdy, FifoEdge(ev, d, rdy)
  PROVE  PointersAgree'
<1>2. dequeue(rdy) => count # 0
  BY DEF dequeue, out_valid
<1>3. enqueue(ev, rdy) => (count < DEPTH \/ dequeue(rdy))
  BY DEF enqueue
<1>4. /\ read_pointer \in 0 .. DEPTH - 1
      /\ write_pointer \in 0 .. DEPTH - 1
      /\ count \in 0 .. DEPTH
      /\ DEPTH \in Nat \ {0}
  BY DepthAssumption DEF FifoTypeOK, Slot
<1>5. CASE enqueue(ev, rdy) /\ ~dequeue(rdy)
  <2>1. /\ count' = count + 1
        /\ write_pointer' = advance_pointer(write_pointer)
        /\ read_pointer' = read_pointer
    BY <1>5, EdgeCases
  <2> QED BY <2>1, <1>3, <1>4, <1>5 DEF PointersAgree, advance_pointer
<1>6. CASE ~enqueue(ev, rdy) /\ dequeue(rdy)
  <2>1. /\ count' = count - 1
        /\ write_pointer' = write_pointer
        /\ read_pointer' = advance_pointer(read_pointer)
    BY <1>6, EdgeCases
  <2> QED BY <2>1, <1>2, <1>4, <1>6 DEF PointersAgree, advance_pointer
<1>7. CASE enqueue(ev, rdy) /\ dequeue(rdy)
  <2>1. /\ count' = count
        /\ write_pointer' = advance_pointer(write_pointer)
        /\ read_pointer' = advance_pointer(read_pointer)
    BY <1>7, EdgeCases
  <2> QED BY <2>1, <1>2, <1>4, <1>7 DEF PointersAgree, advance_pointer
<1>8. CASE ~enqueue(ev, rdy) /\ ~dequeue(rdy)
  <2>1. /\ count' = count
        /\ write_pointer' = write_pointer
        /\ read_pointer' = read_pointer
    BY <1>8, EdgeCases
  <2> QED BY <2>1 DEF PointersAgree
<1> QED BY <1>5, <1>6, <1>7, <1>8

------------------------------------------------------------------------------
(***************************************************************************)
(* The contents.  The occupied slots, read in ring order, are a sequence   *)
(* of count bytes; an edge removes its head, appends the event, or both.   *)
(***************************************************************************)

\* What Contents is: count bytes, the k-th of them in slot SlotOf(k).
ContentsWellFormed ==
  /\ Contents \in Seq(Data)
  /\ Len(Contents) = count
  /\ count \in Nat
  /\ \A k \in 1 .. count : Contents[k] = storage[SlotOf(k)]

\* Every register assignment of the right types describes a sequence.
LEMMA ContentsIsSeq == FifoTypeOK => ContentsWellFormed
<1> SUFFICES ASSUME FifoTypeOK PROVE ContentsWellFormed
  OBVIOUS
<1>1. /\ read_pointer \in 0 .. DEPTH - 1
      /\ count \in 0 .. DEPTH
      /\ DEPTH \in Nat \ {0}
  BY DepthAssumption DEF FifoTypeOK, Slot
<1>2. ASSUME NEW k \in 1 .. count PROVE SlotOf(k) \in Slot
  BY <1>1 DEF SlotOf, Slot
<1>3. \A k \in 1 .. count : storage[SlotOf(k)] \in Data
  BY <1>2 DEF FifoTypeOK
<1>4. Contents \in [1 .. count -> Data]
  BY <1>3 DEF Contents
<1>5. count \in Nat
  BY <1>1
<1>6. Contents \in Seq(Data)
  BY <1>4, <1>5, SeqDef, Zenon
<1>7. Len(Contents) = count
  <2>1. DOMAIN Contents = 1 .. count
    BY DEF Contents
  <2>2. DOMAIN Contents = 1 .. Len(Contents) /\ Len(Contents) \in Nat
    BY <1>6, LenProperties
  <2> QED BY <2>1, <2>2, <1>5
<1> QED BY <1>5, <1>6, <1>7 DEF Contents, ContentsWellFormed

\* The slots behind the contents after an edge.
LEMMA SlotShift ==
  ASSUME FifoTypeOK, PointersAgree
  PROVE  /\ count < DEPTH => write_pointer = SlotOf(count + 1)
         /\ \A k \in 1 .. count : SlotOf(k) = write_pointer =>
                                   count = DEPTH /\ k = 1
         /\ (count = DEPTH) => write_pointer = read_pointer
         /\ read_pointer' = read_pointer =>
              \A k \in Nat \ {0} : SlotOf(k)' = SlotOf(k)
         /\ read_pointer' = advance_pointer(read_pointer) =>
              \A k \in 1 .. DEPTH : k < DEPTH => SlotOf(k)' = SlotOf(k + 1)
         /\ read_pointer' = advance_pointer(read_pointer) =>
              SlotOf(DEPTH)' = read_pointer
<1>1. /\ read_pointer \in 0 .. DEPTH - 1
      /\ count \in 0 .. DEPTH
      /\ DEPTH \in Nat \ {0}
  BY DepthAssumption DEF FifoTypeOK, Slot
<1>2. count < DEPTH => write_pointer = SlotOf(count + 1)
  BY <1>1 DEF PointersAgree, SlotOf
<1>3. \A k \in 1 .. count : SlotOf(k) = write_pointer =>
                             count = DEPTH /\ k = 1
  BY <1>1 DEF PointersAgree, SlotOf
<1>4. (count = DEPTH) => write_pointer = read_pointer
  BY <1>1 DEF PointersAgree
<1>5. read_pointer' = read_pointer =>
        \A k \in Nat \ {0} : SlotOf(k)' = SlotOf(k)
  BY DEF SlotOf
<1>6. read_pointer' = advance_pointer(read_pointer) =>
        \A k \in 1 .. DEPTH : k < DEPTH => SlotOf(k)' = SlotOf(k + 1)
  BY <1>1 DEF SlotOf, advance_pointer
<1>7. read_pointer' = advance_pointer(read_pointer) =>
        SlotOf(DEPTH)' = read_pointer
  BY <1>1 DEF SlotOf, advance_pointer
<1> QED BY <1>2, <1>3, <1>4, <1>5, <1>6, <1>7

\* An edge removes the head of the contents if the consumer takes it and
\* appends the event if there is room.
LEMMA ContentsStep ==
  ASSUME FifoTypeOK, PointersAgree,
         NEW ev, NEW d \in Data, NEW rdy, FifoEdge(ev, d, rdy)
  PROVE  Contents' = (IF dequeue(rdy) THEN Tail(Contents) ELSE Contents)
                       \o (IF enqueue(ev, rdy) THEN <<d>> ELSE <<>>)
<1> DEFINE deq == dequeue(rdy)
           enq == enqueue(ev, rdy)
           out == IF deq THEN 1 ELSE 0
           in  == IF enq THEN 1 ELSE 0
           kept == IF deq THEN Tail(Contents) ELSE Contents
           new  == IF enq THEN <<d>> ELSE <<>>
<1>1. FifoEdge(ev, d, rdy) /\ FifoTypeOK'
  BY FifoEdgeTyped
<1>2. deq => count # 0
  BY DEF dequeue, out_valid
<1>3. enq => (count < DEPTH \/ deq)
  BY DEF enqueue
<1> HIDE DEF deq, enq
<1>4. /\ read_pointer \in 0 .. DEPTH - 1
      /\ count \in 0 .. DEPTH
      /\ DEPTH \in Nat \ {0}
      /\ storage \in [0 .. DEPTH - 1 -> Data]
      /\ write_pointer \in 0 .. DEPTH - 1
  BY DepthAssumption DEF FifoTypeOK, Slot
<1>5. ContentsWellFormed
  BY ContentsIsSeq
<1>6. ContentsWellFormed'
  BY <1>1, ContentsIsSeq, PTL
<1>7. /\ kept \in Seq(Data)
      /\ Len(kept) = count - out
      /\ \A k \in 1 .. count - out : kept[k] = Contents[k + out]
  <2>1. CASE deq
    <3>1. Contents # <<>>
      BY <1>2, <1>5, <2>1, EmptySeq DEF ContentsWellFormed
    <3>2. /\ Tail(Contents) \in Seq(Data)
          /\ Len(Tail(Contents)) = Len(Contents) - 1
          /\ \A i \in 1 .. Len(Tail(Contents)) :
               Tail(Contents)[i] = Contents[i + 1]
      BY <1>5, <3>1, HeadTailProperties DEF ContentsWellFormed
    <3> QED BY <2>1, <3>2, <1>5 DEF ContentsWellFormed
  <2>2. CASE ~deq
    BY <2>2, <1>5 DEF ContentsWellFormed
  <2> QED BY <2>1, <2>2
<1>8. new \in Seq(Data) /\ Len(new) = in /\ (enq => new[1] = d)
  BY <1>1
<1>9. /\ out \in {0, 1} /\ (deq <=> out = 1)
      /\ in \in {0, 1} /\ (enq <=> in = 1)
      /\ count \in Int
  BY <1>4
<1>10. count' = count - out + in
  BY <1>1, <1>4, EdgeCases DEF deq, enq
<1> HIDE DEF kept, new, out, in
<1>11. /\ kept \o new \in Seq(Data)
       /\ Len(kept \o new) = count - out + in
       /\ \A k \in 1 .. count - out + in :
            /\ k <= count - out => (kept \o new)[k] = kept[k]
            /\ k > count - out => (kept \o new)[k] = new[k - (count - out)]
  <2>1. /\ kept \o new \in Seq(Data)
        /\ Len(kept \o new) = Len(kept) + Len(new)
        /\ \A k \in 1 .. Len(kept) + Len(new) :
             (kept \o new)[k] = IF k <= Len(kept)
                                   THEN kept[k] ELSE new[k - Len(kept)]
    BY <1>7, <1>8, ConcatProperties
  <2> QED BY <2>1, <1>7, <1>8, <1>9
<1>12. \A k \in 1 .. count' : storage'[SlotOf(k)'] = (kept \o new)[k]
  <2> SUFFICES ASSUME NEW k \in 1 .. count'
               PROVE  storage'[SlotOf(k)'] = (kept \o new)[k]
    OBVIOUS
  <2>1. k \in 1 .. count - out + in /\ count - out + in \in 0 .. DEPTH
    BY <1>10, <1>2, <1>3, <1>4, <1>9
  <2>2. CASE k <= count - out
    <3>1. (kept \o new)[k] = storage[SlotOf(k + out)]
      BY <1>5, <1>7, <1>9, <1>11, <2>1, <2>2, <1>4
         DEF ContentsWellFormed
    <3>2. SlotOf(k)' = SlotOf(k + out)
      <4>1. CASE deq
        <5>1. read_pointer' = advance_pointer(read_pointer)
          BY <1>1, <4>1, EdgeCases DEF deq
        <5> QED BY <5>1, <4>1, <1>4, <1>9, <2>1, <2>2, SlotShift
      <4>2. CASE ~deq
        <5>1. read_pointer' = read_pointer
          BY <1>1, <4>2, EdgeCases DEF deq
        <5> QED BY <5>1, <4>2, <1>4, <1>9, <2>1, <2>2, SlotShift
      <4> QED BY <4>1, <4>2
    <3>3. storage'[SlotOf(k + out)] = storage[SlotOf(k + out)]
      <4>1. CASE enq
        <5>1. storage' = [storage EXCEPT ![write_pointer] = d]
          BY <1>1, <4>1, EdgeCases DEF enq
        <5>2. k + out \in 1 .. count
          BY <1>4, <1>9, <2>1, <2>2
        <5>3. SlotOf(k + out) # write_pointer
          BY <5>2, <4>1, <1>3, <1>4, <1>9, <2>1, SlotShift
        <5>4. SlotOf(k + out) \in 0 .. DEPTH - 1
          BY <5>2, <1>4 DEF SlotOf
        <5> QED BY <5>1, <5>3, <5>4, <1>4
      <4>2. CASE ~enq
        BY <1>1, <4>2, EdgeCases DEF enq
      <4> QED BY <4>1, <4>2
    <3> QED BY <3>1, <3>2, <3>3
  <2>3. CASE k > count - out
    <3>1. enq /\ k = count - out + 1
      BY <2>1, <2>3, <1>9
    <3>2. (kept \o new)[k] = d
      BY <3>1, <2>1, <1>8, <1>9, <1>11
    <3>3. SlotOf(k)' = write_pointer
      <4>1. CASE deq
        <5>1. read_pointer' = advance_pointer(read_pointer)
          BY <1>1, <4>1, EdgeCases DEF deq
        <5>2. k = count
          BY <3>1, <4>1, <1>9
        <5> QED BY <5>1, <5>2, <1>4, <2>1, SlotShift
      <4>2. CASE ~deq
        <5>1. read_pointer' = read_pointer
          BY <1>1, <4>2, EdgeCases DEF deq
        <5>2. k = count + 1 /\ count < DEPTH
          BY <3>1, <4>2, <1>3, <1>4, <1>9
        <5> QED BY <5>1, <5>2, <1>4, SlotShift
      <4> QED BY <4>1, <4>2
    <3>4. storage' = [storage EXCEPT ![write_pointer] = d]
      BY <1>1, <3>1, EdgeCases DEF enq
    <3> QED BY <3>2, <3>3, <3>4, <1>4
  <2>4. k <= count - out \/ k > count - out
    BY <2>1, <1>9
  <2> QED BY <2>2, <2>3, <2>4
<1>13. Contents' = kept \o new
  <2>1. /\ Contents' \in Seq(Data)
        /\ Len(Contents') = count'
        /\ \A k \in 1 .. count' : Contents'[k] = storage'[SlotOf(k)']
    BY <1>6 DEF ContentsWellFormed
  <2>2. \A k \in 1 .. Len(Contents') : Contents'[k] = (kept \o new)[k]
    BY <2>1, <1>12
  <2> QED BY <2>1, <2>2, <1>11, <1>10, SeqEqual
<1> QED BY <1>13 DEF deq, enq, kept, new

\* A sequence is its head and its tail.
LEMMA HeadThenTail ==
  ASSUME NEW S, NEW s \in Seq(S), s # <<>>
  PROVE  <<s[1]>> \o Tail(s) = s
<1>1. Len(s) \in Nat \ {0}
  BY EmptySeq
<1>2. 1 \in 1 .. Len(s) /\ Len(s) \in 1 .. Len(s)
  BY <1>1, SMT
<1>3. SubSeq(s, 1, Len(s)) = <<s[1]>> \o SubSeq(s, 1 + 1, Len(s))
  BY <1>2, SubSeqRecursiveFirst
<1>4. SubSeq(s, 1, Len(s)) = s
  BY SubSeqFull
<1>5. Tail(s) = SubSeq(s, 2, Len(s)) /\ 1 + 1 = 2
  BY TailIsSubSeq
<1> QED BY <1>3, <1>4, <1>5, Zenon

\* When the consumer takes the head, it moves from the queue to the line.
LEMMA TakeHead ==
  ASSUME NEW S, NEW done \in Seq(S), NEW queue \in Seq(S), queue # <<>>
  PROVE  done \o <<queue[1]>> \o Tail(queue) = done \o <<>> \o queue
<1>1. Tail(queue) \in Seq(S) /\ queue[1] \in S
  <2>1. Len(queue) \in Nat \ {0}
    BY EmptySeq
  <2>2. 1 \in 1 .. Len(queue)
    BY <2>1, SMT
  <2> QED BY <2>2, ElementOfSeq, HeadTailProperties
<1>2. <<queue[1]>> \in Seq(S)
  BY <1>1, SMT
<1>3. (done \o <<queue[1]>>) \o Tail(queue) = done \o (<<queue[1]>> \o Tail(queue))
  <2> DEFINE head == <<queue[1]>>
             tail == Tail(queue)
  <2>1. (done \o head) \o tail = done \o (head \o tail)
    <3>1. head \in Seq(S) /\ tail \in Seq(S)
      BY <1>1, <1>2
    <3> HIDE DEF head, tail
    <3> QED BY <3>1, ConcatAssociative
  <2> QED BY <2>1
<1>4. done \o <<>> = done
  BY ConcatEmptySeq
<1> QED BY <1>3, <1>4, HeadThenTail, Zenon

------------------------------------------------------------------------------
\* Each register of uart_tx_fifo.sv stays in its range: the pointers wrap at
\* DEPTH and count never leaves 0 .. DEPTH, although it has room for more.
THEOREM RingTypeCorrect == RingSpec => []RingTypeOK
<1>1. RingInit => RingTypeOK
  BY FifoInitTyped DEF RingInit, RingTypeOK
<1>2. RingTypeOK /\ [RingNext]_ringVars => RingTypeOK'
  <2> SUFFICES ASSUME RingTypeOK, [RingNext]_ringVars PROVE RingTypeOK'
    OBVIOUS
  <2>1. CASE RingClockEdge
    <3>1. wires.event_data \in Data
      BY DEF RingTypeOK, Wires
    <3> QED BY <2>1, <3>1, FifoEdgeTyped, Zenon DEF RingClockEdge, RingTypeOK
  <2>2. CASE RingResetEdge
    BY <2>2, FifoResetTyped DEF RingResetEdge, RingTypeOK
  <2>3. CASE UNCHANGED ringVars
    BY <2>3, FifoUnchanged DEF ringVars, RingTypeOK
  <2> QED BY <2>1, <2>2, <2>3 DEF RingNext
<1> QED BY <1>1, <1>2, PTL DEF RingSpec

\* Whatever the inputs do, the three registers that describe the occupied
\* part of the ring never disagree.
THEOREM PointersCorrect == RingSpec => []PointersAgree
<1>1. RingInit => PointersAgree
  BY FifoInitTyped DEF RingInit
<1>2. RingTypeOK /\ PointersAgree /\ [RingNext]_ringVars => PointersAgree'
  <2> SUFFICES ASSUME RingTypeOK, PointersAgree, [RingNext]_ringVars
               PROVE  PointersAgree'
    OBVIOUS
  <2>1. CASE RingClockEdge
    BY <2>1, PointersStep, Zenon DEF RingClockEdge, RingTypeOK
  <2>2. CASE RingResetEdge
    BY <2>2, FifoResetTyped DEF RingResetEdge, RingTypeOK
  <2>3. CASE UNCHANGED ringVars
    BY <2>3, FifoUnchanged DEF ringVars
  <2> QED BY <2>1, <2>2, <2>3 DEF RingNext
<1> QED BY <1>1, <1>2, RingTypeCorrect, PTL DEF RingSpec

------------------------------------------------------------------------------
\* The refinement.

\* The abstract queue's decisions are the FIFO's.
LEMMA SameDecisions ==
  ASSUME FifoTypeOK
  PROVE  /\ Queue!Taken <=> dequeue(wires.out_ready)
         /\ Queue!Accepted <=> enqueue(wires.event_valid, wires.out_ready)
<1>1. ContentsWellFormed
  BY ContentsIsSeq
<1>2. Contents # <<>> <=> count # 0
  <2>1. Contents # <<>> => Len(Contents) \in Nat \ {0}
    BY <1>1, EmptySeq DEF ContentsWellFormed
  <2>2. Contents = <<>> => Len(Contents) = 0
    BY EmptySeq
  <2> QED BY <1>1, <2>1, <2>2 DEF ContentsWellFormed
<1>3. Queue!Taken <=> dequeue(wires.out_ready)
  BY <1>2, Zenon DEF Queue!Taken, dequeue, out_valid
<1>4. Len(Contents) = count
  BY <1>1 DEF ContentsWellFormed
<1> QED BY <1>3, <1>4, Zenon DEF Queue!Accepted, enqueue

\* uart_tx_fifo.sv implements the bounded queue for every depth and every
\* data type: order is kept, a byte is dropped only when the FIFO is full and
\* not read at that edge, and overflow records every drop until reset.
THEOREM FifoRefinesQueue == RingSpec => ImplementsQueue
<1>1. RingInit => Queue!Init
  <2> SUFFICES ASSUME RingInit PROVE Queue!Init
    OBVIOUS
  <2>1. Contents = <<>>
    BY DEF RingInit, FifoInit, Contents
  <2> QED BY <2>1, Zenon DEF RingInit, FifoInit, Wires, Queue!Init, Queue!Wires
<1>2. RingTypeOK /\ PointersAgree /\ [RingNext]_ringVars
        => [Queue!Next]_Queue!vars
  <2> SUFFICES ASSUME RingTypeOK, PointersAgree, [RingNext]_ringVars
               PROVE  [Queue!Next]_Queue!vars
    OBVIOUS
  <2>1. CASE RingClockEdge
    <3>1. ~wires.reset /\ wires' \in Queue!Wires
      BY <2>1 DEF RingClockEdge, Wires, Queue!Wires
    <3>2. Contents' = (IF Queue!Taken THEN Tail(Contents) ELSE Contents)
                        \o (IF Queue!Accepted THEN <<wires.event_data>>
                                              ELSE <<>>)
      <4>1. FifoTypeOK /\ wires.event_data \in Data
        BY DEF RingTypeOK, Wires
      <4> QED BY <2>1, <4>1, ContentsStep, SameDecisions,
           Zenon DEF RingClockEdge
    <3>3. overflow' = (overflow
                         \/ (wires.event_valid
                              /\ ~enqueue(wires.event_valid,
                                          wires.out_ready)))
      BY <2>1, EdgeCases DEF RingClockEdge
    <3>4. overflow' = (overflow \/ (wires.event_valid /\ ~Queue!Accepted))
      BY <3>3, SameDecisions, Zenon DEF RingTypeOK
    <3> QED BY <3>1, <3>2, <3>4, Zenon DEF Queue!Next, Queue!Transfer
  <2>2. CASE RingResetEdge
    <3>1. Contents' = <<>>
      BY <2>2 DEF RingResetEdge, FifoReset, Contents
    <3> QED BY <2>2, <3>1, Zenon DEF RingResetEdge, FifoReset, Wires,
                                     Queue!Next, Queue!Clear, Queue!Wires
  <2>3. CASE UNCHANGED ringVars
    <3>1. Contents' = Contents
      BY <2>3 DEF ringVars, fifoVars, Contents, SlotOf
    <3> QED BY <2>3, <3>1 DEF ringVars, fifoVars, Queue!vars
  <2> QED BY <2>1, <2>2, <2>3 DEF RingNext
<1> QED BY <1>1, <1>2, RingTypeCorrect, PointersCorrect, PTL
        DEF RingSpec, ImplementsQueue, Queue!Spec
=============================================================================
