----------------------------- MODULE UartQueue ------------------------------
(***************************************************************************)
(* What the event FIFO promises: a queue of at most DEPTH bytes that keeps *)
(* their order, loses a byte only when it is full and nothing leaves it at *)
(* that edge, and records every loss until the next reset.                 *)
(*                                                                         *)
(* wires holds the input wires that the coming clock edge samples.         *)
(***************************************************************************)
EXTENDS Integers, Sequences

CONSTANTS DEPTH, Data

VARIABLES wires, queue, overflow

vars == <<wires, queue, overflow>>

Wires == [reset : BOOLEAN, event_valid : BOOLEAN, event_data : Data,
          out_ready : BOOLEAN]

Init ==
  /\ wires \in Wires
  /\ queue = <<>>
  /\ overflow = FALSE

Taken    == wires.out_ready /\ queue # <<>>
Accepted == wires.event_valid /\ (Len(queue) < DEPTH \/ Taken)

Transfer ==
  /\ ~wires.reset
  /\ queue' = (IF Taken THEN Tail(queue) ELSE queue)
                \o (IF Accepted THEN <<wires.event_data>> ELSE <<>>)
  /\ overflow' = (overflow \/ (wires.event_valid /\ ~Accepted))
  /\ wires' \in Wires

Clear ==
  /\ wires.reset
  /\ queue' = <<>>
  /\ overflow' = FALSE
  /\ wires' \in Wires

Next == Transfer \/ Clear

Spec == Init /\ [][Next]_vars
=============================================================================
