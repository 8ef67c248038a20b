--------------------------- MODULE BringupCapture ---------------------------
(***************************************************************************)
(* fpga/tang_nano_20k/tools/capture_bringup.py, the board at the other end *)
(* of the serial line and the operator between them.  The board sends      *)
(* EXPECTED once after every reset; each byte carries the number of the    *)
(* execution it comes from, which the program does not see.                *)
(***************************************************************************)
EXTENDS Integers, Sequences, SequencesExt

CONSTANTS EXPECTED,   \* the message, shortened
          MaxRuns     \* bound: executions of the guest, the first included

VARIABLES
  step,        \* "opening", "clearing", "prompting", "reading" or "exited"
  no_prompt, exit_code,
  buffer,      \* the driver's input buffer while the port is open
  captured,
  run, sent,   \* the board's execution and the bytes it has sent
  held,        \* S1 is held
  asked        \* the execution that ran when the prompt appeared

boardVars == <<run, sent, held>>
vars == <<step, no_prompt, exit_code, buffer, captured, boardVars, asked>>

\* An earlier execution may have sent any part of its message.
Init ==
  /\ step = "opening"
  /\ no_prompt \in BOOLEAN
  /\ exit_code = -1
  /\ buffer = <<>>
  /\ captured = <<>>
  /\ run = 0
  /\ sent \in 0 .. Len(EXPECTED)
  /\ held = FALSE
  /\ asked = 0

------------------------------------------------------------------------------
\* The board.  A byte that arrives at a closed port is lost.

Listening == step \in {"clearing", "prompting", "reading"}

Send ==
  /\ ~held
  /\ sent < Len(EXPECTED)
  /\ sent' = sent + 1
  /\ buffer' = IF Listening
                 THEN Append(buffer, [byte |-> EXPECTED[sent + 1], run |-> run])
                 ELSE buffer
  /\ UNCHANGED <<step, no_prompt, exit_code, captured, run, held, asked>>

\* A reset cuts the message off, before, during or after the prompt.  In the
\* middle of a frame it leaves the line idle, that is high: the receiver gets
\* a byte with bit 7 set, which no byte of the message has.
Press ==
  /\ ~held
  /\ run + 1 < MaxRuns
  /\ held' = TRUE
  /\ \/ UNCHANGED buffer
     \/ /\ sent < Len(EXPECTED)
        /\ Listening
        /\ buffer' = Append(buffer, [byte |-> "garbled", run |-> run])
  /\ UNCHANGED <<step, no_prompt, exit_code, captured, run, sent, asked>>

Release ==
  /\ held
  /\ held' = FALSE
  /\ run' = run + 1
  /\ sent' = 0
  /\ UNCHANGED <<step, no_prompt, exit_code, buffer, captured, asked>>

------------------------------------------------------------------------------
\* main.

\* serial.Serial(...) fails when another program owns the port.
Open ==
  /\ step = "opening"
  /\ \/ step' = "clearing" /\ UNCHANGED exit_code
     \/ step' = "exited" /\ exit_code' = 2
  /\ UNCHANGED <<no_prompt, buffer, captured, boardVars, asked>>

\* reset_input_buffer, then the prompt.
Clear ==
  /\ step = "clearing"
  /\ buffer' = <<>>
  /\ step' = IF no_prompt THEN "reading" ELSE "prompting"
  /\ asked' = run
  /\ UNCHANGED <<no_prompt, exit_code, captured, boardVars>>

\* The operator presses and releases S1, as asked, and then Enter.
Enter ==
  /\ step = "prompting"
  /\ run > asked
  /\ ~held
  /\ step' = "reading"
  /\ UNCHANGED <<no_prompt, exit_code, buffer, captured, boardVars, asked>>

Cancel ==
  /\ step = "prompting"
  /\ step' = "exited"
  /\ exit_code' = 2
  /\ UNCHANGED <<no_prompt, buffer, captured, boardVars, asked>>

\* connection.read: some of what has arrived, at most what is missing.
Read ==
  /\ step = "reading"
  /\ Len(captured) < Len(EXPECTED)
  /\ \E n \in 1 .. Len(buffer) :
       /\ n <= Len(EXPECTED) - Len(captured)
       /\ captured' = captured \o SubSeq(buffer, 1, n)
       /\ buffer' = SubSeq(buffer, n + 1, Len(buffer))
  /\ UNCHANGED <<step, no_prompt, exit_code, boardVars, asked>>

Bytes(taken) == [k \in DOMAIN taken |-> taken[k].byte]

Matches == Bytes(captured) = EXPECTED

\* The loop ends: everything has arrived, or the deadline has passed.
Judge ==
  /\ step = "reading"
  /\ step' = "exited"
  /\ exit_code' = IF Matches THEN 0 ELSE 1
  /\ UNCHANGED <<no_prompt, buffer, captured, boardVars, asked>>

\* The port disappears: a SerialException.
PortFails ==
  /\ step \in {"clearing", "reading"}
  /\ step' = "exited"
  /\ exit_code' = 2
  /\ UNCHANGED <<no_prompt, buffer, captured, boardVars, asked>>

Next == Send \/ Press \/ Release \/ Open \/ Clear \/ Enter \/ Cancel
          \/ Read \/ Judge \/ PortFails

Spec == Init /\ [][Next]_vars

------------------------------------------------------------------------------
\* capture_bringup.py 69-70: "Discard bytes from an earlier run. The reset
\* prompt below ensures that retained bytes belong to the fresh guest
\* execution."
RetainedBytesAreFresh ==
  ~no_prompt /\ step \in {"reading", "exited"} =>
    \A i \in DOMAIN captured : captured[i].run > asked
=============================================================================
