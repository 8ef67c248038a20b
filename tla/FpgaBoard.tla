----------------------------- MODULE FpgaBoard ------------------------------
(***************************************************************************)
(* fpga/tang_nano_20k/src/tang_nano_20k_top.sv around                      *)
(* rtl/top/mini32_fpga_platform.sv: the button, the reset synchroniser,    *)
(* the whole machine, the UART FIFO and the transmitter, and the LEDs.  S1 *)
(* is pressed and released between any two edges, at most MaxPresses times *)
(* (what happens at an edge is ResetDomains' subject).                     *)
(***************************************************************************)
EXTENDS Mini32System, UartTxFifo, UartTxPhy, ResetSync

CONSTANTS MaxPresses,
          Message,    \* for each image, the bytes that are to reach the line
          FinalLeds   \* for each image, the LEDs that are on at the end

\* event_data is the byte that uart_mmio.sv puts out.
ASSUME DataIsByte == Data = 0 .. 255

VARIABLES
  presses,
  line        \* the bytes that left the transmitter whole since reset

boardVars == <<vars, fifoVars, phyVars, syncVars, presses, line>>

BoardInit ==
  /\ CpuInit
  /\ BusInit
  /\ uart_log = <<>>
  /\ FifoInit
  /\ PhyInit
  /\ SyncInit
  /\ reset = (release_sync[2] = "0")
  /\ presses = 0
  /\ line = <<>>

\* The button: release_sync is cleared, and reset rises, at once.
PressS1 ==
  /\ presses < MaxPresses
  /\ AssertReset
  /\ reset' = TRUE
  /\ presses' = presses + 1
  /\ UNCHANGED <<cpuVars, busVars, uart_log, fifoVars, phyVars, line>>

ReleaseS1 ==
  ReleaseReset /\ UNCHANGED <<vars, fifoVars, phyVars, presses, line>>

\* The stop bit ends at this edge.
FrameEnds == phy_state = "STOP" /\ baud_count = CLKS_PER_BIT - 1

\* The clock, for all parts of the platform.
ClockEdge ==
  /\ SyncEdge
  /\ reset' = (release_sync'[2] = "0")
  /\ \/ /\ RunEdge
        /\ FifoEdge(uart_tx_valid, uart_tx_data, tx_ready)
        /\ PhyEdge(out_valid, out_data)
        /\ line' = IF FrameEnds THEN Append(line, latched_data) ELSE line
     \/ /\ ResetEdge
        /\ FifoReset
        /\ PhyReset
        /\ line' = <<>>
  /\ UNCHANGED presses

BoardNext == PressS1 \/ ReleaseS1 \/ ClockEdge

\* The oscillator runs, and S1 is not held for ever.
BoardSpec ==
  /\ BoardInit
  /\ [][BoardNext]_boardVars
  /\ WF_boardVars(ClockEdge)
  /\ WF_boardVars(ReleaseS1)

------------------------------------------------------------------------------
\* The LEDs that are on (the pins are active low).

GpioLed(k) ==
  Bit(gpio_direction.lo, Pow2(k)) = 1 /\ Bit(gpio_output.lo, Pow2(k)) = 1

halted  == cpu_state = "HALTED"
faulted == cpu_state = "FAULT"

\* Mutant: LED5 shows faults only.
led_on_NoOverflow ==
  {k \in 0 .. 3 : GpioLed(k)}
    \cup (IF halted THEN {4} ELSE {}) \cup (IF faulted THEN {5} ELSE {})

led_on ==
  {k \in 0 .. 3 : GpioLed(k)}
    \cup (IF halted THEN {4} ELSE {})
    \cup (IF faulted \/ overflow THEN {5} ELSE {})

------------------------------------------------------------------------------
\* The bytes still on their way out, oldest first.
Transmitting == IF phy_state = "IDLE" THEN <<>> ELSE <<latched_data>>

\* LED5 is to be "a real fault/overflow indication" (BRINGUP.md 161): while
\* it is off, every byte the program has sent since the last reset is on the
\* line, in the transmitter or in the FIFO, in order.  The synchroniser has
\* reset processor, FIFO and transmitter together.
DarkLed5MeansNoLoss ==
  ~reset /\ 5 \notin led_on => uart_log = line \o Transmitting \o Contents

\* "Pressing and releasing S1 must cause the same UART message and final LED
\* state again" (BRINGUP.md 142-143), after any press at any moment of an
\* earlier run: at the end the line has carried the message once, whole, and
\* the LEDs stay as documented.
MessageAgain ==
  <>[](~reset /\ line = Message[image] /\ led_on = FinalLeds[image])
=============================================================================
