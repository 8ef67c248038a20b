-------------------------------- MODULE Mmio --------------------------------
(***************************************************************************)
(* The remaining memory-mapped devices of the RTL: uart_mmio.sv,           *)
(* gpio_mmio.sv and debug_mmio.sv.  Each is one synchronous block with a   *)
(* registered read port.                                                   *)
(***************************************************************************)
EXTENDS Mini32Pkg

VARIABLES
  uart_tx_valid, uart_tx_data, uart_read_data,
  gpio_output, gpio_direction, gpio_read_data,
  debug_value, debug_read_data

mmioVars == <<uart_tx_valid, uart_tx_data, uart_read_data, gpio_output,
              gpio_direction, gpio_read_data, debug_value, debug_read_data>>

\* Every register of the three device blocks keeps its width.
MmioTypeOK ==
  /\ uart_tx_valid \in BOOLEAN
  /\ uart_tx_data \in Byte
  /\ uart_read_data \in Word
  /\ gpio_output \in Word
  /\ gpio_direction \in Word
  /\ gpio_read_data \in Word
  /\ debug_value \in Word
  /\ debug_read_data \in Word

MmioInit ==
  /\ uart_tx_valid = FALSE
  /\ uart_tx_data = 0
  /\ uart_read_data = Zero
  /\ gpio_output = Zero
  /\ gpio_direction = Zero
  /\ gpio_read_data = Zero
  /\ debug_value = Zero
  /\ debug_read_data = Zero

UartReset ==
  /\ uart_tx_valid' = FALSE
  /\ uart_tx_data' = 0
  /\ uart_read_data' = Zero

GpioReset ==
  /\ gpio_output' = Zero
  /\ gpio_direction' = Zero
  /\ gpio_read_data' = Zero

DebugReset ==
  /\ debug_value' = Zero
  /\ debug_read_data' = Zero

\* tx_valid is a pulse of one cycle per write to DATA.
UartEdge(read, write, offset, wdata) ==
  /\ uart_read_data' = IF read THEN (IF offset = 4 THEN One ELSE Zero)
                               ELSE uart_read_data
  /\ uart_tx_valid' = (write /\ offset = 0)
  /\ uart_tx_data' = IF write /\ offset = 0 THEN LowByte(wdata)
                                            ELSE uart_tx_data

GpioRegister(offset, gpio_input) ==
  CASE offset = 0 -> gpio_input
    [] offset = 4 -> gpio_output
    [] offset = 8 -> gpio_direction
    [] OTHER      -> Zero

GpioOutputNext(write, offset, wdata) ==
  IF write /\ offset = 4 THEN wdata ELSE gpio_output

GpioDirectionNext(write, offset, wdata) ==
  IF write /\ offset = 8 THEN wdata ELSE gpio_direction

GpioEdge(read, write, offset, wdata, gpio_input) ==
  /\ gpio_read_data' = IF read THEN GpioRegister(offset, gpio_input)
                               ELSE gpio_read_data
  /\ gpio_output' = GpioOutputNext(write, offset, wdata)
  /\ gpio_direction' = GpioDirectionNext(write, offset, wdata)

DebugValueNext(write, offset, wdata) ==
  IF write /\ offset = 0 THEN wdata ELSE debug_value

DebugEdge(read, write, offset, wdata) ==
  /\ debug_read_data' = IF read
                          THEN (IF offset = 0 THEN debug_value ELSE Zero)
                          ELSE debug_read_data
  /\ debug_value' = DebugValueNext(write, offset, wdata)
=============================================================================
