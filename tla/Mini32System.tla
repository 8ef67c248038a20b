---------------------------- MODULE Mini32System ----------------------------
(***************************************************************************)
(* rtl/top/mini32_system.sv: the core and the bus on one clock.  A step is *)
(* one rising edge, at which every register of the design samples the      *)
(* values the wires had before it.  The environment chooses reset and the  *)
(* GPIO pins anew for every edge.                                          *)
(*                                                                         *)
(* The system is compared with the C++ golden model (module GoldenModel)   *)
(* through the refinement mapping at the end of this module.               *)
(***************************************************************************)
EXTENDS CpuCore, SystemBus

CONSTANT GpioInputs    \* the values the GPIO pins may show

ASSUME GpioInputsAreWords == GpioInputs \subseteq Word

VARIABLES
  reset,
  uart_log     \* the bytes the consumer of uart_tx_valid took since reset

vars == <<cpuVars, busVars, reset, uart_log>>

\* Every register of the design holds a value of its declared width or
\* enumeration; in particular no half-word or byte lane overflows.
TypeOK ==
  /\ CpuTypeOK
  /\ BusTypeOK
  /\ reset \in BOOLEAN
  /\ uart_log \in Seq(Byte)

\* The system is observed from the first edge that sampled reset on.
Init ==
  /\ CpuInit
  /\ BusInit
  /\ reset = TRUE
  /\ uart_log = <<>>

CpuRequest == RequestOf(bus_access, bus_addr, bus_wdata)

\* retire_valid is the bus's retire_tick.
RunEdge ==
  /\ ~reset
  /\ CpuEdge(response_ready, response_rdata, response_fault)
  /\ \E gpio_input \in GpioInputs :
       BusEdge(bus_valid, CpuRequest, retire.valid, gpio_input)
  /\ uart_log' = IF uart_tx_valid THEN Append(uart_log, uart_tx_data)
                                  ELSE uart_log
  /\ reset' \in BOOLEAN

ResetEdge ==
  /\ reset
  /\ CpuReset
  /\ BusReset
  /\ uart_log' = <<>>
  /\ reset' \in BOOLEAN

Next == RunEdge \/ ResetEdge

Spec == Init /\ [][Next]_vars

\* The clock never stops while reset is low.  An edge that leaves every
\* register alone is a stuttering step, so the condition is on the edges that
\* keep reset low: nothing forces reset upon a machine that makes no progress.
FairSpec == Spec /\ WF_vars(RunEdge /\ ~reset')

------------------------------------------------------------------------------
\* Safety.

\* While the bus works on a request the core still asserts exactly that
\* request: the response it gets is the answer to what it asks
\* (cpu_core.sv holds state and latches until bus_ready; system_bus.sv
\* recaptures nothing before IDLE).
PendingIsCurrentRequest ==
  bus_state # "IDLE" => bus_valid /\ pending = CpuRequest

\* A retirement, and so a timer tick, never shares an edge with a device
\* access: a load of the timer sees every tick of the earlier instructions,
\* a store to it is not mixed with one (timer_mmio.sv's tick-and-write cases
\* are never needed).
NoTickDuringAccess ==
  retire.valid => bus_state = "IDLE"

\* A load or fetch returns the contents that the addressed cell has when the
\* core takes the response, although it was read one edge earlier into a
\* register that the device shares between transactions.
ResponseIsCurrent ==
  response_ready /\ pending_fault = "NONE" =>
    /\ pending_region = "ROM" => response_rdata = RomWord(word_address)
    /\ pending_region = "RAM" /\ pending.access = "READ" =>
         response_rdata = ram[word_address]
    /\ pending_region = "TIMER" /\ pending.access = "READ" =>
         response_rdata = TimerRegister(register_offset)
    /\ pending_region = "DEBUG" /\ pending.access = "READ" =>
         response_rdata = IF register_offset = 0 THEN debug_value ELSE Zero

\* A stopped core stays stopped and silent until reset: no request, no
\* effect on memory or devices other than the tick of a HALT that has just
\* retired (cpu_core.sv 295-301).
StoppedIsQuiet ==
  [][(cpu_state \in {"HALTED", "FAULT"} /\ ~reset) =>
       (/\ UNCHANGED <<cpu_state, pc, registers, fault, ram, bus_state,
                       timer_compare, timer_enabled, gpio_output,
                       gpio_direction, debug_value>>
        /\ ~uart_tx_valid'
        /\ (timer_counter' # timer_counter) => retire.valid)]_vars

------------------------------------------------------------------------------
\* Liveness: once reset is released for good, the machine never hangs: it
\* keeps retiring instructions or stops in HALTED or FAULT.  Only the clock
\* is assumed fair.
NeverHangs ==
  <>[](~reset) =>
    []<>(retire.valid \/ cpu_state \in {"HALTED", "FAULT"})

------------------------------------------------------------------------------
(***************************************************************************)
(* Refinement of the golden model.  An instruction takes effect at the     *)
(* edge that retires it, except a store that does not fault: nothing can   *)
(* stop it once the bus has captured it (ram.sv ignores reset), so it      *)
(* takes effect when it is captured.  The mapped devices are therefore the *)
(* ones after the pending write and the pending tick.                      *)
(***************************************************************************)
StoreCommitted ==
  /\ bus_state # "IDLE"
  /\ pending.access = "WRITE"
  /\ pending_fault = "NONE"

AbsPc == IF StoreCommitted THEN next_pc_latch ELSE pc

AbsRegisters == [r \in Register |-> RegisterData(r)]

AbsStatus == IF cpu_state \in {"HALTED", "FAULT"} THEN cpu_state
                                                  ELSE "RUNNING"

\* The known divergence: for a fetch from the planned STM32 window the RTL
\* reports a non-executable, the golden model an unmapped fetch.
AbsFaultInfo ==
  [code |-> IF /\ fault.code = "NON_EXECUTABLE_INSTRUCTION_FETCH"
               /\ InWindow(fault.pc, STM32_BASE, STM32_LAST)
              THEN "UNMAPPED_INSTRUCTION_FETCH" ELSE fault.code,
   pc |-> fault.pc, instruction |-> fault.instruction,
   has_address |-> fault.address_valid, data_address |-> fault.address]

AbsRam ==
  [k \in 0 .. 4 * RAM_WORD_COUNT - 1 |->
     LET word == RamNext[k \div 4]
         half == IF k % 4 < 2 THEN word.lo ELSE word.hi
     IN  IF k % 2 = 0 THEN half % 256 ELSE half \div 256]

AbsTimer ==
  LET write == write_enable("TIMER")
  IN  [counter |-> TimerCounterNext(retire.valid \/ StoreCommitted, write,
                                    register_offset, pending.wdata),
       compare |-> TimerCompareNext(write, register_offset, pending.wdata),
       enabled |-> TimerEnabledNext(write, register_offset, pending.wdata)]

AbsGpio ==
  LET write == write_enable("GPIO")
  IN  [output    |-> GpioOutputNext(write, register_offset, pending.wdata),
       direction |-> GpioDirectionNext(write, register_offset,
                                       pending.wdata)]

AbsDebugValue ==
  DebugValueNext(write_enable("DEBUG"), register_offset, pending.wdata)

AbsUartLog ==
  uart_log
    \o (IF uart_tx_valid THEN <<uart_tx_data>> ELSE <<>>)
    \o (IF write_enable("UART") /\ register_offset = 0
          THEN <<LowByte(pending.wdata)>> ELSE <<>>)

Golden == INSTANCE GoldenModel
            WITH pc          <- AbsPc,
                 registers   <- AbsRegisters,
                 status      <- AbsStatus,
                 fault_info  <- AbsFaultInfo,
                 ram         <- AbsRam,
                 timer       <- AbsTimer,
                 gpio        <- AbsGpio,
                 debug_value <- AbsDebugValue,
                 uart_log    <- AbsUartLog

\* Every clock edge of the RTL, reset included, is one step of the C++
\* golden model or leaves its state alone.
ImplementsGolden == Golden!Spec

------------------------------------------------------------------------------
\* What the repository says, and the RTL does not do.

\* docs/architecture.md calls the C++ simulator "the golden reference for
\* semantics, faults, and system behavior"; docs/memory-map.md calls the
\* STM32 window "currently unmapped".  Then a fetch fault has the code that
\* Bus::fetch32 leads to.
FetchFaultAsGolden ==
  fault.code \in {"MISALIGNED_INSTRUCTION_FETCH",
                  "UNMAPPED_INSTRUCTION_FETCH",
                  "NON_EXECUTABLE_INSTRUCTION_FETCH"} =>
    fault.code = fetch_fault(Golden!fetch32_fault(fault.pc))

\* tb_system_bus.sv: "Reset during an in-flight request must discard the
\* captured request."  Then an edge that samples reset writes no memory.
ResetDiscardsRequest == [][reset => ram' = ram]_vars
=============================================================================
