---------------------------- MODULE Differential ----------------------------
(***************************************************************************)
(* run_case of verification/differential.py: one program is traced by      *)
(* ref_trace.cpp (RefTrace) and by the RTL under tb_differential_trace.sv, *)
(* and the two traces are compared (TraceCompare).  The RTL is             *)
(* Mini32System; the variables of the reference have the prefix ref_.      *)
(***************************************************************************)
EXTENDS Mini32System, TraceCompare

CONSTANTS MaxInstructions, MAX_CYCLES,
          UartCapacity   \* the size of uart_bytes, 1024 in the testbench

ASSUME LimitIsNat == MaxInstructions \in Nat
ASSUME CapacityIsNat == UartCapacity \in Nat
\* The testbench ties the GPIO pins to 0.
ASSUME PinsAreLow == GpioInputs = {Zero}

VARIABLES
  ref_pc, ref_registers, ref_status, ref_fault_info, ref_ram, ref_timer,
  ref_gpio, ref_debug_value, ref_uart_log, ref_step, ref_retired,
  cpp_trace, ref_exit,
  rtl_trace, final_pending, cycle,
  tb_exit,               \* -1 while the simulation runs, then its exit code
  verdict

refState == <<ref_pc, ref_registers, ref_status, ref_fault_info, ref_ram,
              ref_timer, ref_gpio, ref_debug_value, ref_uart_log,
              ref_step, ref_retired, cpp_trace, ref_exit>>
tbState  == <<rtl_trace, final_pending, cycle, tb_exit>>
allVars  == <<vars, refState, tbState, verdict>>

\* The reference starts with cleared RAM and its GPIO input is never set.
Ref == INSTANCE RefTrace
         WITH PowerUpWords <- {Zero},      GpioInputs <- {Zero},
              Limit       <- MaxInstructions,
              pc          <- ref_pc,       registers  <- ref_registers,
              status      <- ref_status,   fault_info <- ref_fault_info,
              ram         <- ref_ram,      timer      <- ref_timer,
              gpio        <- ref_gpio,     debug_value <- ref_debug_value,
              uart_log    <- ref_uart_log, step       <- ref_step,
              retired     <- ref_retired,  trace      <- cpp_trace,
              exit_code   <- ref_exit

\* The testbench lowers reset at the second edge with a blocking assignment:
\* the design may sample the old or the new value at that edge.
DiffInit ==
  /\ CpuInit
  /\ BusInit
  /\ reset \in BOOLEAN
  /\ uart_log = <<>>
  /\ Ref!RefInit
  /\ rtl_trace = <<>>
  /\ final_pending = FALSE
  /\ cycle = IF reset THEN 0 ELSE -1
  /\ tb_exit = -1
  /\ verdict = "none"

ReferenceStep ==
  /\ verdict = "none"
  /\ Ref!RefNext
  /\ UNCHANGED <<vars, tbState, verdict>>

------------------------------------------------------------------------------
\* tb_differential_trace.sv at a rising edge; uart_log is uart_bytes.
Stopped == cpu_state \in {"HALTED", "FAULT"}

TraceRecord ==
  [type |-> "retire", index |-> Len(rtl_trace), pc |-> retire.pc,
   instruction |-> retire.instruction, next_pc |-> retire.next_pc,
   reg_write |-> retire.reg_write, rd |-> retire.rd,
   reg_value |-> retire.value, mem_write |-> retire.mem_write,
   mem_addr |-> retire.mem_addr, mem_value |-> retire.mem_value]

TraceFinal ==
  [type |-> "final", status |-> IF cpu_state = "HALTED" THEN "halted"
                                                        ELSE "faulted",
   pc |-> pc, retired |-> Len(rtl_trace), uart_tx |-> uart_log,
   debug_value |-> debug_value, gpio_output |-> gpio_output,
   gpio_direction |-> gpio_direction, timer_counter |-> timer_counter,
   timer_compare |-> timer_compare, timer_control |-> BoolWord(timer_enabled),
   fault |-> fault.code, fault_pc |-> fault.pc,
   fault_instruction |-> fault.instruction,
   fault_address_valid |-> fault.address_valid,
   fault_address |-> fault.address]

\* Mutant: the final record is printed as soon as the core has stopped.
PrintFinal_AtOnce == Stopped

PrintFinal == final_pending /\ Stopped

Printed ==
  (IF retire.valid THEN <<TraceRecord>> ELSE <<>>)
    \o (IF PrintFinal THEN <<TraceFinal>> ELSE <<>>)

UartFull == uart_tx_valid /\ Len(uart_log) >= UartCapacity

\* At the last cycle that the initial block waits for, it finds finished
\* still low even if the final record is printed at this very edge; which of
\* the two calls ends the simulation is a race.
SimulationEnd ==
  (IF PrintFinal /\ ~UartFull THEN {0} ELSE {})
    \cup (IF UartFull \/ cycle + 1 = MAX_CYCLES THEN {1} ELSE {})

RtlReset ==
  /\ ref_exit = 0 /\ tb_exit = -1
  /\ ResetEdge /\ ~reset'
  /\ UNCHANGED <<refState, tbState, verdict>>

RtlEdge ==
  /\ ref_exit = 0 /\ tb_exit = -1
  /\ RunEdge /\ ~reset'
  /\ rtl_trace' = rtl_trace \o Printed
  /\ final_pending' = (final_pending \/ Stopped)
  /\ cycle' = cycle + 1
  /\ tb_exit' \in IF SimulationEnd = {} THEN {-1} ELSE SimulationEnd
  /\ UNCHANGED <<refState, verdict>>

\* What run_case reports once both programs have ended.
Judge ==
  /\ verdict = "none"
  /\ ref_exit > 0 \/ tb_exit >= 0
  /\ verdict' = CASE ref_exit > 0 \/ tb_exit > 0             -> "failed"
                  [] ref_exit = 0 /\ tb_exit = 0 /\
                     ~(parse_trace(cpp_trace) /\ parse_trace(rtl_trace)) ->
                       "trace error"
                  [] ref_exit = 0 /\ tb_exit = 0 /\ parse_trace(cpp_trace)
                     /\ parse_trace(rtl_trace)
                     /\ ~compare_traces(cpp_trace, rtl_trace) -> "mismatch"
                  [] OTHER                                   -> "pass"
  /\ UNCHANGED <<vars, refState, tbState>>

\* The case is over; anything else that cannot go on is a deadlock.
Judged == verdict # "none" /\ UNCHANGED allVars

DiffNext == ReferenceStep \/ RtlReset \/ RtlEdge \/ Judge \/ Judged

DiffSpec == DiffInit /\ [][DiffNext]_allVars

------------------------------------------------------------------------------
\* The two trace producers never disagree about the same program: "register
\* changed" as the core computes it at the retiring edge (cpu_core.sv 164) is
\* what comparing snapshots finds, and the final record, printed one edge
\* after the stop, counts HALT's own tick, the last byte and the last
\* retirement (tb_differential_trace.sv 72).
TracesAgree == verdict # "mismatch"

\* The two sides do not start alike: the C++ RAM is cleared, ram.sv powers up
\* with any contents; and they name the fault of a fetch from the planned
\* STM32 window differently.  A program may read only RAM that it has
\* written, and stay out of that window.
ReadsUnwrittenRam ==
  LET address == Ref!alu_result
  IN  /\ Ref!Decodes
      /\ Ref!control.memory_operation = "Load" /\ Ref!decoded.rd # 0
      /\ Ref!read32_fault(address) = "NONE"
      /\ Ref!InRam(address)
      /\ \E k \in address.lo .. address.lo + 3 : Ref!RamWrites(k) = {}

FetchesFromStm32 ==
  ref_status = "RUNNING" /\ InWindow(ref_pc, STM32_BASE, STM32_LAST)

Comparable == ~ReadsUnwrittenRam /\ ~FetchesFromStm32

\* A case that both programs end well is judged by its traces: the indices
\* the testbench counts and its one final record are what parse_trace wants,
\* whenever the core stops.  Only a bound may fail a case: the reference's
\* --max-instructions, the testbench's MAX_CYCLES or its 1024 bytes.
OnlyABoundFails ==
  /\ verdict # "trace error"
  /\ verdict = "failed" =>
       \/ ref_retired = MaxInstructions
       \/ cycle = MAX_CYCLES
       \/ Len(uart_log) > UartCapacity

\* Replaying the register and memory writes of the C++ records rebuilds the
\* C++ machine after every step (TraceReplays of RefTrace): what the RTL is
\* compared with is what the golden model did, not merely what
\* ref_trace.cpp 125-162 worked out again.
ReferenceReplays == Ref!TraceReplays

\* ref_trace.cpp 164-185 exits with 0 exactly when the trace is complete, so
\* that a program cut off at the limit is never compared
\* (ExitZeroMeansComplete of RefTrace).
ReferenceIsComplete == Ref!ExitZeroMeansComplete

\* The fields that a record means something by: a retirement writes a
\* register or memory only if it says so, a fault record and its address are
\* there only after a fault that has one.
ComparedFields(r) ==
  IF r.type = "retire"
    THEN {"type", "index", "pc", "instruction", "next_pc", "reg_write",
          "mem_write"}
           \cup (IF r.reg_write THEN {"rd", "reg_value"} ELSE {})
           \cup (IF r.mem_write THEN {"mem_addr", "mem_value"} ELSE {})
    ELSE {"type", "status", "pc", "retired", "uart_tx", "debug_value",
          "gpio_output", "gpio_direction", "timer_counter", "timer_compare",
          "timer_control"}
           \cup (IF r.status = "faulted"
                   THEN {"fault", "fault_pc", "fault_instruction",
                         "fault_address_valid"} ELSE {})
           \cup (IF r.status = "faulted" /\ r.fault_address_valid
                   THEN {"fault_address"} ELSE {})

\* Values to change a field to; those not named here hold words.
SomeValues(f) ==
  CASE f = "type"                      -> {"retire", "final"}
    [] f = "status"                    -> {"halted", "faulted"}
    [] f = "fault"                     -> {"NONE", "MISALIGNED_LOAD"}
    [] f = "uart_tx"                   -> {<<>>, <<0>>}
    [] f \in {"index", "rd", "retired"} -> 0 .. 2
    [] f \in {"reg_write", "mem_write", "fault_address_valid"} -> BOOLEAN
    [] OTHER                           -> {Zero, One}

\* A trace with field f of record i changed to v, and one that has lost
\* record i and numbers the others as if it had never been.
Altered(t, i, f, v) == [t EXCEPT ![i] = [@ EXCEPT ![f] = v]]
Lossy(t, i) ==
  LET short == RemoveAt(t, i)
  IN  [k \in DOMAIN short |->
         IF k < Len(short) THEN [short[k] EXCEPT !.index = k - 1]
                           ELSE [short[k] EXCEPT !.retired = Len(short) - 1]]

Rejected(t) == ~(parse_trace(t) /\ compare_traces(cpp_trace, t))

\* A pass means something: had the RTL trace lost a retirement, or differed
\* in any one field that its record means something by, then differential.py
\* would have reported it (compare_traces, 132-159, field by field and in
\* record order).
PassIsEarned ==
  verdict = "pass" =>
    /\ \A i \in 1 .. Len(rtl_trace) - 1 : Rejected(Lossy(rtl_trace, i))
    /\ \A i \in DOMAIN rtl_trace :
         \A f \in ComparedFields(rtl_trace[i]) :
           \A v \in SomeValues(f) \ {rtl_trace[i][f]} :
             Rejected(Altered(rtl_trace, i, f, v))
=============================================================================
