------------------------------ MODULE RefTrace ------------------------------
(***************************************************************************)
(* simulator/app/ref_trace.cpp: the C++ side of the differential check.    *)
(* It steps the golden model, compares the registers before and after each *)
(* step, decodes the instruction a second time to find the store, and      *)
(* prints one record for each retirement and a final one.  A record is the *)
(* JSON object, its fields words instead of hexadecimal text.  load_image  *)
(* refuses only what convert_image of bin_to_mem.py has refused before it  *)
(* is started (SystemBus!ImagesFit), so its error exit is never taken.     *)
(***************************************************************************)
EXTENDS GoldenModel, TraceCompare

CONSTANT Limit    \* --max-instructions

VARIABLES
  step,            \* the loop counter
  retired,         \* CpuCore::retired_instructions()
  trace,           \* the records printed so far
  exit_code        \* -1 until the process exits

refVars == <<vars, step, retired, trace, exit_code>>

RefInit ==
  /\ Init
  /\ step = 0
  /\ retired = 0
  /\ trace = <<>>
  /\ exit_code = -1

\* The instruction that a second fetch32 and decode find at pc.
Snapshot == IF fetch32_fault(pc) = "NONE" THEN RomRead(pc) ELSE Zero

IsStore == DecodeError(Snapshot) = "None" /\ Decode(Snapshot).opcode = OP_SW

ChangedRegisters == {r \in Register : registers'[r] # registers[r]}

\* Mutant: the store address is taken as unsigned.
StoreAddress_ZeroExtended ==
  Add(ReadRegister(Decode(Snapshot).rs1),
      immediate_value("ZeroExtended16", Decode(Snapshot).imm16))

StoreAddress ==
  Add(ReadRegister(Decode(Snapshot).rs1),
      immediate_value("Signed16", Decode(Snapshot).imm16))

\* emit_retire.  A golden step writes at most one register, so the exit for
\* several changed registers is never taken and the one changed is the Max.
RetireRecordOf ==
  LET changed == ChangedRegisters # {}
      rd      == IF changed THEN Max(ChangedRegisters) ELSE 0
  IN  [type |-> "retire", index |-> retired, pc |-> pc,
       instruction |-> Snapshot, next_pc |-> pc', reg_write |-> changed,
       rd |-> rd, reg_value |-> IF changed THEN registers'[rd] ELSE Zero,
       mem_write |-> IsStore,
       mem_addr |-> IF IsStore THEN StoreAddress ELSE Zero,
       mem_value |-> IF IsStore THEN ReadRegister(Decode(Snapshot).rs2)
                                ELSE Zero]

\* One turn of the loop; a step that faults retires nothing.
Iterate ==
  /\ exit_code = -1
  /\ step < Limit
  /\ Step
  /\ step' = step + 1
  /\ \/ status' = "FAULT" /\ UNCHANGED <<retired, trace>>
     \/ /\ status' # "FAULT"
        /\ retired' = retired + 1
        /\ trace' = Append(trace, RetireRecordOf)
  /\ UNCHANGED exit_code

FinalRecord ==
  [type |-> "final", status |-> IF status = "HALTED" THEN "halted"
                                                     ELSE "faulted",
   pc |-> pc, retired |-> retired, uart_tx |-> uart_log,
   debug_value |-> debug_value, gpio_output |-> gpio.output,
   gpio_direction |-> gpio.direction, timer_counter |-> timer.counter,
   timer_compare |-> timer.compare,
   timer_control |-> IF timer.enabled THEN One ELSE Zero,
   fault |-> fault_info.code, fault_pc |-> fault_info.pc,
   fault_instruction |-> fault_info.instruction,
   fault_address_valid |-> fault_info.has_address,
   fault_address |-> fault_info.data_address]

\* Mutant: the end of the loop is taken for the end of the program.
Finish_AtLimit ==
  /\ exit_code = -1
  /\ status # "RUNNING" \/ step >= Limit
  /\ trace' = Append(trace, FinalRecord)
  /\ exit_code' = 0
  /\ UNCHANGED <<vars, step, retired>>

Finish ==
  /\ exit_code = -1
  /\ status # "RUNNING"
  /\ trace' = Append(trace, FinalRecord)
  /\ exit_code' = 0
  /\ UNCHANGED <<vars, step, retired>>

LimitExit ==
  /\ exit_code = -1
  /\ status = "RUNNING"
  /\ step >= Limit
  /\ exit_code' = 3
  /\ UNCHANGED <<vars, step, retired, trace>>

RefNext == Iterate \/ Finish \/ LimitExit

------------------------------------------------------------------------------
\* The records that write register r, and those that write RAM byte k.
RegisterWrites(r) ==
  {i \in DOMAIN trace : /\ trace[i].type = "retire"
                        /\ trace[i].reg_write
                        /\ trace[i].rd = r}

RamWrites(k) ==
  {i \in DOMAIN trace :
     /\ trace[i].type = "retire"
     /\ trace[i].mem_write
     /\ InRam(trace[i].mem_addr)
     /\ k \in trace[i].mem_addr.lo .. trace[i].mem_addr.lo + 3}

LastOf(writes, i) == i \in writes /\ \A j \in writes : j <= i

\* The records alone determine the machine: a register and a RAM byte hold
\* what the last record that writes them says, or what they were cleared to,
\* and the pcs form a chain that ends in pc.  So two equal traces mean two
\* equal machines, although ref_trace.cpp finds the register by comparing
\* snapshots (line 138) and the store by decoding a second time (line 152).
RegistersReplay ==
  \A r \in Register :
    \/ RegisterWrites(r) = {} /\ registers[r] = Zero
    \/ \E i \in RegisterWrites(r) : /\ LastOf(RegisterWrites(r), i)
                                    /\ registers[r] = trace[i].reg_value

RamReplays ==
  \A k \in RamBytes :
    \/ RamWrites(k) = {} /\ ram[k] = 0
    \/ \E i \in RamWrites(k) :
         /\ LastOf(RamWrites(k), i)
         /\ ram[k] = ByteOf(trace[i].mem_value, k - trace[i].mem_addr.lo)

PcsChain ==
  /\ retired = 0 => pc = Zero
  /\ \A i \in DOMAIN trace :
       trace[i].type = "retire" =>
         /\ trace[i].pc = IF i = 1 THEN Zero ELSE trace[i - 1].next_pc
         /\ i = retired => trace[i].next_pc = pc

TraceReplays == RegistersReplay /\ RamReplays /\ PcsChain

\* A trace is handed over (exit code 0) only for a program that stopped, and
\* then it is one that parse_trace accepts; a program cut off at the limit
\* gives no final record (lines 164-185).
ExitZeroMeansComplete ==
  /\ exit_code = 0 <=> \E i \in DOMAIN trace : trace[i].type = "final"
  /\ exit_code = 0 => parse_trace(trace) /\ status # "RUNNING"
  /\ exit_code = 3 => status = "RUNNING" /\ retired = Limit
=============================================================================
