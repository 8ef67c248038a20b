# Mini32: TLA+ models, model checks and proofs

This directory holds a formal model of the Mini32 computer system: the RTL
processor (`rtl/`), the C++ simulator that serves as its golden reference
(`simulator/`), the FPGA platform around the processor (`rtl/platform`,
`rtl/phy`, `fpga/`), and the tools that make and compare programs and traces
(`assembler/`, `verification/`). The modules are checked with TLC on small
instances and, where the provers reach, proved with TLAPS for every value of
the constants. `PROJECT.json` maps every definition to the source lines it
models and lists the runs, the theorems, the findings and the hazards.

## 1. The system

| part | state | operations | interacts with |
|---|---|---|---|
| RTL core (`rtl/core`) | FSM state, pc, instruction register, six latches, r1..r31, fault registers, retirement outputs | one clock edge per FSM state; waits in FETCH and MEMORY for `bus_ready` | holds a request to the bus; its `retire_valid` is the timer's tick |
| RTL bus (`rtl/bus/system_bus.sv`) | IDLE/MEMORY/RESPONSE and the captured request | capture, access, respond | decodes the address and enables one memory or device for one edge |
| ROM, RAM (`rtl/memory`) | contents and one registered read port each | read, write; **no reset** | bus |
| Timer, UART, GPIO, debug (`rtl/peripherals`) | registers and one registered read port each | read, write, tick, reset | bus; UART emits one-cycle events; GPIO samples pins |
| System top (`rtl/top/mini32_system.sv`) | none of its own | one clock, one reset | wires the above |
| C++ model (`simulator/src`) | pc, registers, microstate, nine latches, retirement count, fault info, RAM bytes, devices, bytes given to the UART callback | `CpuCore::tick()`: one microstate; `step()`: one instruction or fault; `reset()` | the reference the RTL is compared with; owned by `main.cpp`, `ref_trace.cpp` or a unit test |
| Command line (`simulator/app/main.cpp`) | arguments, limit, exit code | check arguments and image, step until halt, fault or limit | C++ model |
| UART FIFO (`rtl/platform/uart_tx_fifo.sv`) | ring storage, two pointers, counter, sticky overflow | enqueue, dequeue, both, reset | takes UART events, feeds the transmitter |
| UART transmitter (`rtl/phy/uart_tx_phy.sv`) | IDLE/START/DATA/STOP, baud and bit counters, latched byte | accept, hold bit, next bit, reset | drives the line |
| Reset synchroniser (`rtl/platform/reset_sync.sv`) | two release flip-flops | assert at once, release after two edges | resets core, bus, devices, FIFO, transmitter |
| Platform and board tops | none of their own | button, LEDs, line | compose the above |
| Assembler, disassembler (`assembler/`), ROM converter (`rtl/tools`) | labels, statements, words | scan, encode, decode | produce ROM images |
| Differential harness (`ref_trace.cpp`, `tb_differential_trace.sv`, `verification/differential.py`) | two traces, cycle and instruction limits, exit codes | trace, parse, compare | runs both machines on one image |
| Bring-up capture (`fpga/tang_nano_20k/tools`) | the driver's buffer, the bytes captured | open, clear, prompt, read, judge | reads the serial line of a board that an operator resets |

What is hard in it: the core and the bus are two state machines that talk
through level-sensitive wires with a latency of three edges; the timer counts
*retirements*, so a tick and an access to the timer race; reset may fall on any
edge, and memories ignore it while everything else obeys it; a fault must leave
no partial effect; two independently written implementations (SystemVerilog and
C++) must agree bit for bit, 32-bit wraparound included; the UART path has no
back-pressure and must say so when it loses a byte; the reset button is
asynchronous to the clock; the tools that judge the machine (trace comparison,
exit codes, the capture of a message) are themselves programs with limits and
races, and a wrong judgement passes unnoticed.

What makes each part correct:

* core and bus: a request is answered once, with the answer to what the core
  asks; neither waits for the other for ever; a stopped core is silent;
* timer: each retired instruction counts once, the one that enables the timer
  and HALT included, a faulting one never;
* the whole RTL: every run is a run of the C++ model, instruction by
  instruction, for registers, pc, memory, devices, UART bytes and fault records;
* FIFO: a bounded queue, plus a flag that says exactly whether a byte was lost;
* transmitter: each byte accepted is sent once, in order, well framed, in the end;
* reset: no press is lost, all blocks start at the same edge, and after any
  press the program's message appears once and whole;
* C++ model: its microstates add up to whole instructions, also when `reset()`
  falls between two of them; the command line always ends, with an exit code
  that tells the outcome;
* assembler: the CPU does with each word what the statement says, labels at
  the limits of their fields included, and disassembly assembles to the same
  words;
* differential check: it passes exactly when the machines agree.

## 2. The modules

| module | models | notes |
|---|---|---|
| `Word32` | `logic [31:0]` and `uint32_t` arithmetic | a word is a pair of 16-bit halves, so TLC computes full 32-bit results without leaving its integer range |
| `Mini32Pkg` | `mini32_pkg.sv` | `ROM_WORD_COUNT` and `RAM_WORD_COUNT` are constants |
| `CpuDatapath` | decoder, control unit, immediate generator, ALU, branch decision | pure operators on an instruction word |
| `CpuCore` | `cpu_core.sv`, `register_file.sv` | one action per branch of the clocked `case` |
| `TimerMmio`, `Mmio` | the four device blocks | next-value operators per register, used by the edge actions and by the refinement mapping |
| `SystemBus` | `system_bus.sv`, `rom.sv`, `ram.sv` | `BusEdge`/`BusReset`; devices and memories step at the same edge |
| `Mini32System` | `mini32_system.sv` | `RunEdge` and `ResetEdge`; properties and the refinement mapping |
| `GoldenIsa`, `GoldenModel` | `simulator/src` | translated from the C++ independently of the RTL modules; only `Word32` and the address map are shared |
| `GoldenCpu` | `CpuCore::tick()` and `reset()` | one action per microstate, with every latch; bus and devices are those of `GoldenModel` |
| `MiniSim` | `main.cpp` | extends `GoldenCpu`: arguments, image, limit, `step()` as a loop of ticks, exit codes |
| `CpuHosts` | `main.cpp` or an embedder | extends `MiniSim` by a program that calls `tick()` and `reset()` freely; the refinement of `GoldenModel` |
| `InstructionEffect` | decode to write-back, in the RTL and in C++ | pure operators: the effect of an instruction word on registers, pc and memory, computed twice |
| `Assembler` | `assembler.py`, `disassembler.py` | both passes; what words mean is taken from `GoldenIsa` and `InstructionEffect` |
| `RefTrace` | `ref_trace.cpp` | steps `GoldenModel` and produces records |
| `TraceCompare` | `parse_trace`, `compare_traces` of `differential.py` | pure operators |
| `Differential` | `run_case`, `tb_differential_trace.sv` | `Mini32System` and an instance of `RefTrace` on one image, judged by `TraceCompare` |
| `ResetSync` | `reset_sync.sv` | a metastable flip-flop has the value "X", which every reader may see as 0 or 1 |
| `ResetDomains` | the reset distribution of `mini32_fpga_platform.sv` | the blocks behind reset, each sampling for itself |
| `FpgaBoard` | `mini32_fpga_platform.sv`, `tang_nano_20k_top.sv` | `Mini32System`, `UartTxFifo`, `UartTxPhy` and `ResetSync` on one clock; button and LEDs |
| `BringupCapture` | `capture_bringup.py` | with the board, the operator and the serial driver as its environment |
| `Programs` | test programs | instruction pools and image sets |
| `MCMini32System`, `MCCpuHosts`, `MCAssembler`, `MCDifferential`, `MCFpgaBoard`, `MCBringupCapture` | constants of the runs | |
| `UartTxFifo` | `uart_tx_fifo.sv` | |
| `UartQueue` | what the FIFO promises | abstract bounded queue |
| `UartTxFifoQueue` | FIFO on a clock with free inputs | refinement of `UartQueue` |
| `UartTxPhy` | `uart_tx_phy.sv` | |
| `UartPath` | the UART half of `mini32_fpga_platform.sv` and the receiver of its testbench | |
| `InstructionEffectProofs`, `Mini32SystemProofs`, `UartTxFifoProofs`, `UartPathProofs`, `FpgaBoardProofs`, `CpuHostsProofs`, `AssemblerProofs`, `DifferentialProofs` | proofs | section 5 |

**Clocking.** A step is one rising edge. Every register takes the value computed
from the state before the edge; combinational wires are operators on the
unprimed state. Reset and the GPIO pins are inputs that may change at every
edge. In `Mini32System` the value of `reset` that the coming edge samples is a
variable; the GPIO pins are chosen inside the step. Observation begins after the
first edge that sampled reset; each RAM cell and each of the two memories' read
registers then holds some word of `PowerUpWords` of its own, everything else has
its reset value. `GoldenModel` starts from any memory of such words, `GoldenCpu`
and `RefTrace`, which stand for the C++ program itself, from a cleared one
(`bytes_{}` in `ram.hpp:42`).

**Data.** The retirement outputs and fault registers are two records
(`retire`, `fault`); `registers` is r1..r31 because r0 is no register in
`register_file.sv`. ROM is the raw image and `RomWord` is the word that
`bin_to_mem.py` makes of it and `$readmemh` loads. `uart_log` is the consumer
of `uart_tx_valid` (as in `tb_differential_trace.sv`) since the last reset.

**The golden model.** `CpuCore::step()` runs `tick()` until an instruction
retires or faults. The latches in between are private, so `GoldenModel` has one
atomic action per outcome: fetch fault, decode fault, branch, jump, register
jump, load, load fault, store, store fault, jump-and-link, computation, and
reset. RAM is kept in bytes as in C++. `GoldenCpu` has the latches and one
action per `tick()`, and `CpuHosts` shows that the ticks add up to these
outcomes.

**Traces.** A trace record is the JSON object with words in place of
hexadecimal text. `ref_trace.cpp` finds the register written by comparing
snapshots and the store by decoding a second time, the RTL reports both from
its retirement outputs; both ways are modelled as they are. The testbench
lowers reset with a blocking assignment at a clock edge and ends by two
processes that may call `$finish` and `$fatal` at the same edge; both are races
of the simulator, so both outcomes are in the model.

**Assembler.** A line is already split into labels, mnemonic and operands. A
line stands for `count` equal statements, so that labels can be 2^25 words
apart in a model of three lines.

**Reset.** At power-up the button is held or not; the synchroniser's flip-flops
hold anything, or 0 if it is held. The button changes between two edges or at an edge. When it is
released at an edge the first flip-flop may be metastable; the second sees
either value. When it is pressed at an edge, each block may or may not see
reset at that edge. `FpgaBoard` changes the button between edges only, which
by `ResetDomains` is all the blocks can tell.

**The refinement mapping** (end of `Mini32System`). An instruction takes effect
in the golden model at the edge that retires it. The exception is a store that
does not fault: RAM ignores reset, so once the bus has captured it nothing can
stop it; it takes effect at capture. The mapped RAM and devices are therefore
those *after* the pending write and the pending tick (`AbsRam`, `AbsTimer`, ...),
computed with the same next-value operators the devices use. The mapping makes
one correction, for the divergence of section 4.1, so that the rest of the
comparison stays meaningful.

**UART path.** The receiver samples each bit at its centre, as the testbench's
`receive_byte` does, and knows nothing of reset. Reset is assumed to last until
the frame it may have cut is over; with a shorter one the receiver could lock
onto the middle of the next frame, which is a matter of the board's reset
button and not of the RTL. The processor's events arrive at any edge, up to
`MaxEvents` between two resets.

Definitions whose name ends in a suffix such as `_NoWrap` and whose comment
begins with "Mutant" are plausible mistakes in the operator they precede. No
specification uses them; they exist to confirm that each property would notice.

## 3. The runs

| run | question | bounds | distinct states |
|---|---|---|---|
| `Mini32Data` | handshake, ticks, responses, silence after a stop, and `ImplementsGolden`, for devices, memory and their faults | 254 programs on 2 RAM and 5 ROM words: a 2-instruction prologue and any two of ten timer, UART, GPIO and debug accesses, one of them and four observing ones after the timer is switched on, and memory accesses in sequences of three; two power-up words, so 16 power-up contents of RAM and read registers; 2 pin values | about 191 000 |
| `Mini32Control` | `ImplementsGolden` and `NeverHangs` for ALU, branches, jumps, decode faults, running off ROM | 23 x 23 x 3 programs | about 121 000 |
| `Mini32WindowFetch` | finding 4.1 | 4 programs | violation |
| `Mini32ResetStore` | finding 4.2 | 1 program | violation |
| `UartTxFifoQueue` | `RingTypeOK`, `PointersAgree`, `ImplementsQueue` | depth 3, two byte values, all inputs free | 3 072 |
| `UartPath` | `TypeOK`, `LineCarriesAccepted`, `NoFramingError`, `OverflowIffLoss`, `EverythingDelivered` | depth 2, bytes 83 and 174, 2 clocks per bit, 5 events | about 12 000 |
| `CpuHosts` | `TicksImplementStep`, `ExitCodeTellsOutcome`, `AlwaysExits` | 807 programs from all pools and 3 other files (empty, odd size, too long); limits 0 to 5 and the default (7), faulty command lines; the embedder: 8 retirements, 1 reset | about 215 000 |
| `Differential` | `TracesAgree`, `OnlyABoundFails`, `PassIsEarned`, `ReferenceReplays`, `ReferenceIsComplete` | 205 programs that satisfy `Comparable`, 16 power-up contents as above, limits of 8 instructions, 44 cycles and 2 UART bytes, each of them reached | about 139 000 |
| `Assembler` | `WordsMeanTheirStatements`, `RefusesOnlyTheUnencodable`, `DisassemblyReassembles`, `WordsRunAlike` | each statement with literals at and one past both ends of its field; label distances around 2^15 and 2^25 in both directions; 5 184 raw words (64 opcodes, fields at their boundaries) at two addresses, with 5 register files | about 78 000 |
| `ResetDomains` | `EveryPressResets`, `BlocksStartTogether`, `ReleaseCompletes` | 4 blocks, edges since reset counted up to 5; button held or not at power-up | 305 |
| `FpgaBoard` | `DarkLed5MeansNoLoss`, `MessageAgain` | the bring-up program with 2 bytes and a program that overruns the FIFO; depth 2, 3 clocks per bit, 2 presses at any moment | about 3 300 |
| `BringupFresh` | finding 4.3 | a message of 4 bytes, 4 executions | violation |

In every `Mini32*` run reset may be asserted and released at every edge.

*Why the bounds are enough.* Interaction between instructions goes through the
architectural state and the bus, whose transactions last three edges and leave
nothing behind but the shared read registers. Two instructions after a prologue
allow write-then-read and read-then-write for every pair of device registers in
the pool, in every order, and two more after the timer is on allow
enable-then-tick-then-read; three memory instructions allow store-then-load and
a load of a cell that still has its power-up word next to one that has not;
reset is cut in anywhere. Two power-up words make RAM cells and read registers
differ from one another; the other `Mini32*` runs and `FpgaBoard` load from no
RAM and have one. The pools hold the boundary cases: the last word of RAM and one
past it, one below it, both kinds of misalignment, all-ones counter values (the
first tick wraps), sign bits in operands and displacements, the longest
backward jump (pc wraps below 0), and a shift by 31. Small ROM and RAM move
`ROM_LAST` and `RAM_LAST`; the device windows keep their real addresses. FIFO depth 3
exercises wrapping at a depth that is not a power of two; `UartPath` uses depth
2 with 5 events so that filling, bypass when full, overflow and wrapping all
occur. Bytes 83 (01010011) and 174 (10101110) differ in most bits and contain
both edges, so a shifted or repeated bit is visible. `CLOCK_HZ` = 3 and
`BAUD_RATE` = 2 make the divider round up to 2.

The bounds of `Differential` are chosen so that some programs reach each of
them, because what happens at a limit is part of the question; the others end
well below. `CpuHosts` has one reset because a second one meets the state the
first one left: the core in its reset state and memory as some program left it,
which the programs reach without it. In `ResetDomains` ages matter only until
they differ or agree, so counting further than the two synchroniser stages and
a press adds nothing. Two presses in `FpgaBoard` allow one press to fall into
the start that another one caused.

*Fairness.* The only assumption is that the clock does not stop while reset is
low: weak fairness of the edges that keep reset low (`RunEdge /\ ~reset'`; in
`UartPath` of the edges that, besides, carry no event). An edge that leaves every
register alone is a stuttering step, so fairness of the whole `Next` would force
a reset, or an event, upon a machine that hangs, and would hide the hang.
Nothing is assumed of reset or of the inputs: the liveness properties are
conditional on reset being released for good. `ResetDomains` assumes a running
clock (`WF(Edge)`) under the same condition on the button. `FpgaBoard` assumes
a running clock and a button that is not held for ever (`WF(ReleaseS1)`); the
number of presses is bounded, so a last one exists. `CpuHosts` assumes that the
simulator process runs until it exits (`WF(Simulate)`), which is what an
operating system gives a process; nothing is assumed of the embedder.

*Deadlock* is checked in every run of the hardware: a clocked design can always
take an edge; and in `Differential`, where a case that is neither judged nor able
to go on would be one. The programs of `CpuHosts`, `Assembler` and
`BringupCapture` end, so their runs do not check it.

### Properties

* `PendingIsCurrentRequest`: while the bus is busy the core asserts exactly the
  captured request. This rules out duplicated stores, answers to an older
  request and answers from before a reset.
* `NoTickDuringAccess`: a retirement pulse falls only on edges where the bus is
  idle, so the timer never has to combine a tick with an access.
* `ResponseIsCurrent`: what the core reads is what the cell holds at that edge.
* `StoppedIsQuiet`: after HALT or a fault nothing changes until reset, except
  the one tick of HALT itself, which comes after `halted` is already visible.
* `ImplementsGolden`: every edge is a step of the C++ model or invisible to it.
* `NeverHangs`: with reset released, retirements recur or the core has stopped.
* `PointersAgree`, `ImplementsQueue`, `LineCarriesAccepted`, `NoFramingError`,
  `OverflowIffLoss`, `EverythingDelivered`: the UART promises of section 1.
* `TicksImplementStep`: every tick of `CpuCore` is a whole golden step or
  invisible; a reset in mid-instruction leaves nothing of it behind.
* `ExitCodeTellsOutcome`, `AlwaysExits`: exit code 0, 1 or 2 says what happened,
  HALT as the last instruction allowed included, and there always is one.
* `WordsMeanTheirStatements`: decoded as the CPU does, a word has the operation,
  registers and number of its statement, and a branch lands on its label.
  `RefusesOnlyTheUnencodable` is the converse: for a refused statement the packed
  word would have meant something else. It excepts numbers beyond 32 bits, which
  the CPU cannot tell from smaller ones: 2^32 - 1 as the operand of ADDI would be
  encodable as -1, and is refused all the same. `DisassemblyReassembles` is the claim of
  `assembler/README.md`.
* `WordsRunAlike`: decoder, control, immediates, ALU and next pc of the RTL and
  of the C++ model give the same effect for every word a source can emit.
* `TracesAgree`: the verdict is never "mismatch". `OnlyABoundFails`: it is never
  "trace error" either, and a case fails only at one of the three limits.
  `PassIsEarned`: after a pass, the comparator would have rejected the RTL trace
  with any one retirement lost, and with any one field changed that its record
  means something by (`ComparedFields`: all of them except register, address and
  value of a retirement that writes none, and the fault record of a program that
  has none), each to every other value of a small set.
* `ReferenceReplays`: the C++ records rebuild the C++ machine.
  `ReferenceIsComplete`: exit code 0 and a final record come together.
* `EveryPressResets`, `BlocksStartTogether`, `ReleaseCompletes`: reset
  distribution with metastable samples.
* `DarkLed5MeansNoLoss`: while LED5 is dark each byte sent since reset is on the
  line, in the transmitter or in the FIFO. `MessageAgain`: after the last
  release the message is sent once and whole, and the LEDs are as documented.

## 4. Findings

1. **Fetch from the planned STM32 window.** For 0x2000_0400..0x2000_04FF the RTL
   bus answers a fetch with "non-executable" (`system_bus.sv:100`), the C++ bus
   with "unmapped" (`bus.cpp:85`). The documentation calls the C++ model the
   golden reference for faults and the window unmapped. Run `Mini32WindowFetch`.
2. **Reset does not discard a captured RAM store.** `tb_system_bus.sv:92` says a
   reset during an in-flight request must discard it; the write enable is not
   gated by reset and `ram.sv` has none, so the store reaches RAM at the edge
   that samples reset. Run `Mini32ResetStore`.
3. **The capture tool may keep bytes of the old execution.** The comment at
   `capture_bringup.py:69` says that the bytes retained belong to the fresh
   execution; the buffer is cleared before the prompt, so what the board still
   sends until the operator presses S1 is captured in front of the message, and
   a working board is reported as MISMATCH. Run `BringupFresh`.

## 5. What is proved

The theorems hold for every value of the constants that the named assumptions
allow; TLC evaluates each assumption in a run.

| assumption | says |
|---|---|
| `MemorySizes` | ROM and RAM have 1 to 16384 words, so each fits its window |
| `ImagesFit` | the RTL is given images of bytes that are whole words and fit the ROM, as `bin_to_mem.py` makes them |
| `ImagesAreBytes` | the simulator is given any file of bytes |
| `PowerUpIsWords`, `GpioInputsAreWords`, `PowerUpIsData` | what memories power up with and what pins carry are words and bytes |
| `LimitsAreNat`, `LimitIsNat`, `CapacityIsNat` | instruction limits and the testbench's UART capacity are natural numbers |
| `PinsAreLow` | the differential testbench ties the GPIO pins to 0 (`tb_differential_trace.sv:93`) |
| `DepthAssumption`, `BytesAssumption`, `DataIsByte`, `ClockAssumption` | a FIFO of at least one byte, bytes of 8 bits, a clock and a baud rate that are not 0 |
| `SourcesAreParsed`, `PseudoAreNoOpcodes` | a source line has a mnemonic with the operands it takes, of any size; RET and `.WORD` are no opcodes |

`InstructionEffectProofs` is about single words. The 32-bit operators stay
within words, shifts and bitwise operators included.

* `BothDecodersAgree`: for **every** 32-bit instruction word, all register
  values and every pc the RTL and the C++ model have the same effect. Each
  control unit is first brought into a table by columns (`ControlTable`,
  `RtlColumns`); the rest compares columns. TLC checks this on 5 184 words.

`Mini32SystemProofs`:

* `TypeCorrect`: `Spec => []TypeOK`. One lemma per edge of the core (`CpuStep`),
  the bus (`BusStep`) and reset. A RAM write stays within the array because a
  request without fault in the RAM window has a word index below
  `RAM_WORD_COUNT` (`RamIndex`).
* `RequestHeld`, `TickOutsideAccess`: neither property is inductive alone.
  A tick at an idle edge is harmless only if the bus is idle whenever an
  instruction retires, and that needs the request to have been the core's
  own until the response; conversely the request stays the core's only if the
  core does not move while it waits. The inductive invariant is
  `Handshake == PendingIsCurrentRequest /\ NoTickDuringAccess`, together with
  `TypeOK`; `WaitHoldsRequest` and `AskingCoreWaits` say that a core that asks
  and gets no response changes nothing its request depends on.
* `ResponsesCurrent`: from `Handshake`: the cell read at the access edge is the
  cell seen at the response edge since no tick and no other access intervene.
* `StoppedStaysQuiet`: an action property; by `Handshake` the bus of a stopped
  core is idle, hence enables nothing.
* `RtlImplementsGolden`: `Spec => ImplementsGolden`, for every program, memory
  size, power-up content (any words in any cells), pin sequence and reset
  pattern. The mapping alone is
  not enough: the edge that retires an instruction uses latches that earlier
  edges filled. The invariant `RefInv` says what they hold. In each FSM state
  every latch filled so far has what the golden instruction computes from the
  present pc, registers, memory and devices (`Underway`); a response without
  fault is what the addressed cell holds, for some value of the pins
  (`ResponseIsRead`); and no tick is due while an instruction is in flight
  (`TickAfterRetirement`), or a load of the timer would see one tick too few.
  The proof has four layers: the golden model's copies of words, decoder and
  windows are the RTL's (`GoldenWords` to `GoldenWindows`), its bus faults, reads
  and writes like the RTL's (`FaultsAgree`, `ReadAgrees`, `StoreLands`), its
  instruction is the RTL's (`GoldenControl`, `GoldenOperands`, which rest on the
  lemmas of `BothDecodersAgree`), and one lemma per state of the bus says which
  golden step an edge is (`IdleStep`, `CaptureStep`, `AccessStep`, `FinishStep`,
  `ResetStep`). A store that cannot fault is the golden store when it is
  captured; the two edges after it change nothing in the mapped state
  (`StoreKeeps`), and a reset in between does not stop it.

`UartTxFifoProofs`:

* `RingTypeCorrect`, `PointersCorrect`: `PointersAgree` is inductive with the
  type invariant.
* `FifoRefinesQueue`: `RingSpec => ImplementsQueue` for every depth. With both
  invariants, the contents of the ring after an edge are the old contents
  without their head (if read) and with the new byte (if accepted): the slot
  that is written is the one after the last occupied, or the one being freed.

`UartPathProofs`, for every depth, clock, baud rate and pattern of events:

* `LineIsFaithful`, `FramesAreWellFormed`, `OverflowTellsLoss`,
  `PathTypeCorrect`. What the receiver samples depends on where in the frame
  the transmitter is, and no property mentions that. The invariant `PathInv`
  adds it: outside reset the receiver's clock is the transmitter's position in
  the frame (`InStep`), so that each sample falls in the middle of its own bit,
  and the bits sampled so far are the low bits of the latched byte
  (`BitsSampled`). The last half of the stop bit is the exception: there the
  receiver is already waiting for the next start bit.

`FpgaBoardProofs`:

* `DarkLed5IsTrue`: for every program, depth, divider and number of presses a
  dark LED5 means that no byte is lost. The invariant `BoardInv` joins the
  processor's type invariant (events carry bytes), the FIFO's and `NothingLost`,
  which does not mention reset: the edge that samples reset clears log, line,
  FIFO and transmitter together.
* `NoPressIsLost`, `BlocksLeaveResetTogether`, for every set of blocks behind the
  reset synchroniser. Both properties look at the second flip-flop; the
  invariant `ReleaseInv` is about the first, one edge earlier: once it is not 0,
  metastable included, every block has sampled reset and all are equally old.

`CpuHostsProofs`, for every image, command line and sequence of ticks and resets:

* `ExitCodeIsTheOutcome`: the exit code is right, at the limit too. `SimInv`
  says what holds at the head of the loop of `main()` and inside `step()`: below
  the limit, not halted, no fault recorded.
* `TicksRefineStep`: `HostSpec => TicksImplementStep`, the refinement of
  `GoldenModel`'s atomic instructions by `CpuCore::tick()`. The invariant is
  `MachineOK /\ LatchInv`: in each microstate every latch filled so far holds
  what the atomic instruction computes from pc, registers and memory, which
  have not changed since the fetch. The retiring tick is then the whole
  instruction, every other one a stutter, and `reset()` between two ticks is
  the golden reset.

`AssemblerProofs`, for every source:

* `EmittedWordsMeanStatements`, `EmittedWordsRunAlike`,
  `DisassemblyIsReassemblable`. The invariant is `LaidOut /\ Emitted`: the first
  pass gives statements and labels addresses that are multiples of 4, and each
  word emitted is the packed form of an accepted statement. Unpacking gives
  the fields back, and the sum of pc + 4 and a displacement is the
  label also when it wraps.
* `RefusalsAreNeeded`: the invariant `Refused` adds why the assembler stopped
  and that every label comes from a line of the source. The proof runs backwards
  through the decoder: had the packed word meant its statement, the decoder
  would have given back registers and a number that fit their fields, and a
  statement whose registers and number fit is not refused.

`DifferentialProofs`, for every program image, limit and memory size:

* `RecordsRebuildTheMachine`, `ExitCodeMeansComplete`. The invariant
  `ReferenceInv` has the types of the reference machine, its counters, the
  shape of its trace (`TraceShape`) and the replay itself, stated for each
  register and RAM byte by its last writer.
* `EveryChangeIsSeen`: after a pass no trace is accepted that differs from the
  RTL's in one field of `ComparedFields`, whatever the field holds instead.
  `PassIsEarnedAlways` is the run's property, which adds a lost retirement.
  `PassInv` adds to `ReferenceInv` the fields of the RTL's records
  (`RtlRecords`) and that a pass was judged on the traces as they are
  (`VerdictInv`). The flags that decide what is compared are themselves compared,
  so both traces have them alike, and what is compared with the reference is
  compared with the RTL trace (`SameRetirements`, `SameFinals`).
* `OnlyBoundsFail`: the RTL in the testbench is `Mini32System`, so `RefInv` of
  `Mini32SystemProofs` holds of it (`SystemInvariant`). `OutcomeInv` says that a
  stopped core has nothing left to retire once the final record is due
  (`StopSettled`), that the RTL's indices count from 0 with at most one final
  record at the end (`RtlShape`), and which limit a failure stands for
  (`Outcome`).
* `ComparableProgramsAgree`: `DiffSpec /\ []Comparable => []TracesAgree`, for
  every program, memory size, power-up content and limit. `Comparable` says that
  the program loads only RAM whose bytes earlier store records name, and fetches
  nothing from the STM32 window. Without this hypothesis
  the theorem is false: RAM that nothing has written is 0 in C++ and
  anything in the RTL, and a fetch from the STM32 window faults differently
  (finding 4.1). A load into r0 is exempt, since neither side keeps its value.
  The states of the C++ machine are gone when the RTL runs, so the invariant
  speaks of a history `g` of them, `g[i]` being the machine after `i` steps:
  - `Past(g)`: consecutive states are one step apart (`Moves`, a relation on
    states that the golden step is shown to satisfy for the reference in
    `RefMoves` and for the RTL's mapped state in `GoldenMoves`), each record
    printed tells what its step did (`Tells`), and each load reads bytes that
    earlier steps stored. A step of the reference extends the history
    (`PastIterates`).
  - `Follows(g)`: the RTL's mapped state is `g[Position]`, except on RAM that
    neither has written (`Agree`), and what the testbench has printed tells the
    same steps. The RTL is ahead of its trace by one step while a retirement is
    on the outputs, a store is on the bus or the core is in FAULT (`Ahead`), so
    an edge retires, commits a store, completes it, faults or waits
    (`EdgeKinds`), and each kind keeps `Follows` (`FollowsEdge`).
  - Two records that tell of the same step pass the comparison
    (`SameStepSameRecord`). A core that has stopped stands at the end of the
    history (`AtTheEnd`); an edge later the last byte and HALT's tick
    have arrived (`LineSettled`, `SameFinalRecord`), so the whole trace passes
    (`LastEdgeAgrees`).

*Only model-checked:*

* `NeverHangs`, `EverythingDelivered`, `AlwaysExits`, `ReleaseCompletes` and
  `MessageAgain`: liveness under fairness is outside the prover.

## 6. Not modelled, and the plan

Not modelled: the text of arguments, source lines, file formats and messages;
`check_bringup_rom.py` and `check_board_simulator.py`, which run other programs
and compare files; the devices that a C++ `Bus` shares when it is built without
its own (no program of the repository depends on the sharing) and the
host-side accessors used by unit tests; the sample programs; the empty firmware
placeholder; illegal FSM encodings (the `default` branches of the clocked `case`
statements), which no edge produces.

Every safety property and every refinement that a passing run checks is also a
theorem, `TracesAgree` under the hypothesis `Comparable`, which the programs of
the run are chosen to satisfy. What remains is liveness, which only TLC checks.
