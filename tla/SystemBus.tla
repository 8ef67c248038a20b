----------------------------- MODULE SystemBus ------------------------------
(***************************************************************************)
(* rtl/bus/system_bus.sv with the rom.sv and ram.sv it contains: a bus     *)
(* with one outstanding transaction.  A request is captured in IDLE,       *)
(* performed by the selected memory or device at the edge that leaves      *)
(* MEMORY, and answered in RESPONSE.                                       *)
(*                                                                         *)
(* image is the raw program image; rom.sv is loaded with the words that    *)
(* rtl/tools/bin_to_mem.py makes of it.                                    *)
(***************************************************************************)
EXTENDS TimerMmio, Mmio, Sequences

CONSTANTS
  Images,        \* the program images that may be loaded
  PowerUpWords   \* what memory cells without a reset may hold at power-up

VARIABLES
  bus_state,
  pending,       \* the captured request: access, addr, wdata
  image,
  rom_read_data,
  ram, ram_read_data

memoryVars == <<image, rom_read_data, ram, ram_read_data>>
busVars == <<bus_state, pending, memoryVars, timerVars, mmioVars>>

Request == [access : BusAccess, addr : Word, wdata : Word]

RequestOf(access, addr, wdata) ==
  [access |-> access, addr |-> addr, wdata |-> wdata]

\* convert_image accepts whole words only, and at most the ROM's capacity.
ASSUME ImagesFit ==
  \A m \in Images : /\ m \in Seq(Byte)
                    /\ Len(m) % 4 = 0
                    /\ Len(m) <= 4 * ROM_WORD_COUNT

ASSUME PowerUpIsWords == PowerUpWords \subseteq Word

\* Every register of the bus, the memories and the devices keeps its width.
BusTypeOK ==
  /\ bus_state \in {"IDLE", "MEMORY", "RESPONSE"}
  /\ pending \in Request
  /\ image \in Seq(Byte)
  /\ rom_read_data \in Word
  /\ ram \in [0 .. RAM_WORD_COUNT - 1 -> Word]
  /\ ram_read_data \in Word
  /\ TimerTypeOK
  /\ MmioTypeOK

\* ROM and RAM have no reset: their contents survive one, and each RAM cell
\* and each read register powers up with a word of its own.
BusInit ==
  /\ bus_state = "IDLE"
  /\ pending = RequestOf("FETCH", Zero, Zero)
  /\ image \in Images
  /\ rom_read_data \in PowerUpWords
  /\ ram \in [0 .. RAM_WORD_COUNT - 1 -> PowerUpWords]
  /\ ram_read_data \in PowerUpWords
  /\ TimerInit
  /\ MmioInit

------------------------------------------------------------------------------
\* The .memh word i of an image: little-endian, zero beyond its end.
RomWord(i) ==
  IF 4 * i + 4 <= Len(image)
    THEN W(image[4 * i + 4] * 256 + image[4 * i + 3],
           image[4 * i + 2] * 256 + image[4 * i + 1])
    ELSE Zero

Misaligned(a) == a.lo % 4 # 0

\* The address decode of a request; the windows are disjoint.
WindowOf(a) ==
  CASE ULeq(a, ROM_LAST)                     -> "ROM"
    [] InWindow(a, RAM_BASE, RAM_LAST)       -> "RAM"
    [] InWindow(a, UART_BASE, UART_LAST)     -> "UART"
    [] InWindow(a, TIMER_BASE, TIMER_LAST)   -> "TIMER"
    [] InWindow(a, GPIO_BASE, GPIO_LAST)     -> "GPIO"
    [] InWindow(a, DEBUG_BASE, DEBUG_LAST)   -> "DEBUG"
    [] OTHER                                 -> "NO_REGION"

RegionOf(a) == IF Misaligned(a) THEN "NO_REGION" ELSE WindowOf(a)

FaultOf(access, a) ==
  LET region == RegionOf(a)
  IN  CASE Misaligned(a) -> "MISALIGNED"
        [] region = "ROM" -> IF access = "WRITE" THEN "READ_ONLY" ELSE "NONE"
        [] region \in {"RAM", "UART", "TIMER", "GPIO", "DEBUG"} ->
             IF access = "FETCH" THEN "NON_EXECUTABLE" ELSE "NONE"
        [] OTHER ->
             IF access = "FETCH" /\ InWindow(a, STM32_BASE, STM32_LAST)
               THEN "NON_EXECUTABLE" ELSE "UNMAPPED"

pending_fault  == FaultOf(pending.access, pending.addr)
pending_region == RegionOf(pending.addr)

\* pending_addr[15:2] and pending_addr[3:0].
word_address    == pending.addr.lo \div 4
register_offset == pending.addr.lo % 16

\* Mutant: the enables are raised one cycle late.
Performs_Late(region, access) ==
  /\ bus_state = "RESPONSE"
  /\ pending_region = region
  /\ pending_fault = "NONE"
  /\ pending.access = access

Performs(region, access) ==
  /\ bus_state = "MEMORY"
  /\ pending_region = region
  /\ pending_fault = "NONE"
  /\ pending.access = access

read_enable(region)  == Performs(region, "READ")
write_enable(region) == Performs(region, "WRITE")

response_ready == bus_state = "RESPONSE"
response_fault == IF response_ready THEN pending_fault ELSE "NONE"
response_rdata ==
  IF ~response_ready \/ pending_fault # "NONE" THEN Zero
  ELSE CASE pending_region = "ROM"   -> rom_read_data
         [] pending_region = "RAM"   -> ram_read_data
         [] pending_region = "UART"  -> uart_read_data
         [] pending_region = "TIMER" -> timer_read_data
         [] pending_region = "GPIO"  -> gpio_read_data
         [] pending_region = "DEBUG" -> debug_read_data

------------------------------------------------------------------------------
\* Clock edges.

\* rom.sv and ram.sv ignore reset.
RamNext ==
  IF write_enable("RAM") THEN [ram EXCEPT ![word_address] = pending.wdata]
                         ELSE ram

MemoryEdge ==
  /\ rom_read_data' = IF read_enable("ROM") \/ Performs("ROM", "FETCH")
                        THEN RomWord(word_address) ELSE rom_read_data
  /\ ram' = RamNext
  /\ ram_read_data' = IF read_enable("RAM") THEN ram[word_address]
                                            ELSE ram_read_data
  /\ UNCHANGED image

DeviceEdge(tick, gpio_input) ==
  LET offset == register_offset
      wdata  == pending.wdata
  IN  /\ TimerEdge(tick, read_enable("TIMER"), write_enable("TIMER"),
                   offset, wdata)
      /\ UartEdge(read_enable("UART"), write_enable("UART"), offset, wdata)
      /\ GpioEdge(read_enable("GPIO"), write_enable("GPIO"), offset, wdata,
                  gpio_input)
      /\ DebugEdge(read_enable("DEBUG"), write_enable("DEBUG"), offset,
                   wdata)

BusReset ==
  /\ bus_state' = "IDLE"
  /\ pending' = RequestOf("FETCH", Zero, Zero)
  /\ MemoryEdge
  /\ TimerReset
  /\ UartReset
  /\ GpioReset
  /\ DebugReset

CaptureRequest(valid, request) ==
  /\ bus_state = "IDLE"
  /\ valid
  /\ pending' = request
  /\ bus_state' = "MEMORY"

NoRequest(valid) ==
  /\ bus_state = "IDLE"
  /\ ~valid
  /\ UNCHANGED <<bus_state, pending>>

\* Mutant: a request that faults is never answered.
AccessMemory_NoFaultResponse ==
  /\ bus_state = "MEMORY"
  /\ bus_state' = IF pending_fault = "NONE" THEN "RESPONSE" ELSE "MEMORY"
  /\ UNCHANGED pending

AccessMemory ==
  /\ bus_state = "MEMORY"
  /\ bus_state' = "RESPONSE"
  /\ UNCHANGED pending

\* Mutant: the request that is still asserted is taken once more.
FinishResponse_Recaptures ==
  /\ bus_state = "RESPONSE"
  /\ bus_state' = "MEMORY"
  /\ UNCHANGED pending

FinishResponse ==
  /\ bus_state = "RESPONSE"
  /\ bus_state' = "IDLE"
  /\ UNCHANGED pending

\* One edge outside reset.
BusEdge(valid, request, tick, gpio_input) ==
  /\ \/ CaptureRequest(valid, request)
     \/ NoRequest(valid)
     \/ AccessMemory
     \/ FinishResponse
  /\ MemoryEdge
  /\ DeviceEdge(tick, gpio_input)
=============================================================================
