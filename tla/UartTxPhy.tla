------------------------------ MODULE UartTxPhy -----------------------------
(***************************************************************************)
(* rtl/phy/uart_tx_phy.sv: the 8N1 serial transmitter.                     *)
(***************************************************************************)
EXTENDS Word32

CONSTANTS CLOCK_HZ, BAUD_RATE

ASSUME ClockAssumption == CLOCK_HZ \in Nat \ {0} /\ BAUD_RATE \in Nat \ {0}

VARIABLES phy_state, baud_count, bit_index, latched_data

phyVars == <<phy_state, baud_count, bit_index, latched_data>>

\* The nearest integer divider, at least one.
CLKS_PER_BIT ==
  LET rounded == (CLOCK_HZ + (BAUD_RATE \div 2)) \div BAUD_RATE
  IN  IF rounded < 1 THEN 1 ELSE rounded

\* The baud counter stays below CLKS_PER_BIT, the bit index below 8.
PhyTypeOK ==
  /\ phy_state \in {"IDLE", "START", "DATA", "STOP"}
  /\ baud_count \in 0 .. CLKS_PER_BIT - 1
  /\ bit_index \in 0 .. 7
  /\ latched_data \in 0 .. 255

PhyInit ==
  /\ phy_state = "IDLE"
  /\ baud_count = 0
  /\ bit_index = 0
  /\ latched_data = 0

PhyReset ==
  /\ phy_state' = "IDLE"
  /\ baud_count' = 0
  /\ bit_index' = 0
  /\ latched_data' = 0

tx_ready == phy_state = "IDLE"

\* Mutant: the stop bit is driven low.
tx_LowStop == CASE phy_state \in {"START", "STOP"} -> 0
                [] phy_state = "DATA" ->
                     (latched_data \div Pow2(bit_index)) % 2
                [] OTHER -> 1

tx == CASE phy_state = "START" -> 0
        [] phy_state = "DATA"  -> (latched_data \div Pow2(bit_index)) % 2
        [] OTHER               -> 1

PhyIdle(tx_valid) ==
  /\ phy_state = "IDLE"
  /\ ~tx_valid
  /\ baud_count' = 0
  /\ bit_index' = 0
  /\ UNCHANGED <<phy_state, latched_data>>

PhyAccept(tx_valid, tx_data) ==
  /\ phy_state = "IDLE"
  /\ tx_valid
  /\ baud_count' = 0
  /\ bit_index' = 0
  /\ latched_data' = tx_data
  /\ phy_state' = "START"

PhyHoldBit ==
  /\ phy_state # "IDLE"
  /\ baud_count # CLKS_PER_BIT - 1
  /\ baud_count' = baud_count + 1
  /\ UNCHANGED <<phy_state, bit_index, latched_data>>

\* Mutant: STOP is not left.
StateAfterBit_StuckStop ==
  CASE phy_state = "START" -> "DATA"
    [] phy_state = "DATA"  -> IF bit_index = 7 THEN "STOP" ELSE "DATA"
    [] OTHER               -> "STOP"

StateAfterBit ==
  CASE phy_state = "START" -> "DATA"
    [] phy_state = "DATA"  -> IF bit_index = 7 THEN "STOP" ELSE "DATA"
    [] OTHER               -> "IDLE"

\* Mutant: bit_index runs on at the end of the byte.
BitIndexAfterBit_NoWrap ==
  IF phy_state = "DATA" THEN bit_index + 1 ELSE bit_index

BitIndexAfterBit ==
  IF phy_state # "DATA" THEN bit_index
  ELSE IF bit_index = 7 THEN 0 ELSE bit_index + 1

PhyNextBit ==
  /\ phy_state # "IDLE"
  /\ baud_count = CLKS_PER_BIT - 1
  /\ baud_count' = 0
  /\ phy_state' = StateAfterBit
  /\ bit_index' = BitIndexAfterBit
  /\ UNCHANGED latched_data

PhyEdge(tx_valid, tx_data) ==
  \/ PhyIdle(tx_valid)
  \/ PhyAccept(tx_valid, tx_data)
  \/ PhyHoldBit
  \/ PhyNextBit
=============================================================================
