CONSTANTS
  ROM_WORD_COUNT = 6
  RAM_WORD_COUNT = 2
  Images <- MCImages
  PowerUpWords <- MCPowerUpWords
  GpioInputs <- MCGpioInputs
  MaxInstructions = 8
  MAX_CYCLES = 44
  UartCapacity = 2
SPECIFICATION DiffSpec
INVARIANTS
  TracesAgree
  OnlyABoundFails
  PassIsEarned
  ReferenceReplays
  ReferenceIsComplete
