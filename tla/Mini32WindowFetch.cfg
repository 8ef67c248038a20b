CONSTANTS
  ROM_WORD_COUNT = 5
  RAM_WORD_COUNT = 2
  Images <- WindowImages
  PowerUpWords <- OnePowerUpWord
  GpioInputs <- MCGpioInputs
SPECIFICATION Spec
INVARIANT
  FetchFaultAsGolden
