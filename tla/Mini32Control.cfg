CONSTANTS
  ROM_WORD_COUNT = 5
  RAM_WORD_COUNT = 2
  Images <- ControlImages
  PowerUpWords <- OnePowerUpWord
  GpioInputs <- MCGpioInputs
SPECIFICATION FairSpec
PROPERTIES
  ImplementsGolden
  NeverHangs
