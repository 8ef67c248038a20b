CONSTANTS
  ROM_WORD_COUNT = 5
  RAM_WORD_COUNT = 2
  Images <- StoreImages
  PowerUpWords <- OnePowerUpWord
  GpioInputs <- MCGpioInputs
SPECIFICATION Spec
PROPERTY
  ResetDiscardsRequest
