CONSTANTS
  ROM_WORD_COUNT = 9
  RAM_WORD_COUNT = 1
  Images <- MCImages
  PowerUpWords <- MCPowerUpWords
  GpioInputs <- MCGpioInputs
  DEPTH = 2
  Data <- MCData
  PowerUpData <- MCPowerUpData
  CLOCK_HZ = 3
  BAUD_RATE = 1
  MaxPresses = 2
  Message <- MCMessage
  FinalLeds <- MCFinalLeds
SPECIFICATION BoardSpec
INVARIANT
  DarkLed5MeansNoLoss
PROPERTY
  MessageAgain
