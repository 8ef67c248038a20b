CONSTANTS
  ROM_WORD_COUNT = 5
  RAM_WORD_COUNT = 2
  Images <- DataImages
  PowerUpWords <- TwoPowerUpWords
  GpioInputs <- MCGpioInputs
SPECIFICATION Spec
INVARIANTS
  TypeOK
  PendingIsCurrentRequest
  NoTickDuringAccess
  ResponseIsCurrent
PROPERTIES
  StoppedIsQuiet
  ImplementsGolden
