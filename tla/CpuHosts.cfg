CONSTANTS
  ROM_WORD_COUNT = 5
  RAM_WORD_COUNT = 2
  Images <- MCImages
  GpioInputs <- MCGpioInputs
  Commands <- MCCommands
  kDefaultInstructionLimit = 7
  EmbedderImages <- MCEmbedderImages
  MaxRetired = 8
  MaxResets = 1
CHECK_DEADLOCK FALSE
SPECIFICATION HostSpec
INVARIANT
  ExitCodeTellsOutcome
PROPERTIES
  TicksImplementStep
  AlwaysExits
