CONSTANTS
  DEPTH = 2
  Data = {83, 174}
  PowerUpData = {83, 174}
  CLOCK_HZ = 3
  BAUD_RATE = 2
  MaxEvents = 5
SPECIFICATION FairSpec
INVARIANTS
  TypeOK
  LineCarriesAccepted
  NoFramingError
  OverflowIffLoss
PROPERTY
  EverythingDelivered
