CONSTANTS
  DEPTH = 3
  Data = {1, 2}
  PowerUpData = {1, 2}
SPECIFICATION RingSpec
INVARIANTS
  RingTypeOK
  PointersAgree
PROPERTY
  ImplementsQueue
