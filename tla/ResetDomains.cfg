CONSTANTS
  Blocks = {core, bus, fifo, phy}
  MaxAge = 5
SPECIFICATION DomainFairSpec
INVARIANTS
  EveryPressResets
  BlocksStartTogether
PROPERTY
  ReleaseCompletes
