CONSTANTS
  EXPECTED <- MCMessage
  MaxRuns = 4
CHECK_DEADLOCK FALSE
SPECIFICATION Spec
INVARIANT
  RetainedBytesAreFresh
