SPECIFICATION Spec
CONSTANTS
  Chunks = 3
  MaxOutput = 2
CHECK_DEADLOCK FALSE
INVARIANT CapHolds
