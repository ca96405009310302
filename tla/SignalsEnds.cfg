SPECIFICATION Spec
CONSTANTS
  MaxOutput = 6
  MaxChunk = 3
  MaxKept = 5
INVARIANTS
  SignalsAreFound
CHECK_DEADLOCK FALSE
