SPECIFICATION Spec
CONSTANTS
  MaxAppends = 5
  MaxLives = 3
INVARIANTS
  TruncationIsNoticed
CHECK_DEADLOCK FALSE
