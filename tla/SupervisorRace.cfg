SPECIFICATION Spec
CONSTANTS
  Sessions = {s1}
  Closers = {c1, c2}
  Capacity = 1
  MaxTurns = 1
  MaxQuestions = 1
  MaxCrashes = 1
PROPERTIES
  NeverRemovedUnderATurn
CHECK_DEADLOCK FALSE
