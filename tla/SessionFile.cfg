SPECIFICATION Spec
CONSTANTS
  MaxAppends = 4
  MaxLives = 3
INVARIANTS
  TypeOK
  WrittenItemsStandAlone
  LossIsNoticed
  HistoryIsRead
CHECK_DEADLOCK FALSE
