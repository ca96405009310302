SPECIFICATION FairSpec
CONSTANTS
  Menu <- MCMenu
  DenyRules <- MCDenyRules
  AllowRules <- MCAllowRules
  Unattended = "ask"
  MaxCalls = 3
  MaxBatch = 2
  MaxSteps = 2
  MaxTurns = 2
  MaxCrashes = 1
INVARIANTS
  TypeOK
  AnsweredBeforeRequest
  RefusedNeverRuns
  BatchRunsInOrder
  NotAskedAgain
  RecordsLead
PROPERTIES
  RecordedAnswerIsFinal
  EditsLoseOnlyTheirBatch
  ImplementsContract
  CancelEndsTurn
  TurnEnds
CHECK_DEADLOCK FALSE
