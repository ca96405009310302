SPECIFICATION Spec
CONSTANTS
  Models = {"m", "n"}
  FirstModel = "m"
  Window = 20
  MaxItems = 8
  MaxSwitches = 1
  MaxBytes = 6
  MaxChunk = 2
  MaxBlocks = 3
  Processes = {"p", "q"}
  Senders = {"p"}
  Tasks = {"t", "u"}
  MaxPairs = 2
  MaxFiles = 3
  MaxSaves = 2
  Commands <- ShellCommands
  Patterns <- Rules
  Strings <- Names
  MaxCalls = 2
  Kids = {"k1", "k2"}
  Limit = 5
  MaxFileBytes = 8
  MaxResults = 2
  Sessions = {"s", "t"}
  Services = {"a", "b"}
  MaxTurns = 2
  MaxAsks = 1
  MaxListings = 1
INVARIANTS
  TypeOK
  RequestsStandAlone
  AnswersArriveWhole
  CallsAreHeld
  KeptOrTold
  PersonIsInCharge
CHECK_DEADLOCK FALSE
