SPECIFICATION Spec
CONSTANTS
  Procs = {"p", "q"}
  Sessions = {"s", "t"}
  Names = {"a", "b"}
  MaxPicks = 2
  MaxWrites = 3
  MaxTears = 1
  Requests <- AskedFor
  GroupStarts = {"g", "h"}
  MaxRows = 5
  Callers = {"a", "b"}
  MaxLines = 6
  MaxAsks = 1
  MaxDeltas = 2
  CallIds = {"c", "d"}
  MaxBlocks = 3
  LongOutput = 1
  RingBytes = 2
  MaxOutput = 3
  MaxTyped = 1
  PersonTexts <- UserTexts
  RepositoryTexts <- ProjectTexts
  MaxEdits = 2
  MaxChanges = 2
  MaxTurns = 1
  MaxLives = 2
  Tabs = {"a"}
  TabSaves = 2
  TabWindows = 2
  Providers = {"p", "q"}
  PageSaves = 1
  MaxCaptures = 1
  MaxAccidents = 1
  HostedRows = 1
  HostedSlots = {1, 2}
  HostedProcs = 3
  HostedWindows = 2
INVARIANTS
  TypeOK
  RecordsAreKept
  NobodyIsForgotten
  ViewsAreTrue
PROPERTIES
  NothingIsTakenBack
CHECK_DEADLOCK FALSE
