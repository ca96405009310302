SPECIFICATION FairSpec
CONSTANTS
  Retries = 1
  MaxBlocks = 2
  MaxSamples = 2
  MaxIds = 6
INVARIANTS
  TypeOK
  TranscriptIsShown
PROPERTIES
  SampleReturns
CHECK_DEADLOCK FALSE
