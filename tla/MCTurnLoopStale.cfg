SPECIFICATION Spec
CONSTANTS
  Menu <- MCMenu
  DenyRules <- MCDenyRules
  AllowRules <- MCAllowRules
  Unattended = "ask"
  MaxCalls = 3
  MaxBatch = 2
  MaxSteps = 2
  MaxTurns = 2
  MaxCrashes = 1
INVARIANTS
  NoStalePreview
CHECK_DEADLOCK FALSE
