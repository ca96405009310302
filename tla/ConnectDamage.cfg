SPECIFICATION Spec
CONSTANTS
  Providers = {"p", "q"}
  MaxSaves = 1
  MaxCaptures = 1
  MaxAccidents = 1
PROPERTIES
  DamageKeepsTheKeys
CHECK_DEADLOCK FALSE
