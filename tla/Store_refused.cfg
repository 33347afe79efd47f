SPECIFICATION Spec
CONSTANTS
  Threshold = 2
  MaxLevel = 2
  MaxPasses = 2
  Roles = {"server"}
  Faults = {"crash"}
  RecallLimit = 2
  MaxNow = 3
  MaxOpens = 2
INVARIANT AlwaysOpens
CHECK_DEADLOCK FALSE
