SPECIFICATION Spec
CONSTANTS
  Threshold = 3
  MaxLevel = 2
  MaxPasses = 3
  Roles = {"server", "force", "rebuild"}
  Faults = {}
  RecallLimit = 2
  MaxNow = 10
  MaxOpens = 4
INVARIANT AlwaysOpens
INVARIANT PyramidBounded
PROPERTY ForceComplete
CHECK_DEADLOCK FALSE
