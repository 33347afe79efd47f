SPECIFICATION Spec
CONSTANTS
  Threshold = 2
  MaxLevel = 2
  MaxPasses = 2
  Roles = {"server", "force", "rebuild"}
  Faults = {"crash", "fsync", "flush"}
  RecallLimit = 2
  MaxNow = 5
  MaxOpens = 3
PROPERTY ImplementsCover
CHECK_DEADLOCK FALSE
