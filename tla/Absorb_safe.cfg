SPECIFICATION AbsorbSpec
CONSTANTS
  Threshold = 2
  MaxLevel = 2
  MaxPasses = 2
  Roles = {"server"}
  Faults = {"write", "fsync"}
  RecallLimit = 2
  MaxNow = 3
  MaxOpens = 2
  Sessions = {1, 2}
  MaxCells = 2
INVARIANT AckedSurvivesAbsorb
PROPERTY UnchangedOnce
CHECK_DEADLOCK FALSE
