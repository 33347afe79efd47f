SPECIFICATION Spec
CONSTANTS
  Threshold = 2
  MaxLevel = 2
  MaxPasses = 2
  Roles = {"server", "force", "rebuild"}
  Faults = {"crash", "write", "fsync", "flush"}
  RecallLimit = 2
  MaxNow = 5
  MaxOpens = 3
INVARIANT TypeOK
INVARIANT NothingHidden
INVARIANT AckedRecallable
INVARIANT Chronological
INVARIANT ProvenanceSound
INVARIANT DeltaComplete
CHECK_DEADLOCK FALSE
