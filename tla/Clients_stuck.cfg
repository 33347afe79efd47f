SPECIFICATION FairSpec
CONSTANTS
  t1 = t1
  t2 = t2
  Callers = {t1, t2}
  Hasty = {t2}
  Clients = 1
  Guarded = {1}
  Threshold = 1
  HalfOpenMax = 1
  MaxRetries = 1
PROPERTY RejectsForACooldown
