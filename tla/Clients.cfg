SPECIFICATION FairSpec
CONSTANTS
  t1 = t1
  t2 = t2
  t3 = t3
  Callers = {t1, t2, t3}
  Hasty = {t3}
  Clients = 2
  Guarded = {1}
  Threshold = 2
  HalfOpenMax = 2
  MaxRetries = 1
INVARIANT TypeOK
INVARIANT Trips
INVARIANT Paced
INVARIANT LastResort
PROPERTY Recovers
PROPERTY Settles
