SPECIFICATION Spec
CONSTANTS
  k1 = k1
  k2 = k2
  w1 = w1
  w2 = w2
  s1 = s1
  None = None
  Keys <- MCKeys
  Writers <- MCWriters
  Stoppers = {s1}
  TTL = 1
  MaxTime = 3
  MaxReads = 1
INVARIANTS
  TypeOK
  ServedWithinTTL
PROPERTY
  SweepSparesTheLiving
CHECK_DEADLOCK FALSE
