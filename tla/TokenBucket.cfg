SPECIFICATION Spec
CONSTANTS
  r1 = r1
  r2 = r2
  r3 = r3
  r4 = r4
  Requests <- MCRequests
  Unit = 2
  Rate = 1
  Burst = 2
  Poll = 1
  MaxTime = 6
SYMMETRY Interchangeable
INVARIANTS
  TypeOK
  WindowBound
  BucketIsTightest
  CallsAccounted
PROPERTY
  ImplementsWindow
CHECK_DEADLOCK FALSE
