SPECIFICATION Spec
CONSTANTS
  r1 = r1
  r2 = r2
  k1 = k1
  Requests <- MCRequests
  Keys <- MCKeys
  KeyOf <- SameBody
  Retry = 2
  CacheOn = TRUE
  None = None
  Failed = Failed
  Zero = Zero
INVARIANTS
  TypeOK
  AnswersAreGenuine
  FailuresAreGenuine
  OrphansBeginAtMostOne
PROPERTIES
  EveryRequestAnswered
  WorkersEnd
CHECK_DEADLOCK FALSE
