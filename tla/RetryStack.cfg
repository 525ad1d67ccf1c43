SPECIFICATION StackSpec
CONSTANTS
  RetryCount = 1
  BodyLen = 2
  Retry = 2
INVARIANTS
  StackTypeOK
  TruncationHasCause
  FallbackOrder
  TotalBudget
PROPERTY
  StackEnds
CHECK_DEADLOCK FALSE
