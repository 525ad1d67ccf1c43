SPECIFICATION StackSpec
CONSTANTS
  RetryCount = 1
  BodyLen = 2
  Retry = 2
INVARIANT
  RetriesCarryBody
CHECK_DEADLOCK FALSE
