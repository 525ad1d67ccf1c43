SPECIFICATION Spec
CONSTANTS
  Retry = 2
  MaxErrors = 2
  MaxLines = 2
  MaxBeats = 1
INVARIANT
  DoneIsLast
CHECK_DEADLOCK FALSE
