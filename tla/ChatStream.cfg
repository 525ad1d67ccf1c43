SPECIFICATION Spec
CONSTANTS
  Retry = 2
  MaxErrors = 2
  MaxLines = 2
  MaxBeats = 2
INVARIANTS
  TypeOK
  WriterHandedBack
  ConnectedClientIsTold
PROPERTIES
  FollowsProtocol
  StreamEnds
CHECK_DEADLOCK FALSE
