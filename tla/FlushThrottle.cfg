SPECIFICATION ThrottleSpec
CONSTANTS
  s1 = s1
  s2 = s2
  Streams = {s1, s2}
  MinFlush = 1
  Heartbeat = 3
  MaxTime = 6
  None = None
INVARIANTS
  ThrottleTypeOK
  ChunksWaitAtMostABeat
PROPERTY
  HoldsFollowFlush
CHECK_DEADLOCK FALSE
