SPECIFICATION Spec
CONSTANTS
  a = a
  b = b
  x = x
  Names <- MCNames
  Empty = Empty
  NoName = NoName
  Defaults <- MCDefaults
  CacheOn = TRUE
  MaxPairs = 3
  MaxMissed = 2
INVARIANTS
  TypeOK
  ChatsGoWhereConfigured
  OfferedIsUsable
  ReplyLeadsBack
CHECK_DEADLOCK FALSE
