SPECIFICATION Spec
CONSTANTS
  r1 = r1
  r2 = r2
  m1 = m1
  u1 = u1
  Requests <- MCRequests
  Scrapers = {m1}
  Unauthorized = {u1}
INVARIANTS
  TypeOK
  CountersAddUp
  ScrapeShowsNoGhosts
  ExitIsGraceful
PROPERTY
  SignalEndsProcess
CHECK_DEADLOCK FALSE
