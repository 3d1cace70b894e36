CONSTANTS
  p1 = p1
  p2 = p2
  k1 = k1
  None = None
  Posts = {p1}
  Closers = {k1}
  MaxSockets = 3
  InitialBackoff = 2
  MaxBackoff = 7
  SeriesCap = 4
SPECIFICATION FairSpec
INVARIANTS
  SocketLifetime
  BackoffLaw
PROPERTIES
  NothingPublishedAfterClose
  DeadSocketAnswers
  CloseStops
CHECK_DEADLOCK FALSE
