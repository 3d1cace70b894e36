CONSTANTS
  a = a
  b = b
  c = c
  f = f
  g = g
  kf = kf
  k1 = k1
  None = None
  FeedOf <- MCFeedOf
  KeyOf <- MCKeyOf
  InitialBackoff = 1
  MaxBackoff = 1
  SeriesCap = 0
  Watches = {a, b}
  Feeds = {f}
  Active = {}
  Keys = {kf}
  Resets = {a}
  Closers = {k1}
  MaxSockets = 2
SPECIFICATION FairSpec
PROPERTIES
  EventuallyServed
  Recovers
CHECK_DEADLOCK FALSE
