CONSTANTS
  a = a
  b = b
  c = c
  f = f
  g = g
  kf = kf
  k1 = k1
  None = None
  FeedOf <- MCFeedOf
  KeyOf <- MCKeyOf
  InitialBackoff = 1
  MaxBackoff = 1
  SeriesCap = 0
  Watches = {a, b}
  Feeds = {f}
  Active = {f}
  Keys = {kf}
  Resets = {a, b}
  Closers = {}
  MaxSockets = 1
SPECIFICATION Spec
INVARIANT RegisteredIsServed
CHECK_DEADLOCK FALSE
