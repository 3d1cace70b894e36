CONSTANTS
  a = a
  b = b
  c = c
  f = f
  g = g
  kf = kf
  k1 = k1
  None = None
  FeedOf <- MCFeedOf
  KeyOf <- MCKeyOf
  InitialBackoff = 1
  MaxBackoff = 1
  SeriesCap = 0
  Watches = {a, b, c}
  Feeds = {f, g}
  Active = {f, g}
  Keys = {kf}
  Resets = {a, c}
  Closers = {}
  MaxSockets = 2
SPECIFICATION Spec
INVARIANTS
  ServedAsRegistered
  OneFeedPerKey
  NoMixedConnections
  AtMostOneLatePush
CHECK_DEADLOCK FALSE
