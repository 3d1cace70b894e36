SPECIFICATION SpecPushes
CONSTANTS
  Callers = {w}
  Ticker = auto
  Free = Free
  MaxMeta = 1
  Watcher = w
  PushCoins = {1}
  Oids = {1}
  Opts = {cloid1}
  MaxLen = 1
  Absent = Absent
  Unset = Unset
INVARIANTS
  FullState
