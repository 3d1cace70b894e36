SPECIFICATION FairPushes
CONSTANTS
  Callers = {w, k}
  Ticker = auto
  Free = Free
  MaxMeta = 2
  Watcher = w
  PushCoins = {0, 2}
  Oids = {1}
  Opts = {}
  MaxLen = 2
  Absent = Absent
  Unset = Unset
INVARIANTS
  DeliveredIsOwnPush
PROPERTIES
  SnapshotNeverOlder
  EveryCallReturns
