SPECIFICATION SpecAccount
CONSTANTS
  Ops = {k1}
  Coins = {btc, eth, pair}
  Owned = {btc, eth}
  AnyCoin = AnyCoin
  MaxOrders = 2
  MaxTime = 1
  MaxSize = 2
INVARIANTS
  CancelAllComplete
  CancelsOnlyAsked
PROPERTIES
  CloseNeverFlips
CHECK_DEADLOCK FALSE
