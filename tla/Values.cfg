SPECIFICATION Spec
CONSTANTS
  FixedDecimals = 2
  MaxSignificantFigures = 1
  MaxInt = 1023
  FixedMaxFloat = 900
  NoCloid = NoCloid
  c0 = c0
  c1 = c1
  c2 = c2
  c3 = c3
  Coins = {c1, c2, c3}
  Uint32Range = 4
  AssetOf <- MCAssetOf
  Precisions <- MCPrecisions
  Digits = {0, 1, 2, 5, 10}
  Slips <- MCSlips
  Fillers = {0, 255}
  Bytes = {0, 1, 127, 128, 223, 224, 255}
  Lengths = {0, 1, 15, 16, 31, 32, 255, 256, 65535, 65536}
  Cloids <- MCCloids
  Chars = {7, 16, 17}
  Requests <- MCRequests
  GoodRequest <- MCGoodRequest
  OrderOptions <- MCOrderOptions
  Ids <- MCIds
  Asks <- MCAsks
  UnsafeTexts = {"bad", c3}
  Dex = ""
  Configs <- MCConfigs
  Settings = {"ReadTimeout", "PingInterval", "AssetRefreshInterval"}
  DefaultOf <- MCDefaultOf
  NoText = NoText
  AddressOfKey <- MCAddressOfKey
INVARIANTS
  WireRoundTrip
  GridSound
  SlippageAggressive
  IntegersShortest
  SignedIsSent
  OrdersChecked
  QueriesTold
  PushesRouted
  NetworkAgrees
