------------------------------ MODULE MCValues ------------------------------
(***************************************************************************)
(* Two-decimal numbers of an 11-bit machine (the last one is 10.23) with   *)
(* one significant figure, so that every clamp, every carry into the next  *)
(* power of ten and both ends of the range are met by every number.        *)
(***************************************************************************)
EXTENDS Values

CONSTANTS c0, c1, c2, c3     \* c0 is not in the metadata, c3 is delisted

Asset(id, sz, max, delisted, lev, iso) ==
  [id |-> id, sz |-> sz, max |-> max, delisted |-> delisted,
   maxLeverage |-> lev, onlyIsolated |-> iso]
MCAssetOf == [c \in {c1, c2, c3} |->
                CASE c = c1 -> Asset(1, 0, 2, FALSE, 3, FALSE)
                  [] c = c2 -> Asset(2, 2, 1, FALSE, 0, TRUE)
                  [] c = c3 -> Asset(3, 0, 2, TRUE, 3, FALSE)]

MCPrecisions == {[sz |-> 0, max |-> 2], [sz |-> 1, max |-> 2],
                 [sz |-> 1, max |-> 1], [sz |-> 2, max |-> 1]}
MCSlips == {[num |-> 0, den |-> 1], [num |-> 1, den |-> 8], [num |-> 3, den |-> 4],
            [num |-> 1, den |-> 1]}
MCCloids == {[i \in 1 .. 32 |-> (a * i) % 16] : a \in {0, 1, 3}}

Order(coin, px, sz, cloid, kind, tpx) ==
  [coin |-> coin, isBuy |-> TRUE, price |-> px, size |-> sz, reduceOnly |-> FALSE,
   cloid |-> cloid, isTrigger |-> kind \in {"tp", "no"}, tif |-> kind,
   triggerPrice |-> tpx, triggerIsMarket |-> TRUE, tpsl |-> kind]
MCRequests ==
  {Order(c, px, sz, id, k, tpx) :
     c \in {c0, c1, c2, c3}, px \in {0, 5, 50, 55, 300}, sz \in {0, 1, 100},
     id \in {NoCloid, "id"}, k \in {"Gtc", "bad", "tp", "no"}, tpx \in {50, 55}}
MCGoodRequest == Order(c1, 50, 100, "id", "tp", 50)

NoBuilder == [set |-> FALSE, valid |-> FALSE, address |-> "", fee |-> 0]
Builder(valid) == [set |-> TRUE, valid |-> valid, address |-> "b", fee |-> 1]
MCOrderOptions == {[grouping |-> g, builder |-> b] :
                     g \in {"", "normalTpsl", "bad"},
                     b \in {NoBuilder, Builder(TRUE), Builder(FALSE)}}
MCIds == {[oid |-> o, cloid |-> c] : o \in {0, 1}, c \in {NoCloid, "id"}}

Blank(op) == [op |-> op, coin |-> "", user |-> "", interval |-> "", start |-> 0, end |-> 0,
              oid |-> 0, cloid |-> NoCloid, nSigFigs |-> 0, mantissa |-> 0, flag |-> FALSE]
MCCoins == {"", "bad", c0, c1, c2, c3}
Users == {"", "bad", "u1", "u2"}
MCAsks ==
  {[Blank(op) EXCEPT !.coin = c, !.nSigFigs = n, !.mantissa = m] :
     op \in {"getOrderBook", "watchOrderbook"}, c \in {c1, c2},
     n \in {0, 1, 2, 5, 6}, m \in {0, 1, 3, 5}}
  \cup {[Blank("watchOrderbook") EXCEPT !.coin = c1, !.nSigFigs = n, !.flag = TRUE] : n \in {0, 5}}
  \cup {[Blank(op) EXCEPT !.coin = c] :
          op \in {"watchBBO", "watchTrades", "watchAssetCtx"}, c \in MCCoins}
  \cup {[Blank("getCandles") EXCEPT !.coin = c, !.interval = i, !.start = s, !.end = e] :
          c \in {c1, c3}, i \in {"", "1m", "1h"}, s \in 0 .. 2, e \in 0 .. 2}
  \cup {[Blank("watchCandles") EXCEPT !.coin = c, !.interval = i] :
          c \in MCCoins, i \in {"", "bad", "1m", "1h"}}
  \cup {Blank(op) : op \in {"getMids", "getAssetContexts", "loadAssets"}}
  \cup {[Blank(op) EXCEPT !.user = u] :
          op \in {"getOpenOrders", "getAccountState", "getUserRateLimit", "getUserRole",
                  "watchOrderUpdates", "watchAccountState"}, u \in Users}
  \cup {[Blank("getOrderStatus") EXCEPT !.user = u, !.oid = o, !.cloid = k] :
          u \in Users, o \in 0 .. 2, k \in {NoCloid, "k1", "k2"}}
  \cup {[Blank(op) EXCEPT !.user = u, !.flag = f] :
          op \in {"getUserFills", "watchUserFills"}, u \in Users, f \in BOOLEAN}
  \cup {[Blank("getUserFillsByTime") EXCEPT !.user = u, !.start = s, !.end = e, !.flag = f] :
          u \in {"u1", "bad"}, s \in 0 .. 1, e \in 0 .. 2, f \in BOOLEAN}

MCDefaultOf == [s \in {"ReadTimeout", "PingInterval", "AssetRefreshInterval"} |->
                  CASE s = "ReadTimeout" -> 45 [] s = "PingInterval" -> 20
                    [] s = "AssetRefreshInterval" -> 300]
MCAddressOfKey == [v \in {"key"} |-> "signer"]
Digits40(value) == {[value |-> value, length |-> 40, hex |-> TRUE],
                    [value |-> value, length |-> 40, hex |-> FALSE],
                    [value |-> value, length |-> 39, hex |-> TRUE]}
MCConfigs ==
  [testnet : BOOLEAN,
   rest    : {"", MainnetRestURL, TestnetRestURL, "https://proxy"},
   ws      : {"", MainnetWsURL, TestnetWsURL, "wss://proxy"},
   number  : {[s \in Settings |-> IF s = "ReadTimeout" THEN r
                                  ELSE IF s = "PingInterval" THEN p ELSE 0] :
                r \in {0, 20, 60}, p \in {0, 30, 60}},
   key     : {NoText} \cup {[value |-> v, length |-> n, hex |-> TRUE] :
                              v \in {"key", "zero", "overflow"}, n \in {63, 64}},
   account : {NoText} \cup Digits40("master"),
   vault   : {NoText} \cup Digits40("vault")]
=============================================================================
