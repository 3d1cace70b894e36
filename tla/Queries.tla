------------------------------- MODULE Queries -------------------------------
(***************************************************************************)
(* The info requests (internal/domain/info.go) and the subscriptions       *)
(* (internal/domain/streams.go) as functions from the caller's arguments   *)
(* to the JSON tree that is sent, and the routing of the pushes that come  *)
(* back (internal/ws/protocol.go).                                         *)
(*                                                                         *)
(* An ask is a record of arguments whose op names the function; what a     *)
(* function does not take is at its zero value.  A route key is the        *)
(* sequence of the parts the code joins with ":" and ",".                  *)
(***************************************************************************)
EXTENDS Trading

CONSTANTS
  UnsafeTexts,   \* names that JSON would have to escape
  Dex            \* the section's dex, "" for the first one

safeText(s) == s \notin UnsafeTexts
requireText(s) == s # "" /\ safeText(s)      \* requireUser, requireCoin

Accept(ok, body) == IF ok THEN [ok |-> TRUE, body |-> body] ELSE Rejected

(***************************************************************************)
(* Info requests.                                                          *)
(***************************************************************************)
\* Mutant: a mantissa is looked at only by its own range.
L2BookOptionsLoose(q) ==
  /\ q.nSigFigs \in {0} \cup 2 .. 5
  /\ q.mantissa \in {0, 1, 2, 5}

validateL2BookOptions(q) ==
  /\ q.nSigFigs \in {0} \cup 2 .. 5
  /\ q.mantissa # 0 => q.nSigFigs = 5 /\ q.mantissa \in {1, 2, 5}

L2BookParams(q) ==
  If(q.nSigFigs # 0, At("nSigFigs", JNum(q.nSigFigs))
                     \o If(q.mantissa # 0, At("mantissa", JNum(q.mantissa))))

L2Book(q) ==
  Accept(requireText(q.coin) /\ validateL2BookOptions(q),
         Typed("l2Book", At("coin", JStr(q.coin)) \o L2BookParams(q)))

dexBody(type) == Typed(type, At("dex", JStr(Dex)))

AllMids(q) == Accept(TRUE, dexBody("allMids"))

CandleSnapshot(q) ==
  Accept(requireText(q.coin) /\ requireText(q.interval) /\ q.start =< q.end,
         Typed("candleSnapshot",
               At("req", Obj(At("coin", JStr(q.coin)) \o At("interval", JStr(q.interval))
                             \o At("startTime", JNum(q.start))
                             \o At("endTime", JNum(q.end))))))

userDexBody(type, user) == Typed(type, At("user", JStr(user)) \o At("dex", JStr(Dex)))
userBody(type, user) == Typed(type, At("user", JStr(user)))

OpenOrders(q) ==
  Accept(requireText(q.user), userDexBody("frontendOpenOrders", q.user))

\* The cloid when it is set, the oid otherwise.
OrderStatus(q) ==
  Accept(requireText(q.user) /\ (q.oid # 0 \/ IsSet(q.cloid)),
         Typed("orderStatus", At("user", JStr(q.user))
                 \o At("oid", IF IsSet(q.cloid) THEN JStr(q.cloid) ELSE JNum(q.oid))))

Aggregated(q) == If(q.flag, At("aggregateByTime", JFlag(TRUE)))

UserFills(q) ==
  Accept(requireText(q.user),
         Typed("userFills", At("user", JStr(q.user)) \o Aggregated(q)))

UserFillsByTime(q) ==
  Accept(requireText(q.user),
         Typed("userFillsByTime",
               At("user", JStr(q.user)) \o At("startTime", JNum(q.start))
               \o If(q.end # 0, At("endTime", JNum(q.end))) \o Aggregated(q)))

UserRateLimit(q) == Accept(requireText(q.user), userBody("userRateLimit", q.user))
UserRole(q) == Accept(requireText(q.user), userBody("userRole", q.user))
ClearinghouseState(q) ==
  Accept(requireText(q.user), userDexBody("clearinghouseState", q.user))
PerpMetaOf(q) == Accept(TRUE, dexBody("meta"))
PerpMetaAndAssetCtxs(q) == Accept(TRUE, dexBody("metaAndAssetCtxs"))

(***************************************************************************)
(* Subscriptions: the payload and the route key.                           *)
(***************************************************************************)
RouteKey(type, discriminator) ==
  IF discriminator = "" THEN <<type>> ELSE <<type, discriminator>>

Watching(ok, key, payload) ==
  IF ok THEN [ok |-> TRUE, key |-> key, body |-> payload] ELSE Rejected

WatchL2Book(q) ==
  Watching(requireText(q.coin) /\ validateL2BookOptions(q),
           RouteKey("l2Book", q.coin),
           Typed("l2Book", At("coin", JStr(q.coin)) \o L2BookParams(q)
                           \o If(q.flag, At("fast", JFlag(TRUE)))))

coinPayload(type, coin) == Typed(type, At("coin", JStr(coin)))
WatchCoin(type, q) ==
  Watching(requireText(q.coin), RouteKey(type, q.coin), coinPayload(type, q.coin))

WatchBBO(q) == WatchCoin("bbo", q)
WatchTrades(q) == WatchCoin("trades", q)
WatchPerpAssetCtx(q) == WatchCoin("activeAssetCtx", q)

\* Mutant: the candles of a coin share a key.
CandleKeyShort(q) == RouteKey("candle", q.coin)
CandleKey(q) == RouteKey("candle", q.coin) \o <<q.interval>>

WatchCandles(q) ==
  Watching(requireText(q.coin) /\ requireText(q.interval), CandleKey(q),
           Typed("candle", At("coin", JStr(q.coin)) \o At("interval", JStr(q.interval))))

WatchOrderUpdates(q) ==
  Watching(requireText(q.user), RouteKey("orderUpdates", ""),
           userBody("orderUpdates", q.user))

WatchClearinghouseState(q) ==
  Watching(requireText(q.user), RouteKey("clearinghouseState", Dex),
           userDexBody("clearinghouseState", q.user))

WatchUserFills(q) ==
  Watching(requireText(q.user), RouteKey("userFills", ""),
           Typed("userFills", At("user", JStr(q.user)) \o Aggregated(q)))

(***************************************************************************)
(* Pushes.  The data of a push are the fields that routing looks at; a     *)
(* field that is not there reads as "".                                    *)
(***************************************************************************)
GetString(data, field) == IF field \in DOMAIN data THEN data[field] ELSE ""

pushRouteKey(push) ==
  CASE push.channel \in {"l2Book", "bbo", "activeAssetCtx", "activeAssetData"} ->
         <<push.channel, GetString(push.data, "coin")>>
    [] push.channel = "activeSpotAssetCtx" ->
         <<"activeAssetCtx", GetString(push.data, "coin")>>
    [] push.channel = "trades" ->
         <<"trades", IF push.items = <<>> THEN "" ELSE GetString(push.items[1], "coin")>>
    [] push.channel = "candle" ->
         <<"candle", GetString(push.data, "s"), GetString(push.data, "i")>>
    [] push.channel = "user" -> <<"userEvents">>
    [] push.channel \in {"clearinghouseState", "openOrders"} ->
         RouteKey(push.channel, GetString(push.data, "dex"))
    [] push.channel \in {"orderUpdates", "userFills"} -> <<push.channel>>

(***************************************************************************)
(* The section in front (perpetuals): coins are looked up first, and the   *)
(* account is the client's own.                                            *)
(***************************************************************************)
CoinOps == {"getOrderBook", "getCandles", "watchOrderbook", "watchBBO", "watchTrades",
            "watchCandles", "watchAssetCtx"}

\* MarketDataClient, and the loader of the registry.
MarketFetched(q) ==
  CASE q.op = "getOrderBook"        -> L2Book(q)
    [] q.op = "getMids"             -> AllMids(q)
    [] q.op = "getCandles"          -> CandleSnapshot(q)
    [] q.op = "getAssetContexts"    -> PerpMetaAndAssetCtxs(q)
    [] q.op = "loadAssets"          -> PerpMetaOf(q)

\* AccountClient, and the queries of TradingClient.
AccountFetched(q) ==
  CASE q.op = "getOpenOrders"       -> OpenOrders(q)
    [] q.op = "getOrderStatus"      -> OrderStatus(q)
    [] q.op = "getAccountState"     -> ClearinghouseState(q)
    [] q.op = "getUserFills"        -> UserFills(q)
    [] q.op = "getUserFillsByTime"  -> UserFillsByTime(q)
    [] q.op = "getUserRateLimit"    -> UserRateLimit(q)
    [] q.op = "getUserRole"         -> UserRole(q)

\* StreamClient.
Watched(q) ==
  CASE q.op = "watchOrderbook"    -> WatchL2Book(q)
    [] q.op = "watchBBO"          -> WatchBBO(q)
    [] q.op = "watchTrades"       -> WatchTrades(q)
    [] q.op = "watchCandles"      -> WatchCandles(q)
    [] q.op = "watchAssetCtx"     -> WatchPerpAssetCtx(q)
    [] q.op = "watchOrderUpdates" -> WatchOrderUpdates(q)
    [] q.op = "watchUserFills"    -> WatchUserFills(q)
    [] q.op = "watchAccountState" -> WatchClearinghouseState(q)

MarketFetches == {"getOrderBook", "getMids", "getCandles", "getAssetContexts",
                  "loadAssets"}
Fetches == MarketFetches \cup
           {"getOpenOrders", "getOrderStatus", "getAccountState", "getUserFills",
            "getUserFillsByTime", "getUserRateLimit", "getUserRole"}
Watches == {"watchOrderbook", "watchBBO", "watchTrades", "watchCandles", "watchAssetCtx",
            "watchOrderUpdates", "watchUserFills", "watchAccountState"}

\* What a section's function makes of its arguments.
Asked(q) ==
  IF q.op \in CoinOps /\ ~ Resolves(q.coin) THEN Rejected
  ELSE IF q.op \in Watches THEN Watched(q)
  ELSE IF q.op \in MarketFetches THEN MarketFetched(q) ELSE AccountFetched(q)
=============================================================================
