------------------------------- MODULE Values -------------------------------
(***************************************************************************)
(* The pure functions of Numbers, Wire, Trading, Queries and Setup over     *)
(* bounded inputs.  The single variable holds the input of one call: a     *)
(* value, a text, an integer, a client order id, a trading request, a      *)
(* query or a configuration; the properties compare what the code's        *)
(* functions make of it with reference definitions written from the other  *)
(* side, the exchange's.                                                   *)
(***************************************************************************)
EXTENDS Queries, Setup

CONSTANTS
  Precisions,   \* [sz, max] pairs
  Digits,       \* digits the texts are written with
  Slips,        \* slippages [num, den]
  Fillers,      \* leading bytes of 64-bit integers
  Bytes,        \* their last three bytes
  Lengths,      \* lengths of strings, arrays and maps
  Cloids,       \* client order ids as digit sequences
  Chars,        \* characters put into one place of an id's text
  Requests,     \* order requests
  GoodRequest,  \* one of them that passes every check
  OrderOptions, \* options of PlaceOrders
  Ids,          \* [oid, cloid] references, the empty one included
  Asks,         \* arguments of queries and subscriptions
  Configs       \* configurations given to NewClient

InFourBytes(n) == n \in Nat /\ ShiftByte(ShiftByte(ShiftByte(n))) =< 255

\* Bytes are bytes, a length has four of them, an id has its 32 digits; precisions
\* are as the metadata has them, prices and sizes as Go's Fixed.
ASSUME ValuesAssumption ==
  /\ Digits \subseteq Nat /\ Cloids \subseteq [1 .. 32 -> Hex]
  /\ Fillers \subseteq 0 .. 255 /\ Bytes \subseteq 0 .. 255
  /\ \A n \in Lengths : InFourBytes(n)
  /\ \A p \in Precisions : p.sz \in Nat /\ p.max \in Int
  /\ \A s \in Slips : s.num \in Int /\ s.den \in Nat \ {0}
  /\ GoodRequest \in Requests
  /\ \A r \in Requests : r.price \in Int /\ r.size \in Int /\ r.triggerPrice \in Int

\* A configuration has the fields of Config; a text that is not empty has a
\* value, and so has the address of a key.
ASSUME ConfigAssumption ==
  \A c \in Configs :
    /\ DOMAIN c = DOMAIN DefaultConfig
    /\ c.testnet \in BOOLEAN /\ c.number \in [Settings -> Int]
    /\ \A text \in {c.account, c.vault} \ {NoText} : text.value # ""
    /\ c.key # NoText /\ IsKey(c.key) => AddressOfKey[c.key.value] # ""

\* The arguments an ask carries, the functions that take them, and the zero
\* values the other functions leave them at.
TakenBy ==
  [coin     |-> CoinOps,
   user     |-> {"getOpenOrders", "getOrderStatus", "getAccountState", "getUserFills",
                 "getUserFillsByTime", "getUserRateLimit", "getUserRole",
                 "watchOrderUpdates", "watchUserFills", "watchAccountState"},
   interval |-> {"getCandles", "watchCandles"},
   start    |-> {"getCandles", "getUserFillsByTime"},
   end      |-> {"getCandles", "getUserFillsByTime"},
   oid      |-> {"getOrderStatus"},
   cloid    |-> {"getOrderStatus"},
   nSigFigs |-> {"getOrderBook", "watchOrderbook"},
   mantissa |-> {"getOrderBook", "watchOrderbook"},
   flag     |-> {"watchOrderbook", "getUserFills", "getUserFillsByTime", "watchUserFills"}]
ZeroAsk ==
  [coin |-> "", user |-> "", interval |-> "", start |-> 0, end |-> 0, oid |-> 0,
   cloid |-> NoCloid, nSigFigs |-> 0, mantissa |-> 0, flag |-> FALSE]

ASSUME AsksAssumption ==
  \A q \in Asks :
    /\ DOMAIN q = {"op"} \cup DOMAIN TakenBy
    /\ q.op \in Fetches \cup Watches
    /\ {q.start, q.end, q.oid, q.nSigFigs, q.mantissa} \subseteq Int /\ q.flag \in BOOLEAN
    /\ \A arg \in DOMAIN TakenBy : q.op \notin TakenBy[arg] => q[arg] = ZeroAsk[arg]

VARIABLE input
vars == <<input>>

None == [kind |-> "none"]
Init == input = None

ChooseFixed == \E v \in -MaxInt .. MaxInt : input' = [kind |-> "fixed", value |-> v]

\* A point must be written before fractional digits.
Text(sign, int, dot, frac) == [sign |-> sign, int |-> int, dot |-> dot, frac |-> frac]
Upto(n) == UNION {[1 .. m -> Digits] : m \in 0 .. n}
ChooseText ==
  \E sign \in {"", "-", "+"}, int \in Upto(2), dot \in BOOLEAN, frac \in Upto(3) :
    /\ frac # <<>> => dot
    /\ input' = [kind |-> "text", text |-> Text(sign, int, dot, frac)]

ChooseInteger ==
  \E f \in Fillers, n \in 0 .. 7, low \in [1 .. 3 -> Bytes] :
    input' = [kind  |-> "integer",
              value |-> [i \in 1 .. 8 |-> IF i =< n THEN f
                                          ELSE IF i > 5 THEN low[i - 5] ELSE 0]]

ChooseLength == \E n \in Lengths : input' = [kind |-> "length", value |-> n]

\* The text of an id in either form, with any one character replaced.
ChooseId ==
  \E c \in Cloids, uuid \in BOOLEAN, ch \in Chars, prefix \in {"0x", ""} :
    LET text == IF uuid THEN UUID(c) ELSE AppendHex(c)
    IN \E at \in DOMAIN text.chars :
         input' = [kind |-> "id", digits |-> c,
                   text |-> [prefix |-> prefix,
                             chars  |-> [text.chars EXCEPT ![at] = ch]]]

ChoosePlace ==
  \/ \E r \in Requests, o \in OrderOptions :
       /\ o.grouping = "" \/ r = GoodRequest
       /\ input' = [kind |-> "place", requests |-> <<GoodRequest, r>>, options |-> o]
  \/ \E o \in OrderOptions : input' = [kind |-> "place", requests |-> <<>>, options |-> o]

ChooseModify ==
  \E r \in Requests, id \in Ids, always \in BOOLEAN :
    input' = [kind |-> "modify", alwaysPlace |-> always,
              requests |-> << [oid |-> id.oid, refCloid |-> id.cloid, order |-> r] >>]

ChooseCancel ==
  \E kind \in {"cancel", "cancelByCloid"}, ids \in [1 .. 2 -> Ids],
     coin \in {r.coin : r \in Requests}, fast \in BOOLEAN :
    input' = [kind |-> kind, fast |-> fast,
              requests |-> [i \in 1 .. 2 |-> [coin |-> coin, oid |-> ids[i].oid,
                                              cloid |-> ids[i].cloid]]]

ChooseOther ==
  \E coin \in {r.coin : r \in Requests}, n \in -1 .. 4, b \in BOOLEAN :
    input' = [kind |-> "other", coin |-> coin, n |-> n, flag |-> b]

ChooseAsk == \E q \in Asks : input' = [kind |-> "ask", ask |-> q]
ChooseConfig == \E c \in Configs : input' = [kind |-> "config", config |-> c]

Clear == input # None /\ input' = None

Next ==
  \/ /\ input = None
     /\ \/ ChooseFixed
        \/ ChooseText
        \/ ChooseInteger
        \/ ChooseLength
        \/ ChooseId
        \/ ChoosePlace
        \/ ChooseModify
        \/ ChooseCancel
        \/ ChooseOther
        \/ ChooseAsk
        \/ ChooseConfig
  \/ Clear

Spec == Init /\ [][Next]_vars

(***************************************************************************)
(* Texts.                                                                  *)
(***************************************************************************)
Canonical(text) ==
  /\ text.sign # "+"
  /\ text.dot = (text.frac # <<>>)
  /\ text.frac # <<>> => Last(text.frac) # 0
  /\ Len(text.int) > 1 => Head(text.int) # 0
  /\ text.sign = "-" => ToSet(text.int \o text.frac) # {0}

\* The value a decimal text has, as a fraction of the units of Fixed.
Numerator(text) == ValueOf(text.int \o text.frac) * Scale
Denominator(text) == pow10[Len(text.frac)]
IsDecimal(text) ==
  text.int \o text.frac # <<>> /\ ToSet(text.int \o text.frac) \subseteq 0 .. 9

ParsesExactly(text) ==
  LET num == Numerator(text)
      den == Denominator(text)
      units == num \div den
      result == Done(IF text.sign = "-" THEN -units ELSE units)
      exact == num % den = 0
  IN /\ parseFixed(text, TRUE) =
          IF IsDecimal(text) /\ exact /\ units =< MaxInt THEN result ELSE Failed
     /\ \A form \in {"quoted", "bare"} :
          UnmarshalJSON([form |-> form, text |-> text]) =
            IF IsDecimal(text) /\ units =< MaxInt THEN result ELSE Failed

\* Every number's text has no superfluous sign or zero and reads back as that
\* number; a text is read as exactly the number it says or not at all (digits
\* past the last place are cut only in received JSON); an id is read from a text
\* exactly when the text is that id's own form, up to the case of its letters
\* and of the x (cloid.go:45-78 take any).  types/fixed.go, types/cloid.go.
WireRoundTrip ==
  /\ input.kind = "fixed" =>
       /\ Canonical(AppendWire(input.value))
       /\ parseFixed(AppendWire(input.value), TRUE) = Done(input.value)
  /\ input.kind = "text" => ParsesExactly(input.text)
  /\ input.kind = "id" =>
       /\ ParseCloid(AppendHex(input.digits)) = input.digits
       /\ CloidFromUUID(UUID(input.digits)) = input.digits
       /\ IsSet(ParseCloid(input.text)) =>
            AppendHex(ParseCloid(input.text)) = input.text
       /\ IsSet(CloidFromUUID(input.text)) =>
            UUID(CloidFromUUID(input.text)) = input.text

(***************************************************************************)
(* The grids, by the exchange's rule for the text of a price or a size.    *)
(***************************************************************************)
LeadingZeros(digits) ==
  Cardinality({n \in DOMAIN digits : ToSet(SubSeq(digits, 1, n)) = {0}})

PriceTaken(p, px) ==
  LET text == AppendWire(px)
      digits == text.int \o text.frac
  IN /\ px > 0
     /\ \/ text.frac = <<>>
        \/ /\ Len(text.frac) =< p.max - p.sz
           /\ Len(digits) - LeadingZeros(digits) =< MaxSignificantFigures

SizeTaken(p, sz) == sz > 0 /\ Len(AppendWire(sz).frac) =< p.sz

\* n is v rounded to one of the values Taken accepts (or to 0), in the mode.
RoundedTo(Taken(_), v, n, mode) ==
  /\ n = 0 \/ Taken(n)
  /\ mode = "down" => n =< v
  /\ mode = "up" => n >= v
  /\ mode # "nearest" => \A m \in 1 .. MaxInt :
       (v < m /\ m < n) \/ (n < m /\ m < v) => ~ Taken(m)
  /\ mode = "nearest" => \A m \in 1 .. MaxInt :
       AbsOf(m - v) < AbsOf(n - v) => ~ Taken(m)

\* A price or size passes the local check exactly when the exchange's rule
\* takes its text, and normalising gives the next value the rule takes in the
\* asked direction, crossing a power of ten included, unless no such value
\* fits into int64 (rounding up next to its end wraps).  types/precision.go.
GridSound ==
  input.kind = "fixed" => \A p \in Precisions :
    LET v == input.value
        Price(n) == PriceTaken(p, n)
        Size(n) == SizeTaken(p, n)
    IN /\ ValidatePrice(p, v) = PriceTaken(p, v)
       /\ ValidateSize(p, v) = SizeTaken(p, v)
       /\ \A mode \in Modes : v > 0 =>
            /\ v + TickSize(p, v) =< MaxInt =>
                 RoundedTo(Price, v, NormalizePrice(p, v, mode), mode)
            /\ v + LotSize(p) =< MaxInt =>
                 RoundedTo(Size, v, NormalizeSize(p, v, mode), mode)

\* SlippagePrice is a price the exchange takes (or 0 for a sell below one
\* tick), within a tick of the price asked for, and less aggressive than it by
\* no more than half of the last decimal.  It is less aggressive at all exactly
\* where FixedFromFloat64, which rounds to the nearest unit before the grid
\* rounds away from the mid, lands on the wrong side and on the grid: there the
\* code breaks the promise of market.go:110-111, "never less aggressive than
\* requested".  perpetuals/market.go:112-141.
SlippageAggressive ==
  input.kind = "fixed" /\ input.value > 0 =>
    \A p \in Precisions, s \in Slips, isBuy \in BOOLEAN :
      LET result == SlippagePrice(p, input.value, isBuy, s)
          px == 2 * s.den * result.value
          asked == 2 * input.value * (s.den + IF isBuy THEN s.num ELSE -s.num)
          tick == 2 * s.den * TickSize(p, asked \div (2 * s.den))
          nearest == (asked + s.den) \div (2 * s.den)
          Short(x) == IF isBuy THEN x < asked ELSE x > asked
      IN result.ok =>
           /\ PriceTaken(p, result.value) \/ (~ isBuy /\ result.value = 0)
           /\ IF isBuy THEN px >= asked - s.den /\ px < asked + s.den + tick
                       ELSE px =< asked + s.den /\ px > asked - s.den - tick
           /\ Short(px) <=> Short(2 * s.den * nearest) /\ PriceTaken(p, nearest)

(***************************************************************************)
(* MessagePack integers, read back the way the format is defined.          *)
(***************************************************************************)
Extend(byte, low) == [i \in 1 .. 8 |-> IF i =< 8 - Len(low) THEN byte
                                       ELSE low[i - (8 - Len(low))]]
ReadInt(bytes) ==
  IF Len(bytes) = 1
  THEN Extend(IF bytes[1] >= 224 THEN 255 ELSE 0, bytes)
  ELSE Extend(IF bytes[1] \in Range(IntTag) /\ bytes[2] >= 128 THEN 255 ELSE 0,
              Tail(bytes))

\* Every encoding of an integer the format allows.
Encodings(v) ==
  {LowBytes(v, 1)} \cup {<<tag[n]>> \o LowBytes(v, n) :
                           tag \in {UintTag, IntTag}, n \in DOMAIN UintTag}
Shortest(v, bytes) ==
  /\ ReadInt(bytes) = v
  /\ \A other \in Encodings(v) :
       /\ other[1] =< 127 \/ other[1] >= 224 \/ Len(other) > 1
       /\ ReadInt(other) = v
       => Len(bytes) =< Len(other)

NumberOf(bytes) == InBase(256, bytes)
HeaderSound(bytes, len, fix, room) ==
  IF Len(bytes) = 1 THEN len < room /\ bytes[1] = fix + len
  ELSE /\ NumberOf(Tail(bytes)) = len
       /\ len >= room
       /\ Len(bytes) > 2 => len > 255 \/ room = 16
       /\ Len(bytes) = 5 => len > MaxUint16

\* The hash is over bytes: an integer reads back as itself and is written in
\* no more bytes than any other encoding of it, a header says its length.
\* internal/msgpack/writer.go.
IntegersShortest ==
  /\ input.kind = "integer" =>
       /\ Shortest(input.value, AppendInt(input.value))
       /\ input.value[1] < 128 => AppendUint(input.value) = AppendInt(input.value)
       /\ Extend(0, IF Len(AppendUint(input.value)) = 1 THEN AppendUint(input.value)
                    ELSE Tail(AppendUint(input.value))) = input.value
  /\ input.kind = "length" =>
       /\ HeaderSound(AppendHeader(128, 222, input.value), input.value, 128, 16)
       /\ HeaderSound(AppendHeader(144, 220, input.value), input.value, 144, 16)
       /\ HeaderSound(AppendStringHeader(input.value), input.value, 160, 32)

(***************************************************************************)
(* Trading requests.                                                       *)
(***************************************************************************)
\* What the trading functions make of the input.
Results ==
  CASE input.kind = "place"  -> {PlaceOrders(input.requests, input.options)}
    [] input.kind = "modify" ->
         LET built == ModifyOrders(input.requests, input.alwaysPlace)
         IN {built} \cup IF built.ok
                         THEN {Built([built.action EXCEPT !.type = "modify"])} ELSE {}
    [] input.kind = "cancel" -> {CancelOrders(input.requests, input.fast)}
    [] input.kind = "cancelByCloid" ->
         {CancelOrdersByCloid(input.requests, input.fast)}
    [] input.kind = "other" ->
         {UpdateLeverage(input.coin, input.n, input.flag),
          UpdateIsolatedMargin(input.coin, input.n), Noop}
         \cup IF input.n >= 0 THEN {ScheduleCancel(input.n)} ELSE {}
    [] OTHER -> {}

\* The signature covers what is sent: packing the sent JSON again gives the
\* text that was signed, for every action the functions build, with and without
\* every optional key, vault and expiry.  internal/action, engine.go:354-386.
SignedIsSent ==
  \A r \in Results : r.ok =>
    \A vault \in {"none", "vault"}, expiresAfter \in 0 .. 1 :
      SignedText(r.action, 1, vault, expiresAfter) =
        Recomputed(Body(r.action, 1, vault, expiresAfter))

\* The order the caller asked for, as the exchange would take it.
OrderTaken(r, wire) ==
  LET p == PrecisionOf(r.coin)
  IN /\ wire.asset = AssetOf[r.coin].id /\ ~ AssetOf[r.coin].delisted
     /\ <<wire.isBuy, wire.reduceOnly, wire.cloid>> = <<r.isBuy, r.reduceOnly, r.cloid>>
     /\ wire.px = r.price /\ PriceTaken(p, wire.px)
     /\ wire.sz = r.size /\ SizeTaken(p, wire.sz)
     /\ wire.isTrigger = r.isTrigger
     /\ r.isTrigger =>
          /\ wire.triggerPx = r.triggerPrice /\ PriceTaken(p, wire.triggerPx)
          /\ wire.isMarket <=> r.triggerIsMarket
          /\ wire.tpsl = r.tpsl /\ wire.tpsl \in Tpsls
     /\ ~ r.isTrigger => wire.tif = r.tif /\ wire.tif \in Tifs

\* Whatever is sent is taken: each item of an order or modify action is the
\* caller's item of that place, for its coin, on the exchange's grids and not
\* delisted, a modify names the order the caller named, and one bad item keeps
\* the whole batch from being sent.  internal/domain/trading.go.
OrdersChecked ==
  \A r \in Results : r.ok =>
    /\ input.kind \in {"place", "modify", "cancel", "cancelByCloid"} =>
         Len(r.action.items) = Len(input.requests) /\ r.action.items # <<>>
    /\ input.kind = "place" => \A i \in DOMAIN input.requests :
         OrderTaken(input.requests[i], r.action.items[i])
    /\ input.kind = "modify" => \A i \in DOMAIN input.requests :
         LET asked == input.requests[i]
             item == r.action.items[i]
         IN /\ OrderTaken(asked.order, item.order)
            /\ item.ref = [oid |-> asked.oid, cloid |-> asked.refCloid]

(***************************************************************************)
(* Queries and subscriptions.                                              *)
(***************************************************************************)
\* What a caller asked for; an order is named by its cloid when it has one.
Meaning(q) == [q EXCEPT !.oid = IF IsSet(q.cloid) THEN 0 ELSE @]
SameSide(a, b) == (a.op \in Watches) = (b.op \in Watches)

\* No argument is lost on the way: two accepted calls that send the same
\* request, or the same subscription, asked for the same thing; an option that
\* would not be sent is refused instead.  domain/info.go, streams.go.
QueriesTold ==
  input.kind = "ask" /\ Asked(input.ask).ok =>
    \A other \in Asks :
      /\ SameSide(input.ask, other)
      /\ Asked(other).ok
      /\ Asked(other).body = Asked(input.ask).body
      => Meaning(other) = Meaning(input.ask)

\* The exchange's pushes of a subscription, by the protocol's documentation.
Push(channel, data) == [channel |-> channel, data |-> data, items |-> <<>>]
PushesOf(q) ==
  CASE q.op = "watchOrderbook" -> {Push("l2Book", [coin |-> q.coin])}
    [] q.op = "watchBBO" -> {Push("bbo", [coin |-> q.coin])}
    [] q.op = "watchTrades" ->
         {[Push("trades", NoText) EXCEPT !.items = <<[coin |-> q.coin]>>]}
    [] q.op = "watchCandles" -> {Push("candle", [s |-> q.coin, i |-> q.interval])}
    [] q.op = "watchAssetCtx" -> {Push(channel, [coin |-> q.coin]) :
                                    channel \in {"activeAssetCtx", "activeSpotAssetCtx"}}
    [] q.op = "watchOrderUpdates" -> {Push("orderUpdates", NoText)}
    [] q.op = "watchUserFills" -> {Push("userFills", [user |-> q.user])}
    [] q.op = "watchAccountState" -> {Push("clearinghouseState", [user |-> q.user, dex |-> Dex])}

\* A push finds the subscription it belongs to and never one with other pushes,
\* among those that can be in a connection's registry together: the ones for
\* one user (a client subscribes for its own, perpetuals/stream.go:130,148,159),
\* and the ones that joined a group, which have one payload (conn.go:273-278).
\* For two users it does not hold: the pushes of userFills and
\* clearinghouseState carry the user and their keys do not, so there too a
\* connection serves one user, a limit protocol.go:36-38 states only for the
\* channels without a user field.  ws/protocol.go:83-110, streams.go.
PushesRouted ==
  input.kind = "ask" /\ input.ask.op \in Watches /\ Asked(input.ask).ok =>
    LET q == input.ask
    IN /\ \A push \in PushesOf(q) : pushRouteKey(push) = Asked(q).key
       /\ \A other \in Asks :
            /\ other.op \in Watches /\ Asked(other).ok
            /\ Asked(other).key = Asked(q).key
            /\ other.user = q.user \/ Asked(other).body = Asked(q).body
            => PushesOf(other) = PushesOf(q)

(***************************************************************************)
(* Configuration.                                                          *)
(***************************************************************************)
\* The default hosts of the network a client signs for.
HostsOf(isMainnet) ==
  IF isMainnet THEN [rest |-> MainnetRestURL, ws |-> MainnetWsURL]
  ELSE [rest |-> TestnetRestURL, ws |-> TestnetWsURL]

\* A URL left at the default, that is empty or as DefaultConfig pre-fills it, is
\* the one of the network the client signs for, whatever Testnet was flipped to
\* afterwards, so a testnet client never talks to mainnet's default hosts, also
\* when its caller set the mainnet's URL explicitly: config.go:20 says "Explicitly
\* set URLs are never overridden", which does not hold of this one.  Any other
\* URL is the caller's and is kept, even when it is the other network's:
\* on mainnet with testnet URLs the signatures are for one network and the hosts
\* of the other, and REST and WebSocket may differ.  The client queries the
\* account it trades for, and its keep-alive outruns its read deadline.
\* config.go:197-290, client.go:80-128.
NetworkAgrees ==
  input.kind = "config" =>
    LET c == input.config
        r == NewClient(c)
        hosts == HostsOf(r.isMainnet)
    IN r.ok =>
         /\ r.isMainnet = ~ c.testnet
         /\ r.cfg.rest = IF c.rest \in {"", MainnetRestURL} THEN hosts.rest ELSE c.rest
         /\ r.cfg.ws = IF c.ws \in {"", MainnetWsURL} THEN hosts.ws ELSE c.ws
         /\ r.cfg.number["ReadTimeout"] > r.cfg.number["PingInterval"]
         /\ r.vault # NoText => r.user = r.vault.value
         /\ r.signs => r.user # ""
=============================================================================
