------------------------------- MODULE Trading -------------------------------
(***************************************************************************)
(* The trading functions of internal/domain/trading.go up to the action    *)
(* they hand to the engine: validation of every item against the asset's   *)
(* metadata, then the action.  A function is a request turned into         *)
(* [ok, action]; ok FALSE is an ErrorKindInvalidRequest without any I/O.   *)
(***************************************************************************)
EXTENDS Wire

CONSTANTS
  Coins,       \* coins of the section's metadata
  Uint32Range, \* the number of values of a uint32
  AssetOf      \* [id, sz, max, delisted, maxLeverage, onlyIsolated] of a coin

ASSUME Uint32Assumption == Uint32Range \in Nat \ {0}

\* The metadata of an asset; the decimals of a size are not negative.
ASSUME AssetAssumption ==
  \A c \in Coins :
    /\ AssetOf[c].id \in Nat /\ AssetOf[c].delisted \in BOOLEAN
    /\ AssetOf[c].sz \in Nat /\ AssetOf[c].max \in Int

Tifs == {"Alo", "Ioc", "Gtc"}
Tpsls == {"tp", "sl"}
Groupings == {"na", "normalTpsl", "positionTpsl"}

Rejected == [ok |-> FALSE]
Built(a) == [ok |-> TRUE, action |-> a]

\* resolve: an empty or unknown coin is an error.
Resolves(coin) == coin \in Coins
PrecisionOf(coin) == [sz |-> AssetOf[coin].sz, max |-> AssetOf[coin].max]

\* Mutant: a trigger order's own price is checked twice, its trigger never.
OrderValidTwice(r) ==
  /\ Resolves(r.coin)
  /\ ~ AssetOf[r.coin].delisted
  /\ ValidateSize(PrecisionOf(r.coin), r.size)
  /\ ValidatePrice(PrecisionOf(r.coin), r.price)
  /\ IF r.isTrigger
     THEN r.tpsl \in Tpsls /\ ValidatePrice(PrecisionOf(r.coin), r.price)
     ELSE r.tif \in Tifs

\* The checks of orderWire, in its order.
OrderValid(r) ==
  /\ Resolves(r.coin)
  /\ ~ AssetOf[r.coin].delisted
  /\ ValidateSize(PrecisionOf(r.coin), r.size)
  /\ ValidatePrice(PrecisionOf(r.coin), r.price)
  /\ IF r.isTrigger
     THEN r.tpsl \in Tpsls /\ ValidatePrice(PrecisionOf(r.coin), r.triggerPrice)
     ELSE r.tif \in Tifs

\* The wire form orderWire builds; what the branch not taken leaves is zero.
orderWire(r) ==
  [asset |-> AssetOf[r.coin].id, isBuy |-> r.isBuy, px |-> r.price,
   sz |-> r.size, reduceOnly |-> r.reduceOnly, cloid |-> r.cloid,
   isTrigger |-> r.isTrigger,
   tif       |-> IF r.isTrigger THEN "" ELSE r.tif,
   triggerPx |-> IF r.isTrigger THEN r.triggerPrice ELSE 0,
   isMarket  |-> r.isTrigger /\ r.triggerIsMarket,
   tpsl      |-> IF r.isTrigger THEN r.tpsl ELSE ""]

EachItem(wire(_), requests) == [i \in DOMAIN requests |-> wire(requests[i])]

\* options.builder is [set, valid, address, fee].
PlaceOrders(requests, options) ==
  LET grouping == IF options.grouping = "" THEN "na" ELSE options.grouping
  IN IF /\ requests # <<>>
        /\ grouping \in Groupings
        /\ \A r \in ToSet(requests) : OrderValid(r)
        /\ options.builder.set => options.builder.valid
     THEN Built([type |-> "order", items |-> EachItem(orderWire, requests),
                 grouping |-> grouping, builder |-> options.builder])
     ELSE Rejected

modifyWire(m) ==
  [ref |-> [oid |-> m.oid, cloid |-> m.refCloid], order |-> orderWire(m.order)]

ModifyOrders(requests, alwaysPlace) ==
  IF /\ requests # <<>>
     /\ \A m \in ToSet(requests) :
          (m.oid # 0 \/ IsSet(m.refCloid)) /\ OrderValid(m.order)
  THEN Built([type |-> "batchModify", items |-> EachItem(modifyWire, requests),
              alwaysPlace |-> alwaysPlace])
  ELSE Rejected

cancelWire(c) == [asset |-> AssetOf[c.coin].id, oid |-> c.oid]

CancelOrders(requests, fast) ==
  IF requests # <<>> /\ \A c \in ToSet(requests) : c.oid # 0 /\ Resolves(c.coin)
  THEN Built([type |-> "cancel", items |-> EachItem(cancelWire, requests),
              fast |-> fast])
  ELSE Rejected

cancelByCloidWire(c) == [asset |-> AssetOf[c.coin].id, cloid |-> c.cloid]

CancelOrdersByCloid(requests, fast) ==
  IF /\ requests # <<>>
     /\ \A c \in ToSet(requests) : IsSet(c.cloid) /\ Resolves(c.coin)
  THEN Built([type |-> "cancelByCloid", fast |-> fast,
              items |-> EachItem(cancelByCloidWire, requests)])
  ELSE Rejected

ScheduleCancel(timeMs) ==
  Built([type |-> "scheduleCancel", hasTime |-> timeMs # 0, timeMs |-> timeMs])

Noop == Built([type |-> "noop"])

\* The conversion to uint32 cuts a leverage that no maximum bounds.
UpdateLeverage(coin, leverage, isCross) ==
  IF /\ Resolves(coin)
     /\ leverage >= 1
     /\ AssetOf[coin].maxLeverage > 0 => leverage =< AssetOf[coin].maxLeverage
     /\ ~ (isCross /\ AssetOf[coin].onlyIsolated)
  THEN Built([type |-> "updateLeverage", asset |-> AssetOf[coin].id,
              isCross |-> isCross, leverage |-> leverage % Uint32Range])
  ELSE Rejected

UpdateIsolatedMargin(coin, ntli) ==
  IF Resolves(coin) /\ ntli # 0
  THEN Built([type |-> "updateIsolatedMargin", asset |-> AssetOf[coin].id,
              isBuy |-> TRUE, ntli |-> ntli])
  ELSE Rejected
==============================================================================
