-------------------------------- MODULE Wire --------------------------------
(***************************************************************************)
(* What one signed request looks like in the two forms the SDK writes by   *)
(* hand (internal/action, internal/msgpack, the body in                    *)
(* internal/engine/engine.go): the MessagePack form that is hashed and     *)
(* signed, and the JSON form that is sent.  The exchange packs the JSON it *)
(* receives again and checks the signature against that, so the two forms  *)
(* must agree on every key, every optional key and every count.            *)
(*                                                                         *)
(* A MessagePack form is the sequence of its tokens, every map and array   *)
(* header carrying the count the code computes.  A JSON form is a tree:    *)
(* an object is the sequence of its [key, value] pairs in written order.   *)
(***************************************************************************)
EXTENDS Numbers, FiniteSets

CONSTANT NoCloid     \* the client order id that is not set

(***************************************************************************)
(* MessagePack tokens.                                                     *)
(***************************************************************************)
Map(n) == << <<"map", n>> >>
Array(n) == << <<"array", n>> >>
Str(s) == << <<"str", s>> >>
Uint(n) == << <<"int", n>> >>
Flag(b) == << <<"bool", b>> >>
Dec(f) == << <<"dec", AppendWire(f)>> >>
If(set, form) == IF set THEN form ELSE <<>>
IsSet(cloid) == cloid # NoCloid
Each(f(_), items) == FlattenSeq([i \in DOMAIN items |-> f(items[i])])
Listed(f(_), items) == Array(Len(items)) \o Each(f, items)

\* The branches of an order's type, and the type: a map of the one it has.
PackTriggered(o) ==
  Map(3) \o Str("isMarket") \o Flag(o.isMarket)
  \o Str("triggerPx") \o Dec(o.triggerPx) \o Str("tpsl") \o Str(o.tpsl)
PackLimit(o) == Map(1) \o Str("tif") \o Str(o.tif)
PackType(o) ==
  IF o.isTrigger THEN Map(1) \o Str("trigger") \o PackTriggered(o)
  ELSE Map(1) \o Str("limit") \o PackLimit(o)

\* Mutant: the key of the client order id is not counted.
PackOrderMiscounts(o) ==
  Map(6)
  \o Str("a") \o Uint(o.asset) \o Str("b") \o Flag(o.isBuy)
  \o Str("p") \o Dec(o.px) \o Str("s") \o Dec(o.sz)
  \o Str("r") \o Flag(o.reduceOnly) \o Str("t") \o PackType(o)
  \o If(IsSet(o.cloid), Str("c") \o Str(o.cloid))

PackOrder(o) ==
  Map(IF IsSet(o.cloid) THEN 7 ELSE 6)
  \o Str("a") \o Uint(o.asset) \o Str("b") \o Flag(o.isBuy)
  \o Str("p") \o Dec(o.px) \o Str("s") \o Dec(o.sz)
  \o Str("r") \o Flag(o.reduceOnly) \o Str("t") \o PackType(o)
  \o If(IsSet(o.cloid), Str("c") \o Str(o.cloid))

PackRef(r) == IF IsSet(r.cloid) THEN Str(r.cloid) ELSE Uint(r.oid)

PackModify(m) ==
  Map(2) \o Str("oid") \o PackRef(m.ref) \o Str("order") \o PackOrder(m.order)

PackCancel(c) == Map(2) \o Str("a") \o Uint(c.asset) \o Str("o") \o Uint(c.oid)

PackCancelByCloid(c) ==
  Map(2) \o Str("asset") \o Uint(c.asset) \o Str("cloid") \o Str(c.cloid)

PackCancels(a, listed) ==
  Map(IF a.fast THEN 3 ELSE 2) \o Str("type") \o Str(a.type)
  \o Str("cancels") \o listed
  \o If(a.fast, Str("f") \o Flag(TRUE))

PackBuilder(b) == Map(2) \o Str("b") \o Str(b.address) \o Str("f") \o Uint(b.fee)

\* AppendMsgpack of every kind of action.
PackOrders(a) ==
  Map(IF a.builder.set THEN 4 ELSE 3) \o Str("type") \o Str("order")
  \o Str("orders") \o Listed(PackOrder, a.items)
  \o Str("grouping") \o Str(a.grouping)
  \o If(a.builder.set, Str("builder") \o PackBuilder(a.builder))

PackOneModify(a) ==
  Map(IF a.alwaysPlace THEN 4 ELSE 3) \o Str("type") \o Str("modify")
  \o Str("oid") \o PackRef(a.items[1].ref)
  \o Str("order") \o PackOrder(a.items[1].order)
  \o If(a.alwaysPlace, Str("a") \o Flag(TRUE))

PackModifies(a) ==
  Map(IF a.alwaysPlace THEN 3 ELSE 2) \o Str("type") \o Str("batchModify")
  \o Str("modifies") \o Listed(PackModify, a.items)
  \o If(a.alwaysPlace, Str("a") \o Flag(TRUE))

PackSchedule(a) ==
  Map(IF a.hasTime THEN 2 ELSE 1) \o Str("type") \o Str("scheduleCancel")
  \o If(a.hasTime, Str("time") \o Uint(a.timeMs))

PackNoop == Map(1) \o Str("type") \o Str("noop")

PackLeverage(a) ==
  Map(4) \o Str("type") \o Str("updateLeverage") \o Str("asset") \o Uint(a.asset)
  \o Str("isCross") \o Flag(a.isCross) \o Str("leverage") \o Uint(a.leverage)

PackMargin(a) ==
  Map(4) \o Str("type") \o Str("updateIsolatedMargin") \o Str("asset")
  \o Uint(a.asset) \o Str("isBuy") \o Flag(a.isBuy) \o Str("ntli") \o Uint(a.ntli)

AppendMsgpack(a) ==
  CASE a.type = "order"                -> PackOrders(a)
    [] a.type = "modify"               -> PackOneModify(a)
    [] a.type = "batchModify"          -> PackModifies(a)
    [] a.type = "cancel"               -> PackCancels(a, Listed(PackCancel, a.items))
    [] a.type = "cancelByCloid"        -> PackCancels(a, Listed(PackCancelByCloid, a.items))
    [] a.type = "scheduleCancel"       -> PackSchedule(a)
    [] a.type = "noop"                 -> PackNoop
    [] a.type = "updateLeverage"       -> PackLeverage(a)
    [] a.type = "updateIsolatedMargin" -> PackMargin(a)

(***************************************************************************)
(* JSON trees.                                                             *)
(***************************************************************************)
Obj(fields) == <<"object", fields>>
List(f(_), items) == <<"list", [i \in DOMAIN items |-> f(items[i])]>>
At(key, value) == << [key |-> key, value |-> value] >>
JStr(s) == <<"str", s>>
JNum(n) == <<"int", n>>
JFlag(b) == <<"bool", b>>
JDec(f) == <<"dec", AppendWire(f)>>

JsonType(o) ==
  IF o.isTrigger
  THEN Obj(At("trigger", Obj(At("isMarket", JFlag(o.isMarket))
              \o At("triggerPx", JDec(o.triggerPx)) \o At("tpsl", JStr(o.tpsl)))))
  ELSE Obj(At("limit", Obj(At("tif", JStr(o.tif)))))

JsonOrder(o) ==
  Obj(At("a", JNum(o.asset)) \o At("b", JFlag(o.isBuy)) \o At("p", JDec(o.px))
      \o At("s", JDec(o.sz)) \o At("r", JFlag(o.reduceOnly))
      \o At("t", JsonType(o))
      \o If(IsSet(o.cloid), At("c", JStr(o.cloid))))

JsonRef(r) == IF IsSet(r.cloid) THEN JStr(r.cloid) ELSE JNum(r.oid)

JsonModify(m) == Obj(At("oid", JsonRef(m.ref)) \o At("order", JsonOrder(m.order)))

JsonCancel(c) == Obj(At("a", JNum(c.asset)) \o At("o", JNum(c.oid)))

JsonCancelByCloid(c) ==
  Obj(At("asset", JNum(c.asset)) \o At("cloid", JStr(c.cloid)))

Typed(type, fields) == Obj(At("type", JStr(type)) \o fields)

\* AppendJSON of every kind of action.
JsonOrders(a) ==
  Typed("order", At("orders", List(JsonOrder, a.items)) \o At("grouping", JStr(a.grouping))
    \o If(a.builder.set, At("builder", Obj(At("b", JStr(a.builder.address))
                               \o At("f", JNum(a.builder.fee))))))

JsonOneModify(a) ==
  Typed("modify", At("oid", JsonRef(a.items[1].ref)) \o At("order", JsonOrder(a.items[1].order))
    \o If(a.alwaysPlace, At("a", JFlag(TRUE))))

JsonModifies(a) ==
  Typed("batchModify", At("modifies", List(JsonModify, a.items))
    \o If(a.alwaysPlace, At("a", JFlag(TRUE))))

JsonCancels(a, items) ==
  Typed(a.type, At("cancels", items) \o If(a.fast, At("f", JFlag(TRUE))))

JsonSchedule(a) == Typed("scheduleCancel", If(a.hasTime, At("time", JNum(a.timeMs))))

JsonNoop == Typed("noop", <<>>)

JsonLeverage(a) ==
  Typed("updateLeverage", At("asset", JNum(a.asset)) \o At("isCross", JFlag(a.isCross))
    \o At("leverage", JNum(a.leverage)))

JsonMargin(a) ==
  Typed("updateIsolatedMargin", At("asset", JNum(a.asset)) \o At("isBuy", JFlag(a.isBuy))
    \o At("ntli", JNum(a.ntli)))

AppendJSON(a) ==
  CASE a.type = "order"                -> JsonOrders(a)
    [] a.type = "modify"               -> JsonOneModify(a)
    [] a.type = "batchModify"          -> JsonModifies(a)
    [] a.type = "cancel"               -> JsonCancels(a, List(JsonCancel, a.items))
    [] a.type = "cancelByCloid"        -> JsonCancels(a, List(JsonCancelByCloid, a.items))
    [] a.type = "scheduleCancel"       -> JsonSchedule(a)
    [] a.type = "noop"                 -> JsonNoop
    [] a.type = "updateLeverage"       -> JsonLeverage(a)
    [] a.type = "updateIsolatedMargin" -> JsonMargin(a)

\* The exchange's packing of a JSON tree: the counts are those of the tree.  It
\* goes as deep as the deepest action, the trigger of an order of a batchModify.
Scalar(json) == <<json>>
PackBy(inner(_), json) ==
  CASE json[1] = "object" ->
         Map(Len(json[2]))
         \o Each(LAMBDA field : Str(field.key) \o inner(field.value), json[2])
    [] json[1] = "list" -> Array(Len(json[2])) \o Each(inner, json[2])
    [] OTHER -> Scalar(json)
PackTrigger(json) == PackBy(Scalar, json)
PackOrderType(json) == PackBy(PackTrigger, json)
PackItem(json) == PackBy(PackOrderType, json)
PackChange(json) == PackBy(PackItem, json)
PackItems(json) == PackBy(PackChange, json)
Pack(json) == PackBy(PackItems, json)

(***************************************************************************)
(* The request: what is hashed, and what is sent next to the signature.    *)
(* vault is "none" or an address; expiresAfter 0 means not set.            *)
(***************************************************************************)
\* ActionHash's input: the packed action and its trailer.
Hashed(packed, nonce, vault, expiresAfter, hasExpiresAfter) ==
  packed \o << <<"nonce", nonce>> >>
  \o (IF vault = "none" THEN << <<"byte", 0>> >>
      ELSE << <<"byte", 1>>, <<"address", vault>> >>)
  \o If(hasExpiresAfter, << <<"byte", 0>>, <<"expires", expiresAfter>> >>)

\* The text Action signs, and the fields of the body it sends (engine.go).
SignedText(a, nonce, vault, expiresAfter) ==
  Hashed(AppendMsgpack(a), nonce, vault, expiresAfter, expiresAfter # 0)

Null == <<"null">>
Body(a, nonce, vault, expiresAfter) ==
  [action       |-> AppendJSON(a),
   nonce        |-> nonce,
   vaultAddress |-> IF vault = "none" THEN Null ELSE JStr(vault),
   expiresAfter |-> IF expiresAfter = 0 THEN Null ELSE JNum(expiresAfter)]

\* What the exchange hashes to check the signature of a body.
Recomputed(body) ==
  Hashed(Pack(body.action), body.nonce,
         IF body.vaultAddress = Null THEN "none" ELSE body.vaultAddress[2],
         IF body.expiresAfter = Null THEN 0 ELSE body.expiresAfter[2],
         body.expiresAfter # Null)

(***************************************************************************)
(* MessagePack integers and lengths.  A 64-bit integer is the sequence of  *)
(* its 8 bytes, the highest first.                                         *)
(***************************************************************************)
UintTag == [n \in {1, 2, 4, 8} |->
              CASE n = 1 -> 204 [] n = 2 -> 205 [] n = 4 -> 206 [] n = 8 -> 207]
IntTag == [n \in {1, 2, 4, 8} |-> UintTag[n] + 4]

LowBytes(v, n) == SubSeq(v, 9 - n, 8)
FitsUint(v, n) == \A i \in 1 .. 8 - n : v[i] = 0
FitsInt(v, n) == v[9 - n] >= 128 /\ \A i \in 1 .. 8 - n : v[i] = 255

\* Mutant: one byte stands for the integers up to 255.
AppendUintWide(v) ==
  LET n == CHOOSE w \in DOMAIN UintTag :
             FitsUint(v, w) /\ \A x \in DOMAIN UintTag : FitsUint(v, x) => w =< x
  IN IF FitsUint(v, 1) THEN LowBytes(v, 1) ELSE <<UintTag[n]>> \o LowBytes(v, n)

AppendUint(v) ==
  LET n == CHOOSE w \in DOMAIN UintTag :
             FitsUint(v, w) /\ \A x \in DOMAIN UintTag : FitsUint(v, x) => w =< x
  IN IF FitsUint(v, 1) /\ v[8] =< 127 THEN LowBytes(v, 1)
     ELSE <<UintTag[n]>> \o LowBytes(v, n)

AppendInt(v) ==
  LET n == CHOOSE w \in DOMAIN IntTag :
             FitsInt(v, w) /\ \A x \in DOMAIN IntTag : FitsInt(v, x) => w =< x
  IN IF v[1] < 128 THEN AppendUint(v)
     ELSE IF FitsInt(v, 1) /\ v[8] >= 224 THEN LowBytes(v, 1)
     ELSE <<IntTag[n]>> \o LowBytes(v, n)

MaxUint16 == 256 * 256 - 1
ShiftByte(len) == len \div 256

\* A length in n bytes, the highest first.
LengthBytes(len, n) ==
  LET upper == ShiftByte(ShiftByte(len))
  IN SubSeq(<<ShiftByte(upper) % 256, upper % 256, ShiftByte(len) % 256, len % 256>>,
            5 - n, 4)

\* AppendMapHeader (fix 128, tags 222, 223) and AppendArrayHeader (144, 220).
AppendHeader(fix, tag, len) ==
  IF len =< 15 THEN <<fix + len>>
  ELSE IF len =< MaxUint16 THEN <<tag>> \o LengthBytes(len, 2)
  ELSE <<tag + 1>> \o LengthBytes(len, 4)

AppendStringHeader(len) ==
  IF len =< 31 THEN <<160 + len>>
  ELSE IF len =< 255 THEN <<217, len>>
  ELSE IF len =< MaxUint16 THEN <<218>> \o LengthBytes(len, 2)
  ELSE <<219>> \o LengthBytes(len, 4)

(***************************************************************************)
(* Client order ids: 32 hex digits, written "0x..." or as a UUID.  A text  *)
(* is [prefix, chars]; 16 is the dash and 17 any other character.  A digit *)
(* is its value: the code takes a-f and the x of 0x in either case and     *)
(* writes them small, so texts that differ in case only are one text here. *)
(***************************************************************************)
Hex == 0 .. 15
DashAt == {9, 14, 19, 24}

ParseCloid(text) ==
  IF text.prefix = "0x" /\ Len(text.chars) = 32 /\ ToSet(text.chars) \subseteq Hex
  THEN text.chars ELSE NoCloid

AppendHex(digits) == [prefix |-> "0x", chars |-> digits]

\* The characters between the dashes of a 36-character text.
Undashed(chars) ==
  SubSeq(chars, 1, 8) \o SubSeq(chars, 10, 13) \o SubSeq(chars, 15, 18)
  \o SubSeq(chars, 20, 23) \o SubSeq(chars, 25, 36)

CloidFromUUID(text) ==
  IF /\ text.prefix = "" /\ Len(text.chars) = 36
     /\ \A i \in DashAt : text.chars[i] = 16
     /\ ToSet(Undashed(text.chars)) \subseteq Hex
  THEN Undashed(text.chars) ELSE NoCloid

UUID(digits) ==
  LET before(i) == Cardinality({d \in DashAt : d < i})
  IN [prefix |-> "",
      chars  |-> [i \in 1 .. 36 |-> IF i \in DashAt THEN 16
                                    ELSE digits[i - before(i)]]]
=============================================================================
