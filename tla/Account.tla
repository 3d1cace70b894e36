------------------------------ MODULE Account ------------------------------
(***************************************************************************)
(* The operations of a section made of several requests: CancelAllOrders,  *)
(* CancelForgottenOrders (perpetuals/trading.go) and ClosePosition         *)
(* (perpetuals/account.go).  Each reads the account with one request and   *)
(* acts on it with a later one, while other clients of the account place,  *)
(* fill and cancel orders and trade.                                       *)
(*                                                                         *)
(* Sizes are in lots (NormalizeSize leaves them alone) and times in units; *)
(* the clocks of the caller and of the exchange agree.                     *)
(***************************************************************************)
EXTENDS Integers, FiniteSets

CONSTANTS
  Ops,        \* calls, each performed once
  Coins,      \* coins of the account's orders
  Owned,      \* the coins the section's snapshot lists
  AnyCoin,    \* the coin "" of an operation
  MaxOrders,  \* bound: orders ever placed
  MaxTime,    \* bound of the clock
  MaxSize     \* bound: lots of a position

ASSUME AccountAssumption ==
  /\ Owned \subseteq Coins /\ AnyCoin \notin Coins
  /\ MaxOrders \in Nat /\ MaxTime \in Nat /\ MaxSize \in Nat

Kinds == {"cancelAll", "cancelForgotten", "close"}
OrderIds == 1 .. MaxOrders

VARIABLES
  now,       \* the time
  placed,    \* orders ever placed: a sequence of [coin, time] by oid
  open,      \* oids of the resting orders
  position,  \* lots per owned coin, negative when short
  phase,        \* where each call is
  call,      \* what it is: [kind, coin, ttl]
  chosen,    \* the orders a call cancels
  order,     \* the order ClosePosition sends
  found,     \* a position was found
  result,    \* "none", "error" or "ok"
  before,    \* the orders that were open when a call began
  cancelled  \* the orders a call has cancelled, and when

accountVars == <<now, placed, open, position, phase, call, chosen, order, found, result,
          before, cancelled>>

NoOrder == [isBuy |-> FALSE, size |-> 0, reduceOnly |-> FALSE]
NoCall == [kind |-> "none", coin |-> AnyCoin, ttl |-> 0]
Size(n) == IF n < 0 THEN -n ELSE n
Positions == -MaxSize .. MaxSize

InitAccount ==
  /\ now = 0
  /\ placed = [o \in {} |-> NoOrder]
  /\ open = {}
  /\ position \in [Owned -> Positions]
  /\ phase = [k \in Ops |-> "idle"]
  /\ call = [k \in Ops |-> NoCall]
  /\ chosen = [k \in Ops |-> {}]
  /\ order = [k \in Ops |-> NoOrder]
  /\ found = [k \in Ops |-> FALSE]
  /\ result = [k \in Ops |-> "none"]
  /\ before = [k \in Ops |-> {}]
  /\ cancelled = [k \in Ops |-> [o \in {} |-> 0]]

account == <<now, placed, open, position>>
Step(k, from, to) == phase[k] = from /\ phase' = [phase EXCEPT ![k] = to]
Ends(k, from, how) == Step(k, from, "done") /\ result' = [result EXCEPT ![k] = how]

Begin(k, c) ==
  /\ c.kind = "close" => c.coin # AnyCoin
  /\ c.kind # "cancelForgotten" => c.ttl = 0
  /\ call' = [call EXCEPT ![k] = c]
  /\ before' = [before EXCEPT ![k] = open]
  /\ IF c.kind = "close" /\ c.coin \notin Owned
     THEN Ends(k, "idle", "error")      \* Resolve: unknown coin
     ELSE Step(k, "idle", "read") /\ UNCHANGED result
  /\ UNCHANGED <<account, chosen, order, found, cancelled>>

\* A request of the call fails before it does anything.
Fails(k) ==
  /\ \E from \in {"read", "price", "cancel", "order"} : Ends(k, from, "error")
  /\ UNCHANGED <<account, call, chosen, order, found, before, cancelled>>

(***************************************************************************)
(* Cancelling.                                                             *)
(***************************************************************************)
\* Mutants: the filter by coin is missing; "" is compared like any coin.
AskedAny(o, coin) == placed[o].coin \in Owned
AskedOne(o, coin) == placed[o].coin = coin

\* GetOpenOrders: one coin, or every coin the section owns.
Asked(o, coin) == IF coin = AnyCoin THEN placed[o].coin \in Owned
                  ELSE placed[o].coin = coin

OldEnough(o, ttl) == placed[o].time =< now - ttl

\* The open orders arrive; cancelSelected sends nothing without an order, and
\* CancelOrders sends nothing when a coin does not resolve.
ReadOrders(k) ==
  /\ call[k].kind \in {"cancelAll", "cancelForgotten"}
  /\ LET asked == {o \in open : Asked(o, call[k].coin)}
         those == IF call[k].kind = "cancelAll" THEN asked
                  ELSE {o \in asked : OldEnough(o, call[k].ttl)}
     IN /\ chosen' = [chosen EXCEPT ![k] = those]
        /\ CASE those = {} -> Ends(k, "read", "ok")
             [] those # {} /\ \E o \in those : placed[o].coin \notin Owned ->
                  Ends(k, "read", "error")
             [] those # {} /\ \A o \in those : placed[o].coin \in Owned ->
                  Step(k, "read", "cancel") /\ UNCHANGED result
  /\ UNCHANGED <<account, call, order, found, before, cancelled>>

\* The exchange cancels those that are still there; orders gone meanwhile come
\* back as errors of their items, and the answer may be lost.
CancelBatch(k) ==
  /\ \E how \in {"ok", "error"} : Ends(k, "cancel", how)
  /\ open' = open \ chosen[k]
  /\ cancelled' = [cancelled EXCEPT ![k] = [o \in open \cap chosen[k] |-> now]]
  /\ UNCHANGED <<now, placed, position, call, chosen, order, found, before>>

(***************************************************************************)
(* Closing a position.                                                     *)
(***************************************************************************)
\* Mutant: the order may open a position.
CloseOrderFree(szi) == [isBuy |-> szi < 0, size |-> Size(szi), reduceOnly |-> FALSE]
CloseOrder(szi) == [isBuy |-> szi < 0, size |-> Size(szi), reduceOnly |-> TRUE]

\* GetPosition; without a position nothing is sent.
ReadPosition(k) ==
  /\ call[k].kind = "close" /\ phase[k] = "read"
  /\ LET szi == position[call[k].coin]
     IN IF szi = 0
        THEN Ends(k, "read", "ok") /\ UNCHANGED <<order, found>>
        ELSE /\ Step(k, "read", "price") /\ UNCHANGED result
             /\ found' = [found EXCEPT ![k] = TRUE]
             /\ order' = [order EXCEPT ![k] = CloseOrder(szi)]
  /\ UNCHANGED <<account, call, chosen, before, cancelled>>

\* SlippagePrice: the mid may be missing, which Fails covers.
ReadPrice(k) ==
  /\ Step(k, "price", "order")
  /\ UNCHANGED <<account, call, chosen, order, found, result, before, cancelled>>

\* The exchange fills what the book has at the price; a reduce-only order
\* never more than the position of the moment, and none on its own side.
Fillable(o, szi) ==
  IF ~ o.reduceOnly THEN o.size
  ELSE IF (o.isBuy /\ szi < 0) \/ (~ o.isBuy /\ szi > 0)
  THEN (IF o.size < Size(szi) THEN o.size ELSE Size(szi))
  ELSE 0

FillClose(k) ==
  /\ phase[k] = "order"
  /\ LET coin == call[k].coin
     IN \E n \in 0 .. Fillable(order[k], position[coin]) :
          position' = [position EXCEPT ![coin] = IF order[k].isBuy THEN @ + n ELSE @ - n]
  /\ \E how \in {"ok", "error"} : Ends(k, "order", how)
  /\ UNCHANGED <<now, placed, open, call, chosen, order, found, before, cancelled>>

OpStep(k) ==
  \/ Fails(k) \/ ReadOrders(k) \/ CancelBatch(k)
  \/ ReadPosition(k) \/ ReadPrice(k) \/ FillClose(k)

(***************************************************************************)
(* Other clients of the account, and time.                                 *)
(***************************************************************************)
calls == <<phase, call, chosen, order, found, result, before, cancelled>>

Place(coin) ==
  /\ Cardinality(DOMAIN placed) < MaxOrders
  /\ LET oid == Cardinality(DOMAIN placed) + 1
     IN /\ placed' = [o \in DOMAIN placed \cup {oid} |->
                        IF o = oid THEN [coin |-> coin, time |-> now] ELSE placed[o]]
        /\ open' = open \cup {oid}
  /\ UNCHANGED <<now, position, calls>>

\* An order is filled or cancelled by another client.
Gone(o) ==
  /\ o \in open /\ open' = open \ {o}
  /\ UNCHANGED <<now, placed, position, calls>>

Trade(coin) ==
  /\ \E p \in Positions : position' = [position EXCEPT ![coin] = p]
  /\ UNCHANGED <<now, placed, open, calls>>

Passes ==
  /\ now < MaxTime /\ now' = now + 1
  /\ UNCHANGED <<placed, open, position, calls>>

Others ==
  \/ \E coin \in Coins : Place(coin)
  \/ \E o \in open : Gone(o)
  \/ \E coin \in Owned : Trade(coin)
  \/ Passes

Begins(k) ==
  \E kind \in Kinds, coin \in Coins \cup {AnyCoin}, ttl \in 0 .. MaxTime :
    Begin(k, [kind |-> kind, coin |-> coin, ttl |-> ttl])

NextAccount == (\E k \in Ops : Begins(k) \/ OpStep(k)) \/ Others

SpecAccount == InitAccount /\ [][NextAccount]_accountVars

(***************************************************************************)
(* Properties.                                                             *)
(***************************************************************************)
\* Orders are numbered in the order they were placed; what a call remembers is
\* of its kind.
AccountTypeOK ==
  /\ now \in 0 .. MaxTime
  /\ \E n \in 0 .. MaxOrders : placed \in [1 .. n -> [coin : Coins, time : 0 .. MaxTime]]
  /\ open \subseteq DOMAIN placed
  /\ position \in [Owned -> Positions]
  /\ phase \in [Ops -> {"idle", "read", "price", "cancel", "order", "done"}]
  /\ call \in [Ops -> [kind : Kinds \cup {"none"}, coin : Coins \cup {AnyCoin},
                      ttl : 0 .. MaxTime]]
  /\ order \in [Ops -> [isBuy : BOOLEAN, size : Nat, reduceOnly : BOOLEAN]]
  /\ found \in [Ops -> BOOLEAN]
  /\ result \in [Ops -> {"none", "error", "ok"}]
  /\ chosen \in [Ops -> SUBSET OrderIds]
  /\ before \in [Ops -> SUBSET OrderIds]
  /\ cancelled = [k \in Ops |-> cancelled[k]]
  /\ \A k \in Ops : /\ chosen[k] \cup before[k] \subseteq DOMAIN placed
                    /\ DOMAIN cancelled[k] \subseteq DOMAIN placed
                    /\ \A o \in DOMAIN cancelled[k] : cancelled[k][o] \in 0 .. MaxTime

\* CancelAllOrders without an error leaves none of the asked orders that were
\* open when it began, whatever others did meanwhile (trading.go:161-172).
CancelAllComplete ==
  \A k \in Ops : call[k].kind = "cancelAll" /\ result[k] = "ok" =>
    \A o \in before[k] \cap open :
      /\ call[k].coin = AnyCoin => placed[o].coin \notin Owned
      /\ call[k].coin # placed[o].coin

\* A call cancels only orders of its coin or section, and CancelForgottenOrders
\* only those that have rested for its ttl (trading.go:118-140, 174-194).
CancelsOnlyAsked ==
  \A k \in Ops : \A o \in DOMAIN cancelled[k] :
    /\ placed[o].coin \in Owned
    /\ call[k].coin \in {AnyCoin, placed[o].coin}
    /\ cancelled[k][o] - placed[o].time >= call[k].ttl

\* ClosePosition never opens or enlarges a position, also when the account
\* traded between its requests: the position read is old by the time the order
\* is there (account.go:98-146).
CloseNeverFlips ==
  [][\A k \in Ops : FillClose(k) =>
       \A c \in Owned : /\ Size(position'[c]) =< Size(position[c])
                        /\ position[c] >= 0 => position'[c] >= 0
                        /\ position[c] =< 0 => position'[c] =< 0]_accountVars
=============================================================================
