------------------------------ MODULE Requests ------------------------------
(***************************************************************************)
(* The request engine (internal/engine/engine.go) over both transports,    *)
(* from the caller to the exchange and back: the admission check, the      *)
(* nonce, the signature, the reply that may be lost or come from a gateway, *)
(* the counters the SDK keeps of the exchange's limits, and a client that   *)
(* is closed at any time.  The exchange and the gateway in front of it are *)
(* external: what they may do is read off the code's treatment of replies. *)
(***************************************************************************)
EXTENDS Client, Outcomes, FiniteSets

CONSTANTS
  Kinds,      \* what calls do: "order", "noop", "query", "watch"
  Batches,    \* sizes of batches of orders
  Texts,      \* texts of a rejection of a whole action
  Refusals,   \* statuses of a gateway that did not pass the request on
  Failures,   \* statuses of a gateway that may have
  Limit       \* IP weight per minute

\* A 4xx answer is of a request that was not passed on: the code takes it for a
\* definite failure (hlerr/errors.go:299-314); any other leaves the outcome open.
ASSUME RequestsAssumption ==
  /\ IsFiniteSet(Calls)
  /\ Batches \subseteq Nat \ {0}
  /\ Refusals \subseteq 400 .. 499 /\ Failures \subseteq Nat \ (400 .. 499 \cup {0, 200})

VARIABLES
  pc,        \* where each call is
  act,       \* what it is: [kind, batch, nonce, ws]; nonce 0 asks for a fresh one
  signed,    \* the nonce it was signed with, 0 before that
  signature, \* "none", "good", or "bad" when made with a wiped key
  wire,      \* its request: "none", "travelling", "dropped", "processed"
  reply,     \* the reply on its way back, NoReply when there is none
  result,    \* the outcome the caller is given
  drawn,     \* nonces drawn so far
  spent,     \* nonces the exchange has seen
  applied,   \* items of each action in effect at the exchange
  answer,    \* the request count a query was answered
  lull,      \* no action was on its way since the query was answered
  trusted,   \* the last Sync was of such a query
  used,      \* the engine's IP weight window
  mirror     \* the engine's AddressBudget.used

callVars == <<pc, act, signed, signature, wire, reply, result, drawn, spent, applied,
              answer, lull, trusted, used, mirror>>
vars == <<clientVars, callVars>>

NoAct == [kind |-> "none", batch |-> 0, nonce |-> 0, ws |-> FALSE]
NoReply == [form |-> "none"]
NoResult == [ok |-> FALSE, kind |-> "none"]
MaxBatch == CHOOSE n \in Batches : \A m \in Batches : m =< n

Init ==
  /\ InitClient
  /\ pc = [c \in Calls |-> "idle"]
  /\ act = [c \in Calls |-> NoAct]
  /\ signed = [c \in Calls |-> 0]
  /\ signature = [c \in Calls |-> "none"]
  /\ wire = [c \in Calls |-> "none"]
  /\ reply = [c \in Calls |-> NoReply]
  /\ result = [c \in Calls |-> NoResult]
  /\ drawn = 0 /\ spent = {}
  /\ applied = [c \in Calls |-> {}]
  /\ answer = [c \in Calls |-> 0]
  /\ lull = [c \in Calls |-> FALSE]
  /\ trusted = TRUE
  /\ used = 0 /\ mirror = 0

Step(c, from, to) == pc[c] = from /\ pc' = [pc EXCEPT ![c] = to]
Gives(c, outcome) == result' = [result EXCEPT ![c] = outcome]

IsAction(c) == act[c].kind \in {"order", "noop"}

\* internal/ratelimit/weights.go.
ActionWeight(batchLen) == 1 + batchLen \div 40
InfoWeight(infoType) ==
  CASE infoType \in {"l2Book", "allMids", "clearinghouseState", "orderStatus",
                     "spotClearinghouseState", "exchangeStatus"} -> 2
    [] infoType = "userRole" -> 60
    [] OTHER -> 20

Weight(a) == IF a.kind = "query" THEN InfoWeight("userRateLimit")
             ELSE ActionWeight(a.batch)

(***************************************************************************)
(* The caller.                                                             *)
(***************************************************************************)
\* What a call may be: a noop may take the nonce of an order.
Acts ==
  LET nonces == {signed[d] : d \in {e \in Calls : act[e].kind = "order"}} \cup {0}
      all(kind, batches, ns) ==
        IF kind \in Kinds THEN [kind : {kind}, batch : batches, nonce : ns, ws : BOOLEAN] ELSE {}
  IN all("order", Batches, {0}) \cup all("noop", {1}, nonces) \cup all("query", {0}, {0})

\* Engine.Action and Engine.Info up to the admission check.
Begin(c, a) ==
  /\ act' = [act EXCEPT ![c] = a]
  /\ LET signs == a.kind # "query"
         room == used + Weight(a) =< Limit
     IN \E on \in EnabledReads :
          \/ signs /\ ~ on /\ Step(c, "idle", "done") /\ Gives(c, Failure("auth"))
          \/ (signs => on) /\ ~ room /\ Step(c, "idle", "done") /\ Gives(c, Failure("rate_limit"))
          \/ (signs => on) /\ room /\ Step(c, "idle", IF signs THEN "sign" ELSE "send")
             /\ UNCHANGED result
  /\ UNCHANGED <<clientVars, signed, signature, wire, reply, drawn, spent, applied, answer, lull,
                 trusted, used, mirror>>

\* A subscription (WsSubs models it) only needs its connection here.
BeginWatch(c) ==
  /\ "watch" \in Kinds
  /\ act' = [act EXCEPT ![c] = [kind |-> "watch", batch |-> 0, nonce |-> 0, ws |-> TRUE]]
  /\ Step(c, "idle", "send")
  /\ UNCHANGED <<clientVars, signed, signature, wire, reply, result, drawn, spent, applied, answer,
                 lull, trusted, used, mirror>>

\* Mutant: the nonce the caller gave is not used.
NonceFresh(c) == drawn + 1
NonceOf(c) == IF act[c].nonce = 0 THEN drawn + 1 ELSE act[c].nonce

\* The nonce, then the signature with the key as it is now: the signer looks
\* at enabled once more.
Sign(c) ==
  LET n == NonceOf(c)
  IN /\ signed' = [signed EXCEPT ![c] = n]
     /\ drawn' = IF n > drawn THEN n ELSE drawn
     /\ \E on \in EnabledReads :
          \/ /\ on /\ Step(c, "sign", "send")
             /\ signature' = [signature EXCEPT ![c] = IF key = "good" THEN "good" ELSE "bad"]
             /\ UNCHANGED result
          \/ /\ ~ on /\ Step(c, "sign", "done")
             /\ Gives(c, Failure("auth"))
             /\ UNCHANGED signature
     /\ UNCHANGED <<clientVars, act, wire, reply, spent, applied, answer, lull, trusted,
                    used, mirror>>

UsedConn(c) == IF act[c].kind = "watch" THEN "stream" ELSE "post"

\* The lazy accessor of the connection a call needs.
Connect(c) ==
  /\ pc[c] = "send" /\ act[c].ws
  /\ UseBegins(UsedConn(c), c) \/ UseEnds(UsedConn(c), c)
  /\ UNCHANGED callVars

\* A call is under way between its send and its accounting.
UnderWay(c) == pc[c] \in {"await", "account"}

Send(c) ==
  /\ act[c].kind # "watch"
  /\ act[c].ws => once["post"] = "done" /\ conn["post"] = "running"
  /\ Step(c, "send", "await")
  /\ wire' = [wire EXCEPT ![c] = "travelling"]
  /\ lull' = IF IsAction(c) THEN [d \in Calls |-> FALSE] ELSE lull
  /\ UNCHANGED <<clientVars, act, signed, signature, reply, result, drawn, spent, applied,
                 answer, trusted, used, mirror>>

\* The connection is closed, or was not started, or is not up at the moment.
SendFails(c) ==
  /\ act[c].kind # "watch"
  /\ act[c].ws => once["post"] = "done"
  /\ Step(c, "send", "account")
  /\ Gives(c, Failure("network"))
  /\ lull' = IF IsAction(c) THEN [d \in Calls |-> FALSE] ELSE lull
  /\ UNCHANGED <<clientVars, act, signed, signature, wire, reply, drawn, spent, applied,
                 answer, trusted, used, mirror>>

Watched(c) ==
  /\ act[c].kind = "watch" /\ once["stream"] = "done"
  /\ Step(c, "send", "done")
  /\ UNCHANGED <<clientVars, act, signed, signature, wire, reply, result, drawn, spent, applied,
                 answer, lull, trusted, used, mirror>>

Receive(c) ==
  /\ reply[c] # NoReply
  /\ Step(c, "await", "account")
  /\ Gives(c, OutcomeOf(reply[c]))
  /\ reply' = [reply EXCEPT ![c] = NoReply]
  /\ UNCHANGED <<clientVars, act, signed, signature, wire, drawn, spent, applied, answer, lull,
                 trusted, used, mirror>>

\* The timeout, the caller's context, or the death of the connection.
GiveUp(c) ==
  /\ Step(c, "await", "account")
  /\ Gives(c, OutcomeOf(NoReply))
  /\ reply' = [reply EXCEPT ![c] = NoReply]
  /\ UNCHANGED <<clientVars, act, signed, signature, wire, drawn, spent, applied, answer, lull,
                 trusted, used, mirror>>

\* Mutant: only requests that succeeded are counted.
ConsumedIfOk(c) == IF IsAction(c) /\ result[c].ok THEN act[c].batch ELSE 0
Consumed(c) == IF IsAction(c) THEN act[c].batch ELSE 0

\* Engine.account.  An action's call returns; a query goes on to Sync.
Account(c) ==
  /\ Step(c, "account", IF ~ IsAction(c) /\ result[c].ok THEN "sync" ELSE "done")
  /\ used' = used + Weight(act[c])
  /\ mirror' = mirror + Consumed(c)
  /\ UNCHANGED <<clientVars, act, signed, signature, wire, reply, result, drawn, spent, applied,
                 answer, lull, trusted>>

\* AddressBudget.Sync.
Sync(c) ==
  /\ Step(c, "sync", "done")
  /\ mirror' = answer[c]
  /\ trusted' = lull[c]
  /\ UNCHANGED <<clientVars, act, signed, signature, wire, reply, result, drawn, spent, applied,
                 answer, lull, used>>

CallStep(c) ==
  \/ Sign(c) \/ Connect(c) \/ Send(c) \/ SendFails(c) \/ Watched(c)
  \/ Receive(c) \/ GiveUp(c) \/ Account(c) \/ Sync(c)

(***************************************************************************)
(* The exchange and its gateway.                                           *)
(***************************************************************************)
Charged(c) == wire[c] = "processed" /\ IsAction(c) /\ signature[c] = "good"
\* The number of items the calls of S have together.
SumOf(S) == Cardinality(UNION {{c} \X (1 .. act[c].batch) : c \in S})
Count == SumOf({c \in Calls : Charged(c)})

Failed(c, status) ==
  IF act[c].ws THEN [form |-> "error", status |-> status]
  ELSE [form |-> "http", status |-> status, body |-> NoReply]
Answers(c, body) ==
  IF act[c].ws THEN [form |-> "payload", body |-> body]
  ELSE [form |-> "http", status |-> 200, body |-> body]
Body(status, text, items) == [status |-> status, text |-> text, items |-> items]

Arrives(c, fate, answered) ==
  /\ wire[c] = "travelling"
  /\ wire' = [wire EXCEPT ![c] = fate]
  /\ reply' = IF pc[c] = "await" THEN [reply EXCEPT ![c] = answered] ELSE reply
  /\ UNCHANGED <<clientVars, pc, act, signed, signature, result, drawn, trusted, used, mirror>>

\* The gateway answers and does not pass the request on.
Refuse(c) ==
  /\ \E status \in Refusals \cup Failures \cup (IF act[c].ws THEN {0} ELSE {}) :
       Arrives(c, "dropped", Failed(c, status))
  /\ UNCHANGED <<spent, applied, answer, lull>>

\* The exchange processes the request; body is what it says about it, and the
\* gateway may fail on the way back.
Processed(c, body) ==
  \/ Arrives(c, "processed", Answers(c, body))
  \/ \E status \in Failures : Arrives(c, "processed", Failed(c, status))

\* The exchange takes an unknown wallet from a bad signature.
Unknown(c) ==
  /\ IsAction(c) /\ signature[c] = "bad"
  /\ Processed(c, Body("err", {"user or api wallet"}, <<>>))
  /\ UNCHANGED <<spent, applied, answer, lull>>

Duplicate(c) ==
  /\ IsAction(c) /\ signature[c] = "good" /\ signed[c] \in spent
  /\ Processed(c, Body("err", {"nonce"}, <<>>))
  /\ UNCHANGED <<spent, applied, answer, lull>>

Fresh(c) ==
  /\ IsAction(c) /\ signature[c] = "good" /\ signed[c] \notin spent
  /\ spent' = spent \cup {signed[c]}
  /\ UNCHANGED <<answer, lull>>

Reject(c) ==
  /\ Fresh(c)
  /\ \E text \in Texts : Processed(c, Body("err", text, <<>>))
  /\ UNCHANGED applied

Resting == [form |-> "object", key |-> "resting", text |-> EmptyText]
Error == [form |-> "object", key |-> "error", text |-> {"insufficient margin"}]
Novel == [form |-> "string", key |-> "novel", text |-> EmptyText]

\* Per item: in effect or rejected, told in words the SDK knows or does not.
Accept(c) ==
  /\ Fresh(c)
  /\ IF act[c].kind = "noop"
     THEN Processed(c, Body("ok", EmptyText, <<>>)) /\ UNCHANGED applied
     ELSE \E items \in [1 .. act[c].batch -> {Resting, Error, Novel}],
             unsaid \in SUBSET (1 .. MaxBatch) :
            /\ unsaid \subseteq {i \in DOMAIN items : items[i] = Novel}
            /\ applied' = [applied EXCEPT ![c] =
                             unsaid \cup {i \in DOMAIN items : items[i] = Resting}]
            /\ Processed(c, Body("ok", EmptyText, items))

Answer(c) ==
  /\ act[c].kind = "query"
  /\ answer' = [answer EXCEPT ![c] = Count]
  /\ lull' = [lull EXCEPT ![c] =
                \A d \in Calls : IsAction(d) => /\ ~ UnderWay(d)
                                                /\ wire[d] # "travelling"]
  /\ \E status \in {"ok", "bad"} : Processed(c, Body(status, EmptyText, <<>>))
  /\ UNCHANGED <<spent, applied>>

Exchange(c) ==
  Refuse(c) \/ Unknown(c) \/ Duplicate(c) \/ Reject(c) \/ Accept(c) \/ Answer(c)

Next ==
  \/ \E c \in Calls :
       \/ \E a \in Acts : Begin(c, a)
       \/ BeginWatch(c)
       \/ CallStep(c)
       \/ Exchange(c)
  \/ CloseStep /\ UNCHANGED callVars

Spec == Init /\ [][Next]_vars

(***************************************************************************)
(* Properties.                                                             *)
(***************************************************************************)
TypeOK ==
  /\ ClientTypeOK
  /\ pc \in [Calls -> {"idle", "sign", "send", "await", "account", "sync", "done"}]
  /\ signature \in [Calls -> {"none", "good", "bad"}]
  /\ signed \in [Calls -> 0 .. drawn]
  /\ wire \in [Calls -> {"none", "travelling", "dropped", "processed"}]
  /\ applied \in [Calls -> SUBSET (1 .. MaxBatch)]
  /\ drawn \in Nat /\ spent \subseteq 1 .. drawn
  /\ used \in Nat /\ mirror \in Nat
  /\ trusted \in BOOLEAN /\ lull \in [Calls -> BOOLEAN]

\* An error other than network and unknown tells that nothing of the action is
\* or will ever be in effect; a result tells of every item it knows whether it
\* is (engine.go:318-328, hlerr/errors.go:37-54), whatever was lost, answered
\* by a gateway, signed with a wiped key or sent with a used nonce.
OutcomeTold ==
  \A c \in Calls : pc[c] = "done" /\ IsAction(c) =>
    IF result[c].ok
    THEN \A i \in DOMAIN result[c].statuses :
           /\ Accepted(result[c].statuses[i]) => i \in applied[c]
           /\ result[c].statuses[i].kind = "error" => i \notin applied[c]
    ELSE result[c].kind \notin {"network", "unknown"} =>
           applied[c] = {} /\ wire[c] # "travelling"

\* A noop that succeeded with the nonce of an order has cancelled the order:
\* nothing of it is or will be in effect (domain/trading.go:263-269).
NoopDecides ==
  \A c, d \in Calls :
    /\ pc[c] = "done" /\ act[c].kind = "noop" /\ result[c].ok
    /\ act[d].kind = "order" /\ act[c].nonce = signed[d] /\ signed[d] # 0
    => applied[d] = {}

\* After a Sync that ran alone the local mirror is the exchange's count but for
\* the actions whose reply is out: it never misses one that was processed and
\* returned, and is ahead only by requests the exchange did not take
\* (window.go:132-149, engine.go:166-182).
MirrorFollows ==
  trusted =>
    /\ Count =< mirror + SumOf({c \in Calls : Charged(c) /\ pc[c] # "done"})
    /\ mirror =< Count + SumOf({c \in Calls : IsAction(c) /\ pc[c] = "done" /\ ~ Charged(c)})
=============================================================================
