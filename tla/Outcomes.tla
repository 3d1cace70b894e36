------------------------------ MODULE Outcomes ------------------------------
(***************************************************************************)
(* What the SDK makes of a reply (internal/hlerr/errors.go, internal/rest, *)
(* internal/engine): HTTP statuses, post replies, error texts and action   *)
(* envelopes turned into an error kind or into one status per item.        *)
(*                                                                         *)
(* A text is the set of the classification needles it contains, EmptyText  *)
(* the empty one.  A reply is one of                                       *)
(*   [form |-> "none"]                    nothing usable arrived           *)
(*   [form |-> "http", status, body]      the answer of a REST request     *)
(*   [form |-> "error", status]           a post reply of type error; 0    *)
(*                                        when its text has no status      *)
(*   [form |-> "payload", body]           a post reply of type action      *)
(* and a body [status, text, items] is an action envelope: status "ok",    *)
(* "err", or "bad" when it does not parse or carries no status.            *)
(***************************************************************************)
EXTENDS Integers, SequencesExt

EmptyText == {"nothing"}
Rule(needle, kind, reason) == [needle |-> needle, kind |-> kind, reason |-> reason]

exchangeTextRules == <<
  Rule("divisible by tick size", "invalid_request", "tick"),
  Rule("must have minimum value", "invalid_request", "min_trade_ntl"),
  Rule("invalid tp/sl price", "invalid_request", "bad_trigger_px"),
  Rule("insufficient margin", "exchange", "perp_margin"),
  Rule("reduce only order would increase position", "exchange", "reduce_only"),
  Rule("post only order would have immediately matched", "exchange", "bad_alo_px"),
  Rule("could not immediately match", "exchange", "ioc_cancel"),
  Rule("no liquidity available for market order", "exchange", "no_liquidity"),
  Rule("open interest", "exchange", "open_interest_cap"),
  Rule("insufficient spot balance", "exchange", "spot_balance"),
  Rule("too far from oracle", "exchange", "oracle"),
  Rule("exceed margin tier limit", "exchange", "perp_max_position"),
  Rule("never placed, already canceled, or filled", "exchange", "missing_order"),
  Rule("cannot modify canceled or filled order", "exchange", "missing_order"),
  Rule("user or api wallet", "auth", "signer_unknown"),
  Rule("must deposit before performing actions", "auth", "must_deposit"),
  Rule("already expired", "invalid_request", "expired"),
  Rule("nonce", "invalid_request", "nonce"),
  Rule("too many cumulative requests", "rate_limit", "none"),
  Rule("rate limit", "rate_limit", "none") >>

Needles == {exchangeTextRules[i].needle : i \in DOMAIN exchangeTextRules}

\* The first rule whose needle the text contains.
MapExchangeText(text) ==
  LET hits == SelectSeq(exchangeTextRules, LAMBDA r : r.needle \in text)
  IN IF text = EmptyText THEN [kind |-> "unknown", reason |-> "none"]
     ELSE IF hits = <<>> THEN [kind |-> "exchange", reason |-> "none"]
     ELSE [kind |-> hits[1].kind, reason |-> hits[1].reason]

MapHTTPStatus(status) ==
  CASE status = 429            -> "rate_limit"
    [] status \in {401, 403}   -> "auth"
    [] status >= 500           -> "network"
    [] status \in 400 .. 499 \ {401, 403, 429} -> "invalid_request"
    [] status < 400            -> "unknown"

(***************************************************************************)
(* Items of an answer: [form, key, text], a JSON string or an object whose *)
(* one key is "resting", "filled" or "error".                              *)
(***************************************************************************)
Words == {"success", "waitingForFill", "waitingForTrigger"}

decodeStatus(item) ==
  CASE item.form = "string" /\ item.key \in Words -> [kind |-> item.key]
    [] item.form = "object" /\ item.key = "error" ->
         [kind |-> "error", err |-> MapExchangeText(item.text)]
    [] item.form = "object" /\ item.key \in {"resting", "filled"} ->
         [kind |-> item.key]
    [] OTHER -> [kind |-> "unknown"]

Accepted(status) == status.kind \notin {"error", "unknown"}

Failure(kind) == [ok |-> FALSE, kind |-> kind]
Success(statuses) == [ok |-> TRUE, statuses |-> statuses]

decodeActionResponse(body) ==
  CASE body.status = "ok"  -> Success([i \in DOMAIN body.items |->
                                         decodeStatus(body.items[i])])
    [] body.status = "err" -> Failure(MapExchangeText(body.text).kind)
    [] body.status = "bad" -> Failure("unknown")

\* Mutant: a gateway failure counts as a refusal of the request.
OutcomeOfEager(reply) ==
  CASE reply.form = "none" -> Failure("network")
    [] reply.form = "http" ->
         IF reply.status # 200
         THEN Failure(IF reply.status >= 500 THEN "invalid_request"
                      ELSE MapHTTPStatus(reply.status))
         ELSE decodeActionResponse(reply.body)
    [] reply.form = "error" ->
         Failure(IF reply.status = 0 THEN "invalid_request"
                 ELSE MapHTTPStatus(reply.status))
    [] reply.form = "payload" -> decodeActionResponse(reply.body)

\* rest.post, postWS and the decoding that follows them.
OutcomeOf(reply) ==
  CASE reply.form = "none" -> Failure("network")
    [] reply.form = "http" ->
         IF reply.status # 200 THEN Failure(MapHTTPStatus(reply.status))
         ELSE decodeActionResponse(reply.body)
    [] reply.form = "error" ->
         Failure(IF reply.status = 0 THEN "invalid_request"
                 ELSE MapHTTPStatus(reply.status))
    [] reply.form = "payload" -> decodeActionResponse(reply.body)
=============================================================================
