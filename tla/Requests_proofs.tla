--------------------------- MODULE Requests_proofs ---------------------------
(***************************************************************************)
(* Proofs about the request engine and the life of its client, for any     *)
(* number of calls, batches, texts and statuses, and any behaviour of the  *)
(* exchange and its gateway that Requests allows.                          *)
(***************************************************************************)
EXTENDS Requests, FiniteSetTheorems, TLAPS

(***************************************************************************)
(* The client.                                                             *)
(***************************************************************************)
\* Which connections and steps Close is through with, by how far it is.
ClientInv ==
  /\ once \in [Conns -> {"unused", "done"} \cup Calls]
  /\ conn \in [Conns -> {"nil", "new", "running", "closed"}]
  /\ closing \in 0 .. 8
  /\ closing >= 1 => ~ life
  /\ closing >= 2 => once["stream"] = "done"
  /\ closing >= 3 => once["post"] = "done"
  /\ closing >= 4 => conn["stream"] = "closed"
  /\ closing >= 5 => conn["post"] = "closed"

LEMMA StepsOfClose ==
  ASSUME NEW step, closing \in 0 .. 8, Closing(step)
  PROVE  /\ closing' = closing + 1 /\ closing' \in 0 .. 8
         /\ step = <<"cancel">> <=> closing = 0
         /\ step = <<"resolve", "stream">> <=> closing = 1
         /\ step = <<"resolve", "post">> <=> closing = 2
         /\ step = <<"close", "stream">> <=> closing = 3
         /\ step = <<"close", "post">> <=> closing = 4
         /\ step \in {<<"idle">>, <<"zero">>, <<"disable">>} <=> closing \in {5, 6, 7}
<1>1. Len(CloseSteps) = 8
  BY DEF CloseSteps
<1>2. closing \in 0 .. 7 /\ closing' = closing + 1 /\ CloseSteps[closing + 1] = step
  BY <1>1 DEF Closing
<1>3. /\ CloseSteps[1] = <<"cancel">> /\ CloseSteps[2] = <<"resolve", "stream">>
      /\ CloseSteps[3] = <<"resolve", "post">> /\ CloseSteps[4] = <<"close", "stream">>
      /\ CloseSteps[5] = <<"close", "post">> /\ CloseSteps[6] = <<"idle">>
      /\ CloseSteps[7] = <<"zero">> /\ CloseSteps[8] = <<"disable">>
  BY DEF CloseSteps
<1>4. \/ closing = 0 \/ closing = 1 \/ closing = 2 \/ closing = 3
      \/ closing = 4 \/ closing = 5 \/ closing = 6 \/ closing = 7
  BY <1>2
<1> QED
  BY <1>2, <1>3, <1>4

LEMMA ClientStep ==
  ASSUME ClientInv, CloseStep
  PROVE  ClientInv'
<1> USE DEF ClientInv, Conns
<1>1. CASE CancelLife
  BY <1>1, StepsOfClose DEF CancelLife
<1>2. ASSUME NEW k \in Conns, Resolve(k) PROVE ClientInv'
  BY <1>2, StepsOfClose DEF Resolve
<1>3. ASSUME NEW k \in Conns, CloseConn(k) PROVE ClientInv'
  BY <1>3, StepsOfClose DEF CloseConn
<1>4. CASE CloseIdle
  BY <1>4, StepsOfClose DEF CloseIdle
<1>5. CASE ZeroKey
  BY <1>5, StepsOfClose DEF ZeroKey
<1>6. CASE Disable
  BY <1>6, StepsOfClose DEF Disable
<1> QED
  BY <1>1, <1>2, <1>3, <1>4, <1>5, <1>6 DEF CloseStep

LEMMA UseStep ==
  ASSUME ClientInv, NEW k \in Conns, NEW c \in Calls, UseBegins(k, c) \/ UseEnds(k, c)
  PROVE  ClientInv'
BY ClientAssumption DEF ClientInv, Conns, UseBegins, UseEnds

\* The steps of the calls and of the exchange leave the client alone, but for
\* the first use of a connection.
LEMMA CallsLeaveClient ==
  ASSUME NEW c \in Calls,
         \/ \E a \in Acts : Begin(c, a)
         \/ BeginWatch(c) \/ CallStep(c) \/ Exchange(c)
  PROVE  UNCHANGED clientVars \/ Connect(c)
<1>1. CASE (\E a \in Acts : Begin(c, a)) \/ BeginWatch(c)
  BY <1>1 DEF Begin, BeginWatch
<1>2. CASE CallStep(c)
  BY <1>2 DEF CallStep, Sign, Send, SendFails, Watched, Receive, GiveUp, Account, Sync
<1>3. CASE Exchange(c)
  BY <1>3 DEF Exchange, Refuse, Unknown, Duplicate, Reject, Accept, Answer, Processed, Arrives
<1> QED
  BY <1>1, <1>2, <1>3

LEMMA ClientKept ==
  ASSUME ClientInv, [Next]_vars
  PROVE  ClientInv'
<1>1. CASE UNCHANGED clientVars
  BY <1>1 DEF clientVars, ClientInv
<1>2. ASSUME NEW c \in Calls, Connect(c) PROVE ClientInv'
  <2>1. UsedConn(c) \in Conns
    BY DEF UsedConn, Conns
  <2> QED
    BY <1>2, <2>1, UseStep DEF Connect
<1>3. CASE CloseStep
  BY <1>3, ClientStep
<1> QED
  BY <1>1, <1>2, <1>3, CallsLeaveClient DEF Next, vars

LEMMA ClientInit == Init => ClientInv
BY DEF Init, InitClient, ClientInv, Conns

(***************************************************************************)
(* Nonces decide.                                                          *)
(***************************************************************************)
States == {"idle", "sign", "send", "await", "account", "sync", "done"}
ActKinds == {"none", "order", "noop", "query", "watch"}

\* The types the argument needs.
CallTypes ==
  /\ pc \in [Calls -> States]
  /\ act \in [Calls -> [kind : ActKinds, batch : Nat, nonce : Nat, ws : BOOLEAN]]
  /\ signed \in [Calls -> Nat]
  /\ wire \in [Calls -> {"none", "travelling", "dropped", "processed"}]
  /\ reply = [c \in Calls |-> reply[c]]
  /\ result = [c \in Calls |-> result[c]]
  /\ applied = [c \in Calls |-> applied[c]]
  /\ drawn \in Nat

\* What a call has done by where it is.
Progress(c) ==
  /\ pc[c] \in {"idle", "sign"} => signed[c] = 0
  /\ pc[c] \in {"idle", "sign", "send"} =>
       wire[c] = "none" /\ applied[c] = {} /\ reply[c] = NoReply /\ result[c].ok = FALSE
  /\ signed[c] # 0 /\ act[c].nonce # 0 => signed[c] = act[c].nonce
  /\ IsAction(c) /\ (pc[c] = "send" \/ wire[c] = "travelling") => signed[c] # 0

\* An action has effects only under a nonce the exchange has marked.
Marked(c) == applied[c] # {} => signed[c] \in spent

\* The nonce of c is spent on c: no other call of that nonce has an effect.
Settled(c) ==
  /\ signed[c] # 0 /\ signed[c] \in spent
  /\ \A d \in Calls \ {c} : signed[d] = signed[c] => applied[d] = {}

\* A call that was told, or will be told, that its action went through.
Decided(c) ==
  IsAction(c) /\ (result[c].ok = TRUE \/ (reply[c] # NoReply /\ OutcomeOf(reply[c]).ok = TRUE))
    => Settled(c)

NonceInv ==
  /\ CallTypes
  /\ 0 \notin spent
  /\ \A c \in Calls : Progress(c) /\ Marked(c) /\ Decided(c)

\* Failures of the gateway and rejections are never told as successes.
LEMMA FailureTold ==
  ASSUME NEW c \in Calls, NEW status, status # 200
  PROVE  OutcomeOf(Failed(c, status)).ok = FALSE
BY DEF OutcomeOf, Failed, Failure

LEMMA RejectionTold ==
  ASSUME NEW c \in Calls, NEW text, NEW items
  PROVE  OutcomeOf(Answers(c, Body("err", text, items))).ok = FALSE
BY DEF OutcomeOf, Answers, Body, decodeActionResponse, Failure

LEMMA NothingTold == OutcomeOf(NoReply).ok = FALSE
BY DEF OutcomeOf, NoReply, Failure

LEMMA NonceInit == Init => NonceInv
BY DEF Init, InitClient, NonceInv, CallTypes, Progress, Marked, Decided, States, ActKinds,
       NoAct, NoResult, IsAction

\* The facts about a call hold on when its own variables stay and the exchange
\* does not learn of it.
LEMMA CallUntouched ==
  ASSUME NonceInv, NEW c \in Calls,
         pc'[c] = pc[c], act'[c] = act[c], signed'[c] = signed[c], wire'[c] = wire[c],
         reply'[c] = reply[c], result'[c] = result[c], applied'[c] = applied[c],
         spent \subseteq spent',
         \A d \in Calls \ {c} : signed'[d] = signed'[c] /\ Settled(c) => applied'[d] = {}
  PROVE  (Progress(c) /\ Marked(c) /\ Decided(c))'
BY DEF NonceInv, Progress, Marked, Decided, Settled, IsAction

LEMMA ActTypes ==
  ASSUME NonceInv, NEW a \in Acts
  PROVE  a \in [kind : ActKinds, batch : Nat, nonce : Nat, ws : BOOLEAN]
<1>1. \A d \in Calls : signed[d] \in Nat
  BY DEF NonceInv, CallTypes
<1> DEFINE nonces == {signed[d] : d \in {e \in Calls : act[e].kind = "order"}} \cup {0}
<1>2. nonces \subseteq Nat
  BY <1>1
<1>3. \/ a \in [kind : {"order"}, batch : Batches, nonce : {0}, ws : BOOLEAN]
      \/ a \in [kind : {"noop"}, batch : {1}, nonce : nonces, ws : BOOLEAN]
      \/ a \in [kind : {"query"}, batch : {0}, nonce : {0}, ws : BOOLEAN]
  BY DEF Acts
<1> HIDE DEF nonces
<1>4. Batches \subseteq Nat
  BY RequestsAssumption
<1>5. a.kind \in ActKinds /\ a.batch \in Nat /\ a.nonce \in Nat /\ a.ws \in BOOLEAN
  <2>1. a.kind \in {"order", "noop", "query"} /\ a.ws \in BOOLEAN
    BY <1>3
  <2>2. a.batch \in Batches \cup {0, 1}
    BY <1>3
  <2>3. a.nonce \in nonces \cup {0}
    BY <1>3
  <2>4. a.kind \in ActKinds
    BY <2>1 DEF ActKinds
  <2>5. a.batch \in Nat
    <3>1. Batches \cup {0, 1} \subseteq Nat
      BY <1>4
    <3> QED
      BY <2>2, <3>1, Zenon
  <2>6. a.nonce \in Nat
    <3>1. nonces \cup {0} \subseteq Nat
      BY <1>2
    <3> QED
      BY <2>3, <3>1, Zenon
  <2> QED
    BY <2>1, <2>4, <2>5, <2>6
<1>6. a = [kind |-> a.kind, batch |-> a.batch, nonce |-> a.nonce, ws |-> a.ws]
  BY <1>3
<1> QED
  BY <1>5, <1>6

\* A step of a call, or of the exchange about it.
StepOf(c) ==
  \/ \E a \in Acts : Begin(c, a)
  \/ BeginWatch(c) \/ CallStep(c) \/ Exchange(c)

LEMMA TouchesItsOwn ==
  ASSUME CallTypes, NEW c \in Calls, StepOf(c), NEW d \in Calls, d # c
  PROVE  /\ pc'[d] = pc[d] /\ act'[d] = act[d] /\ signed'[d] = signed[d] /\ wire'[d] = wire[d]
         /\ reply'[d] = reply[d] /\ result'[d] = result[d] /\ applied'[d] = applied[d]
<1> USE DEF CallTypes, Step, Gives
<1>1. CASE (\E a \in Acts : Begin(c, a)) \/ BeginWatch(c)
  BY <1>1 DEF Begin, BeginWatch
<1>2. CASE CallStep(c)
  <2>1. CASE Sign(c) \/ Send(c) \/ SendFails(c) \/ Watched(c)
    BY <2>1 DEF Sign, Send, SendFails, Watched
  <2>2. CASE Connect(c) \/ Receive(c) \/ GiveUp(c) \/ Account(c) \/ Sync(c)
    BY <2>2 DEF Connect, Receive, GiveUp, Account, Sync, callVars
  <2> QED
    BY <1>2, <2>1, <2>2 DEF CallStep
<1>3. CASE Exchange(c)
  <2>1. ASSUME NEW fate, NEW answered, Arrives(c, fate, answered)
        PROVE /\ UNCHANGED <<pc, act, signed, result>>
              /\ wire'[d] = wire[d] /\ reply'[d] = reply[d]
    BY <2>1 DEF Arrives
  <2>2. applied'[d] = applied[d]
    BY <1>3 DEF Exchange, Refuse, Unknown, Duplicate, Reject, Accept, Answer
  <2>3. \E fate, answered : Arrives(c, fate, answered)
    BY <1>3 DEF Exchange, Refuse, Unknown, Duplicate, Reject, Accept, Answer, Processed
  <2> QED
    BY <2>1, <2>2, <2>3
<1> QED
  BY <1>1, <1>2, <1>3 DEF StepOf

\* Effects come under a fresh nonce only, and a call is signed before it has any.
LEMMA EffectsFresh ==
  ASSUME NonceInv, NEW c \in Calls, StepOf(c)
  PROVE  /\ spent \subseteq spent'
         /\ applied'[c] = applied[c] \/ signed[c] \notin spent
         /\ signed'[c] = signed[c] \/ applied'[c] = {}
<1> USE DEF NonceInv, CallTypes
<1>1. CASE (\E a \in Acts : Begin(c, a)) \/ BeginWatch(c)
  BY <1>1 DEF Begin, BeginWatch
<1>2. CASE Sign(c)
  BY <1>2 DEF Sign, Step, Progress
<1>3. CASE CallStep(c) /\ ~ Sign(c)
  BY <1>3 DEF CallStep, Connect, Send, SendFails, Watched, Receive, GiveUp, Account, Sync,
              callVars
<1>4. CASE Exchange(c)
  <2>1. signed' = signed
    BY <1>4 DEF Exchange, Refuse, Unknown, Duplicate, Reject, Accept, Answer, Processed, Arrives
  <2>2. spent \subseteq spent' /\ (applied' = applied \/ signed[c] \notin spent)
    BY <1>4 DEF Exchange, Refuse, Unknown, Duplicate, Reject, Accept, Answer, Fresh
  <2> QED
    BY <2>1, <2>2
<1> QED
  BY <1>1, <1>2, <1>3, <1>4 DEF StepOf

LEMMA OthersKept ==
  ASSUME NonceInv, NEW c \in Calls, StepOf(c), NEW d \in Calls, d # c
  PROVE  (Progress(d) /\ Marked(d) /\ Decided(d))'
<1>1. \A e \in Calls \ {c} :
        /\ pc'[e] = pc[e] /\ act'[e] = act[e] /\ signed'[e] = signed[e] /\ wire'[e] = wire[e]
        /\ reply'[e] = reply[e] /\ result'[e] = result[e] /\ applied'[e] = applied[e]
  BY TouchesItsOwn DEF NonceInv
<1>2. \A e \in Calls \ {d} : signed'[e] = signed'[d] /\ Settled(d) => applied'[e] = {}
  <2> SUFFICES ASSUME NEW e \in Calls \ {d}, signed'[e] = signed'[d], Settled(d)
               PROVE applied'[e] = {}
    OBVIOUS
  <2>1. CASE e # c
    BY <1>1, <2>1 DEF Settled
  <2>2. CASE e = c
    BY <1>1, <2>2, EffectsFresh DEF Settled
  <2> QED
    BY <2>1, <2>2
<1> QED
  BY <1>1, <1>2, EffectsFresh, CallUntouched

\* The facts about a call after its own steps.
LEMMA BeginKeeps ==
  ASSUME NonceInv, NEW c \in Calls, (\E a \in Acts : Begin(c, a)) \/ BeginWatch(c)
  PROVE  (Progress(c) /\ Marked(c) /\ Decided(c))'
<1>1. /\ pc[c] = "idle" /\ UNCHANGED <<signed, wire, reply, applied, spent>>
      /\ result'[c].ok = FALSE
      /\ pc'[c] = "send" => ~ IsAction(c)'
  <2>1. ASSUME NEW a \in Acts, Begin(c, a)
        PROVE  /\ pc[c] = "idle" /\ UNCHANGED <<signed, wire, reply, applied, spent>>
               /\ result'[c].ok = FALSE
               /\ pc'[c] = "send" => ~ IsAction(c)'
    BY <2>1 DEF Begin, Step, Gives, Failure, NonceInv, CallTypes, Progress, IsAction
  <2>2. CASE BeginWatch(c)
    BY <2>2 DEF BeginWatch, Step, NonceInv, CallTypes, Progress, IsAction
  <2> QED
    BY <2>1, <2>2
<1>2. Progress(c)
  BY DEF NonceInv
<1> QED
  BY <1>1, <1>2 DEF Progress, Marked, Decided, IsAction

LEMMA CallKeeps ==
  ASSUME NonceInv, NEW c \in Calls, CallStep(c)
  PROVE  (Progress(c) /\ Marked(c) /\ Decided(c))'
<1> USE DEF NonceInv, CallTypes, Step, Gives
<1>1. CASE Sign(c)
  <2>1. Progress(c) /\ pc[c] = "sign"
    BY <1>1 DEF Sign
  <2>2. NonceOf(c) \in Nat \ {0} /\ (act[c].nonce # 0 => NonceOf(c) = act[c].nonce)
    BY DEF NonceOf
  <2>3. /\ UNCHANGED <<act, wire, reply, applied, spent>>
        /\ signed'[c] = NonceOf(c)
        /\ pc'[c] \in {"send", "done"}
        /\ result'[c].ok = FALSE
    BY <1>1, <2>1 DEF Sign, Failure, Progress
  <2> QED
    BY <2>1, <2>2, <2>3 DEF Progress, Marked, Decided, IsAction
<1>2. ASSUME Send(c) \/ SendFails(c) \/ Watched(c) \/ Account(c) \/ Sync(c)
      PROVE (Progress(c) /\ Marked(c) /\ Decided(c))'
  <2>1. /\ UNCHANGED <<act, signed, reply, applied, spent>>
        /\ pc'[c] \notin {"idle", "sign", "send"}
        /\ wire'[c] = "travelling" => pc[c] = "send" \/ wire[c] = "travelling"
        /\ result'[c] = result[c] \/ result'[c].ok = FALSE
    BY <1>2 DEF Send, SendFails, Watched, Account, Sync, Failure
  <2>2. Settled(c)' <=> Settled(c)
    BY <2>1 DEF Settled
  <2> QED
    BY <2>1, <2>2 DEF Progress, Marked, Decided, IsAction
<1>3. CASE Connect(c)
  BY <1>3 DEF Connect, callVars, Progress, Marked, Decided, IsAction, Settled
<1>4. ASSUME Receive(c) \/ GiveUp(c)
      PROVE (Progress(c) /\ Marked(c) /\ Decided(c))'
  <2>1. /\ UNCHANGED <<act, signed, wire, applied, spent>>
        /\ pc'[c] = "account" /\ reply'[c] = NoReply
        /\ result'[c].ok = TRUE => reply[c] # NoReply /\ OutcomeOf(reply[c]).ok = TRUE
    BY <1>4, NothingTold DEF Receive, GiveUp
  <2>2. Settled(c)' <=> Settled(c)
    BY <2>1 DEF Settled
  <2> QED
    BY <2>1, <2>2 DEF Progress, Marked, Decided, IsAction
<1> QED
  BY <1>1, <1>2, <1>3, <1>4 DEF CallStep

\* Only an accepted action is answered with a success.
LEMMA ErrorsTold ==
  ASSUME NonceInv, NEW c \in Calls, IsAction(c),
         Refuse(c) \/ Unknown(c) \/ Duplicate(c) \/ Reject(c) \/ Answer(c)
  PROVE  reply'[c] = reply[c] \/ OutcomeOf(reply'[c]).ok = FALSE
<1> USE DEF NonceInv, CallTypes
<1>1. \A status \in Refusals \cup Failures \cup {0} : status # 200
  <2>1. 200 \notin Refusals
    <3>1. 200 \notin 400 .. 499
      OBVIOUS
    <3> QED
      BY <3>1, RequestsAssumption
  <2>2. 200 \notin Failures
    BY RequestsAssumption
  <2>3. 200 # 0
    OBVIOUS
  <2> QED
    BY <2>1, <2>2, <2>3
<1>2. ASSUME NEW status \in Refusals \cup Failures \cup {0}, NEW fate,
             Arrives(c, fate, Failed(c, status))
      PROVE reply'[c] = reply[c] \/ OutcomeOf(reply'[c]).ok = FALSE
  BY <1>1, <1>2, FailureTold DEF Arrives
<1>3. ASSUME NEW text, NEW items, NEW fate,
             Arrives(c, fate, Answers(c, Body("err", text, items)))
      PROVE reply'[c] = reply[c] \/ OutcomeOf(reply'[c]).ok = FALSE
  BY <1>3, RejectionTold DEF Arrives
<1>4. CASE Refuse(c)
  BY <1>2, <1>4 DEF Refuse
<1>5. CASE Unknown(c) \/ Duplicate(c) \/ Reject(c)
  BY <1>2, <1>3, <1>5 DEF Unknown, Duplicate, Reject, Processed
<1>6. CASE Answer(c)
  BY <1>6 DEF Answer, IsAction
<1> QED
  BY <1>4, <1>5, <1>6

LEMMA ExchangeKeeps ==
  ASSUME NonceInv, NEW c \in Calls, Exchange(c)
  PROVE  (Progress(c) /\ Marked(c) /\ Decided(c))'
<1> USE DEF NonceInv, CallTypes
<1>1. /\ UNCHANGED <<pc, act, signed, result>> /\ wire[c] = "travelling"
      /\ wire'[c] # "travelling"
      /\ reply'[c] # NoReply => reply'[c] = reply[c] \/ pc[c] = "await"
  BY DEF Exchange, Refuse, Unknown, Duplicate, Reject, Accept, Answer, Processed, Arrives
<1>2. pc[c] \notin {"idle", "sign", "send"} /\ (IsAction(c) => signed[c] # 0)
  BY <1>1 DEF Progress
<1>3. Progress(c)'
  BY <1>1, <1>2 DEF Progress, IsAction
<1>4. CASE Accept(c)
  <2>1. signed[c] \notin spent /\ spent' = spent \cup {signed[c]} /\ IsAction(c)
    BY <1>4 DEF Accept, Fresh
  <2>2. \A d \in Calls \ {c} : applied'[d] = applied[d] /\ Marked(d)
    BY <1>4 DEF Accept
  <2>3. Settled(c)'
    BY <1>1, <1>2, <2>1, <2>2 DEF Settled, Marked
  <2> QED
    BY <1>1, <1>3, <2>1, <2>3 DEF Marked, Decided
<1>5. ASSUME Refuse(c) \/ Unknown(c) \/ Duplicate(c) \/ Reject(c) \/ Answer(c)
      PROVE (Marked(c) /\ Decided(c))'
  <2>1. applied' = applied /\ spent \subseteq spent'
    <3>1. applied' = applied
      BY <1>5 DEF Refuse, Unknown, Duplicate, Reject, Answer
    <3>2. spent' = spent \/ spent' = spent \cup {signed[c]}
      BY <1>5 DEF Refuse, Unknown, Duplicate, Reject, Answer, Fresh
    <3> QED
      BY <3>1, <3>2
  <2>2. Settled(c) => Settled(c)'
    BY <1>1, <2>1 DEF Settled
  <2>3. IsAction(c) => reply'[c] = reply[c] \/ OutcomeOf(reply'[c]).ok = FALSE
    BY <1>5, ErrorsTold
  <2> QED
    BY <1>1, <2>1, <2>2, <2>3 DEF Marked, Decided, IsAction
<1> QED
  BY <1>3, <1>4, <1>5 DEF Exchange

LEMMA TypesKept ==
  ASSUME NonceInv, NEW c \in Calls, StepOf(c)
  PROVE  CallTypes' /\ 0 \notin spent'
<1> USE DEF NonceInv, CallTypes, Step, Gives, States
<1>1. ASSUME NEW a \in Acts, Begin(c, a) PROVE CallTypes' /\ 0 \notin spent'
  <2>1. a \in [kind : ActKinds, batch : Nat, nonce : Nat, ws : BOOLEAN]
    BY ActTypes
  <2> QED
    BY <1>1, <2>1 DEF Begin
<1>2. CASE BeginWatch(c)
  BY <1>2 DEF BeginWatch, ActKinds
<1>3. CASE Sign(c)
  <2>1. NonceOf(c) \in Nat
    BY DEF NonceOf
  <2> QED
    BY <1>3, <2>1 DEF Sign
<1>4. CASE Send(c) \/ SendFails(c) \/ Watched(c)
  BY <1>4 DEF Send, SendFails, Watched
<1>5. CASE Connect(c) \/ Receive(c) \/ GiveUp(c)
  BY <1>5 DEF Connect, Receive, GiveUp, callVars
<1>6. CASE Account(c) \/ Sync(c)
  BY <1>6 DEF Account, Sync
<1>7. CASE Exchange(c)
  <2>1. \E fate \in {"dropped", "processed"} : \E answered : Arrives(c, fate, answered)
    BY <1>7 DEF Exchange, Refuse, Unknown, Duplicate, Reject, Accept, Answer, Processed
  <2>2. applied' = [d \in Calls |-> applied'[d]]
    BY <1>7 DEF Exchange, Refuse, Unknown, Duplicate, Reject, Accept, Answer
  <2>3. 0 \notin spent'
    <3>1. CASE Refuse(c) \/ Unknown(c) \/ Duplicate(c) \/ Answer(c)
      BY <3>1 DEF Refuse, Unknown, Duplicate, Answer
    <3>2. CASE Reject(c) \/ Accept(c)
      <4>1. IsAction(c) /\ spent' = spent \cup {signed[c]}
        BY <3>2 DEF Reject, Accept, Fresh
      <4>2. wire[c] = "travelling"
        BY <2>1 DEF Arrives
      <4>3. signed[c] # 0
        BY <4>1, <4>2 DEF Progress
      <4> QED
        BY <4>1, <4>3
    <3> QED
      BY <1>7, <3>1, <3>2 DEF Exchange
  <2>4. UNCHANGED <<pc, act, signed, result, drawn>>
    BY <2>1 DEF Arrives
  <2>5. wire' \in [Calls -> {"none", "travelling", "dropped", "processed"}]
    BY <2>1 DEF Arrives
  <2>6. reply' = [d \in Calls |-> reply'[d]]
    BY <2>1 DEF Arrives
  <2> QED
    BY <2>2, <2>3, <2>4, <2>5, <2>6
<1> QED
  BY <1>1, <1>2, <1>3, <1>4, <1>5, <1>6, <1>7 DEF StepOf, CallStep

LEMMA NonceStep ==
  ASSUME NonceInv, [Next]_vars
  PROVE  NonceInv'
<1>1. CASE UNCHANGED callVars
  BY <1>1 DEF callVars, NonceInv, CallTypes, Progress, Marked, Decided, Settled, IsAction
<1>2. ASSUME NEW c \in Calls, StepOf(c) PROVE NonceInv'
  <2>1. (Progress(c) /\ Marked(c) /\ Decided(c))'
    BY <1>2, BeginKeeps, CallKeeps, ExchangeKeeps DEF StepOf
  <2>2. CallTypes' /\ 0 \notin spent'
    BY <1>2, TypesKept
  <2> QED
    BY <1>2, <2>1, <2>2, OthersKept DEF NonceInv
<1> QED
  BY <1>1, <1>2 DEF Next, StepOf, vars

(***************************************************************************)
(* What callers are told.                                                  *)
(***************************************************************************)
\* The outcome agrees with what the exchange has done, and will go on to.
Tells(c, outcome) ==
  IF outcome.ok = TRUE
  THEN /\ wire[c] # "travelling"
       /\ \A i \in DOMAIN outcome.statuses :
            /\ Accepted(outcome.statuses[i]) => i \in applied[c]
            /\ outcome.statuses[i].kind = "error" => i \notin applied[c]
  ELSE outcome.kind \notin {"network", "unknown"} =>
         applied[c] = {} /\ wire[c] # "travelling"

\* An action has no effects before the exchange has it, and the reply on its
\* way to the caller and the outcome it is given agree with those it has.
Truthful(c) ==
  IsAction(c) =>
    /\ wire[c] \in {"none", "travelling"} => applied[c] = {}
    /\ reply[c] # NoReply => Tells(c, OutcomeOf(reply[c]))
    /\ pc[c] \in {"account", "sync", "done"} => Tells(c, result[c])

OutcomeInv == NonceInv /\ \A c \in Calls : Truthful(c)

\* A gateway that may have passed the request on leaves its outcome open.
LEMMA FailureLeavesOpen ==
  ASSUME NEW c \in Calls, NEW status \in Failures
  PROVE  /\ OutcomeOf(Failed(c, status)).ok = FALSE
         /\ OutcomeOf(Failed(c, status)).kind \in {"network", "unknown"}
<1>1. status \in Nat /\ status \notin 400 .. 499 /\ status # 0 /\ status # 200
  BY RequestsAssumption
<1>2. MapHTTPStatus(status) \in {"network", "unknown"}
  BY <1>1 DEF MapHTTPStatus
<1>3. OutcomeOf(Failed(c, status)) = Failure(MapHTTPStatus(status))
  <2>1. CASE act[c].ws
    <3>1. Failed(c, status) = [form |-> "error", status |-> status]
      BY <2>1 DEF Failed
    <3> DEFINE r == [form |-> "error", status |-> status]
    <3>2. r.form = "error" /\ r.status = status
      OBVIOUS
    <3> HIDE DEF r
    <3>3. OutcomeOf(r) = Failure(MapHTTPStatus(status))
      BY <1>1, <3>2 DEF OutcomeOf
    <3> QED
      BY <3>1, <3>3 DEF r
  <2>2. CASE ~ act[c].ws
    <3>1. Failed(c, status) = [form |-> "http", status |-> status, body |-> NoReply]
      BY <2>2 DEF Failed
    <3> DEFINE r == [form |-> "http", status |-> status, body |-> NoReply]
    <3>2. r.form = "http" /\ r.status = status
      OBVIOUS
    <3> HIDE DEF r
    <3>3. OutcomeOf(r) = Failure(MapHTTPStatus(status))
      BY <1>1, <3>2 DEF OutcomeOf
    <3> QED
      BY <3>1, <3>3 DEF r
  <2> QED
    BY <2>1, <2>2
<1> QED
  BY <1>2, <1>3 DEF Failure

\* The answer to an accepted action tells item by item.
LEMMA AcceptedTold ==
  ASSUME NEW c \in Calls, NEW items
  PROVE  OutcomeOf(Answers(c, Body("ok", EmptyText, items)))
           = Success([i \in DOMAIN items |-> decodeStatus(items[i])])
<1> DEFINE body == Body("ok", EmptyText, items)
<1>1. body.status = "ok" /\ body.items = items
  BY DEF Body
<1> HIDE DEF body
<1>2. decodeActionResponse(body) = Success([i \in DOMAIN items |-> decodeStatus(items[i])])
  BY <1>1 DEF decodeActionResponse
<1>3. OutcomeOf(Answers(c, body)) = decodeActionResponse(body)
  <2> DEFINE r == Answers(c, body)
  <2>1. /\ r.form \in {"http", "payload"} /\ r.body = body
        /\ r.form = "http" => r.status = 200
    BY DEF Answers
  <2> HIDE DEF r
  <2>2. OutcomeOf(r) = decodeActionResponse(body)
    BY <2>1 DEF OutcomeOf
  <2> QED
    BY <2>2 DEF r
<1> QED
  BY <1>2, <1>3 DEF body

LEMMA ItemsTold ==
  /\ Accepted(decodeStatus(Resting)) /\ decodeStatus(Resting).kind = "resting"
  /\ decodeStatus(Error).kind = "error"
  /\ decodeStatus(Novel).kind = "unknown"
BY DEF decodeStatus, Accepted, Resting, Error, Novel, Words

LEMMA OutcomeInit == Init => OutcomeInv
<1> SUFFICES ASSUME Init PROVE OutcomeInv
  OBVIOUS
<1>1. NonceInv
  BY NonceInit
<1> QED
  BY <1>1 DEF Init, OutcomeInv, Truthful, IsAction, NoAct

\* Nothing that is told changes while the exchange is not at the call.
LEMMA TellsOn ==
  ASSUME NEW c \in Calls, NEW outcome, Tells(c, outcome),
         applied'[c] = applied[c],
         wire'[c] = wire[c] \/ wire'[c] # "travelling"
  PROVE  Tells(c, outcome)'
BY DEF Tells

LEMMA OthersTruthful ==
  ASSUME OutcomeInv, NEW c \in Calls, StepOf(c), NEW d \in Calls, d # c
  PROVE  Truthful(d)'
<1>1. /\ pc'[d] = pc[d] /\ act'[d] = act[d] /\ signed'[d] = signed[d] /\ wire'[d] = wire[d]
      /\ reply'[d] = reply[d] /\ result'[d] = result[d] /\ applied'[d] = applied[d]
  BY TouchesItsOwn DEF OutcomeInv, NonceInv
<1>2. \A outcome : Tells(d, outcome) => Tells(d, outcome)'
  BY <1>1, TellsOn
<1> QED
  BY <1>1, <1>2 DEF OutcomeInv, Truthful, IsAction

\* What a failure that was told before anything was sent says.
LEMMA UnsentTold ==
  ASSUME NEW c \in Calls, NEW kind, applied'[c] = {}, wire'[c] # "travelling"
  PROVE  Tells(c, Failure(kind))'
BY DEF Tells, Failure

LEMMA BeginTruthful ==
  ASSUME OutcomeInv, NEW c \in Calls, (\E a \in Acts : Begin(c, a)) \/ BeginWatch(c)
  PROVE  Truthful(c)'
<1>1. NonceInv /\ Progress(c)
  BY DEF OutcomeInv, NonceInv
<1>2. /\ pc[c] = "idle" /\ UNCHANGED <<wire, reply, applied>>
      /\ pc'[c] \in {"sign", "send"} \/ \E kind : result'[c] = Failure(kind)
      /\ pc'[c] \in {"sign", "send", "done"}
  <2>1. ASSUME NEW a \in Acts, Begin(c, a)
        PROVE  /\ pc[c] = "idle" /\ UNCHANGED <<wire, reply, applied>>
               /\ pc'[c] \in {"sign", "send"} \/ \E kind : result'[c] = Failure(kind)
               /\ pc'[c] \in {"sign", "send", "done"}
    BY <1>1, <2>1 DEF Begin, Step, Gives, NonceInv, CallTypes
  <2>2. CASE BeginWatch(c)
    BY <1>1, <2>2 DEF BeginWatch, Step, NonceInv, CallTypes
  <2> QED
    BY <2>1, <2>2
<1>3. wire'[c] = "none" /\ applied'[c] = {} /\ reply'[c] = NoReply
  BY <1>1, <1>2 DEF Progress
<1>4. pc'[c] = "done" => Tells(c, result[c])'
  BY <1>2, <1>3, UnsentTold
<1> QED
  BY <1>2, <1>3, <1>4 DEF Truthful, IsAction, NoReply

LEMMA CallTruthful ==
  ASSUME OutcomeInv, NEW c \in Calls, CallStep(c)
  PROVE  Truthful(c)'
<1> USE DEF NonceInv, CallTypes, Step, Gives
<1>1. NonceInv /\ Progress(c) /\ Truthful(c)
  BY DEF OutcomeInv
<1>2. CASE Sign(c)
  <2>1. /\ pc[c] = "sign" /\ UNCHANGED <<wire, reply, applied>>
        /\ pc'[c] = "send" \/ (pc'[c] = "done" /\ result'[c] = Failure("auth"))
    BY <1>1, <1>2 DEF Sign
  <2>2. wire'[c] = "none" /\ applied'[c] = {} /\ reply'[c] = NoReply
    BY <1>1, <2>1 DEF Progress
  <2>3. pc'[c] = "done" => Tells(c, result[c])'
    BY <2>1, <2>2, UnsentTold
  <2> QED
    BY <2>1, <2>2, <2>3 DEF Truthful, NoReply
<1>3. CASE Send(c)
  <2>1. /\ pc[c] = "send" /\ pc'[c] = "await" /\ UNCHANGED <<reply, applied>>
    BY <1>1, <1>3 DEF Send
  <2> QED
    BY <1>1, <2>1 DEF Progress, Truthful
<1>4. CASE SendFails(c)
  <2>1. /\ pc[c] = "send" /\ UNCHANGED <<wire, reply, applied>>
        /\ result'[c] = Failure("network")
    BY <1>1, <1>4 DEF SendFails
  <2>2. Tells(c, result[c])'
    BY <2>1 DEF Tells, Failure
  <2> QED
    BY <1>1, <2>1, <2>2 DEF Progress, Truthful
<1>5. CASE Watched(c)
  BY <1>5 DEF Watched, Truthful, IsAction
<1>6. CASE Connect(c)
  BY <1>1, <1>6 DEF Connect, callVars, Truthful, IsAction, Tells
<1>7. CASE Receive(c)
  <2>1. /\ UNCHANGED <<act, wire, applied>> /\ reply[c] # NoReply /\ reply'[c] = NoReply
        /\ result'[c] = OutcomeOf(reply[c])
    BY <1>1, <1>7 DEF Receive
  <2>2. IsAction(c) => Tells(c, OutcomeOf(reply[c]))
    BY <1>1, <2>1 DEF Truthful
  <2>3. IsAction(c) => Tells(c, result[c])'
    BY <2>1, <2>2 DEF Tells
  <2> QED
    BY <1>1, <2>1, <2>3 DEF Truthful, IsAction
<1>8. CASE GiveUp(c)
  <2>1. /\ UNCHANGED <<act, wire, applied>> /\ reply'[c] = NoReply
        /\ result'[c] = OutcomeOf(NoReply)
    BY <1>1, <1>8 DEF GiveUp
  <2>2. OutcomeOf(NoReply) = Failure("network")
    BY DEF OutcomeOf, NoReply
  <2>3. Tells(c, result[c])'
    BY <2>1, <2>2 DEF Tells, Failure
  <2> QED
    BY <1>1, <2>1, <2>3 DEF Truthful, IsAction
<1>9. CASE Account(c) \/ Sync(c)
  <2>1. /\ UNCHANGED <<act, wire, applied, reply, result>>
        /\ pc[c] \in {"account", "sync"}
    BY <1>9 DEF Account, Sync
  <2>2. IsAction(c) => Tells(c, result[c])
    BY <1>1, <2>1 DEF Truthful
  <2>3. IsAction(c) => Tells(c, result[c])'
    BY <2>1, <2>2 DEF Tells
  <2>4. Tells(c, OutcomeOf(reply[c])) => Tells(c, OutcomeOf(reply[c]))'
    BY <2>1 DEF Tells
  <2> QED
    BY <1>1, <2>1, <2>3, <2>4 DEF Truthful, IsAction
<1> QED
  BY <1>2, <1>3, <1>4, <1>5, <1>6, <1>7, <1>8, <1>9 DEF CallStep

\* The items of an accepted action, told as they are in effect.
LEMMA AcceptedItems ==
  ASSUME CallTypes, NEW c \in Calls, Accept(c)
  PROVE  \E items :
           /\ Processed(c, Body("ok", EmptyText, items))
           /\ \A i \in DOMAIN items :
                /\ items[i] \in {Resting, Error, Novel}
                /\ items[i] = Resting => i \in applied'[c]
                /\ items[i] = Error => i \notin applied'[c]
<1>1. CASE act[c].kind = "noop"
  <2>1. Processed(c, Body("ok", EmptyText, <<>>)) /\ DOMAIN <<>> = {}
    BY <1>1 DEF Accept
  <2> QED
    BY <2>1
<1>2. CASE act[c].kind # "noop"
  <2>1. PICK items \in [1 .. act[c].batch -> {Resting, Error, Novel}] :
          \E unsaid \in SUBSET (1 .. MaxBatch) :
            /\ unsaid \subseteq {i \in DOMAIN items : items[i] = Novel}
            /\ applied' = [applied EXCEPT ![c] =
                             unsaid \cup {i \in DOMAIN items : items[i] = Resting}]
            /\ Processed(c, Body("ok", EmptyText, items))
    BY <1>2 DEF Accept
  <2>2. PICK unsaid \in SUBSET (1 .. MaxBatch) :
            /\ unsaid \subseteq {i \in DOMAIN items : items[i] = Novel}
            /\ applied' = [applied EXCEPT ![c] =
                             unsaid \cup {i \in DOMAIN items : items[i] = Resting}]
            /\ Processed(c, Body("ok", EmptyText, items))
    BY <2>1
  <2>3. applied'[c] = unsaid \cup {i \in DOMAIN items : items[i] = Resting}
    BY <2>2 DEF CallTypes
  <2>4. Error # Novel /\ Error # Resting
    BY ItemsTold DEF Accepted
  <2>5. \A i \in DOMAIN items :
          /\ items[i] \in {Resting, Error, Novel}
          /\ items[i] = Resting => i \in applied'[c]
          /\ items[i] = Error => i \notin applied'[c]
    BY <2>1, <2>2, <2>3, <2>4
  <2> QED
    BY <2>2, <2>5
<1> QED
  BY <1>1, <1>2

\* The exchange has an action for the first time, and answers what it did.
LEMMA ExchangeTruthful ==
  ASSUME OutcomeInv, NEW c \in Calls, Exchange(c)
  PROVE  Truthful(c)'
<1> USE DEF NonceInv, CallTypes
<1>1. NonceInv /\ Progress(c) /\ Truthful(c)
  BY DEF OutcomeInv
<1>2. /\ UNCHANGED <<pc, act, result>> /\ wire[c] = "travelling"
      /\ wire'[c] \in {"dropped", "processed"}
  <2>1. \E fate \in {"dropped", "processed"} : \E answered : Arrives(c, fate, answered)
    BY DEF Exchange, Refuse, Unknown, Duplicate, Reject, Accept, Answer, Processed
  <2> QED
    BY <1>1, <2>1 DEF Arrives
<1>3. IsAction(c) => applied[c] = {} /\ IsAction(c)'
  BY <1>1, <1>2 DEF Truthful, IsAction
\* An outcome told before the answer was open about the request.
<1>4. IsAction(c) /\ pc'[c] \in {"account", "sync", "done"} => Tells(c, result[c])'
  <2>1. IsAction(c) /\ pc[c] \in {"account", "sync", "done"} => Tells(c, result[c])
    BY <1>1 DEF Truthful
  <2>2. Tells(c, result[c]) => Tells(c, result[c])'
    BY <1>2 DEF Tells
  <2> QED
    BY <1>2, <2>1, <2>2
<1>5. ASSUME reply'[c] # NoReply, IsAction(c)
      PROVE Tells(c, OutcomeOf(reply[c]))'
  <2> USE <1>5
  <2>1. CASE reply'[c] = reply[c]
    <3>1. Tells(c, OutcomeOf(reply[c]))
      BY <1>1, <2>1 DEF Truthful
    <3> QED
      BY <1>2, <2>1, <3>1 DEF Tells
  <2>2. ASSUME NEW status \in Failures, reply'[c] = Failed(c, status)
        PROVE Tells(c, OutcomeOf(reply[c]))'
    BY <2>2, FailureLeavesOpen DEF Tells
  <2>3. CASE Refuse(c) \/ Unknown(c) \/ Duplicate(c) \/ Reject(c) \/ Answer(c)
    <3>1. applied'[c] = {}
      BY <1>3, <2>3 DEF Refuse, Unknown, Duplicate, Reject, Answer
    <3>2. reply'[c] = reply[c] \/ OutcomeOf(reply'[c]).ok = FALSE
      BY <1>1, <2>3, ErrorsTold
    <3>3. CASE OutcomeOf(reply'[c]).ok = FALSE
      BY <1>2, <3>1, <3>3 DEF Tells
    <3> QED
      BY <2>1, <3>2, <3>3
  <2>4. CASE Accept(c)
    <3>1. PICK items :
            /\ Processed(c, Body("ok", EmptyText, items))
            /\ \A i \in DOMAIN items :
                 /\ items[i] \in {Resting, Error, Novel}
                 /\ items[i] = Resting => i \in applied'[c]
                 /\ items[i] = Error => i \notin applied'[c]
      BY <1>1, <1>2, <2>4, AcceptedItems
    <3>2. CASE reply'[c] = Answers(c, Body("ok", EmptyText, items))
      <4>1. OutcomeOf(reply'[c]).ok = TRUE
            /\ OutcomeOf(reply'[c]).statuses = [i \in DOMAIN items |-> decodeStatus(items[i])]
        BY <3>2, AcceptedTold DEF Success
      <4>2. \A i \in DOMAIN items :
              /\ Accepted(decodeStatus(items[i])) => i \in applied'[c]
              /\ decodeStatus(items[i]).kind = "error" => i \notin applied'[c]
        BY <3>1, ItemsTold DEF Accepted
      <4> QED
        BY <1>2, <4>1, <4>2 DEF Tells, Accepted
    <3>3. \/ Arrives(c, "processed", Answers(c, Body("ok", EmptyText, items)))
          \/ \E status \in Failures : Arrives(c, "processed", Failed(c, status))
      BY <3>1 DEF Processed
    <3>4. \/ reply'[c] = reply[c]
          \/ reply'[c] = Answers(c, Body("ok", EmptyText, items))
          \/ \E status \in Failures : reply'[c] = Failed(c, status)
      BY <1>1, <3>3 DEF Arrives
    <3> QED
      BY <2>1, <2>2, <3>2, <3>4
  <2> QED
    BY <2>3, <2>4 DEF Exchange
<1> QED
  BY <1>2, <1>3, <1>4, <1>5 DEF Truthful, IsAction

LEMMA OutcomeStep ==
  ASSUME OutcomeInv, [Next]_vars
  PROVE  OutcomeInv'
<1>1. NonceInv'
  BY NonceStep DEF OutcomeInv
<1>2. CASE UNCHANGED callVars
  BY <1>1, <1>2 DEF callVars, OutcomeInv, Truthful, Tells, IsAction
<1>3. ASSUME NEW c \in Calls, StepOf(c) PROVE OutcomeInv'
  <2>1. Truthful(c)'
    BY <1>3, BeginTruthful, CallTruthful, ExchangeTruthful DEF StepOf
  <2> QED
    BY <1>1, <1>3, <2>1, OthersTruthful DEF OutcomeInv
<1> QED
  BY <1>2, <1>3 DEF Next, StepOf, vars

(***************************************************************************)
(* The mirror of the exchange's count.                                     *)
(***************************************************************************)
\* The number of items the acts of a function give to the calls of S.
Weigh(a, S) == Cardinality(UNION {{c} \X (1 .. a[c].batch) : c \in S})

LEMMA WeighParts ==
  ASSUME NEW a, \A d \in Calls : a[d].batch \in Nat,
         NEW S \in SUBSET Calls, NEW c \in Calls
  PROVE  /\ Weigh(a, S) \in Nat
         /\ Weigh(a, S) = Weigh(a, S \ {c}) + (IF c \in S THEN a[c].batch ELSE 0)
<1> DEFINE own(d) == {d} \X (1 .. a[d].batch)
           items(T) == UNION {own(d) : d \in T}
<1>1. \A d \in Calls : IsFiniteSet(own(d)) /\ Cardinality(own(d)) = a[d].batch
  <2> SUFFICES ASSUME NEW d \in Calls
               PROVE  IsFiniteSet(own(d)) /\ Cardinality(own(d)) = a[d].batch
    OBVIOUS
  <2>1. IsFiniteSet({d}) /\ Cardinality({d}) = 1
    BY FS_Singleton
  <2>2. IsFiniteSet(1 .. a[d].batch) /\ Cardinality(1 .. a[d].batch) = a[d].batch
    <3>1. a[d].batch \in Nat
      OBVIOUS
    <3>2. \A n \in Nat : IsFiniteSet(1 .. n) /\ Cardinality(1 .. n) = n
      <4> SUFFICES ASSUME NEW n \in Nat PROVE IsFiniteSet(1 .. n) /\ Cardinality(1 .. n) = n
        OBVIOUS
      <4>1. /\ IsFiniteSet(1 .. n)
            /\ Cardinality(1 .. n) = IF 1 > n THEN 0 ELSE n - 1 + 1
        <5>1. 1 \in Int /\ n \in Int
          OBVIOUS
        <5> QED
          BY <5>1, FS_Interval
      <4> QED
        BY <4>1
    <3> QED
      BY <3>1, <3>2
  <2>3. /\ IsFiniteSet(own(d))
        /\ Cardinality(own(d)) = Cardinality({d}) * Cardinality(1 .. a[d].batch)
    BY <2>1, <2>2, FS_Product
  <2> QED
    BY <2>1, <2>2, <2>3
<1>2. ASSUME NEW T \in SUBSET Calls PROVE IsFiniteSet(items(T))
  <2> DEFINE f == [d \in T |-> own(d)]
             R == {own(d) : d \in T}
  <2>1. IsFiniteSet(T)
    BY RequestsAssumption, FS_Subset
  <2>2. f \in Surjection(T, R)
    BY DEF Surjection
  <2>3. IsFiniteSet(R)
    <3> HIDE DEF f, R
    <3> QED
      BY <2>1, <2>2, FS_Surjection
  <2>4. \A U \in R : IsFiniteSet(U)
    BY <1>1
  <2> QED
    BY <2>3, <2>4, FS_UNION
<1>3. Weigh(a, S) = Cardinality(items(S)) /\ Weigh(a, S \ {c}) = Cardinality(items(S \ {c}))
  BY DEF Weigh
<1>4. Cardinality(items(S)) \in Nat
  BY <1>2, FS_CardinalityType
<1>5. CASE c \in S
  <2>1. items(S) = items(S \ {c}) \cup own(c)
    BY <1>5
  <2>2. items(S \ {c}) \cap own(c) = {}
    OBVIOUS
  <2>3. IsFiniteSet(items(S \ {c}))
    BY <1>2
  <2> HIDE DEF items, own
  <2>4. Cardinality(items(S \ {c})) \in Nat /\ Cardinality({}) = 0
    BY <2>3, FS_CardinalityType, FS_EmptySet
  <2>5. Cardinality(items(S)) = Cardinality(items(S \ {c})) + Cardinality(own(c))
                                 - Cardinality({})
    <3>1. IsFiniteSet(own(c))
      BY <1>1
    <3>2. Cardinality(items(S \ {c}) \cup own(c))
            = Cardinality(items(S \ {c})) + Cardinality(own(c))
              - Cardinality(items(S \ {c}) \cap own(c))
      BY <2>3, <3>1, FS_Union
    <3> QED
      BY <2>1, <2>2, <3>2
  <2>6. Cardinality(own(c)) = a[c].batch /\ a[c].batch \in Nat
    BY <1>1
  <2> QED
    BY <1>3, <1>4, <1>5, <2>4, <2>5, <2>6
<1>6. CASE c \notin S
  <2>1. S \ {c} = S
    BY <1>6
  <2> HIDE DEF items, own
  <2> QED
    BY <1>3, <1>4, <1>6, <2>1
<1> QED
  BY <1>5, <1>6

\* When all but c stay as they were, a sum changes by what c has in it.
LEMMA WeighMoves ==
  ASSUME NEW a, NEW b, NEW S \in SUBSET Calls, NEW T \in SUBSET Calls, NEW c \in Calls,
         \A d \in Calls : a[d].batch \in Nat /\ b[d].batch \in Nat,
         \A d \in Calls \ {c} : a[d] = b[d] /\ (d \in S <=> d \in T)
  PROVE  /\ Weigh(a, S) \in Nat /\ Weigh(b, T) \in Nat
         /\ Weigh(b, T) + (IF c \in S THEN a[c].batch ELSE 0)
              = Weigh(a, S) + (IF c \in T THEN b[c].batch ELSE 0)
<1>1. Weigh(a, S \ {c}) = Weigh(b, T \ {c})
  <2>1. S \ {c} = T \ {c}
    OBVIOUS
  <2>2. {{d} \X (1 .. a[d].batch) : d \in S \ {c}} = {{d} \X (1 .. b[d].batch) : d \in T \ {c}}
    <3> DEFINE R == S \ {c}
    <3>1. \A d \in R : a[d] = b[d]
      OBVIOUS
    <3>2. R = T \ {c}
      BY <2>1
    <3> HIDE DEF R
    <3>3. {{d} \X (1 .. a[d].batch) : d \in R} = {{d} \X (1 .. b[d].batch) : d \in R}
      BY <3>1
    <3> QED
      BY <3>2, <3>3 DEF R
  <2> QED
    BY <2>2 DEF Weigh
<1>2. /\ Weigh(a, S) \in Nat
      /\ Weigh(a, S) = Weigh(a, S \ {c}) + (IF c \in S THEN a[c].batch ELSE 0)
  BY WeighParts
<1>3. /\ Weigh(b, T) \in Nat
      /\ Weigh(b, T) = Weigh(b, T \ {c}) + (IF c \in T THEN b[c].batch ELSE 0)
  BY WeighParts
<1>4. Weigh(a, S \ {c}) \in Nat
  BY WeighParts
<1>5. a[c].batch \in Nat /\ b[c].batch \in Nat
  OBVIOUS
<1> QED
  BY <1>1, <1>2, <1>3, <1>4, <1>5

\* The actions the exchange counts; those whose call has returned that may still
\* come; those counted here before their reply; and those counted here that the
\* exchange did not count.
Counted == {c \in Calls : Charged(c)}
Lost == {c \in Calls : IsAction(c) /\ pc[c] = "done" /\ wire[c] = "travelling"}
Ahead == {c \in Calls : Charged(c) /\ pc[c] # "done"}
Vain == {c \in Calls : IsAction(c) /\ pc[c] = "done" /\ ~ Charged(c)}

MirrorTypes ==
  /\ signature = [c \in Calls |-> signature[c]]
  /\ answer \in [Calls -> Nat]
  /\ lull \in [Calls -> BOOLEAN]
  /\ mirror \in Nat

\* The mirror is the count but for the actions whose reply is out.
Near ==
  /\ Count + SumOf(Lost) =< mirror + SumOf(Ahead)
  /\ mirror + SumOf(Ahead) =< Count + SumOf(Vain)

\* No action is on its way, so nothing changes the count.
Quiet == \A d \in Calls : IsAction(d) => ~ UnderWay(d) /\ wire[d] # "travelling"

\* The answer a query will be synced to is still the count.
Lulled(c) == lull[c] = TRUE /\ pc[c] # "done" => answer[c] = Count /\ Quiet

MirrorInv ==
  /\ NonceInv
  /\ MirrorTypes
  /\ trusted = TRUE => Near
  /\ \A c \in Calls : Lulled(c) /\ (pc[c] = "sync" => ~ IsAction(c))

LEMMA SignatureOwn ==
  ASSUME signature = [d \in Calls |-> signature[d]], NEW c \in Calls, StepOf(c),
         NEW d \in Calls, d # c
  PROVE  signature'[d] = signature[d] /\ signature' = [e \in Calls |-> signature'[e]]
<1>1. CASE (\E a \in Acts : Begin(c, a)) \/ BeginWatch(c)
  BY <1>1 DEF Begin, BeginWatch
<1>2. CASE Sign(c)
  BY <1>2 DEF Sign
<1>3. CASE CallStep(c) /\ ~ Sign(c)
  BY <1>3 DEF CallStep, Connect, Send, SendFails, Watched, Receive, GiveUp, Account, Sync,
              callVars
<1>4. CASE Exchange(c)
  BY <1>4 DEF Exchange, Refuse, Unknown, Duplicate, Reject, Accept, Answer, Processed, Arrives
<1> QED
  BY <1>1, <1>2, <1>3, <1>4 DEF StepOf

\* The sums after a step of c, by what c had and has in them.
LEMMA SumsMove ==
  ASSUME NonceInv, CallTypes', signature = [d \in Calls |-> signature[d]],
         NEW c \in Calls, StepOf(c)
  PROVE  /\ Count \in Nat /\ SumOf(Lost) \in Nat /\ SumOf(Ahead) \in Nat /\ SumOf(Vain) \in Nat
         /\ Count' \in Nat /\ SumOf(Lost)' \in Nat
         /\ SumOf(Ahead)' \in Nat /\ SumOf(Vain)' \in Nat
         /\ Count' + (IF c \in Counted THEN act[c].batch ELSE 0)
              = Count + (IF c \in Counted' THEN act'[c].batch ELSE 0)
         /\ SumOf(Lost)' + (IF c \in Lost THEN act[c].batch ELSE 0)
              = SumOf(Lost) + (IF c \in Lost' THEN act'[c].batch ELSE 0)
         /\ SumOf(Ahead)' + (IF c \in Ahead THEN act[c].batch ELSE 0)
              = SumOf(Ahead) + (IF c \in Ahead' THEN act'[c].batch ELSE 0)
         /\ SumOf(Vain)' + (IF c \in Vain THEN act[c].batch ELSE 0)
              = SumOf(Vain) + (IF c \in Vain' THEN act'[c].batch ELSE 0)
<1>1. \A d \in Calls \ {c} :
        /\ pc'[d] = pc[d] /\ act'[d] = act[d] /\ wire'[d] = wire[d]
        /\ signature'[d] = signature[d]
  <2> SUFFICES ASSUME NEW d \in Calls \ {c}
               PROVE  /\ pc'[d] = pc[d] /\ act'[d] = act[d] /\ wire'[d] = wire[d]
                      /\ signature'[d] = signature[d]
    OBVIOUS
  <2>1. pc'[d] = pc[d] /\ act'[d] = act[d] /\ wire'[d] = wire[d]
    BY TouchesItsOwn DEF NonceInv
  <2>2. signature'[d] = signature[d]
    BY SignatureOwn
  <2> QED
    BY <2>1, <2>2
<1>2. \A d \in Calls : act[d].batch \in Nat /\ act'[d].batch \in Nat
  BY DEF NonceInv, CallTypes
<1>3. \A d \in Calls \ {c} :
        /\ d \in Counted <=> d \in Counted'
        /\ d \in Lost <=> d \in Lost'
        /\ d \in Ahead <=> d \in Ahead'
        /\ d \in Vain <=> d \in Vain'
  BY <1>1 DEF Counted, Lost, Ahead, Vain, Charged, IsAction
<1>4. /\ Counted \in SUBSET Calls /\ Lost \in SUBSET Calls
      /\ Ahead \in SUBSET Calls /\ Vain \in SUBSET Calls
      /\ Counted' \in SUBSET Calls /\ Lost' \in SUBSET Calls
      /\ Ahead' \in SUBSET Calls /\ Vain' \in SUBSET Calls
  BY DEF Counted, Lost, Ahead, Vain
<1>5. /\ Count = Weigh(act, Counted) /\ SumOf(Lost) = Weigh(act, Lost)
      /\ SumOf(Ahead) = Weigh(act, Ahead) /\ SumOf(Vain) = Weigh(act, Vain)
      /\ Count' = Weigh(act', Counted') /\ SumOf(Lost)' = Weigh(act', Lost')
      /\ SumOf(Ahead)' = Weigh(act', Ahead') /\ SumOf(Vain)' = Weigh(act', Vain')
  BY DEF Count, SumOf, Weigh, Counted
<1> HIDE DEF Counted, Lost, Ahead, Vain
<1>6. ASSUME NEW S \in SUBSET Calls, NEW T \in SUBSET Calls,
             \A d \in Calls \ {c} : d \in S <=> d \in T
      PROVE  /\ Weigh(act, S) \in Nat /\ Weigh(act', T) \in Nat
             /\ Weigh(act', T) + (IF c \in S THEN act[c].batch ELSE 0)
                  = Weigh(act, S) + (IF c \in T THEN act'[c].batch ELSE 0)
  BY <1>1, <1>2, <1>6, WeighMoves
<1>7. /\ Weigh(act, Counted) \in Nat /\ Weigh(act', Counted') \in Nat
      /\ Weigh(act', Counted') + (IF c \in Counted THEN act[c].batch ELSE 0)
           = Weigh(act, Counted) + (IF c \in Counted' THEN act'[c].batch ELSE 0)
  BY <1>3, <1>4, <1>6
<1>8. /\ Weigh(act, Lost) \in Nat /\ Weigh(act', Lost') \in Nat
      /\ Weigh(act', Lost') + (IF c \in Lost THEN act[c].batch ELSE 0)
           = Weigh(act, Lost) + (IF c \in Lost' THEN act'[c].batch ELSE 0)
  BY <1>3, <1>4, <1>6
<1>9. /\ Weigh(act, Ahead) \in Nat /\ Weigh(act', Ahead') \in Nat
      /\ Weigh(act', Ahead') + (IF c \in Ahead THEN act[c].batch ELSE 0)
           = Weigh(act, Ahead) + (IF c \in Ahead' THEN act'[c].batch ELSE 0)
  BY <1>3, <1>4, <1>6
<1>10. /\ Weigh(act, Vain) \in Nat /\ Weigh(act', Vain') \in Nat
       /\ Weigh(act', Vain') + (IF c \in Vain THEN act[c].batch ELSE 0)
            = Weigh(act, Vain) + (IF c \in Vain' THEN act'[c].batch ELSE 0)
  BY <1>3, <1>4, <1>6
<1> QED
  BY <1>5, <1>7, <1>8, <1>9, <1>10

LEMMA WeighNone == ASSUME NEW a PROVE Weigh(a, {}) = 0
<1>1. {{c} \X (1 .. a[c].batch) : c \in {}} = {}
  OBVIOUS
<1> QED
  BY <1>1, FS_EmptySet DEF Weigh

\* The action of a call is charged between its send and its return, or after.
LEMMA ChargedLate ==
  ASSUME MirrorInv, NEW c \in Calls
  PROVE  /\ Charged(c) => pc[c] \in {"await", "account", "done"}
         /\ wire[c] = "travelling" /\ IsAction(c) => pc[c] \in {"await", "account", "done"}
<1>1. Progress(c) /\ (pc[c] = "sync" => ~ IsAction(c)) /\ pc[c] \in States
  BY DEF MirrorInv, NonceInv, CallTypes
<1>2. wire[c] # "none" => pc[c] \notin {"idle", "sign", "send"}
  BY <1>1 DEF Progress
<1> QED
  BY <1>1, <1>2 DEF Charged, States

\* Up to the send nothing counted changes: an action that returns here is one
\* the exchange does not count.
LEMMA NearUntilSent ==
  ASSUME MirrorInv, NEW c \in Calls, StepOf(c), CallTypes', trusted = TRUE,
         wire[c] = "none", pc[c] # "done", mirror' = mirror,
         wire'[c] = "none" \/ (wire'[c] = "travelling" /\ pc'[c] # "done")
  PROVE  Near'
<1>1. c \notin Counted /\ c \notin Lost /\ c \notin Ahead /\ c \notin Vain
  BY DEF Counted, Lost, Ahead, Vain, Charged
<1>2. c \notin Counted' /\ c \notin Lost' /\ c \notin Ahead'
  BY DEF Counted, Lost, Ahead, Charged
<1>3. act'[c].batch \in Nat /\ mirror \in Nat
  BY DEF CallTypes, MirrorInv, MirrorTypes
<1>4. Near /\ NonceInv /\ signature = [d \in Calls |-> signature[d]]
  BY DEF MirrorInv, MirrorTypes
<1> QED
  BY <1>1, <1>2, <1>3, <1>4, SumsMove DEF Near

\* Neither does the arrival of the reply, nor its absence.
LEMMA NearUntilCounted ==
  ASSUME MirrorInv, NEW c \in Calls, StepOf(c), CallTypes', trusted = TRUE,
         mirror' = mirror, UNCHANGED <<act, wire, signature>>,
         pc[c] = "done" <=> pc'[c] = "done"
  PROVE  Near'
<1>1. /\ c \in Counted' <=> c \in Counted
      /\ c \in Lost' <=> c \in Lost
      /\ c \in Ahead' <=> c \in Ahead
      /\ c \in Vain' <=> c \in Vain
  BY DEF Counted, Lost, Ahead, Vain, Charged, IsAction
<1>2. act'[c].batch = act[c].batch /\ act[c].batch \in Nat /\ mirror \in Nat
  BY DEF CallTypes, MirrorInv, MirrorTypes, NonceInv
<1>3. Near /\ NonceInv /\ signature = [d \in Calls |-> signature[d]]
  BY DEF MirrorInv, MirrorTypes
<1> QED
  BY <1>1, <1>2, <1>3, SumsMove DEF Near

LEMMA NearAccount ==
  ASSUME MirrorInv, NEW c \in Calls, Account(c), CallTypes', trusted = TRUE
  PROVE  Near'
<1>1. /\ pc[c] = "account" /\ UNCHANGED <<act, wire, signature>>
      /\ IsAction(c) => pc'[c] = "done"
      /\ mirror' = mirror + Consumed(c)
  BY DEF MirrorInv, NonceInv, CallTypes, Account, Step
<1>2. /\ Near /\ NonceInv /\ signature = [d \in Calls |-> signature[d]]
      /\ act'[c].batch = act[c].batch /\ act[c].batch \in Nat /\ mirror \in Nat
  BY <1>1 DEF CallTypes, MirrorInv, MirrorTypes, NonceInv
<1>3. StepOf(c)
  BY DEF StepOf, CallStep
<1>4. CASE IsAction(c)
  <2>1. /\ c \in Counted' <=> Charged(c)
        /\ c \in Counted <=> Charged(c)
        /\ c \in Ahead <=> Charged(c)
        /\ c \notin Ahead' /\ c \notin Lost /\ c \notin Vain
        /\ c \in Vain' <=> ~ Charged(c)
        /\ c \in Lost' => ~ Charged(c)
    BY <1>1, <1>4 DEF Counted, Lost, Ahead, Vain, Charged, IsAction
  <2>2. mirror' = mirror + act[c].batch
    BY <1>1, <1>4 DEF Consumed
  <2> QED
    BY <1>2, <1>3, <2>1, <2>2, SumsMove DEF Near
<1>5. CASE ~ IsAction(c)
  <2>1. /\ c \notin Counted' /\ c \notin Counted /\ c \notin Ahead /\ c \notin Ahead'
        /\ c \notin Lost /\ c \notin Lost' /\ c \notin Vain /\ c \notin Vain'
    BY <1>1, <1>5 DEF Counted, Lost, Ahead, Vain, Charged, IsAction
  <2>2. mirror' = mirror
    BY <1>1, <1>2, <1>5 DEF Consumed
  <2> QED
    BY <1>2, <1>3, <2>1, <2>2, SumsMove DEF Near
<1> QED
  BY <1>4, <1>5

\* A query nobody's action overlapped brings the very count.
LEMMA NearSync ==
  ASSUME MirrorInv, NEW c \in Calls, Sync(c), CallTypes', trusted' = TRUE
  PROVE  Near'
<1>1. /\ pc[c] = "sync" /\ UNCHANGED <<act, wire, signature>>
      /\ mirror' = answer[c] /\ lull[c] = TRUE /\ ~ IsAction(c)
  BY DEF MirrorInv, NonceInv, CallTypes, Sync, Step
<1>2. answer[c] = Count /\ Quiet
  BY <1>1 DEF MirrorInv, Lulled
<1>3. /\ NonceInv /\ signature = [d \in Calls |-> signature[d]]
      /\ act'[c].batch \in Nat /\ act[c].batch \in Nat
  BY DEF CallTypes, MirrorInv, MirrorTypes, NonceInv
<1>4. Lost = {} /\ Ahead = {}
  <2>1. \A d \in Calls : Charged(d) /\ pc[d] # "done" => IsAction(d) /\ UnderWay(d)
    BY ChargedLate DEF Charged, UnderWay
  <2> QED
    BY <1>2, <2>1 DEF Lost, Ahead, Quiet
<1>5. SumOf(Lost) = 0 /\ SumOf(Ahead) = 0
  <2>1. SumOf(Lost) = Weigh(act, {}) /\ SumOf(Ahead) = Weigh(act, {})
    BY <1>4 DEF SumOf, Weigh
  <2> QED
    BY <2>1, WeighNone
<1>6. /\ c \notin Counted' /\ c \notin Counted /\ c \notin Ahead /\ c \notin Ahead'
      /\ c \notin Lost /\ c \notin Lost' /\ c \notin Vain /\ c \notin Vain'
  BY <1>1 DEF Counted, Lost, Ahead, Vain, Charged, IsAction
<1>7. StepOf(c)
  BY DEF StepOf, CallStep
<1> QED
  BY <1>1, <1>2, <1>3, <1>5, <1>6, <1>7, SumsMove DEF Near

LEMMA NearExchange ==
  ASSUME MirrorInv, NEW c \in Calls, Exchange(c), CallTypes', trusted = TRUE
  PROVE  Near'
<1>1. /\ UNCHANGED <<pc, act, signature, mirror>>
      /\ wire[c] = "travelling" /\ wire'[c] # "travelling"
  BY DEF MirrorInv, NonceInv, CallTypes, Exchange, Refuse, Unknown, Duplicate, Reject, Accept,
         Answer, Processed, Arrives
<1>2. /\ Near /\ NonceInv /\ signature = [d \in Calls |-> signature[d]]
      /\ act'[c].batch = act[c].batch /\ act[c].batch \in Nat /\ mirror \in Nat
  BY <1>1 DEF CallTypes, MirrorInv, MirrorTypes, NonceInv
<1>3. StepOf(c)
  BY DEF StepOf
<1>4. c \notin Counted /\ c \notin Ahead /\ c \notin Lost'
  BY <1>1 DEF Counted, Ahead, Lost, Charged
<1>5. CASE ~ IsAction(c)
  <2>1. /\ c \notin Counted' /\ c \notin Ahead' /\ c \notin Lost /\ c \notin Vain
        /\ c \notin Vain'
    BY <1>1, <1>5 DEF Counted, Lost, Ahead, Vain, Charged, IsAction
  <2> QED
    BY <1>1, <1>2, <1>3, <1>4, <2>1, SumsMove DEF Near
<1>6. CASE IsAction(c) /\ pc[c] = "done"
  <2>1. /\ c \in Lost /\ c \in Vain /\ c \notin Ahead'
        /\ c \in Counted' <=> c \notin Vain'
    BY <1>1, <1>6 DEF Counted, Lost, Ahead, Vain, Charged, IsAction
  <2> QED
    BY <1>1, <1>2, <1>3, <1>4, <2>1, SumsMove DEF Near
<1>7. CASE IsAction(c) /\ pc[c] # "done"
  <2>1. /\ c \notin Lost /\ c \notin Vain /\ c \notin Vain'
        /\ c \in Counted' <=> c \in Ahead'
    BY <1>1, <1>7 DEF Counted, Lost, Ahead, Vain, Charged, IsAction
  <2> QED
    BY <1>1, <1>2, <1>3, <1>4, <2>1, SumsMove DEF Near
<1> QED
  BY <1>5, <1>6, <1>7

LEMMA NearKept ==
  ASSUME MirrorInv, NEW c \in Calls, StepOf(c), trusted' = TRUE
  PROVE  Near'
<1>1. NonceInv /\ Progress(c) /\ CallTypes'
  BY TypesKept DEF MirrorInv, NonceInv
<1>2. CASE Sync(c)
  BY <1>1, <1>2, NearSync
<1>3. ASSUME ~ Sync(c) PROVE trusted = TRUE
  BY <1>3 DEF StepOf, CallStep, Begin, BeginWatch, Sign, Connect, Send, SendFails, Watched,
              Receive, GiveUp, Account, Exchange, Refuse, Unknown, Duplicate, Reject, Accept,
              Answer, Processed, Arrives, callVars
<1>4. ASSUME (\E a \in Acts : Begin(c, a)) \/ BeginWatch(c) \/ Sign(c) \/ Send(c)
             \/ SendFails(c) \/ Watched(c)
      PROVE  Near'
  <2>1. /\ pc[c] \in {"idle", "sign", "send"} /\ mirror' = mirror /\ trusted' = trusted
        /\ wire' = wire \/ (wire' = [wire EXCEPT ![c] = "travelling"] /\ pc'[c] = "await")
    <3> USE <1>1 DEF NonceInv, CallTypes, Step
    <3>1. CASE (\E a \in Acts : Begin(c, a)) \/ BeginWatch(c)
      BY <3>1 DEF Begin, BeginWatch
    <3>2. CASE Sign(c)
      BY <3>2 DEF Sign
    <3>3. CASE Send(c) \/ SendFails(c) \/ Watched(c)
      BY <3>3 DEF Send, SendFails, Watched
    <3> QED
      BY <1>4, <3>1, <3>2, <3>3
  <2>2. wire[c] = "none" /\ pc[c] # "done"
    BY <1>1, <2>1 DEF Progress
  <2>3. wire'[c] = "none" \/ (wire'[c] = "travelling" /\ pc'[c] # "done")
    BY <1>1, <2>1, <2>2 DEF NonceInv, CallTypes
  <2> QED
    BY <1>1, <2>1, <2>2, <2>3, NearUntilSent
<1>5. ASSUME Connect(c) \/ Receive(c) \/ GiveUp(c) PROVE Near'
  <2>1. /\ mirror' = mirror /\ trusted' = trusted /\ UNCHANGED <<act, wire, signature>>
        /\ pc[c] = "done" <=> pc'[c] = "done"
    BY <1>1, <1>5 DEF NonceInv, CallTypes, Connect, Receive, GiveUp, Step, callVars
  <2> QED
    BY <1>1, <2>1, NearUntilCounted
<1>6. CASE Account(c)
  BY <1>1, <1>3, <1>6, NearAccount DEF Account, Sync, Step
<1>7. CASE Exchange(c)
  <2>1. trusted' = trusted
    BY <1>7 DEF Exchange, Refuse, Unknown, Duplicate, Reject, Accept, Answer, Processed, Arrives
  <2> QED
    BY <1>1, <1>7, <2>1, NearExchange
<1> QED
  BY <1>2, <1>4, <1>5, <1>6, <1>7 DEF StepOf, CallStep

\* While no action is on its way the count stays, until one is sent.
LEMMA QuietKept ==
  ASSUME MirrorInv, Quiet, NEW c \in Calls, StepOf(c),
         ~ (IsAction(c) /\ (Send(c) \/ SendFails(c)))
  PROVE  Quiet' /\ Count' = Count
<1>1. NonceInv /\ Progress(c) /\ CallTypes' /\ signature = [d \in Calls |-> signature[d]]
  BY TypesKept DEF MirrorInv, MirrorTypes, NonceInv
<1>2. \/ wire[c] = "none" /\ wire'[c] = "none" /\ ~ UnderWay(c)'
      \/ ~ IsAction(c) /\ act'[c] = act[c]
      \/ UNCHANGED callVars
  <2> USE <1>1 DEF NonceInv, CallTypes, Step
  <2>1. CASE (\E a \in Acts : Begin(c, a)) \/ BeginWatch(c) \/ Sign(c)
    <3>1. /\ pc[c] \in {"idle", "sign"} /\ wire' = wire
          /\ pc'[c] \in {"sign", "send", "done"}
      <4>1. CASE (\E a \in Acts : Begin(c, a)) \/ BeginWatch(c)
        BY <4>1 DEF Begin, BeginWatch
      <4>2. CASE Sign(c)
        BY <4>2 DEF Sign
      <4> QED
        BY <2>1, <4>1, <4>2
    <3> QED
      BY <3>1 DEF Progress, UnderWay
  <2>2. CASE Send(c) \/ SendFails(c) \/ Watched(c)
    BY <2>2 DEF Send, SendFails, Watched, IsAction
  <2>3. CASE Connect(c)
    BY <2>3 DEF Connect
  <2>4. CASE Receive(c) \/ GiveUp(c) \/ Account(c)
    <3>1. UnderWay(c) /\ act' = act
      BY <2>4 DEF Receive, GiveUp, Account, UnderWay
    <3> QED
      BY <3>1 DEF Quiet
  <2>5. CASE Sync(c)
    BY <2>5 DEF Sync, MirrorInv
  <2>6. CASE Exchange(c)
    <3>1. wire[c] = "travelling" /\ act' = act
      BY <2>6 DEF Exchange, Refuse, Unknown, Duplicate, Reject, Accept, Answer, Processed, Arrives
    <3> QED
      BY <3>1 DEF Quiet
  <2> QED
    BY <2>1, <2>2, <2>3, <2>4, <2>5, <2>6 DEF StepOf, CallStep
<1>3. CASE UNCHANGED callVars
  <2>1. UNCHANGED <<act, wire, pc, signature>>
    BY <1>3 DEF callVars
  <2>2. Counted' = Counted
    BY <2>1 DEF Counted, Charged, IsAction
  <2>3. Count' = Count
    BY <2>1, <2>2 DEF Count, SumOf, Counted
  <2> QED
    BY <2>1, <2>3 DEF Quiet, IsAction, UnderWay
<1>4. ASSUME \/ wire[c] = "none" /\ wire'[c] = "none" /\ ~ UnderWay(c)'
             \/ ~ IsAction(c) /\ act'[c] = act[c]
      PROVE  Quiet' /\ Count' = Count
  <2>1. IsAction(c)' => ~ UnderWay(c)' /\ wire'[c] # "travelling"
    BY <1>4 DEF IsAction
  <2>2. \A d \in Calls \ {c} : (IsAction(d) => ~ UnderWay(d) /\ wire[d] # "travelling")'
    BY <1>1, TouchesItsOwn DEF NonceInv, Quiet, IsAction, UnderWay
  <2>3. Quiet'
    BY <2>1, <2>2 DEF Quiet
  <2>4. c \notin Counted /\ c \notin Counted'
    BY <1>4 DEF Counted, Charged, IsAction
  <2>5. Count' = Count
    BY <1>1, <2>4, SumsMove
  <2> QED
    BY <2>3, <2>5
<1> QED
  BY <1>2, <1>3, <1>4

\* Sending an action ends every lull.
LEMMA SendEndsLull ==
  ASSUME MirrorTypes, NEW c \in Calls, IsAction(c), Send(c) \/ SendFails(c), NEW d \in Calls
  PROVE  lull'[d] = FALSE
BY DEF MirrorTypes, Send, SendFails

LEMMA LulledKept ==
  ASSUME MirrorInv, NEW c \in Calls, StepOf(c), NEW d \in Calls
  PROVE  Lulled(d)'
<1> SUFFICES ASSUME lull'[d] = TRUE, pc'[d] # "done"
             PROVE  answer'[d] = Count' /\ Quiet'
  BY DEF Lulled
<1>1. ~ (IsAction(c) /\ (Send(c) \/ SendFails(c)))
  BY SendEndsLull DEF MirrorInv
<1>2. ASSUME Answer(c), d = c
      PROVE  answer'[d] = Count' /\ Quiet'
  <2>1. answer'[d] = Count
    BY <1>2 DEF Answer, MirrorInv, MirrorTypes
  <2>2. Quiet
    <3>1. lull'[d] = (\A e \in Calls : IsAction(e) => ~ UnderWay(e) /\ wire[e] # "travelling")
      BY <1>2 DEF Answer, MirrorInv, MirrorTypes
    <3> QED
      BY <3>1 DEF Quiet
  <2> QED
    BY <1>1, <2>1, <2>2, QuietKept
<1>3. ASSUME ~ (Answer(c) /\ d = c)
      PROVE  answer'[d] = Count' /\ Quiet'
  <2>1. lull'[d] = lull[d] /\ answer'[d] = answer[d]
    <3> USE DEF MirrorInv, MirrorTypes
    <3>1. CASE (\E a \in Acts : Begin(c, a)) \/ BeginWatch(c)
      BY <3>1 DEF Begin, BeginWatch
    <3>2. CASE CallStep(c)
      BY <1>1, <3>2 DEF CallStep, Sign, Connect, Send, SendFails, Watched, Receive, GiveUp,
                        Account, Sync, callVars
    <3>3. CASE Exchange(c)
      BY <1>3, <3>3 DEF Exchange, Refuse, Unknown, Duplicate, Reject, Accept, Answer, Fresh
    <3> QED
      BY <3>1, <3>2, <3>3 DEF StepOf
  <2>2. pc[d] # "done"
    <3>1. CASE d = c
      <4> USE DEF MirrorInv, NonceInv, CallTypes, Step
      <4>1. CASE (\E a \in Acts : Begin(c, a)) \/ BeginWatch(c)
        BY <3>1, <4>1 DEF Begin, BeginWatch
      <4>2. CASE Sign(c) \/ Send(c) \/ SendFails(c) \/ Watched(c) \/ Account(c) \/ Sync(c)
        BY <3>1, <4>2 DEF Sign, Send, SendFails, Watched, Account, Sync
      <4>3. CASE Connect(c) \/ Receive(c) \/ GiveUp(c)
        BY <3>1, <4>3 DEF Connect, Receive, GiveUp
      <4>4. CASE Exchange(c)
        BY <3>1, <4>4 DEF Exchange, Refuse, Unknown, Duplicate, Reject, Accept, Answer,
                          Processed, Arrives
      <4> QED
        BY <4>1, <4>2, <4>3, <4>4 DEF StepOf, CallStep
    <3>2. CASE d # c
      BY <3>2, TouchesItsOwn DEF MirrorInv, NonceInv
    <3> QED
      BY <3>1, <3>2
  <2>3. answer[d] = Count /\ Quiet
    BY <2>1, <2>2 DEF MirrorInv, Lulled
  <2> QED
    BY <1>1, <2>1, <2>3, QuietKept
<1> QED
  BY <1>2, <1>3

LEMMA MirrorTypesKept ==
  ASSUME MirrorInv, NEW c \in Calls, StepOf(c)
  PROVE  MirrorTypes' /\ \A d \in Calls : pc'[d] = "sync" => ~ IsAction(d)'
<1>1. NonceInv /\ CallTypes' /\ signature = [d \in Calls |-> signature[d]]
  BY TypesKept DEF MirrorInv, MirrorTypes, NonceInv
<1>2. Count \in Nat
  BY <1>1, SumsMove
<1>3. signature' = [d \in Calls |-> signature'[d]]
  <2>1. CASE Sign(c)
    BY <1>1, <2>1 DEF Sign
  <2>2. CASE ~ Sign(c)
    <3>1. signature' = signature
      BY <2>2 DEF StepOf, Begin, BeginWatch, CallStep, Connect, Send, SendFails, Watched,
                  Receive, GiveUp, Account, Sync, callVars, Exchange, Refuse, Unknown,
                  Duplicate, Reject, Accept, Answer, Processed, Arrives
    <3> QED
      BY <1>1, <3>1
  <2> QED
    BY <2>1, <2>2
<1>4. answer' \in [Calls -> Nat] /\ lull' \in [Calls -> BOOLEAN]
  <2> USE DEF MirrorInv, MirrorTypes
  <2>1. CASE (\E a \in Acts : Begin(c, a)) \/ BeginWatch(c)
    BY <2>1 DEF Begin, BeginWatch
  <2>2. CASE CallStep(c)
    BY <2>2 DEF CallStep, Sign, Connect, Send, SendFails, Watched, Receive, GiveUp, Account,
                Sync, callVars
  <2>3. CASE Answer(c)
    BY <1>2, <2>3 DEF Answer
  <2>4. CASE Exchange(c) /\ ~ Answer(c)
    BY <2>4 DEF Exchange, Refuse, Unknown, Duplicate, Reject, Accept, Fresh
  <2> QED
    BY <2>1, <2>2, <2>3, <2>4 DEF StepOf
<1>5. mirror' \in Nat
  <2>1. mirror \in Nat /\ answer[c] \in Nat
    BY DEF MirrorInv, MirrorTypes
  <2>2. mirror' \in {mirror, mirror + Consumed(c), answer[c]}
    BY DEF StepOf, Begin, BeginWatch, CallStep, Sign, Connect, Send, SendFails, Watched,
           Receive, GiveUp, Account, Sync, callVars, Exchange, Refuse, Unknown, Duplicate,
           Reject, Accept, Answer, Processed, Arrives
  <2>3. Consumed(c) \in Nat
    BY <1>1 DEF Consumed, NonceInv, CallTypes
  <2> QED
    BY <2>1, <2>2, <2>3
<1>6. \A d \in Calls : pc'[d] = "sync" => ~ IsAction(d)'
  <2>1. \A d \in Calls \ {c} : pc'[d] = "sync" => ~ IsAction(d)'
    BY <1>1, TouchesItsOwn DEF MirrorInv, NonceInv, IsAction
  <2>2. pc'[c] = "sync" => ~ IsAction(c)'
    <3>1. pc'[c] = "sync" => /\ act'[c] = act[c]
                             /\ pc[c] = "sync" \/ ~ IsAction(c)
      <4> USE <1>1 DEF NonceInv, CallTypes, Step
      <4>1. CASE (\E a \in Acts : Begin(c, a)) \/ BeginWatch(c)
        BY <4>1 DEF Begin, BeginWatch
      <4>2. CASE Sign(c) \/ Send(c) \/ SendFails(c) \/ Watched(c) \/ Account(c) \/ Sync(c)
        BY <4>2 DEF Sign, Send, SendFails, Watched, Account, Sync
      <4>3. CASE Connect(c) \/ Receive(c) \/ GiveUp(c)
        BY <4>3 DEF Connect, Receive, GiveUp, callVars
      <4>4. CASE Exchange(c)
        BY <4>4 DEF Exchange, Refuse, Unknown, Duplicate, Reject, Accept, Answer,
                    Processed, Arrives
      <4> QED
        BY <4>1, <4>2, <4>3, <4>4 DEF StepOf, CallStep
    <3> QED
      BY <3>1 DEF MirrorInv, IsAction
  <2> QED
    BY <2>1, <2>2
<1> QED
  BY <1>3, <1>4, <1>5, <1>6 DEF MirrorTypes

LEMMA MirrorInit == Init => MirrorInv
<1> SUFFICES ASSUME Init PROVE MirrorInv
  OBVIOUS
<1>1. NonceInv
  BY NonceInit
<1>2. MirrorTypes /\ \A c \in Calls : Lulled(c) /\ pc[c] # "sync"
  BY DEF Init, MirrorTypes, Lulled
<1>3. Near
  <2>1. Counted = {} /\ Lost = {} /\ Ahead = {} /\ Vain = {}
    BY DEF Init, Counted, Lost, Ahead, Vain, Charged
  <2>2. /\ Count = Weigh(act, {}) /\ SumOf(Lost) = Weigh(act, {})
        /\ SumOf(Ahead) = Weigh(act, {}) /\ SumOf(Vain) = Weigh(act, {})
    BY <2>1 DEF Count, SumOf, Weigh, Counted
  <2> QED
    BY <2>2, WeighNone DEF Near, Init
<1> QED
  BY <1>1, <1>2, <1>3 DEF MirrorInv

LEMMA MirrorStep ==
  ASSUME MirrorInv, [Next]_vars
  PROVE  MirrorInv'
<1>1. NonceInv'
  BY NonceStep DEF MirrorInv
<1>2. CASE UNCHANGED callVars
  <2>1. UNCHANGED <<pc, act, signed, signature, wire, answer, lull, trusted, mirror>>
    BY <1>2 DEF callVars
  <2>2. /\ Counted' = Counted /\ Lost' = Lost /\ Ahead' = Ahead /\ Vain' = Vain
    BY <2>1 DEF Counted, Lost, Ahead, Vain, Charged, IsAction
  <2>3. /\ Count' = Count /\ SumOf(Lost)' = SumOf(Lost)
        /\ SumOf(Ahead)' = SumOf(Ahead) /\ SumOf(Vain)' = SumOf(Vain)
    BY <2>1, <2>2 DEF Count, SumOf, Counted
  <2>4. Quiet' = Quiet
    BY <2>1 DEF Quiet, IsAction, UnderWay
  <2>5. MirrorTypes'
    BY <2>1 DEF MirrorInv, MirrorTypes
  <2>6. trusted' = TRUE => Near'
    BY <2>1, <2>3 DEF MirrorInv, Near
  <2>7. \A c \in Calls : Lulled(c)' /\ (pc'[c] = "sync" => ~ IsAction(c)')
    BY <2>1, <2>3, <2>4 DEF MirrorInv, Lulled, IsAction
  <2> QED
    BY <1>1, <2>5, <2>6, <2>7 DEF MirrorInv
<1>3. ASSUME NEW c \in Calls, StepOf(c) PROVE MirrorInv'
  BY <1>1, <1>3, NearKept, LulledKept, MirrorTypesKept DEF MirrorInv
<1> QED
  BY <1>2, <1>3 DEF Next, StepOf, vars

\* The inductive invariant of the client.
THEOREM ClientInvariant == Spec => []ClientInv
BY ClientInit, ClientKept, PTL DEF Spec

\* After Close both connections are closed for good, however their first uses
\* run into it.
THEOREM CloseStops == Spec => []CloseStopsAll
<1>1. ClientInv => CloseStopsAll
  <2>1. Len(CloseSteps) = 8
    BY DEF CloseSteps
  <2> QED
    BY <2>1 DEF ClientInv, CloseStopsAll, Closed, Conns
<1> QED
  BY <1>1, ClientInvariant, PTL

\* The inductive invariant of the nonces: an action has effects only under a
\* nonce the exchange has marked, and who is told of success owns its nonce.
THEOREM NonceInvariant == Spec => []NonceInv
BY NonceInit, NonceStep, PTL DEF Spec

\* A noop that succeeded with the nonce of an order has cancelled the order.
THEOREM NoopCancels == Spec => []NoopDecides
<1>1. NonceInv => NoopDecides
  <2> SUFFICES ASSUME NonceInv, NEW c \in Calls, NEW d \in Calls,
                      act[c].kind = "noop", result[c].ok, act[d].kind = "order",
                      act[c].nonce = signed[d], signed[d] # 0
               PROVE applied[d] = {}
    BY DEF NoopDecides
  <2>1. result[c].ok = TRUE => Settled(c)
    BY DEF NonceInv, Decided, IsAction
  <2>2. Settled(c)
    BY <2>1
  <2>3. signed[c] = act[c].nonce
    BY <2>2 DEF Settled, NonceInv, Progress
  <2> QED
    BY <2>2, <2>3 DEF Settled
<1> QED
  BY <1>1, NonceInvariant, PTL

\* The inductive invariant of the outcomes: replies on their way and outcomes
\* given agree with what the exchange has done with the action.
THEOREM OutcomeInvariant == Spec => []OutcomeInv
BY OutcomeInit, OutcomeStep, PTL DEF Spec

\* Whoever is told that an item was rejected, or of an error other than network
\* and unknown, can rely on it; whoever is told of acceptance as well.
THEOREM OutcomeIsTold == Spec => []OutcomeTold
<1>1. OutcomeInv => OutcomeTold
  <2> SUFFICES ASSUME OutcomeInv, NEW c \in Calls, pc[c] = "done", IsAction(c)
               PROVE  IF result[c].ok
                      THEN \A i \in DOMAIN result[c].statuses :
                             /\ Accepted(result[c].statuses[i]) => i \in applied[c]
                             /\ result[c].statuses[i].kind = "error" => i \notin applied[c]
                      ELSE result[c].kind \notin {"network", "unknown"} =>
                             applied[c] = {} /\ wire[c] # "travelling"
    BY DEF OutcomeTold
  <2>1. Tells(c, result[c])
    BY DEF OutcomeInv, Truthful
  <2> QED
    BY <2>1 DEF Tells
<1> QED
  BY <1>1, OutcomeInvariant, PTL

\* The inductive invariant of the mirror: while the last Sync was of a query no
\* action overlapped, the mirror is the exchange's count up to the actions
\* whose reply is out, and the answer a query of the kind waits with is the count.
THEOREM MirrorInvariant == Spec => []MirrorInv
BY MirrorInit, MirrorStep, PTL DEF Spec

\* The mirror misses no action that was processed and returned, and is ahead
\* only by actions the exchange did not take.
THEOREM MirrorIsClose == Spec => []MirrorFollows
<1>1. MirrorInv => MirrorFollows
  <2> SUFFICES ASSUME MirrorInv, trusted
               PROVE  /\ Count =< mirror + SumOf({c \in Calls : Charged(c) /\ pc[c] # "done"})
                      /\ mirror =< Count + SumOf({c \in Calls : IsAction(c) /\ pc[c] = "done"
                                                                /\ ~ Charged(c)})
    BY DEF MirrorFollows
  <2>1. Near
    BY DEF MirrorInv
  <2>2. /\ Weigh(act, Counted) \in Nat /\ Weigh(act, Lost) \in Nat
        /\ Weigh(act, Ahead) \in Nat /\ Weigh(act, Vain) \in Nat
    <3>1. \A S \in SUBSET Calls : Weigh(act, S) \in Nat
      <4>1. \A c \in Calls : act[c].batch \in Nat
        BY DEF MirrorInv, NonceInv, CallTypes
      <4>2. CASE Calls = {}
        <5>1. \A S \in SUBSET Calls : S = {}
          BY <4>2
        <5> QED
          BY <5>1, WeighNone
      <4>3. CASE Calls # {}
        BY <4>1, <4>3, WeighParts
      <4> QED
        BY <4>2, <4>3
    <3> QED
      BY <3>1 DEF Counted, Lost, Ahead, Vain
  <2>3. Count \in Nat /\ SumOf(Lost) \in Nat /\ SumOf(Ahead) \in Nat /\ SumOf(Vain) \in Nat
    BY <2>2 DEF Count, SumOf, Weigh, Counted
  <2>4. mirror \in Nat
    BY DEF MirrorInv, MirrorTypes
  <2>5. Count =< mirror + SumOf(Ahead) /\ mirror =< Count + SumOf(Vain)
    BY <2>1, <2>3, <2>4 DEF Near
  <2> QED
    BY <2>5 DEF Ahead, Vain
<1> QED
  BY <1>1, MirrorInvariant, PTL
=============================================================================
