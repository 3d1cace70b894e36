------------------------------- MODULE WsPost -------------------------------
(***************************************************************************)
(* Request/reply correlation over the supervised connection: Conn.Post,    *)
(* dispatchPost, dropPending and failAllPending (internal/ws/conn.go),     *)
(* attached to the connection life cycle of WsConn.  The exchange behind   *)
(* the socket is external: it executes what reaches it, replies on the     *)
(* same socket in any order, late, repeatedly or never.                    *)
(***************************************************************************)
EXTENDS WsConn, FiniteSets

CONSTANTS
  Posts,   \* the calls of Post
  None     \* "nobody", "nothing"

ASSUME WsPostAssumption ==
  /\ IsFiniteSet(Posts)
  /\ None \notin Posts /\ None \notin [to : Posts, from : Posts]
  /\ None \notin {"reply", "notready", "closed", "disconnected", "write", "gaveup"}

VARIABLES
  postSeq,   \* c.postSeq
  pending,   \* c.pending: the waiter registered under each id
  call,      \* per Post: its position, captured socket, id and why it gave up
  mailbox,   \* per Post: the buffered channels waiter.reply and waiter.err
  hand,      \* dispatchPost between taking the waiter and sending to it
  result,    \* per Post: what it returned
  requests,  \* request frames that reach the exchange and are not yet served
  replies,   \* replies sent: each may be read at any time, repeatedly or never
  executed   \* how often the exchange has executed each request (2: more than once)

postVars == <<postSeq, pending, call, mailbox, hand, result, requests, replies, executed>>
vars == <<connVars, postVars>>

\* Ids are 1, 2, ...: at most one per call of Post.
Ids == 1 .. Cardinality(Posts)

CallState == {"idle", "register", "write", "wait", "drop", "done"}
Errors == {"closed", "disconnected"}
Verdicts == {"write", "gaveup"}   \* "gaveup": ErrPostTimeout or ctx.Err()
Results == {None, "reply", "notready"} \cup Errors \cup Verdicts

Message == [socket : Sockets, id : Ids, from : Posts]

InitPost ==
  /\ postSeq = 0
  /\ pending = [i \in Ids |-> None]
  /\ call = [p \in Posts |-> [pc |-> "idle", socket |-> NoSocket, id |-> 0, why |-> None]]
  /\ mailbox = [p \in Posts |-> [reply |-> None, err |-> None]]
  /\ hand = None
  /\ result = [p \in Posts |-> None]
  /\ requests = {}
  /\ replies = {}
  /\ executed = [p \in Posts |-> 0]

Init == InitConn /\ InitPost

-----------------------------------------------------------------------------
(* Post *)

\* The call p returns r.
Returns(p, r) ==
  /\ call' = [call EXCEPT ![p].pc = "done"]
  /\ result' = [result EXCEPT ![p] = r]

\* Under RLock: fail fast, or capture the socket of this moment.
PostBegin(p) ==
  /\ call[p].pc = "idle"
  /\ \/ closed /\ Returns(p, "closed")
     \/ ~ closed /\ socket = NoSocket /\ Returns(p, "notready")
     \/ /\ ~ closed /\ socket # NoSocket
        /\ call' = [call EXCEPT ![p].pc = "register", ![p].socket = socket]
        /\ UNCHANGED result
  /\ UNCHANGED <<connVars, postSeq, pending, mailbox, hand, requests, replies, executed>>

\* postSeq.Add(1), then the registration under pendingMu.
PostRegister(p) ==
  /\ call[p].pc = "register"
  /\ postSeq' = postSeq + 1
  /\ pending' = [pending EXCEPT ![postSeq + 1] = p]
  /\ call' = [call EXCEPT ![p].pc = "write", ![p].id = postSeq + 1]
  /\ UNCHANGED <<connVars, mailbox, hand, result, requests, replies, executed>>

\* The write succeeds.  On a broken socket the frame may never arrive.
PostWrite(p) ==
  /\ call[p].pc = "write"
  /\ Writable(call[p].socket)
  /\ call' = [call EXCEPT ![p].pc = "wait"]
  /\ LET frame == [socket |-> call[p].socket, id |-> call[p].id, from |-> p] IN
       \/ requests' = requests \cup {frame}
       \/ conn[call[p].socket] = "broken" /\ UNCHANGED requests
  /\ UNCHANGED <<connVars, postSeq, pending, mailbox, hand, result, replies, executed>>

PostWriteFails(p) ==
  /\ call[p].pc = "write"
  /\ WriteFails(call[p].socket)
  /\ call' = [call EXCEPT ![p].pc = "drop", ![p].why = "write"]
  /\ UNCHANGED <<connVars, postSeq, pending, mailbox, hand, result, requests, replies, executed>>

\* The select of Post: any ready case may be taken; timer and context are
\* always about to be.
PostReplied(p) ==
  /\ call[p].pc = "wait"
  /\ mailbox[p].reply # None
  /\ Returns(p, "reply")
  /\ UNCHANGED <<connVars, postSeq, pending, mailbox, hand, requests, replies, executed>>

\* Mutant: a request whose socket died is sent again on the next one.
PostFailedResends(p) ==
  /\ call[p].pc = "wait"
  /\ mailbox[p].err # None
  /\ socket # NoSocket
  /\ call' = [call EXCEPT ![p].pc = "register", ![p].socket = socket]
  /\ mailbox' = [mailbox EXCEPT ![p].err = None]
  /\ UNCHANGED <<connVars, postSeq, pending, hand, result, requests, replies, executed>>

PostFailed(p) ==
  /\ call[p].pc = "wait"
  /\ mailbox[p].err # None
  /\ Returns(p, mailbox[p].err)
  /\ UNCHANGED <<connVars, postSeq, pending, mailbox, hand, requests, replies, executed>>

PostGivesUp(p) ==
  /\ call[p].pc = "wait"
  /\ call' = [call EXCEPT ![p].pc = "drop", ![p].why = "gaveup"]
  /\ UNCHANGED <<connVars, postSeq, pending, mailbox, hand, result, requests, replies, executed>>

\* Mutant: the entry stays in the registry.
PendingKept(i) == pending

\* delete(c.pending, i)
PendingWithout(i) == [pending EXCEPT ![i] = None]

\* dropPending, then the return.
PostDrop(p) ==
  /\ call[p].pc = "drop"
  /\ pending' = PendingWithout(call[p].id)
  /\ Returns(p, call[p].why)
  /\ UNCHANGED <<connVars, postSeq, mailbox, hand, requests, replies, executed>>

-----------------------------------------------------------------------------
(* The read loop *)

\* The waiter a reply is for.  A reply nobody waits for (the caller gave up, or
\* the reply is repeated) is an orphan.
Taken(r) ==
  IF pending[r.id] = None THEN None ELSE [to |-> pending[r.id], from |-> r.from]

\* dispatchPost under pendingMu: take the waiter out of the registry.
DispatchTake(r) ==
  /\ sup = "reading"
  /\ hand = None
  /\ r.socket = dials
  /\ hand' = Taken(r)
  /\ pending' = PendingWithout(r.id)
  /\ UNCHANGED <<connVars, postSeq, call, mailbox, result, requests, replies, executed>>

\* waiter.reply <- ...: blocks the read loop if the buffer of one is full.
DispatchSend ==
  /\ hand # None
  /\ mailbox[hand.to].reply = None
  /\ mailbox' = [mailbox EXCEPT ![hand.to].reply = hand.from]
  /\ hand' = None
  /\ UNCHANGED <<connVars, postSeq, pending, call, result, requests, replies, executed>>

\* failAllPending: err to every registered waiter, and an empty registry.
Waiting == {pending[i] : i \in Ids} \ {None}

Told(err) ==
  [p \in Posts |-> IF p \in Waiting THEN [mailbox[p] EXCEPT !.err = err] ELSE mailbox[p]]

\* Mutants: the waiters stay registered; the registry is emptied silently.
FailAllPendingKeeps(err) ==
  /\ mailbox' = Told(err)
  /\ UNCHANGED <<postSeq, pending, call, hand, result, requests, replies, executed>>
FailAllPendingSilent(err) ==
  /\ pending' = [i \in Ids |-> None]
  /\ UNCHANGED <<postSeq, call, mailbox, hand, result, requests, replies, executed>>

FailAllPending(err) ==
  /\ mailbox' = Told(err)
  /\ pending' = [i \in Ids |-> None]
  /\ UNCHANGED <<postSeq, call, hand, result, requests, replies, executed>>

-----------------------------------------------------------------------------
(* The exchange *)

\* It executes a frame it receives and answers it (an answer may get lost).
Serve(m) ==
  /\ requests' = requests \ {m}
  /\ executed' = [executed EXCEPT ![m.from] = IF @ = 0 THEN 1 ELSE 2]
  /\ replies' = replies \cup {m}
  /\ UNCHANGED <<connVars, postSeq, pending, call, mailbox, hand, result>>

-----------------------------------------------------------------------------
PostStep(p) ==
  \/ PostBegin(p) \/ PostRegister(p) \/ PostWrite(p) \/ PostWriteFails(p)
  \/ PostReplied(p) \/ PostFailed(p) \/ PostDrop(p)

\* Mutant: the clean-up fails the waiters before it closes the socket.
SupRunsFailsEarly ==
  \/ (SupPlain \/ Publish \/ ReplayDone) /\ ~ Unpublish /\ UNCHANGED postVars
  \/ Unpublish /\ FailAllPending("disconnected")
  \/ ReadFails /\ hand = None /\ UNCHANGED postVars
  \/ FailPending /\ UNCHANGED postVars

\* The supervisor's goroutine also runs dispatchPost, so it can only leave the
\* read loop when no waiter is in its hand.
SupRuns ==
  \/ (SupPlain \/ Publish \/ ReplayDone) /\ UNCHANGED postVars
  \/ ReadFails /\ hand = None /\ UNCHANGED postVars
  \/ FailPending /\ FailAllPending("disconnected")

CloseFails(k) == CloseFailPending(k) /\ FailAllPending("closed")

Next ==
  \/ SupRuns
  \/ AroundStep /\ UNCHANGED postVars
  \/ \E k \in Closers : CloseFails(k)
  \/ \E p \in Posts : PostStep(p) \/ PostGivesUp(p)
  \/ \E r \in replies : DispatchTake(r)
  \/ DispatchSend
  \/ \E m \in requests : Serve(m)

Spec == Init /\ [][Next]_vars

(***************************************************************************)
(* The scheduler runs every goroutine that can run, a handshake ends (it   *)
(* has a timeout), a sleep ends, a read of a failed socket returns (it has *)
(* a deadline).  Nothing is assumed of the network, of the callers of      *)
(* Start and Close or of the parent context, nor that a dial ever succeeds.*)
(* PostGivesUp has no fairness: timer and context are the last resort of a *)
(* caller, not what the properties rely on.                                *)
(***************************************************************************)
FairSpec ==
  /\ Spec
  /\ WF_vars(SupRuns)
  /\ WF_vars(Watch /\ UNCHANGED postVars)
  /\ WF_vars(DispatchSend)
  /\ \A k \in Closers :
       /\ WF_vars((CloseCancel(k) \/ CloseSocket(k)) /\ UNCHANGED postVars)
       /\ WF_vars(CloseFails(k))
  /\ \A p \in Posts : WF_vars(PostStep(p))

-----------------------------------------------------------------------------
TypeOK ==
  /\ TypeOKConn
  /\ postSeq \in 0 .. Cardinality(Posts)
  /\ pending \in [Ids -> Posts \cup {None}]
  /\ call \in [Posts -> [pc : CallState, socket : Sockets \cup {NoSocket},
                         id : Ids \cup {0}, why : Verdicts \cup {None}]]
  /\ mailbox \in [Posts -> [reply : Posts \cup {None}, err : Errors \cup {None}]]
  /\ hand \in [to : Posts, from : Posts] \cup {None}
  /\ result \in [Posts -> Results]
  /\ requests \in SUBSET Message
  /\ replies \in SUBSET Message
  /\ executed \in [Posts -> 0 .. 2]

Registered(p) == \E i \in Ids : pending[i] = p
InHand(p) == hand # None /\ hand.to = p
Replied(p) == mailbox[p].reply # None
Failed(p) == mailbox[p].err # None

(***************************************************************************)
(* The waiter of a request is in at most one place: in the registry, in    *)
(* the hand of the read loop, or answered by a reply or by an error.  So   *)
(* no caller gets two outcomes, and no send on a waiter's channels (each   *)
(* of capacity one) can block the read loop or failAllPending, which       *)
(* sends while it holds pendingMu (conn.go:418-427, 642-657).              *)
(***************************************************************************)
OneOutcome ==
  \A p \in Posts :
    /\ Registered(p) => ~ InHand(p) /\ ~ Replied(p) /\ ~ Failed(p)
    /\ InHand(p) => ~ Replied(p) /\ ~ Failed(p)
    /\ Replied(p) => ~ Failed(p)

(***************************************************************************)
(* A caller waits for something that will come: its reply or error is      *)
(* there, is in the hand of the read loop, or its waiter is registered     *)
(* while the socket it wrote to still belongs to a connection whose        *)
(* clean-up is to run failAllPending.  In particular a request written to  *)
(* a socket that died, or that Post had captured before a reconnect, is    *)
(* never left to its timer.                                                *)
(***************************************************************************)
NoForgottenWaiter ==
  \A p \in Posts :
    call[p].pc = "wait" /\ ~ InHand(p) /\ ~ Replied(p) /\ ~ Failed(p) =>
      /\ Registered(p)
      /\ call[p].socket = dials
      /\ sup \in {"replay", "reading", "unpublish", "shut", "failing"}

(***************************************************************************)
(* Once a Close that found a live socket has returned, no caller waits on  *)
(* that socket without an outcome, even one that was between its socket    *)
(* capture, its registration and its write while Close ran.                *)
(***************************************************************************)
CloseLeavesNoWaiter ==
  \A k \in Closers, p \in Posts :
    /\ closer[k].pc = "done"
    /\ closer[k].socket # NoSocket
    /\ call[p].socket = closer[k].socket
    /\ call[p].pc = "wait"
    => InHand(p) \/ Replied(p) \/ Failed(p)

(***************************************************************************)
(* The registry of waiters holds running calls only, each under its own    *)
(* id: a timeout, a cancelled context or a failed write never leaves an    *)
(* entry behind that a long-lived connection would accumulate.             *)
(***************************************************************************)
RegistryHoldsCalls ==
  \A i \in Ids :
    pending[i] # None =>
      call[pending[i]].id = i /\ call[pending[i]].pc \in {"write", "wait", "drop"}

-----------------------------------------------------------------------------
(* What makes the invariants above inductive. *)

\* Ids are drawn one per registration, so they never run out and are unique.
Numbered == {p \in Posts : call[p].id # 0}

IdsDrawn ==
  /\ postSeq = Cardinality(Numbered)
  /\ \A p \in Posts :
       /\ call[p].id <= postSeq
       /\ call[p].pc \in {"idle", "register"} => call[p].id = 0
       /\ call[p].pc \in {"write", "wait", "drop"} => call[p].id # 0
       /\ \A q \in Posts : call[q].id = call[p].id /\ call[p].id # 0 => q = p

\* No outcome exists before its waiter, and a waiter is not lost before the
\* frame is written.
WaiterFirst ==
  \A p \in Posts :
    /\ call[p].pc \in {"idle", "register"} => ~ InHand(p) /\ ~ Replied(p) /\ ~ Failed(p)
    /\ call[p].pc = "write" => Registered(p) \/ InHand(p) \/ Replied(p) \/ Failed(p)

\* Post only captures published sockets, Close closes the one it captured.
Captured ==
  /\ \A p \in Posts :
       /\ call[p].socket <= dials
       /\ sup = "publish" => call[p].socket < dials
       /\ call[p].pc \in {"register", "write", "wait"} => call[p].socket # NoSocket
  /\ \A k \in Closers :
       /\ closer[k].socket <= dials
       /\ closer[k].pc \in {"failing", "done"} /\ closer[k].socket # NoSocket =>
            conn[closer[k].socket] = "closed"

\* A call has a result exactly when it has returned, and it returned what it
\* was given.
Returned ==
  \A p \in Posts :
    /\ result[p] = None <=> call[p].pc # "done"
    /\ result[p] = "reply" => Replied(p)
    /\ call[p].pc = "drop" => call[p].why \in Verdicts
    /\ call[p].pc \notin {"drop", "done"} => call[p].why = None

\* The frame of p was handed to its socket, and p does not deny it.
Sent(p) ==
  /\ call[p].pc \in {"wait", "drop", "done"}
  /\ call[p].why # "write"
  /\ result[p] \notin {"notready", "write"}

\* Whatever is under way belongs to the call that sent it: a request to one not
\* executed yet, a reply to one executed once.
Delivered ==
  /\ \A m \in requests \cup replies :
       m.id = call[m.from].id /\ m.socket = call[m.from].socket
  /\ \A m \in requests : executed[m.from] = 0 /\ Sent(m.from)
  /\ \A m \in replies : executed[m.from] = 1
  /\ \A p \in Posts : executed[p] = 0 \/ (executed[p] = 1 /\ Sent(p))
  /\ hand # None => hand.from = hand.to /\ executed[hand.to] = 1
  /\ \A p \in Posts : Replied(p) => mailbox[p].reply = p /\ executed[p] = 1

(***************************************************************************)
(* The inductive invariant: ids name one call each, a waiter is in exactly *)
(* one place from its registration until its outcome, the socket of a      *)
(* waiting call is still to be cleaned up by the supervisor, and frames    *)
(* belong to the calls that sent them.                                     *)
(***************************************************************************)
PostInv ==
  /\ TypeOK
  /\ SocketLifetime
  /\ IdsDrawn
  /\ WaiterFirst
  /\ Captured
  /\ RegistryHoldsCalls
  /\ OneOutcome
  /\ NoForgottenWaiter
  /\ CloseLeavesNoWaiter
  /\ Returned
  /\ Delivered

-----------------------------------------------------------------------------
(***************************************************************************)
(* A caller whose socket has failed gets an outcome without the help of    *)
(* its timer or context.                                                   *)
(***************************************************************************)
DeadSocketAnswers ==
  \A p \in Posts :
    (call[p].pc = "wait" /\ conn[call[p].socket] # "open") ~> call[p].pc = "done"

-----------------------------------------------------------------------------
(***************************************************************************)
(* Post keeps the contract of PostContract: a request is executed at most  *)
(* once (it is never re-sent after a reconnect, conn.go:23-28), a reply is *)
(* the caller's own, and ErrConnNotReady or a failed write mean "never     *)
(* executed".  ErrConnClosed does not: it is returned both before anything *)
(* was sent and by Close to a caller whose request may have been executed. *)
(***************************************************************************)
Status(p) ==
  CASE result[p] = "reply" -> "replied"
    [] result[p] \in {"notready", "write"} -> "refused"
    [] result[p] \in Errors \cup {"gaveup"} -> "unknown"
    [] OTHER -> IF call[p].pc = "idle" THEN "idle" ELSE "calling"

Answer(p) == IF result[p] = "reply" THEN {mailbox[p].reply} ELSE {}

Contract == INSTANCE PostContract
              WITH status <- [p \in Posts |-> Status(p)],
                   answer <- [p \in Posts |-> Answer(p)]
ContractSpec == Contract!Spec
=============================================================================
