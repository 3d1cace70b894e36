--------------------------- MODULE WsPost_proofs ---------------------------
(***************************************************************************)
(* Proofs about requests over the connection, for any number of calls of   *)
(* Post, of dials and of concurrent calls of Close.                        *)
(***************************************************************************)
EXTENDS WsPost, WsConn_proofs, FiniteSetTheorems

\* The steps of the requests are stuttering steps of the connection, all
\* others are steps of it.
LEMMA ConnectionStep == [Next]_vars => [NextConn]_connVars
  BY DEF Next, SupRuns, CloseFails, PostStep, vars, NextConn, SupStep,
         PostBegin, PostRegister, PostWrite, PostWriteFails, PostReplied,
         PostFailed, PostGivesUp, PostDrop, DispatchTake, DispatchSend, Serve

-----------------------------------------------------------------------------
(* Types *)

\* The number of ids drawn never exceeds the number of calls.
LEMMA IdLeft ==
  ASSUME IdsDrawn, NEW p \in Posts, call[p].id = 0
  PROVE  /\ postSeq + 1 \in Ids
         /\ IsFiniteSet(Numbered)
         /\ Cardinality(Numbered \cup {p}) = postSeq + 1
<1>1. IsFiniteSet(Numbered) /\ IsFiniteSet(Posts)
  BY WsPostAssumption, FS_Subset DEF Numbered
<1>2. Cardinality(Numbered \cup {p}) = postSeq + 1
  BY <1>1, FS_AddElement DEF IdsDrawn, Numbered
<1>3. Numbered \cup {p} \in SUBSET Posts
  BY DEF Numbered
<1>4. postSeq + 1 <= Cardinality(Posts)
  BY <1>1, <1>2, <1>3, FS_Subset
<1>5. postSeq \in Nat /\ Cardinality(Posts) \in Nat
  BY <1>1, FS_CardinalityType DEF IdsDrawn
<1> QED
  BY <1>1, <1>2, <1>4, <1>5 DEF Ids

Calls == [pc : CallState, socket : Sockets \cup {NoSocket},
          id : Ids \cup {0}, why : Verdicts \cup {None}]
Boxes == [reply : Posts \cup {None}, err : Errors \cup {None}]

\* The conjuncts of TypeOK about requests.
PostTypes ==
  /\ postSeq \in 0 .. Cardinality(Posts)
  /\ pending \in [Ids -> Posts \cup {None}]
  /\ call \in [Posts -> Calls]
  /\ mailbox \in [Posts -> Boxes]
  /\ hand \in [to : Posts, from : Posts] \cup {None}
  /\ result \in [Posts -> Results]
  /\ requests \in SUBSET Message
  /\ replies \in SUBSET Message
  /\ executed \in [Posts -> 0 .. 2]

LEMMA SplitTypes == TypeOK <=> TypeOKConn /\ PostTypes
  BY DEF TypeOK, PostTypes, Calls, Boxes

\* A call moves on to position pc.
LEMMA CallGoes ==
  ASSUME call \in [Posts -> Calls], NEW p \in Posts, NEW pc \in CallState
  PROVE  [call EXCEPT ![p].pc = pc] \in [Posts -> Calls]
  BY DEF Calls

\* A call returns.
LEMMA CallReturns ==
  ASSUME PostTypes, NEW p \in Posts, NEW r \in Results, Returns(p, r)
  PROVE  call' \in [Posts -> Calls] /\ result' \in [Posts -> Results]
<1>1. call \in [Posts -> Calls] /\ "done" \in CallState
  BY DEF PostTypes, CallState
<1> QED
  BY <1>1, CallGoes DEF Returns, PostTypes

\* One step keeps the types.
LEMMA PostTypeStep ==
  ASSUME TypeOK, IdsDrawn, Captured, [Next]_vars
  PROVE  TypeOK'
<1>1. TypeOKConn' /\ TypeOKConn /\ PostTypes
  BY ConnectionStep, TypeStep, SplitTypes
<1>2. call \in [Posts -> Calls] /\ mailbox \in [Posts -> Boxes]
  BY <1>1 DEF PostTypes
<1>3. ASSUME UNCHANGED postVars
      PROVE  PostTypes'
  BY <1>1, <1>3 DEF PostTypes, postVars
<1>4. ASSUME NEW p \in Posts, PostBegin(p)
      PROVE  PostTypes'
  <2>1. CASE \E r \in {"closed", "notready"} : Returns(p, r)
    <3>1. PICK r \in Results : Returns(p, r)
      BY <2>1 DEF Results, Errors
    <3>2. call' \in [Posts -> Calls] /\ result' \in [Posts -> Results]
      BY <1>1, <3>1, CallReturns
    <3> QED
      BY <1>1, <1>2, <1>4, <3>2 DEF PostBegin, PostTypes
  <2>2. CASE call' = [call EXCEPT ![p].pc = "register", ![p].socket = socket] /\ UNCHANGED result
    <3>1. socket \in Sockets \cup {NoSocket}
      BY <1>1 DEF TypeOKConn
    <3>2. call' \in [Posts -> Calls]
      BY <1>1, <1>2, <2>2, <3>1 DEF Calls, CallState
    <3> QED
      BY <1>1, <1>2, <1>4, <2>2, <3>2 DEF PostBegin, PostTypes
  <2> QED
    BY <1>4, <2>1, <2>2 DEF PostBegin
<1>5. ASSUME NEW p \in Posts, PostRegister(p)
      PROVE  PostTypes'
  <2>1. postSeq + 1 \in Ids /\ postSeq + 1 \in 0 .. Cardinality(Posts)
    <3>1. call[p].id = 0
      BY <1>5 DEF PostRegister, IdsDrawn
    <3>2. postSeq + 1 \in Ids
      BY <3>1, IdLeft
    <3> QED
      BY <1>1, <3>2 DEF PostTypes, Ids
  <2>2. call' \in [Posts -> Calls]
    BY <1>1, <1>2, <1>5, <2>1 DEF PostRegister, Calls, CallState
  <2> QED
    BY <1>1, <1>2, <1>5, <2>1, <2>2 DEF PostRegister, PostTypes
<1>6. ASSUME NEW p \in Posts, PostWrite(p)
      PROVE  PostTypes'
  <2>1. call[p].socket \in Sockets /\ call[p].id \in Ids
    BY <1>1, <1>2, <1>6 DEF PostWrite, Captured, IdsDrawn, Calls
  <2>2. call' \in [Posts -> Calls]
    BY <1>1, <1>2, <1>6, CallGoes DEF PostWrite, CallState
  <2>3. requests' \in SUBSET Message
    BY <1>1, <1>6, <2>1 DEF PostWrite, PostTypes, Message
  <2> QED
    BY <1>1, <1>2, <1>6, <2>2, <2>3 DEF PostWrite, PostTypes
<1>7. ASSUME NEW p \in Posts, PostWriteFails(p) \/ PostGivesUp(p)
      PROVE  PostTypes'
  <2>1. call' \in [Posts -> Calls]
    BY <1>1, <1>2, <1>7 DEF PostWriteFails, PostGivesUp, CallState, Calls, Verdicts
  <2> QED
    BY <1>1, <1>2, <1>7, <2>1 DEF PostWriteFails, PostGivesUp, PostTypes
<1>8. ASSUME NEW p \in Posts, PostReplied(p) \/ PostFailed(p)
      PROVE  PostTypes'
  <2>1. PICK r \in Results : Returns(p, r)
    BY <1>1, <1>2, <1>8 DEF Boxes, PostReplied, PostFailed, Results
  <2>2. call' \in [Posts -> Calls] /\ result' \in [Posts -> Results]
    BY <1>1, <2>1, CallReturns
  <2> QED
    BY <1>1, <1>2, <1>8, <2>2 DEF PostReplied, PostFailed, PostTypes
<1>9. ASSUME NEW p \in Posts, PostDrop(p)
      PROVE  PostTypes'
  <2>1. call[p].why \in Verdicts \cup {None} /\ call[p].id \in Ids
    BY <1>1, <1>2, <1>9 DEF Calls, PostDrop, IdsDrawn
  <2> QED
    <3>1. call' \in [Posts -> Calls] /\ result' \in [Posts -> Results]
      BY <1>1, <1>9, <2>1, CallReturns DEF PostDrop, Results
    <3> QED
      BY <1>1, <1>2, <1>9, <2>1, <3>1 DEF PostDrop, PendingWithout, PostTypes
<1>10. ASSUME NEW r \in replies, DispatchTake(r)
       PROVE  PostTypes'
  <2>1. r.id \in Ids /\ r.from \in Posts
    BY <1>1 DEF PostTypes, Message
  <2>2. Taken(r) \in [to : Posts, from : Posts] \cup {None}
    BY <1>1, <2>1 DEF Taken, PostTypes
  <2> QED
    BY <1>1, <1>2, <1>10, <2>1, <2>2 DEF DispatchTake, PendingWithout, PostTypes
<1>11. ASSUME DispatchSend
       PROVE  PostTypes'
  <2>1. hand.to \in Posts /\ hand.from \in Posts
    BY <1>1, <1>11 DEF DispatchSend, PostTypes
  <2>2. mailbox' \in [Posts -> Boxes]
    BY <1>1, <1>2, <1>11, <2>1 DEF DispatchSend, Boxes
  <2> QED
    BY <1>1, <1>2, <1>11, <2>2 DEF DispatchSend, PostTypes
<1>12. ASSUME NEW err \in Errors, FailAllPending(err)
       PROVE  PostTypes'
  <2>1. mailbox' \in [Posts -> Boxes]
    BY <1>1, <1>2, <1>12 DEF FailAllPending, Told, Boxes
  <2> QED
    BY <1>1, <1>2, <1>12, <2>1 DEF FailAllPending, PostTypes
<1>13. ASSUME NEW m \in requests, Serve(m)
       PROVE  PostTypes'
  BY <1>1, <1>2, <1>13 DEF Serve, PostTypes, Message
<1> QED
  <2>1. "closed" \in Errors /\ "disconnected" \in Errors
    BY DEF Errors
  <2>2. (\E p \in Posts : PostStep(p) \/ PostGivesUp(p)) => PostTypes'
    BY <1>4, <1>5, <1>6, <1>7, <1>8, <1>9 DEF PostStep
  <2>3. SupRuns \/ (\E k \in Closers : CloseFails(k)) => PostTypes'
    BY <2>1, <1>3, <1>12 DEF SupRuns, CloseFails
  <2>4. DispatchSend \/ (\E r \in replies : DispatchTake(r)) => PostTypes'
    BY <1>10, <1>11
  <2>5. PostTypes'
    BY <1>3, <1>13, <2>2, <2>3, <2>4 DEF Next, vars
  <2> QED
    BY <1>1, <2>5 DEF TypeOK, PostTypes, Calls, Boxes

-----------------------------------------------------------------------------
(* Ids *)

\* What a step that registers no waiter may do to the calls.
CallsMove ==
  /\ postSeq' = postSeq
  /\ \A p \in Posts :
       /\ call'[p].id = call[p].id
       /\ \/ call'[p].pc = call[p].pc
          \/ call[p].pc = "idle" /\ call'[p].pc \in {"register", "done"}
          \/ call[p].pc \in {"write", "wait", "drop"} /\ call'[p].pc \in {"wait", "drop", "done"}

\* All steps but a registration.
LEMMA CallsMoveStep ==
  ASSUME TypeOK, [Next]_vars, \A p \in Posts : ~ PostRegister(p)
  PROVE  CallsMove
<1>1. call \in [Posts -> Calls]
  BY DEF TypeOK, Calls
<1>2. ASSUME UNCHANGED <<postSeq, call>>
      PROVE  CallsMove
  BY <1>2 DEF CallsMove
<1>3. ASSUME NEW p \in Posts, PostBegin(p)
      PROVE  CallsMove
  BY <1>1, <1>3 DEF CallsMove, PostBegin, Returns, Calls
<1>4. ASSUME NEW p \in Posts, PostWrite(p) \/ PostWriteFails(p) \/ PostGivesUp(p)
      PROVE  CallsMove
  BY <1>1, <1>4 DEF CallsMove, PostWrite, PostWriteFails, PostGivesUp, Calls
<1>5. ASSUME NEW p \in Posts, PostReplied(p) \/ PostFailed(p) \/ PostDrop(p)
      PROVE  CallsMove
  BY <1>1, <1>5 DEF CallsMove, PostReplied, PostFailed, PostDrop, Returns, Calls
<1>6. (\E p \in Posts : PostStep(p) \/ PostGivesUp(p)) => CallsMove
  BY <1>3, <1>4, <1>5 DEF PostStep
<1>7. SupRuns \/ (\E k \in Closers : CloseFails(k)) \/ UNCHANGED postVars => CallsMove
  BY <1>2 DEF SupRuns, CloseFails, FailAllPending, postVars
<1>8. \/ DispatchSend
      \/ \E r \in replies : DispatchTake(r)
      \/ \E m \in requests : Serve(m)
      => CallsMove
  BY <1>2 DEF DispatchSend, DispatchTake, Serve
<1> QED
  BY <1>6, <1>7, <1>8 DEF Next, vars

LEMMA IdsDrawnStep ==
  ASSUME TypeOK, IdsDrawn, [Next]_vars
  PROVE  IdsDrawn'
<1>1. call \in [Posts -> Calls] /\ postSeq \in Nat
  BY DEF TypeOK, Calls
<1>2. CASE \A p \in Posts : ~ PostRegister(p)
  <2>1. CallsMove
    BY <1>2, CallsMoveStep
  <2>2. Numbered' = Numbered
    BY <2>1 DEF CallsMove, Numbered
  <2> QED
    BY <2>1, <2>2 DEF CallsMove, IdsDrawn
<1>3. ASSUME NEW p \in Posts, PostRegister(p)
      PROVE  IdsDrawn'
  <2>1. call[p].id = 0
    BY <1>3 DEF PostRegister, IdsDrawn
  <2>2. Cardinality(Numbered \cup {p}) = postSeq + 1
    BY <2>1, IdLeft
  <2>3. /\ postSeq' = postSeq + 1
        /\ call'[p].id = postSeq + 1 /\ call'[p].pc = "write"
        /\ \A q \in Posts \ {p} : call'[q] = call[q]
    BY <1>1, <1>3 DEF PostRegister, Calls
  <2>4. Numbered' = Numbered \cup {p}
    BY <1>1, <2>3 DEF Numbered
  <2>5. \A q \in Posts : call[q].id \in Nat /\ call[q].id <= postSeq
    BY <1>1 DEF IdsDrawn, Calls, Ids
  <2> QED
    BY <1>1, <2>2, <2>3, <2>4, <2>5 DEF IdsDrawn
<1> QED
  BY <1>2, <1>3

-----------------------------------------------------------------------------
(* Waiters *)

Waiters == RegistryHoldsCalls /\ WaiterFirst /\ OneOutcome

\* Steps that touch neither the registry, nor a mailbox, nor the hand of the
\* read loop, and in which only calls without a waiter return.
LEMMA WaitersFrame ==
  ASSUME TypeOK, Waiters, CallsMove, UNCHANGED <<pending, mailbox, hand>>,
         \A p \in Posts : call[p].pc # "done" /\ call'[p].pc = "done" => ~ Registered(p)
  PROVE  Waiters'
<1>1. \A p \in Posts : /\ Registered(p)' <=> Registered(p)
                       /\ InHand(p)' <=> InHand(p)
                       /\ Replied(p)' <=> Replied(p)
                       /\ Failed(p)' <=> Failed(p)
  BY DEF Registered, InHand, Replied, Failed
<1>2. RegistryHoldsCalls'
  <2> SUFFICES ASSUME NEW i \in Ids, pending[i] # None
               PROVE  call'[pending[i]].id = i /\ call'[pending[i]].pc \in {"write", "wait", "drop"}
    BY DEF RegistryHoldsCalls
  <2>1. pending[i] \in Posts /\ Registered(pending[i])
    BY DEF TypeOK, Registered
  <2>2. call[pending[i]].id = i /\ call[pending[i]].pc \in {"write", "wait", "drop"}
    BY DEF Waiters, RegistryHoldsCalls
  <2> QED
    BY <2>1, <2>2 DEF CallsMove
<1>3. WaiterFirst'
  BY <1>1 DEF Waiters, WaiterFirst, CallsMove
<1>4. OneOutcome'
  BY <1>1 DEF Waiters, OneOutcome
<1> QED
  BY <1>2, <1>3, <1>4 DEF Waiters

\* Post registers its waiter under an id nobody has.
LEMMA WaitersRegister ==
  ASSUME TypeOK, IdsDrawn, Waiters, NEW p \in Posts, PostRegister(p)
  PROVE  Waiters'
<1> DEFINE n == postSeq + 1
<1>1. call \in [Posts -> Calls] /\ n \in Ids /\ postSeq \in Nat
  <2>1. call[p].id = 0
    BY DEF PostRegister, IdsDrawn
  <2>2. n \in Ids
    BY <2>1, IdLeft
  <2> HIDE DEF n
  <2> QED
    BY <2>2, SplitTypes DEF PostTypes
<1>2. /\ call'[p].id = n /\ call'[p].pc = "write"
      /\ \A q \in Posts \ {p} : call'[q] = call[q]
  BY <1>1 DEF PostRegister, Calls
<1>3. pending[n] = None
  <2> SUFFICES ASSUME pending[n] # None
               PROVE  FALSE
    OBVIOUS
  <2>1. pending[n] \in Posts /\ call[pending[n]].id = n
    BY <1>1 DEF TypeOK, Waiters, RegistryHoldsCalls
  <2> QED
    BY <1>1, <2>1 DEF IdsDrawn
<1>4. /\ pending' = [pending EXCEPT ![n] = p]
      /\ pending \in [Ids -> Posts \cup {None}]
      /\ mailbox' = mailbox /\ hand' = hand
  BY DEF PostRegister, TypeOK
<1>5. \A q \in Posts : Registered(q)' <=> q = p \/ Registered(q)
  BY <1>1, <1>3, <1>4, WsPostAssumption DEF Registered
<1>6. \A q \in Posts : /\ InHand(q)' <=> InHand(q)
                       /\ Replied(q)' <=> Replied(q)
                       /\ Failed(q)' <=> Failed(q)
  BY <1>4 DEF InHand, Replied, Failed
<1>7. ~ InHand(p) /\ ~ Replied(p) /\ ~ Failed(p) /\ call[p].pc = "register"
  BY DEF PostRegister, Waiters, WaiterFirst
<1>8. \A i \in Ids : pending[i] # p
  BY <1>7, WsPostAssumption DEF Waiters, RegistryHoldsCalls
<1>9. RegistryHoldsCalls'
  <2> SUFFICES ASSUME NEW i \in Ids, pending'[i] # None
               PROVE  call'[pending'[i]].id = i /\ call'[pending'[i]].pc \in {"write", "wait", "drop"}
    BY DEF RegistryHoldsCalls
  <2>1. CASE i = n
    BY <1>1, <1>2, <1>4, <2>1
  <2>2. CASE i # n
    BY <1>1, <1>2, <1>4, <1>8, <2>2 DEF Waiters, RegistryHoldsCalls
  <2> QED
    BY <2>1, <2>2
<1>10. WaiterFirst'
  BY <1>2, <1>5, <1>6, <1>7 DEF Waiters, WaiterFirst
<1>11. OneOutcome'
  BY <1>5, <1>6, <1>7 DEF Waiters, OneOutcome
<1> QED
  BY <1>9, <1>10, <1>11 DEF Waiters

\* What deleting the entry of id i does to the registry.
LEMMA EntryDeleted ==
  ASSUME TypeOK, Waiters, NEW i \in Ids, pending' = PendingWithout(i)
  PROVE  /\ pending' \in [Ids -> Posts \cup {None}]
         /\ \A j \in Ids : pending'[j] # None => pending'[j] = pending[j] /\ j # i
         /\ \A q \in Posts : Registered(q)' <=> Registered(q) /\ pending[i] # q
<1>1. pending \in [Ids -> Posts \cup {None}] /\ pending' = [pending EXCEPT ![i] = None]
  BY DEF TypeOK, PendingWithout
<1>2. \A j, k \in Ids : pending[j] = pending[k] /\ pending[j] # None => j = k
  BY DEF Waiters, RegistryHoldsCalls
<1> QED
  BY <1>1, <1>2, WsPostAssumption DEF Registered

\* The caller removes its own entry and returns.
LEMMA WaitersDrop ==
  ASSUME TypeOK, IdsDrawn, Waiters, NEW p \in Posts, PostDrop(p)
  PROVE  Waiters'
<1>1. call \in [Posts -> Calls] /\ call[p].id \in Ids /\ call[p].pc = "drop"
  BY DEF TypeOK, PostDrop, IdsDrawn, Calls
<1>2. /\ \A j \in Ids : pending'[j] # None => pending'[j] = pending[j] /\ j # call[p].id
      /\ \A q \in Posts : Registered(q)' <=> Registered(q) /\ pending[call[p].id] # q
  BY <1>1, EntryDeleted DEF PostDrop
<1>3. /\ call'[p].id = call[p].id /\ call'[p].pc = "done"
      /\ \A q \in Posts \ {p} : call'[q] = call[q]
  BY <1>1 DEF PostDrop, Returns, Calls
<1>4. \A q \in Posts : /\ InHand(q)' <=> InHand(q)
                       /\ Replied(q)' <=> Replied(q)
                       /\ Failed(q)' <=> Failed(q)
  BY DEF PostDrop, InHand, Replied, Failed
<1>5. \A q \in Posts : pending[call[p].id] = q => q = p
  BY <1>1, WsPostAssumption DEF Waiters, RegistryHoldsCalls, IdsDrawn
<1>6. RegistryHoldsCalls'
  <2> SUFFICES ASSUME NEW j \in Ids, pending'[j] # None
               PROVE  call'[pending'[j]].id = j /\ call'[pending'[j]].pc \in {"write", "wait", "drop"}
    BY DEF RegistryHoldsCalls
  <2>1. pending'[j] = pending[j] /\ j # call[p].id
    BY <1>2
  <2>2. pending[j] \in Posts /\ call[pending[j]].id = j
    BY <2>1 DEF TypeOK, Waiters, RegistryHoldsCalls
  <2>3. pending[j] # p
    BY <2>1, <2>2
  <2> QED
    BY <1>3, <2>1, <2>2, <2>3 DEF Waiters, RegistryHoldsCalls
<1>7. WaiterFirst'
  BY <1>1, <1>2, <1>3, <1>4, <1>5 DEF Waiters, WaiterFirst
<1>8. OneOutcome'
  BY <1>2, <1>4 DEF Waiters, OneOutcome
<1> QED
  BY <1>6, <1>7, <1>8 DEF Waiters

\* The read loop takes the waiter from the registry into its hand.
LEMMA WaitersTake ==
  ASSUME TypeOK, Waiters, NEW r \in replies, DispatchTake(r)
  PROVE  Waiters'
<1>1. r.id \in Ids /\ hand = None /\ hand' = Taken(r) /\ UNCHANGED <<call, mailbox>>
  BY DEF TypeOK, Message, DispatchTake
<1>2. /\ \A j \in Ids : pending'[j] # None => pending'[j] = pending[j] /\ j # r.id
      /\ \A q \in Posts : Registered(q)' <=> Registered(q) /\ pending[r.id] # q
  BY <1>1, EntryDeleted DEF DispatchTake
<1>3. \A q \in Posts : /\ InHand(q)' <=> pending[r.id] = q
                       /\ ~ InHand(q)
                       /\ Replied(q)' <=> Replied(q)
                       /\ Failed(q)' <=> Failed(q)
  <2>1. CASE pending[r.id] = None
    BY <1>1, <2>1, WsPostAssumption DEF InHand, Replied, Failed, Taken
  <2>2. CASE pending[r.id] # None
    <3>1. pending[r.id] \in Posts /\ r.from \in Posts
      BY <1>1, <2>2 DEF TypeOK, Message
    <3>2. hand' = [to |-> pending[r.id], from |-> r.from] /\ hand' # None
      BY <1>1, <2>2, <3>1, WsPostAssumption DEF Taken
    <3> QED
      BY <1>1, <3>2 DEF InHand, Replied, Failed
  <2> QED
    BY <2>1, <2>2
<1>4. \A q \in Posts : pending[r.id] = q => Registered(q)
  BY <1>1 DEF Registered
<1>5. RegistryHoldsCalls'
  BY <1>1, <1>2 DEF Waiters, RegistryHoldsCalls
<1>6. WaiterFirst'
  <2>1. \A q \in Posts : Registered(q) => call[q].pc \notin {"idle", "register"}
    BY WsPostAssumption DEF Registered, Waiters, RegistryHoldsCalls
  <2> QED
    BY <1>1, <1>2, <1>3, <1>4, <2>1 DEF Waiters, WaiterFirst
<1>7. OneOutcome'
  BY <1>2, <1>3, <1>4 DEF Waiters, OneOutcome
<1> QED
  BY <1>5, <1>6, <1>7 DEF Waiters

\* The read loop answers the waiter in its hand.
LEMMA WaitersSend ==
  ASSUME TypeOK, Waiters, DispatchSend
  PROVE  Waiters'
<1>1. /\ hand.to \in Posts /\ hand.from \in Posts
      /\ mailbox \in [Posts -> Boxes]
      /\ UNCHANGED <<call, pending>>
  BY DEF TypeOK, DispatchSend, Boxes
<1>2. \A q \in Posts : /\ Registered(q)' <=> Registered(q)
                       /\ ~ InHand(q)'
                       /\ Replied(q)' <=> Replied(q) \/ InHand(q)
                       /\ Failed(q)' <=> Failed(q)
  BY <1>1, WsPostAssumption DEF DispatchSend, Registered, InHand, Replied, Failed, Boxes
<1>3. RegistryHoldsCalls'
  BY <1>1 DEF Waiters, RegistryHoldsCalls
<1>4. WaiterFirst'
  BY <1>1, <1>2 DEF Waiters, WaiterFirst
<1>5. OneOutcome'
  BY <1>2 DEF Waiters, OneOutcome
<1> QED
  BY <1>3, <1>4, <1>5 DEF Waiters

\* failAllPending answers every registered waiter and empties the registry.
LEMMA FailedAll ==
  ASSUME TypeOK, NEW err \in Errors, FailAllPending(err)
  PROVE  \A q \in Posts : /\ ~ Registered(q)'
                          /\ InHand(q)' <=> InHand(q)
                          /\ Replied(q)' <=> Replied(q)
                          /\ Failed(q)' <=> Failed(q) \/ Registered(q)
<1>1. \A q \in Posts : q \in Waiting <=> Registered(q)
  BY WsPostAssumption DEF Waiting, Registered
<1>2. err # None
  BY WsPostAssumption DEF Errors
<1> QED
  BY <1>1, <1>2, WsPostAssumption
     DEF FailAllPending, Told, Registered, InHand, Replied, Failed, TypeOK

LEMMA WaitersFail ==
  ASSUME TypeOK, Waiters, NEW err \in Errors, FailAllPending(err)
  PROVE  Waiters'
<1>1. UNCHANGED call /\ pending' = [i \in Ids |-> None]
  BY DEF FailAllPending
<1>2. \A q \in Posts : Registered(q) => call[q].pc \notin {"idle", "register"}
  BY WsPostAssumption DEF Registered, Waiters, RegistryHoldsCalls
<1>3. RegistryHoldsCalls'
  BY <1>1 DEF RegistryHoldsCalls
<1>4. WaiterFirst'
  BY <1>1, <1>2, FailedAll DEF Waiters, WaiterFirst
<1>5. OneOutcome'
  BY FailedAll DEF Waiters, OneOutcome
<1> QED
  BY <1>3, <1>4, <1>5 DEF Waiters

LEMMA WaitersStep ==
  ASSUME TypeOK, IdsDrawn, Waiters, [Next]_vars
  PROVE  Waiters'
<1>1. ASSUME UNCHANGED <<call, pending, mailbox, hand>>
      PROVE  Waiters'
  BY <1>1 DEF Waiters, RegistryHoldsCalls, WaiterFirst, OneOutcome,
              Registered, InHand, Replied, Failed
<1>2. ASSUME NEW p \in Posts,
             \/ PostBegin(p) \/ PostWrite(p) \/ PostWriteFails(p)
             \/ PostReplied(p) \/ PostFailed(p) \/ PostGivesUp(p)
      PROVE  Waiters'
  <2>1. \A q \in Posts : ~ PostRegister(q)
    <3>1. postSeq' = postSeq /\ postSeq \in Int
      BY <1>2 DEF PostBegin, PostWrite, PostWriteFails, PostReplied, PostFailed,
                  PostGivesUp, TypeOK
    <3> QED
      BY <3>1 DEF PostRegister
  <2>2. CallsMove
    BY <2>1, CallsMoveStep
  <2>3. UNCHANGED <<pending, mailbox, hand>>
    BY <1>2 DEF PostBegin, PostWrite, PostWriteFails, PostReplied, PostFailed, PostGivesUp
  <2>4. \A q \in Posts :
          call[q].pc # "done" /\ call'[q].pc = "done" =>
            call[q].pc = "idle" \/ Replied(q) \/ Failed(q)
    <3>1. call \in [Posts -> Calls]
      BY DEF TypeOK, Calls
    <3> QED
      BY <1>2, <3>1
         DEF PostBegin, PostWrite, PostWriteFails, PostReplied, PostFailed,
             PostGivesUp, Returns, Replied, Failed, Calls
  <2>5. \A q \in Posts :
          call[q].pc # "done" /\ call'[q].pc = "done" => ~ Registered(q)
    BY <2>4, WsPostAssumption DEF Waiters, OneOutcome, RegistryHoldsCalls, Registered
  <2> QED
    BY <2>2, <2>3, <2>5, WaitersFrame
<1>3. (\E p \in Posts : PostStep(p) \/ PostGivesUp(p)) => Waiters'
  BY <1>2, WaitersRegister, WaitersDrop DEF PostStep
<1>4. SupRuns \/ (\E k \in Closers : CloseFails(k)) => Waiters'
  <2>1. "closed" \in Errors /\ "disconnected" \in Errors
    BY DEF Errors
  <2>2. UNCHANGED postVars => Waiters'
    BY <1>1 DEF postVars
  <2> QED
    BY <2>1, <2>2, WaitersFail DEF SupRuns, CloseFails
<1>5. UNCHANGED postVars \/ (\E m \in requests : Serve(m)) => Waiters'
  BY <1>1 DEF postVars, Serve
<1> QED
  BY <1>3, <1>4, <1>5, WaitersTake, WaitersSend DEF Next, vars

-----------------------------------------------------------------------------
(* Captured sockets *)

\* A step of the connection that leaves the calls alone.
LEMMA CapturedConnection ==
  ASSUME TypeOKConn, SocketLifetime, Captured, [NextConn]_connVars,
         UNCHANGED call, call \in [Posts -> Calls]
  PROVE  Captured'
<1>1. /\ dials' \in {dials, dials + 1}
      /\ sup' = "publish" => dials' = dials + 1 \/ sup = "publish"
  BY DEF NextConn, SupStep, SupPlain, AroundStep, SupGoes, connVars, supVars,
         Top, DialFails, DialSucceeds, PublishRefused, ReplayFails, Unpublish,
         Shut, Bottom, SleepEnds, SleepCut, Publish, ReplayDone, ReadFails,
         FailPending, Start, ContextEnds, Watch, PingFails, CloseMark,
         CloseCancel, CloseSocket, CloseFailPending, Break
<1>2. dials \in Nat /\ \A p \in Posts : call[p].socket \in Nat
  BY WsConnAssumption DEF TypeOKConn, Sockets, Calls, NoSocket
<1>3. \A s \in Sockets : s <= dials /\ conn[s] = "closed" => conn'[s] = "closed"
  <2> SUFFICES ASSUME NEW s \in Sockets, s <= dials, conn[s] = "closed"
               PROVE  conn'[s] = "closed"
    OBVIOUS
  <2>1. conn \in [Sockets -> SocketState] /\ s # dials + 1
    BY <1>2 DEF TypeOKConn, Sockets
  <2>2. CASE conn' = conn
    BY <2>2
  <2>3. CASE DialSucceeds
    BY <2>1, <2>3 DEF DialSucceeds
  <2>4. CASE PublishRefused \/ Shut \/ Watch \/ PingFails
    BY <2>1, <2>4 DEF PublishRefused, Shut, Watch, PingFails, Closing
  <2>5. CASE \E k \in Closers : CloseSocket(k)
    BY <2>1, <2>5 DEF CloseSocket, Closing
  <2>6. CASE \E r \in Sockets : Break(r)
    BY <2>1, <2>6 DEF Break
  <2> QED
    BY <2>2, <2>3, <2>4, <2>5, <2>6
       DEF NextConn, SupStep, SupPlain, AroundStep, connVars, supVars,
           Top, DialFails, ReplayFails, Unpublish, Bottom, SleepEnds, SleepCut,
           Publish, ReplayDone, ReadFails, FailPending, Start, ContextEnds,
           CloseMark, CloseCancel, CloseFailPending
<1>4. \A k \in Closers :
        /\ closer'[k].socket <= dials'
        /\ closer'[k].pc \in {"failing", "done"} /\ closer'[k].socket # NoSocket =>
             conn'[closer'[k].socket] = "closed"
  <2> SUFFICES ASSUME NEW k \in Closers
               PROVE  /\ closer'[k].socket <= dials'
                      /\ closer'[k].pc \in {"failing", "done"} /\ closer'[k].socket # NoSocket =>
                           conn'[closer'[k].socket] = "closed"
    OBVIOUS
  <2>1. closer[k].socket \in Sockets \cup {NoSocket} /\ closer[k].socket <= dials
    BY DEF TypeOKConn, Captured
  <2>2. CASE closer'[k] = closer[k]
    BY <1>1, <1>2, <1>3, <2>1, <2>2 DEF Captured, NoSocket, Sockets
  <2>3. CASE CloseMark(k)
    BY <1>2, <2>3 DEF CloseMark, TypeOKConn, SocketLifetime, supVars, NoSocket
  <2>4. CASE CloseCancel(k)
    BY <2>1, <2>4 DEF CloseCancel, TypeOKConn, supVars
  <2>5. CASE CloseSocket(k)
    BY <2>1, <2>5 DEF CloseSocket, TypeOKConn, Closing
  <2>6. CASE CloseFailPending(k)
    BY <2>1, <2>6 DEF CloseFailPending, TypeOKConn, supVars, Captured
  <2> QED
    BY <2>2, <2>3, <2>4, <2>5, <2>6
       DEF NextConn, SupStep, SupPlain, AroundStep, connVars, supVars,
         Top, DialFails, DialSucceeds, PublishRefused, ReplayFails, Unpublish,
         Shut, Bottom, SleepEnds, SleepCut, Publish, ReplayDone, ReadFails,
         FailPending, Start, ContextEnds, Watch, PingFails, CloseMark,
         CloseCancel, CloseSocket, CloseFailPending, Break, TypeOKConn
<1>5. \A p \in Posts :
        /\ call[p].socket <= dials'
        /\ sup' = "publish" => call[p].socket < dials'
  BY <1>1, <1>2 DEF Captured
<1> QED
  BY <1>4, <1>5 DEF Captured

LEMMA CapturedStep ==
  ASSUME TypeOK, SocketLifetime, Captured, [Next]_vars
  PROVE  Captured'
<1>1. call \in [Posts -> Calls] /\ TypeOKConn
  BY DEF TypeOK, Calls
<1>2. CASE UNCHANGED call
  BY <1>1, <1>2, ConnectionStep, CapturedConnection
<1>3. ASSUME NEW p \in Posts, PostBegin(p)
      PROVE  Captured'
  BY <1>1, <1>3
     DEF PostBegin, Returns, Captured, Calls, connVars, supVars, SocketLifetime,
         TypeOKConn, NoSocket, Sockets
<1>4. ASSUME NEW p \in Posts,
             \/ PostRegister(p) \/ PostWrite(p) \/ PostWriteFails(p)
             \/ PostReplied(p) \/ PostFailed(p) \/ PostDrop(p) \/ PostGivesUp(p)
      PROVE  Captured'
  BY <1>1, <1>4
     DEF PostRegister, PostWrite, PostWriteFails, PostReplied, PostFailed,
         PostDrop, PostGivesUp, Returns, Captured, Calls, connVars, supVars
<1> QED
  BY <1>2, <1>3, <1>4
     DEF Next, SupRuns, CloseFails, FailAllPending, PostStep, DispatchTake,
         DispatchSend, Serve, vars, postVars

-----------------------------------------------------------------------------
(* Waiting calls *)

Outcome(p) == InHand(p) \/ Replied(p) \/ Failed(p)

\* An outcome stays, and a registered waiter stays registered, gets its
\* outcome or has returned.
LEMMA WaiterNotLost ==
  ASSUME TypeOK, IdsDrawn, Waiters, [Next]_vars, NEW q \in Posts
  PROVE  /\ Outcome(q) => Outcome(q)'
         /\ Registered(q) => Registered(q)' \/ Outcome(q)' \/ call'[q].pc = "done"
<1> USE DEF Outcome
<1>1. ASSUME UNCHANGED <<pending, mailbox, hand>>
      PROVE  /\ Outcome(q) => Outcome(q)'
             /\ Registered(q) => Registered(q)'
  BY <1>1 DEF Registered, InHand, Replied, Failed
<1>2. ASSUME NEW p \in Posts, PostRegister(p)
      PROVE  /\ Outcome(q) => Outcome(q)'
             /\ Registered(q) => Registered(q)'
  <2>1. call[p].id = 0 /\ postSeq + 1 \in Ids /\ postSeq \in Nat
    <3>1. call[p].id = 0
      BY <1>2 DEF PostRegister, IdsDrawn
    <3>2. postSeq + 1 \in Ids
      BY <3>1, IdLeft
    <3> QED
      BY <3>1, <3>2, SplitTypes DEF PostTypes
  <2>2. \A i \in Ids : pending[i] = q => call[q].id = i /\ i # postSeq + 1
    BY <2>1, WsPostAssumption DEF Waiters, RegistryHoldsCalls, IdsDrawn
  <2> QED
    BY <1>2, <2>1, <2>2 DEF PostRegister, TypeOK, Registered, InHand, Replied, Failed
<1>3. ASSUME NEW p \in Posts, PostDrop(p)
      PROVE  /\ Outcome(q) => Outcome(q)'
             /\ Registered(q) => Registered(q)' \/ call'[q].pc = "done"
  <2>1. call \in [Posts -> Calls] /\ call[p].id \in Ids
    BY <1>3 DEF TypeOK, PostDrop, IdsDrawn, Calls
  <2>2. Registered(q)' <=> Registered(q) /\ pending[call[p].id] # q
    BY <1>3, <2>1, EntryDeleted DEF PostDrop
  <2>3. pending[call[p].id] = q => q = p
    BY <2>1, WsPostAssumption DEF Waiters, RegistryHoldsCalls, IdsDrawn
  <2>4. call'[p].pc = "done"
    BY <1>3, <2>1 DEF PostDrop, Returns, Calls
  <2> QED
    BY <1>3, <2>2, <2>3, <2>4 DEF PostDrop, InHand, Replied, Failed
<1>4. ASSUME NEW r \in replies, DispatchTake(r)
      PROVE  /\ Outcome(q) => Outcome(q)'
             /\ Registered(q) => Registered(q)' \/ Outcome(q)'
  <2>1. r.id \in Ids /\ r.from \in Posts /\ hand = None /\ hand' = Taken(r) /\ mailbox' = mailbox
    BY <1>4 DEF TypeOK, Message, DispatchTake
  <2>2. Registered(q)' <=> Registered(q) /\ pending[r.id] # q
    BY <1>4, <2>1, EntryDeleted DEF DispatchTake
  <2>3. ASSUME pending[r.id] = q
        PROVE  InHand(q)'
    <3>1. hand' = [to |-> q, from |-> r.from] /\ hand' # None
      BY <2>1, <2>3, WsPostAssumption DEF Taken
    <3> QED
      BY <3>1 DEF InHand
  <2> QED
    BY <2>1, <2>2, <2>3 DEF InHand, Replied, Failed
<1>5. ASSUME DispatchSend
      PROVE  /\ Outcome(q) => Outcome(q)'
             /\ Registered(q) => Registered(q)'
  <2>1. hand.to \in Posts /\ hand.from \in Posts /\ mailbox \in [Posts -> Boxes]
    BY <1>5 DEF TypeOK, DispatchSend, Boxes
  <2> QED
    BY <1>5, <2>1, WsPostAssumption
       DEF DispatchSend, Registered, InHand, Replied, Failed, Boxes
<1>6. ASSUME NEW err \in Errors, FailAllPending(err)
      PROVE  /\ Outcome(q) => Outcome(q)'
             /\ Registered(q) => Outcome(q)'
  BY <1>6, FailedAll
<1>7. "closed" \in Errors /\ "disconnected" \in Errors
  BY DEF Errors
<1>8. UNCHANGED postVars \/ (\E m \in requests : Serve(m)) => UNCHANGED <<pending, mailbox, hand>>
  BY DEF postVars, Serve
<1>9. ASSUME NEW p \in Posts,
             \/ PostBegin(p) \/ PostWrite(p) \/ PostWriteFails(p)
             \/ PostReplied(p) \/ PostFailed(p) \/ PostGivesUp(p)
      PROVE  UNCHANGED <<pending, mailbox, hand>>
  BY <1>9 DEF PostBegin, PostWrite, PostWriteFails, PostReplied, PostFailed, PostGivesUp
<1>10. SupRuns \/ (\E k \in Closers : CloseFails(k)) =>
         UNCHANGED postVars \/ \E err \in Errors : FailAllPending(err)
  BY <1>7 DEF SupRuns, CloseFails
<1> QED
  BY <1>1, <1>2, <1>3, <1>4, <1>5, <1>6, <1>8, <1>9, <1>10 DEF Next, PostStep, vars

\* Only PostWrite makes a call wait.
LEMMA WaitBegins ==
  ASSUME TypeOK, [Next]_vars, NEW q \in Posts, call'[q].pc = "wait"
  PROVE  /\ call'[q].socket = call[q].socket
         /\ call[q].pc = "wait" \/ PostWrite(q)
<1>1. call \in [Posts -> Calls]
  BY DEF TypeOK, Calls
<1>2. CASE UNCHANGED call
  BY <1>2
<1>3. CASE \E p \in Posts : PostStep(p) \/ PostGivesUp(p)
  BY <1>1, <1>3
     DEF PostStep, PostBegin, PostRegister, PostWrite, PostWriteFails,
         PostReplied, PostFailed, PostDrop, PostGivesUp, Returns, Calls
<1> QED
  BY <1>2, <1>3
     DEF Next, SupRuns, CloseFails, FailAllPending, DispatchTake,
         DispatchSend, Serve, vars, postVars

\* The positions of the supervisor from the publication of a socket to the end
\* of its clean-up.
Tending == {"replay", "reading", "unpublish", "shut", "failing"}

LEMMA TendingStep ==
  ASSUME TypeOK, [Next]_vars, sup \in Tending
  PROVE  \/ sup' \in Tending /\ dials' = dials
         \/ FailAllPending("disconnected")
<1>1. [NextConn]_connVars
  BY ConnectionStep
<1>2. CASE FailPending
  <2>1. sup' # sup
    BY <1>2 DEF FailPending, SupGoes
  <2>2. ~ UNCHANGED connVars
    BY <2>1 DEF connVars, supVars
  <2>3. ~ (SupPlain \/ Publish \/ ReplayDone \/ ReadFails \/ AroundStep)
    BY <1>2
       DEF FailPending, SupPlain, SupGoes, AroundStep,
           Top, DialFails, DialSucceeds, PublishRefused, ReplayFails, Unpublish,
           Shut, Bottom, SleepEnds, SleepCut, Publish, ReplayDone, ReadFails,
           Start, ContextEnds, Watch, PingFails, CloseMark, CloseCancel,
           CloseSocket, Break, supVars
  <2> QED
    BY <2>1, <2>2, <2>3
       DEF Next, SupRuns, CloseFails, CloseFailPending, supVars, vars, PostStep,
           PostBegin, PostRegister, PostWrite, PostWriteFails, PostReplied,
           PostFailed, PostGivesUp, PostDrop, DispatchTake, DispatchSend, Serve
<1>3. CASE ~ FailPending
  BY <1>1, <1>3
     DEF Tending, NextConn, SupStep, SupPlain, SupGoes, AroundStep,
         Top, DialFails, DialSucceeds, PublishRefused, ReplayFails, Unpublish,
         Shut, Bottom, SleepEnds, SleepCut, Publish, ReplayDone, ReadFails,
         Start, ContextEnds, Watch, PingFails, CloseMark, CloseCancel,
         CloseSocket, CloseFailPending, Break, supVars, connVars
<1> QED
  BY <1>2, <1>3

LEMMA NotForgottenStep ==
  ASSUME TypeOK, SocketLifetime, IdsDrawn, Waiters, Captured,
         NoForgottenWaiter, [Next]_vars
  PROVE  NoForgottenWaiter'
<1> SUFFICES ASSUME NEW q \in Posts, call'[q].pc = "wait", ~ Outcome(q)'
             PROVE  Registered(q)' /\ call'[q].socket = dials' /\ sup' \in Tending
  BY DEF NoForgottenWaiter, Outcome, Tending
<1>1. ~ Outcome(q) /\ (Registered(q) => Registered(q)')
  BY WaiterNotLost
<1>2. Registered(q) /\ call[q].socket = dials /\ sup \in Tending
  <2>1. CASE call[q].pc = "wait"
    BY <1>1, <2>1 DEF NoForgottenWaiter, Outcome, Tending
  <2>2. CASE PostWrite(q)
    <3>1. Registered(q)
      BY <1>1, <2>2 DEF PostWrite, Waiters, WaiterFirst, Outcome
    <3>2. call[q].socket \in Sockets /\ Writable(call[q].socket)
      BY <2>2 DEF PostWrite, Captured, TypeOK
    <3>3. call[q].socket = dials /\ sup \in Holding
      BY <3>2 DEF SocketLifetime
    <3>4. sup # "publish"
      <4>1. dials \in Int
        BY WsConnAssumption DEF TypeOK, TypeOKConn, Sockets
      <4> QED
        BY <3>3, <4>1 DEF Captured
    <3> QED
      BY <3>1, <3>3, <3>4 DEF Holding, Tending
  <2> QED
    BY <2>1, <2>2, WaitBegins
<1>3. ~ FailAllPending("disconnected")
  BY <1>2, FailedAll DEF Outcome, Errors
<1> QED
  BY <1>1, <1>2, <1>3, TendingStep, WaitBegins

\* A Close that has returned had done so before, or returns in this step.
LEMMA CloserDone ==
  ASSUME TypeOK, [Next]_vars, NEW k \in Closers, closer'[k].pc = "done"
  PROVE  \/ closer[k].pc = "done" /\ closer'[k].socket = closer[k].socket
         \/ FailAllPending("closed")
<1>1. closer \in [Closers -> [pc : CloserState, socket : Sockets \cup {NoSocket}, cancel : BOOLEAN]]
  BY DEF TypeOK, TypeOKConn
<1>2. CASE UNCHANGED closer
  BY <1>2
<1>3. CASE \E j \in Closers : CloseMark(j) \/ CloseCancel(j) \/ CloseSocket(j)
  BY <1>1, <1>3 DEF CloseMark, CloseCancel, CloseSocket
<1>4. CASE \E j \in Closers : CloseFails(j)
  BY <1>4 DEF CloseFails
<1> QED
  BY <1>2, <1>3, <1>4
     DEF Next, SupRuns, SupPlain, AroundStep, vars, connVars, supVars,
         Top, DialFails, DialSucceeds, PublishRefused, ReplayFails, Unpublish,
         Shut, Bottom, SleepEnds, SleepCut, Publish, ReplayDone, ReadFails,
         FailPending, Start, ContextEnds, Watch, PingFails, Break, PostStep,
         PostBegin, PostRegister, PostWrite, PostWriteFails, PostReplied,
         PostFailed, PostGivesUp, PostDrop, DispatchTake, DispatchSend, Serve

LEMMA CloseLeavesStep ==
  ASSUME TypeOK, IdsDrawn, Waiters, Captured, NoForgottenWaiter,
         CloseLeavesNoWaiter, [Next]_vars
  PROVE  CloseLeavesNoWaiter'
<1> SUFFICES ASSUME NEW k \in Closers, NEW q \in Posts,
                    closer'[k].pc = "done", closer'[k].socket # NoSocket,
                    call'[q].socket = closer'[k].socket, call'[q].pc = "wait"
             PROVE  Outcome(q)'
  BY DEF CloseLeavesNoWaiter, Outcome
<1>1. CASE FailAllPending("closed")
  <2>1. call[q].pc = "wait"
    BY <1>1 DEF FailAllPending
  <2>2. Registered(q) \/ Outcome(q)
    BY <2>1 DEF NoForgottenWaiter, Outcome
  <2> QED
    BY <1>1, <2>2, FailedAll DEF Outcome, Errors
<1>2. CASE closer[k].pc = "done" /\ closer'[k].socket = closer[k].socket
  <2>1. call[q].socket = closer[k].socket /\ conn[call[q].socket] = "closed"
    BY <1>2, WaitBegins DEF Captured
  <2>2. ~ PostWrite(q)
    BY <2>1 DEF PostWrite, Writable
  <2>3. Outcome(q)
    BY <1>2, <2>1, <2>2, WaitBegins DEF CloseLeavesNoWaiter, Outcome
  <2> QED
    BY <2>3, WaiterNotLost
<1> QED
  BY <1>1, <1>2, CloserDone

-----------------------------------------------------------------------------
(* Results and frames *)

\* Only the read loop puts a reply into a mailbox.
LEMMA ReplyStays ==
  ASSUME TypeOK, [Next]_vars, ~ DispatchSend, NEW q \in Posts
  PROVE  mailbox'[q].reply = mailbox[q].reply
<1>1. mailbox \in [Posts -> Boxes]
  BY DEF TypeOK, Boxes
<1>2. ASSUME NEW err \in Errors, FailAllPending(err)
      PROVE  mailbox'[q].reply = mailbox[q].reply
  BY <1>1, <1>2 DEF FailAllPending, Told, Boxes
<1>3. "closed" \in Errors /\ "disconnected" \in Errors
  BY DEF Errors
<1>4. UNCHANGED mailbox => mailbox'[q].reply = mailbox[q].reply
  OBVIOUS
<1>5. \/ UNCHANGED mailbox
      \/ \E err \in Errors : FailAllPending(err)
  BY <1>3
     DEF Next, SupRuns, CloseFails, PostStep, PostBegin, PostRegister, PostWrite,
         PostWriteFails, PostReplied, PostFailed, PostGivesUp, PostDrop,
         DispatchTake, Serve, vars, postVars
<1> QED
  BY <1>2, <1>4, <1>5

LEMMA RepliedStays ==
  ASSUME TypeOK, [Next]_vars, NEW q \in Posts, Replied(q)
  PROVE  Replied(q)' /\ mailbox'[q].reply = mailbox[q].reply
<1>1. CASE DispatchSend
  BY <1>1 DEF DispatchSend, Replied, TypeOK
<1> QED
  BY <1>1, ReplyStays DEF Replied

\* A step that leaves calls and results alone.
NoCallMoves == UNCHANGED <<call, result>>

LEMMA CallsMoveInPost ==
  ASSUME [Next]_vars
  PROVE  NoCallMoves \/ \E p \in Posts : PostStep(p) \/ PostGivesUp(p)
BY DEF NoCallMoves, Next, SupRuns, CloseFails, FailAllPending, DispatchTake,
       DispatchSend, Serve, vars, postVars

LEMMA ReturnedStep ==
  ASSUME TypeOK, Returned, [Next]_vars
  PROVE  Returned'
<1>1. call \in [Posts -> Calls] /\ mailbox \in [Posts -> Boxes] /\ result \in [Posts -> Results]
  BY DEF TypeOK, Calls, Boxes
<1>2. \A q \in Posts : Replied(q) => Replied(q)'
  BY RepliedStays
<1>3. ASSUME NoCallMoves
      PROVE  Returned'
  BY <1>2, <1>3 DEF NoCallMoves, Returned
<1>4. ASSUME NEW p \in Posts,
             \/ PostRegister(p) \/ PostWrite(p) \/ PostWriteFails(p) \/ PostGivesUp(p)
      PROVE  Returned'
  BY <1>1, <1>2, <1>4
     DEF PostRegister, PostWrite, PostWriteFails, PostGivesUp, Returned, Calls, Verdicts
<1>5. ASSUME NEW p \in Posts, PostBegin(p)
      PROVE  Returned'
  BY <1>1, <1>2, <1>5, WsPostAssumption DEF PostBegin, Returns, Returned, Calls
<1>6. ASSUME NEW p \in Posts, PostReplied(p)
      PROVE  Returned'
  BY <1>1, <1>2, <1>6, WsPostAssumption DEF PostReplied, Returns, Returned, Calls, Replied
<1>7. ASSUME NEW p \in Posts, PostFailed(p)
      PROVE  Returned'
  <2>1. mailbox[p].err \in Errors
    BY <1>1, <1>7 DEF PostFailed, Boxes
  <2> QED
    BY <1>1, <1>2, <1>7, <2>1, WsPostAssumption
       DEF PostFailed, Returns, Returned, Calls, Errors
<1>8. ASSUME NEW p \in Posts, PostDrop(p)
      PROVE  Returned'
  <2>1. call[p].why \in Verdicts
    BY <1>8 DEF PostDrop, Returned
  <2> QED
    BY <1>1, <1>2, <1>8, <2>1, WsPostAssumption
       DEF PostDrop, Returns, Returned, Calls, Verdicts
<1> QED
  BY <1>3, <1>4, <1>5, <1>6, <1>7, <1>8, CallsMoveInPost DEF PostStep

\* A call that has drawn its id keeps id and socket.
LEMMA AddressStays ==
  ASSUME TypeOK, IdsDrawn, [Next]_vars, NEW q \in Posts, call[q].id # 0
  PROVE  call'[q].id = call[q].id /\ call'[q].socket = call[q].socket
<1>1. call \in [Posts -> Calls] /\ call[q].pc \notin {"idle", "register"}
  BY DEF TypeOK, Calls, IdsDrawn
<1>2. ASSUME NEW p \in Posts, PostStep(p) \/ PostGivesUp(p)
      PROVE  call'[q].id = call[q].id /\ call'[q].socket = call[q].socket
  BY <1>1, <1>2
     DEF PostStep, PostBegin, PostRegister, PostWrite, PostWriteFails,
         PostReplied, PostFailed, PostDrop, PostGivesUp, Returns, Calls
<1> QED
  BY <1>2, CallsMoveInPost DEF NoCallMoves

\* A call that has handed its frame over never denies it.
LEMMA SentStays ==
  ASSUME TypeOK, Returned, [Next]_vars, NEW q \in Posts, Sent(q)
  PROVE  Sent(q)'
<1>1. /\ call \in [Posts -> Calls] /\ mailbox \in [Posts -> Boxes]
      /\ result \in [Posts -> Results]
  BY DEF TypeOK, Calls, Boxes
<1>2. ASSUME NoCallMoves
      PROVE  Sent(q)'
  BY <1>2 DEF NoCallMoves, Sent
<1>3. ASSUME NEW p \in Posts,
             \/ PostBegin(p) \/ PostRegister(p) \/ PostWrite(p)
             \/ PostWriteFails(p) \/ PostGivesUp(p)
      PROVE  Sent(q)'
  BY <1>1, <1>3
     DEF PostBegin, PostRegister, PostWrite, PostWriteFails, PostGivesUp,
         Returns, Sent, Calls
<1>4. ASSUME NEW p \in Posts, PostReplied(p) \/ PostFailed(p)
      PROVE  Sent(q)'
  <2>1. PostFailed(p) => mailbox[p].err \in Errors
    BY <1>1 DEF PostFailed, Boxes
  <2> QED
    BY <1>1, <1>4, <2>1 DEF PostReplied, PostFailed, Returns, Sent, Calls, Errors
<1>5. ASSUME NEW p \in Posts, PostDrop(p)
      PROVE  Sent(q)'
  <2>1. call[p].why \in Verdicts
    BY <1>5 DEF PostDrop, Returned
  <2> QED
    BY <1>1, <1>5, <2>1 DEF PostDrop, Returns, Sent, Calls, Verdicts
<1> QED
  BY <1>2, <1>3, <1>4, <1>5, CallsMoveInPost DEF PostStep

\* A step that sends nothing and delivers nothing.
NothingUnderWay ==
  /\ UNCHANGED <<requests, replies, executed, hand>>
  /\ \A q \in Posts : mailbox'[q].reply = mailbox[q].reply

LEMMA DeliveredFrame ==
  ASSUME TypeOK, IdsDrawn, Returned, Delivered, [Next]_vars, NothingUnderWay
  PROVE  Delivered'
<1>1. \A m \in requests \cup replies : m.from \in Posts /\ m.id \in Ids /\ call[m.from].id # 0
  BY DEF TypeOK, Message, Delivered, Ids
<1>2. \A m \in requests \cup replies :
        m.id = call'[m.from].id /\ m.socket = call'[m.from].socket
  BY <1>1, AddressStays DEF Delivered
<1>3. \A q \in Posts : Sent(q) => Sent(q)'
  BY SentStays
<1> QED
  BY <1>1, <1>2, <1>3 DEF Delivered, NothingUnderWay, Replied

LEMMA DeliveredStep ==
  ASSUME TypeOK, IdsDrawn, Waiters, Returned, Delivered, [Next]_vars
  PROVE  Delivered'
<1>1. \A m \in requests \cup replies :
        /\ m.from \in Posts /\ m.id \in Ids
        /\ m.id = call'[m.from].id /\ m.socket = call'[m.from].socket
  <2>1. \A m \in requests \cup replies : m.from \in Posts /\ m.id \in Ids /\ call[m.from].id # 0
    BY DEF TypeOK, Message, Delivered, Ids
  <2> QED
    BY <2>1, AddressStays DEF Delivered
<1>2. \A q \in Posts : Sent(q) => Sent(q)'
  BY SentStays
<1>3. \A q \in Posts : Replied(q) => Replied(q)' /\ mailbox'[q].reply = mailbox[q].reply
  BY RepliedStays
<1>4. ASSUME NEW p \in Posts, PostWrite(p)
      PROVE  Delivered'
  <2>1. call \in [Posts -> Calls] /\ mailbox' = mailbox /\ UNCHANGED <<hand, replies, executed, result>>
    BY <1>4 DEF TypeOK, Calls, PostWrite
  <2>2. executed[p] = 0
    BY <1>4 DEF PostWrite, Delivered, Sent
  <2>3. call'[p].pc = "wait" /\ call'[p].id = call[p].id /\ call'[p].socket = call[p].socket
    BY <1>4, <2>1 DEF PostWrite, Calls
  <2>4. Sent(p)'
    BY <1>4, <2>1, <2>3, WsPostAssumption DEF PostWrite, Sent, Returned, Calls
  <2>5. \A m \in requests' \ requests :
          m.from = p /\ m.id = call'[p].id /\ m.socket = call'[p].socket
    BY <1>4, <2>3 DEF PostWrite
  <2>6. \A m \in requests' : executed[m.from] = 0 /\ Sent(m.from)'
    BY <1>1, <1>2, <2>2, <2>4, <2>5 DEF Delivered
  <2>7. \A m \in requests' \cup replies' :
          m.id = call'[m.from].id /\ m.socket = call'[m.from].socket
    BY <1>1, <2>1, <2>5
  <2> QED
    BY <1>2, <2>1, <2>6, <2>7 DEF Delivered, Replied
<1>5. ASSUME NEW r \in replies, DispatchTake(r)
      PROVE  Delivered'
  <2>1. UNCHANGED <<requests, replies, executed, mailbox>> /\ hand' = Taken(r)
    BY <1>5 DEF DispatchTake
  <2>2. hand' # None => hand'.from = hand'.to /\ executed[hand'.to] = 1
    <3> SUFFICES ASSUME pending[r.id] # None
                 PROVE  hand'.from = hand'.to /\ executed[hand'.to] = 1
      BY <2>1 DEF Taken
    <3>1. pending[r.id] \in Posts /\ call[pending[r.id]].id = r.id
      BY <1>1 DEF TypeOK, Waiters, RegistryHoldsCalls
    <3>2. r.from \in Posts /\ call[r.from].id = r.id /\ r.id # 0
      BY <1>1 DEF Delivered, Ids
    <3>3. pending[r.id] = r.from
      BY <3>1, <3>2 DEF IdsDrawn
    <3> QED
      BY <2>1, <3>3 DEF Taken, Delivered
  <2> QED
    BY <1>1, <1>2, <2>1, <2>2 DEF Delivered, Replied
<1>6. ASSUME DispatchSend
      PROVE  Delivered'
  <2>1. UNCHANGED <<requests, replies, executed>> /\ hand' = None
    BY <1>6 DEF DispatchSend
  <2>2. hand.to \in Posts /\ hand.from = hand.to /\ executed[hand.to] = 1
    BY <1>6 DEF DispatchSend, TypeOK, Delivered
  <2>3. mailbox' = [mailbox EXCEPT ![hand.to].reply = hand.from] /\ mailbox \in [Posts -> Boxes]
    BY <1>6 DEF DispatchSend, TypeOK, Boxes
  <2>4. \A q \in Posts : Replied(q)' => mailbox'[q].reply = q /\ executed[q] = 1
    BY <2>2, <2>3 DEF Delivered, Replied, Boxes
  <2> QED
    BY <1>1, <1>2, <2>1, <2>4 DEF Delivered
<1>7. ASSUME NEW m \in requests, Serve(m)
      PROVE  Delivered'
  <2>1. /\ m.from \in Posts /\ executed[m.from] = 0 /\ Sent(m.from)
        /\ executed \in [Posts -> 0 .. 2]
    BY <1>1 DEF Delivered, TypeOK
  <2>2. /\ requests' = requests \ {m} /\ replies' = replies \cup {m}
        /\ UNCHANGED <<mailbox, hand>>
        /\ executed'[m.from] = 1
        /\ \A q \in Posts \ {m.from} : executed'[q] = executed[q]
    BY <1>7, <2>1 DEF Serve
  <2>3. \A n \in requests' : n.from # m.from
    <3> SUFFICES ASSUME NEW n \in requests, n.from = m.from
                 PROVE  n = m
      BY <2>2
    <3>1. n.id = m.id /\ n.socket = m.socket
      BY DEF Delivered
    <3> QED
      BY <3>1 DEF TypeOK, Message
  <2>4. \A n \in requests' : executed'[n.from] = 0 /\ Sent(n.from)'
    BY <1>1, <1>2, <2>2, <2>3 DEF Delivered
  <2>5. \A n \in replies' : executed'[n.from] = 1
    BY <1>1, <2>1, <2>2 DEF Delivered
  <2>6. \A q \in Posts : executed'[q] = 0 \/ (executed'[q] = 1 /\ Sent(q)')
    BY <1>2, <2>1, <2>2 DEF Delivered
  <2>7. hand' # None => hand'.from = hand'.to /\ executed'[hand'.to] = 1
    BY <2>1, <2>2 DEF Delivered, TypeOK
  <2>8. \A q \in Posts : Replied(q)' => mailbox'[q].reply = q /\ executed'[q] = 1
    BY <2>1, <2>2 DEF Delivered, Replied
  <2>9. \A n \in requests' \cup replies' :
          n.id = call'[n.from].id /\ n.socket = call'[n.from].socket
    BY <1>1, <2>2
  <2> QED
    BY <2>4, <2>5, <2>6, <2>7, <2>8, <2>9 DEF Delivered
<1>8. \/ \E p \in Posts : PostWrite(p)
      \/ \E r \in replies : DispatchTake(r)
      \/ DispatchSend
      \/ \E m \in requests : Serve(m)
      \/ UNCHANGED <<requests, replies, executed, hand>>
  BY DEF Next, SupRuns, CloseFails, FailAllPending, PostStep, PostBegin,
         PostRegister, PostWriteFails, PostReplied, PostFailed, PostGivesUp,
         PostDrop, vars, postVars
<1> QED
  BY <1>4, <1>5, <1>6, <1>7, <1>8, ReplyStays, DeliveredFrame DEF NothingUnderWay

-----------------------------------------------------------------------------
(***************************************************************************)
(* The invariant holds initially.                                          *)
(***************************************************************************)
LEMMA PostInvInit == Init => PostInv
<1> SUFFICES ASSUME Init
             PROVE  PostInv
  OBVIOUS
<1> USE DEF Init, InitPost
<1>1. TypeOKConn /\ SocketLifetime
  BY InitTypes DEF InitConn, SocketLifetime, Writable
<1>2. IsFiniteSet(Posts) /\ Cardinality(Posts) \in Nat
  BY WsPostAssumption, FS_CardinalityType
<1>3. \A p \in Posts : call[p] = [pc |-> "idle", socket |-> NoSocket, id |-> 0, why |-> None]
  OBVIOUS
<1>4. call \in [Posts -> Calls] /\ mailbox \in [Posts -> Boxes]
  BY DEF Calls, Boxes, CallState
<1>5. TypeOK
  BY <1>1, <1>2, <1>4, SplitTypes DEF PostTypes, Results
<1>6. IdsDrawn
  <2>1. Numbered = {}
    BY <1>3 DEF Numbered
  <2>2. Cardinality(Numbered) = 0
    BY <2>1, FS_EmptySet
  <2> QED
    BY <1>3, <2>2 DEF IdsDrawn
<1>7. Waiters /\ NoForgottenWaiter
  BY <1>3, WsPostAssumption
     DEF Waiters, RegistryHoldsCalls, WaiterFirst, OneOutcome, NoForgottenWaiter,
         Registered, InHand, Replied, Failed
<1>8. Captured /\ CloseLeavesNoWaiter
  BY <1>3 DEF InitConn, Captured, CloseLeavesNoWaiter, NoSocket
<1>9. Returned /\ Delivered
  BY <1>3, WsPostAssumption DEF Returned, Delivered, Replied
<1> QED
  BY <1>1, <1>5, <1>6, <1>7, <1>8, <1>9 DEF PostInv, Waiters

(***************************************************************************)
(* PostInv is inductive.                                                   *)
(***************************************************************************)
THEOREM PostInvariant == Spec => []PostInv
<1>1. PostInv /\ [Next]_vars => PostInv'
  <2> SUFFICES ASSUME PostInv, [Next]_vars
               PROVE  PostInv'
    OBVIOUS
  <2>1. TypeOK /\ SocketLifetime /\ IdsDrawn /\ Waiters /\ Captured
    BY DEF PostInv, Waiters
  <2>2. TypeOK'
    BY <2>1, PostTypeStep
  <2>3. SocketLifetime'
    BY <2>1, ConnectionStep, LifetimeStep DEF TypeOK
  <2>4. IdsDrawn' /\ Waiters' /\ Captured'
    BY <2>1, IdsDrawnStep, WaitersStep, CapturedStep
  <2>5. NoForgottenWaiter'
    BY <2>1, NotForgottenStep DEF PostInv
  <2>6. CloseLeavesNoWaiter'
    BY <2>1, CloseLeavesStep DEF PostInv
  <2>7. Returned' /\ Delivered'
    BY <2>1, ReturnedStep, DeliveredStep DEF PostInv
  <2> QED
    BY <2>2, <2>3, <2>4, <2>5, <2>6, <2>7 DEF PostInv, Waiters
<1> QED
  BY <1>1, PostInvInit, PTL DEF Spec

(***************************************************************************)
(* No caller of Post gets two outcomes, so no send on a waiter's channels  *)
(* blocks the read loop or failAllPending.                                 *)
(***************************************************************************)
THEOREM SingleOutcome == Spec => []OneOutcome
  BY PostInvariant, PTL DEF PostInv

(***************************************************************************)
(* The outcome of a waiting call is there, is being delivered, or will be  *)
(* given by the clean-up of the one socket the call was written to.        *)
(***************************************************************************)
THEOREM NobodyForgotten == Spec => []NoForgottenWaiter
  BY PostInvariant, PTL DEF PostInv

(***************************************************************************)
(* When Close has returned, no call waits on the socket it found.          *)
(***************************************************************************)
THEOREM CloseAnswersWaiters == Spec => []CloseLeavesNoWaiter
  BY PostInvariant, PTL DEF PostInv

(***************************************************************************)
(* The registry of waiters never holds an entry of a call that returned.   *)
(***************************************************************************)
THEOREM NoRegistryLeak == Spec => []RegistryHoldsCalls
  BY PostInvariant, PTL DEF PostInv

(***************************************************************************)
(* Every variable of requests and connection keeps its type.               *)
(***************************************************************************)
THEOREM PostTypeCorrect == Spec => []TypeOK
  BY PostInvariant, PTL DEF PostInv

-----------------------------------------------------------------------------
(* The contract *)

\* What the contract sees of call q is as before.
Unseen(q) ==
  /\ Status(q)' = Status(q)
  /\ Answer(q)' = Answer(q)

LEMMA ContractStutters ==
  ASSUME \A q \in Posts : Unseen(q), UNCHANGED executed
  PROVE  UNCHANGED Contract!vars
BY DEF Unseen, Contract!vars

\* One call changes its status, and its answer if it returns one.
LEMMA ContractMoves ==
  ASSUME NEW p \in Posts, NEW s, \A q \in Posts \ {p} : Unseen(q), Status(p)' = s
  PROVE  /\ [q \in Posts |-> Status(q)]' = [[q \in Posts |-> Status(q)] EXCEPT ![p] = s]
         /\ Answer(p)' = Answer(p) => UNCHANGED [q \in Posts |-> Answer(q)]
         /\ [q \in Posts |-> Answer(q)]' = [[q \in Posts |-> Answer(q)] EXCEPT ![p] = Answer(p)']
BY DEF Unseen

\* A step of one call is not seen in the others.
LEMMA OthersUnseen ==
  ASSUME TypeOK, NEW p \in Posts, PostStep(p) \/ PostGivesUp(p), NEW q \in Posts \ {p}
  PROVE  Unseen(q)
<1>1. call \in [Posts -> Calls] /\ result \in [Posts -> Results]
  BY DEF TypeOK, Calls
<1>2. call'[q] = call[q] /\ result'[q] = result[q] /\ mailbox' = mailbox
  BY <1>1
     DEF PostStep, PostBegin, PostRegister, PostWrite, PostWriteFails,
         PostReplied, PostFailed, PostDrop, PostGivesUp, Returns
<1> QED
  BY <1>2 DEF Unseen, Status, Answer

\* A step of a call is a step of the contract.
LEMMA CallKeepsContract ==
  ASSUME PostInv, NEW p \in Posts, PostStep(p) \/ PostGivesUp(p)
  PROVE  [Contract!Next]_(Contract!vars)
<1>1. /\ call \in [Posts -> Calls] /\ mailbox \in [Posts -> Boxes]
      /\ result \in [Posts -> Results] /\ executed \in [Posts -> 0 .. 2]
  BY DEF PostInv, TypeOK, Calls, Boxes
<1>2. \A q \in Posts \ {p} : Unseen(q)
  BY OthersUnseen DEF PostInv
<1>3. UNCHANGED <<mailbox, executed>>
  BY DEF PostStep, PostBegin, PostRegister, PostWrite, PostWriteFails,
         PostReplied, PostFailed, PostDrop, PostGivesUp
<1>4. call[p].pc # "done" => result[p] = None
  BY DEF PostInv, Returned
<1>5. ASSUME call[p].pc \notin {"idle", "done"}
      PROVE  Status(p) = "calling" /\ Answer(p) = {}
  BY <1>4, <1>5, WsPostAssumption DEF Status, Answer, Errors
<1>6. call[p].pc = "idle" => Status(p) = "idle" /\ Answer(p) = {}
  BY <1>4, WsPostAssumption DEF Status, Answer, Errors
<1>7. ASSUME NEW r \in Errors \cup {"gaveup"}, call[p].pc # "done", Returns(p, r)
      PROVE  Contract!GiveUp(p)
  <2>1. result'[p] = r
    BY <1>1, <1>7 DEF Returns
  <2>2. Status(p)' = "unknown" /\ Answer(p)' = {}
    BY <1>7, <2>1 DEF Status, Answer, Errors
  <2>3. Status(p) \in {"idle", "calling"} /\ Answer(p) = {}
    BY <1>5, <1>6, <1>7
  <2> QED
    BY <1>2, <1>3, <2>2, <2>3, ContractMoves DEF Contract!GiveUp
<1>8. ASSUME NEW r \in {"notready", "write"}, call[p].pc # "done", Returns(p, r),
             executed[p] = 0
      PROVE  Contract!Refuse(p)
  <2>1. result'[p] = r
    BY <1>1, <1>8 DEF Returns
  <2>2. Status(p)' = "refused" /\ Answer(p)' = {}
    BY <1>8, <2>1 DEF Status, Answer, Errors
  <2>3. Status(p) \in {"idle", "calling"} /\ Answer(p) = {}
    BY <1>5, <1>6, <1>8
  <2> QED
    BY <1>2, <1>3, <1>8, <2>2, <2>3, ContractMoves DEF Contract!Refuse
<1>9. ASSUME PostBegin(p)
      PROVE  Contract!Next
  <2>1. executed[p] = 0 /\ call[p].pc # "done"
    BY <1>9 DEF PostBegin, PostInv, Delivered, Sent
  <2>2. ASSUME call' = [call EXCEPT ![p].pc = "register", ![p].socket = socket],
               UNCHANGED result
        PROVE  Contract!Begin(p)
    <3>1. call'[p].pc = "register" /\ result'[p] = None
      BY <1>1, <1>4, <2>1, <2>2 DEF Calls
    <3>2. Status(p)' = "calling" /\ Answer(p)' = {}
      BY <3>1, WsPostAssumption DEF Status, Answer, Errors
    <3>3. Status(p) = "idle" /\ Answer(p) = {}
      BY <1>6, <1>9 DEF PostBegin
    <3> QED
      BY <1>2, <1>3, <3>2, <3>3, ContractMoves DEF Contract!Begin
  <2>3. Returns(p, "closed") => Contract!GiveUp(p)
    BY <1>7, <2>1 DEF Errors
  <2>4. Returns(p, "notready") => Contract!Refuse(p)
    BY <1>8, <2>1
  <2> QED
    BY <1>9, <2>2, <2>3, <2>4 DEF PostBegin, Contract!Next
<1>10. ASSUME PostRegister(p) \/ PostWrite(p) \/ PostWriteFails(p) \/ PostGivesUp(p)
       PROVE  UNCHANGED Contract!vars
  <2>1. call'[p].pc \notin {"idle", "done"} /\ call[p].pc \notin {"idle", "done"} /\ UNCHANGED result
    BY <1>1, <1>10 DEF PostRegister, PostWrite, PostWriteFails, PostGivesUp, Calls
  <2>2. Status(p)' = "calling" /\ Answer(p)' = {}
    BY <1>4, <2>1, WsPostAssumption DEF Status, Answer, Errors
  <2>3. Unseen(p)
    BY <1>5, <2>1, <2>2 DEF Unseen
  <2> QED
    BY <1>2, <1>3, <2>3, ContractStutters
<1>11. ASSUME PostReplied(p)
       PROVE  Contract!Reply(p)
  <2>1. result'[p] = "reply" /\ mailbox[p].reply = p /\ executed[p] = 1
    BY <1>1, <1>11 DEF PostReplied, Returns, PostInv, Delivered, Replied
  <2>2. Status(p)' = "replied" /\ Answer(p)' = {p}
    BY <1>3, <2>1 DEF Status, Answer, Errors
  <2>3. Status(p) = "calling"
    BY <1>5, <1>11 DEF PostReplied
  <2> QED
    BY <1>2, <1>3, <2>1, <2>2, <2>3, ContractMoves DEF Contract!Reply
<1>12. ASSUME PostFailed(p)
       PROVE  Contract!Next
  <2>1. mailbox[p].err \in Errors
    BY <1>1, <1>12 DEF PostFailed, Boxes
  <2> QED
    BY <1>7, <1>12, <2>1 DEF PostFailed, Contract!Next
<1>13. ASSUME PostDrop(p)
       PROVE  Contract!Next
  <2>1. call[p].why \in Verdicts /\ call[p].pc = "drop" /\ Returns(p, call[p].why)
    BY <1>13 DEF PostDrop, PostInv, Returned
  <2>2. call[p].why = "write" => executed[p] = 0
    BY DEF PostInv, Delivered, Sent
  <2> QED
    BY <1>7, <1>8, <2>1, <2>2 DEF Verdicts, Contract!Next
<1> QED
  BY <1>9, <1>10, <1>11, <1>12, <1>13 DEF PostStep, Contract!Next

(***************************************************************************)
(* Post keeps the contract of PostContract: whatever happens to the        *)
(* connection, no request is executed twice, a reply is the caller's own,  *)
(* and a refused request is never executed.                                *)
(***************************************************************************)
THEOREM ImplementsContract == Spec => ContractSpec
<1>1. Init => Contract!Init
  BY WsPostAssumption DEF Init, InitPost, Contract!Init, Status, Answer, Errors
<1>2. PostInv /\ [Next]_vars => [Contract!Next]_(Contract!vars)
  <2> SUFFICES ASSUME PostInv, [Next]_vars
               PROVE  [Contract!Next]_(Contract!vars)
    OBVIOUS
  <2>1. ASSUME NoCallMoves, ~ DispatchSend
        PROVE  \A q \in Posts : Unseen(q)
    <3>1. \A q \in Posts : mailbox'[q].reply = mailbox[q].reply
      BY <2>1, ReplyStays DEF PostInv
    <3> QED
      BY <2>1, <3>1 DEF NoCallMoves, Unseen, Status, Answer
  <2>2. CASE DispatchSend
    <3>1. UNCHANGED <<call, result, executed>> /\ mailbox[hand.to].reply = None
      BY <2>2 DEF DispatchSend
    <3>2. \A q \in Posts : result[q] = "reply" => mailbox'[q].reply = mailbox[q].reply
      BY RepliedStays DEF PostInv, Returned
    <3>3. \A q \in Posts : Unseen(q)
      BY <3>1, <3>2 DEF Unseen, Status, Answer
    <3> QED
      BY <3>1, <3>3, ContractStutters
  <2>3. ASSUME NEW m \in requests, Serve(m)
        PROVE  Contract!Next
    <3>1. /\ m.from \in Posts /\ executed[m.from] = 0 /\ Sent(m.from)
          /\ executed \in [Posts -> 0 .. 2]
      BY DEF PostInv, TypeOK, Message, Delivered
    <3>2. executed' = [executed EXCEPT ![m.from] = 1] /\ NoCallMoves /\ mailbox' = mailbox
      BY <2>3, <3>1 DEF Serve, NoCallMoves
    <3>3. result[m.from] # "reply"
      BY <3>1 DEF PostInv, Returned, Delivered
    <3>4. Status(m.from) \in {"calling", "unknown"}
      BY <3>1, <3>3 DEF Status, Sent
    <3>5. \A q \in Posts : Unseen(q)
      BY <3>2 DEF NoCallMoves, Unseen, Status, Answer
    <3>6. Contract!Execute(m.from)
      BY <3>1, <3>2, <3>4, <3>5 DEF Contract!Execute, Unseen
    <3> QED
      BY <3>1, <3>6 DEF Contract!Next
  <2>4. ASSUME NEW p \in Posts, PostStep(p) \/ PostGivesUp(p)
        PROVE  [Contract!Next]_(Contract!vars)
    BY <2>4, CallKeepsContract
  <2>5. \/ \E p \in Posts : PostStep(p) \/ PostGivesUp(p)
        \/ DispatchSend
        \/ \E m \in requests : Serve(m)
        \/ NoCallMoves /\ UNCHANGED executed /\ ~ DispatchSend
    BY DEF Next, SupRuns, CloseFails, FailAllPending, DispatchTake, NoCallMoves,
           vars, postVars
  <2> QED
    BY <2>1, <2>2, <2>3, <2>4, <2>5, ContractStutters
<1> QED
  BY <1>1, <1>2, PostInvariant, PTL DEF Spec, ContractSpec, Contract!Spec
=============================================================================
