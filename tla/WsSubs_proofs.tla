---------------------------- MODULE WsSubs_proofs ----------------------------
(***************************************************************************)
(* Proofs about subscriptions over the connection, for any number of       *)
(* watches, payloads and route keys, of dials and of calls of Close.       *)
(***************************************************************************)
EXTENDS WsSubs, WsConn_proofs

\* The steps of the subscriptions are stuttering steps of the connection, all
\* others are steps of it.
LEMMA ConnectionStep == [Next]_vars => [NextConn]_connVars
<1> SUFFICES ASSUME [Next]_vars PROVE [NextConn]_connVars
  OBVIOUS
<1>1. CASE SupRuns
  BY <1>1 DEF SupRuns, PublishAndReset, ReplayEnds, ReplayWrite, DispatchCall,
              NextConn, SupStep, SupPlain
<1>2. CASE \E w \in Watches : WatchStep(w)
  BY <1>2 DEF WatchStep, FrameStep, SubscribeRefused, SubscribeFirst, SubscribeJoins,
              SubscribeWrite, SubscribeWriteFails, UnsubscribeClosed, UnsubscribeStays,
              UnsubscribeLast, UnsubscribeWrite, UnsubscribeWriteFails
<1>3. CASE \E f \in Feeds : Push(f) \/ DispatchTake(f)
  BY <1>3 DEF Push, DispatchTake
<1>4. CASE AroundStep \/ \E k \in Closers : CloseFailPending(k)
  BY <1>4 DEF NextConn
<1>5. CASE UNCHANGED vars
  BY <1>5 DEF vars
<1> QED
  BY <1>1, <1>2, <1>3, <1>4, <1>5 DEF Next

-----------------------------------------------------------------------------
(* The invariant *)

Places == [pc : WatchState, socket : Sockets \cup {NoSocket}]

\* The conjuncts of TypeOK about subscriptions.
SubTypes ==
  /\ feed \in [Keys -> Feeds \cup {None}]
  /\ members \in [Keys -> SUBSET Watches]
  /\ watch \in [Watches -> Places]
  /\ replay \in SUBSET Feeds
  /\ serving \in SUBSET Feeds
  /\ inflight \in SUBSET Feeds
  /\ batch \in [feed : Feeds \cup {None}, to : SUBSET Watches]
  /\ view \in [Watches -> Sockets \cup {NoSocket}]
  /\ late \in [Watches -> 0 .. 2]
  /\ raced \in SUBSET Keys

\* connectAndRun works with a published socket.
Up == sup \in {"replay", "reading"}

\* A published socket is the last one dialed; a watch has captured one that was
\* published, so not the one that waits for its publication.
Captured ==
  /\ sup \in {"publish", "replay", "reading"} => dials \in Sockets
  /\ Up => socket = dials
  /\ sup # "replay" => replay = {}
  /\ \A w \in Watches :
       /\ watch[w].socket <= dials
       /\ sup = "publish" => watch[w].socket # dials
       /\ watch[w].pc \in {"subscribing", "unsubscribing"} => watch[w].socket \in Sockets

\* Who has not joined, or has left, is no member.
Left ==
  \A w \in Watches :
    watch[w].pc \in {"idle", "rejected", "unsubscribing", "off"} => w \notin members[Key(w)]

\* A delivery goes on only while the loop reads; whoever may get pushes and has
\* a Reset has seen none of an earlier connection.
Viewed ==
  /\ batch.to # {} => sup = "reading"
  /\ NoMixedConnections
  /\ \A w \in Watches :
       /\ Up /\ w \in members[Key(w)] \cap Resets => view[w] \in {NoSocket, dials}
       /\ watch[w].pc = "idle" => view[w] = NoSocket /\ w \notin batch.to

\* The one late push of a watch that has left is over.
Lates ==
  \A w \in Watches :
    /\ late[w] <= 1
    /\ late[w] = 1 => w \notin batch.to /\ watch[w].pc \in {"unsubscribing", "off"}

\* Some watch of feed f still has to write its frame to the current socket.
Due(f, pc) == \E w \in Watches : FeedOf[w] = f /\ Writing(w, pc)

\* What the exchange serves of feed f differs from what the registry holds by the
\* frames still to be written, and of those there is one kind at a time.
Agrees(f) ==
  /\ feed[KeyOf[f]] = f => f \in serving \/ f \in replay \/ Due(f, "subscribing")
  /\ f \in serving /\ feed[KeyOf[f]] # f => Due(f, "unsubscribing")
  /\ Due(f, "unsubscribing") => feed[KeyOf[f]] = None
  /\ f \in replay => feed[KeyOf[f]] = f

Frames ==
  Up /\ conn[dials] = "open" => \A f \in Feeds : KeyOf[f] \notin raced => Agrees(f)

SubsInv ==
  /\ TypeOKConn /\ SocketLifetime /\ SubTypes
  /\ OneFeedPerKey /\ Captured /\ Left /\ Viewed /\ Lates /\ Frames

LEMMA SubsInit == Init => SubsInv
<1> SUFFICES ASSUME Init PROVE SubsInv
  OBVIOUS
<1> USE DEF Init, InitSubs, InitConn
<1>1. TypeOKConn /\ SocketLifetime
  BY InitTypes DEF SocketLifetime, Writable
<1>2. SubTypes
  <2>1. [pc |-> "idle", socket |-> NoSocket] \in Places
    BY DEF Places, WatchState
  <2>2. NoBatch \in [feed : Feeds \cup {None}, to : SUBSET Watches]
    BY DEF NoBatch
  <2> QED
    BY <2>1, <2>2 DEF SubTypes
<1>3. OneFeedPerKey
  BY DEF OneFeedPerKey
<1>4. Left
  BY WsSubsAssumption DEF Left, Key
<1>5. Lates
  BY DEF Lates
<1>6. Captured
  BY DEF Captured, Up, NoSocket
<1>7. Viewed /\ Frames
  BY DEF Viewed, Frames, Up, NoMixedConnections, NoBatch
<1> QED
  BY <1>1, <1>2, <1>3, <1>4, <1>5, <1>6, <1>7 DEF SubsInv

-----------------------------------------------------------------------------
(* Steps that leave the subscriptions alone *)

\* The connection moves, but not to a new socket.
Calm ==
  /\ UNCHANGED <<subVars, dials>>
  /\ sup' \in {"publish", "replay"} => sup' = sup
  /\ sup' = "reading" => sup \in {"replay", "reading"}
  /\ Up' => socket' = socket
  /\ Up /\ conn'[dials] = "open" => conn[dials] = "open"
  /\ sup = "replay" /\ sup' # "replay" => replay = {}
  /\ sup = "reading" /\ sup' # "reading" => batch.to = {}

LEMMA CalmKeeps ==
  ASSUME SubsInv, Calm
  PROVE  (SubTypes /\ OneFeedPerKey /\ Captured /\ Left /\ Viewed /\ Lates /\ Frames)'
<1> USE DEF SubsInv, Calm, subVars
<1>1. (SubTypes /\ OneFeedPerKey /\ Left /\ Lates)'
  BY DEF SubTypes, OneFeedPerKey, Left, Lates
<1>2. Captured'
  BY DEF Captured, Up
<1>3. Viewed'
  BY DEF Viewed, Up, NoMixedConnections
<1>4. Frames'
  BY DEF Frames, Agrees, Up, Due, Writing
<1> QED
  BY <1>1, <1>2, <1>3, <1>4

\* Which steps those are.
LEMMA AroundIsCalm ==
  ASSUME SubsInv, AroundStep \/ (\E k \in Closers : CloseFailPending(k)), UNCHANGED subVars
  PROVE  Calm
<1> USE DEF SubsInv, Calm, Up
<1>1. CASE Start \/ ContextEnds
  BY <1>1 DEF Start, ContextEnds, supVars
<1>2. CASE Watch \/ PingFails
  BY <1>2 DEF Watch, PingFails, Closing, TypeOKConn
<1>3. ASSUME NEW k \in Closers, CloseMark(k) \/ CloseCancel(k) \/ CloseFailPending(k)
      PROVE  Calm
  BY <1>3 DEF CloseMark, CloseCancel, CloseFailPending, supVars
<1>4. ASSUME NEW k \in Closers, CloseSocket(k)
      PROVE  Calm
  <2>1. \A s \in Sockets : conn'[s] \in {conn[s], "closed"}
    BY <1>4 DEF CloseSocket, Closing, TypeOKConn
  <2>2. Up => dials \in Sockets
    BY DEF Captured
  <2> QED
    BY <1>4, <2>1, <2>2 DEF CloseSocket
<1>5. ASSUME NEW s \in Sockets, Break(s)
      PROVE  Calm
  <2>1. \A r \in Sockets : conn'[r] \in {conn[r], "broken"}
    BY <1>5 DEF Break, TypeOKConn
  <2>2. Up => dials \in Sockets
    BY DEF Captured
  <2> QED
    BY <1>5, <2>1, <2>2 DEF Break
<1> QED
  BY <1>1, <1>2, <1>3, <1>4, <1>5 DEF AroundStep

LEMMA SupIsCalm ==
  ASSUME SubsInv, UNCHANGED subVars,
         \/ Top \/ DialFails \/ PublishRefused \/ Unpublish \/ Shut
         \/ FailPending \/ Bottom \/ SleepEnds \/ SleepCut
         \/ ReadFails /\ batch = NoBatch
         \/ ReplayDone /\ replay = {}
  PROVE  Calm
<1> USE DEF SubsInv, Calm, Up, SupGoes
<1>1. CASE Top \/ DialFails \/ PublishRefused \/ Bottom
  BY <1>1 DEF Top, DialFails, PublishRefused, Bottom
<1>2. CASE Unpublish \/ Shut \/ FailPending \/ SleepEnds \/ SleepCut
  BY <1>2 DEF Unpublish, Shut, FailPending, SleepEnds, SleepCut
<1>3. CASE ReadFails /\ batch = NoBatch
  BY <1>3 DEF ReadFails, NoBatch
<1>4. CASE ReplayDone /\ replay = {}
  BY <1>4 DEF ReplayDone
<1> QED
  BY <1>1, <1>2, <1>3, <1>4

-----------------------------------------------------------------------------
(* Steps of the supervisor that touch the subscriptions *)

\* What a step must keep besides the facts of the connection.
Kept == SubTypes /\ OneFeedPerKey /\ Captured /\ Left /\ Viewed /\ Lates /\ Frames

LEMMA DialKeeps ==
  ASSUME SubsInv, DialSucceeds, UNCHANGED subVars
  PROVE  Kept'
<1> USE DEF SubsInv, subVars, DialSucceeds, SupGoes
<1>1. (SubTypes /\ OneFeedPerKey /\ Left /\ Lates)'
  BY DEF SubTypes, OneFeedPerKey, Left, Lates
<1>2. Captured'
  <2>1. dials' \in Sockets /\ replay = {}
    BY WsConnAssumption DEF TypeOKConn, Sockets, Captured
  <2>2. \A w \in Watches : watch[w].socket <= dials /\ watch[w].socket \in Nat
    BY DEF Captured, SubTypes, Places, Sockets, NoSocket
  <2>3. dials \in Nat
    BY DEF TypeOKConn, Sockets
  <2> QED
    BY <2>1, <2>2, <2>3 DEF Captured, Up
<1>3. batch.to = {}
  BY DEF Viewed
<1>4. (Viewed /\ Frames)'
  BY <1>3 DEF Viewed, Frames, Up, NoMixedConnections
<1> QED
  BY <1>1, <1>2, <1>4 DEF Kept

LEMMA PublishKeeps ==
  ASSUME SubsInv, PublishAndReset
  PROVE  Kept'
<1> USE DEF SubsInv, PublishAndReset, Publish, SupGoes
<1>1. \A f \in Feeds : f \in Payloads <=> feed[KeyOf[f]] = f
  <2>1. ASSUME NEW k \in Keys, feed[k] # None
        PROVE  KeyOf[feed[k]] = k
    BY <2>1, WsSubsAssumption DEF OneFeedPerKey, Key
  <2>2. \A f \in Feeds : KeyOf[f] \in Keys /\ f # None
    BY WsSubsAssumption
  <2> QED
    BY <2>1, <2>2 DEF Payloads
<1>2. SubTypes'
  <2>1. replay' \in SUBSET Feeds
    BY DEF Payloads, SubTypes
  <2>2. view' \in [Watches -> Sockets \cup {NoSocket}]
    BY DEF ViewsReset, SubTypes
  <2> QED
    BY <2>1, <2>2 DEF SubTypes
<1>3. (OneFeedPerKey /\ Left /\ Lates)'
  BY DEF OneFeedPerKey, Left, Lates
<1>4. Captured'
  BY DEF Captured, Up
<1>5. Viewed'
  <2>1. batch.to = {}
    BY DEF Viewed
  <2>2. \A w \in Watches : view'[w] = IF w \in members[Key(w)] \cap Resets THEN NoSocket ELSE view[w]
    BY DEF ViewsReset
  <2> QED
    BY <2>1, <2>2 DEF Viewed, NoMixedConnections
<1>6. Frames'
  <2>1. \A f \in Feeds : ~ Due(f, "unsubscribing")'
    BY DEF Due, Writing, Captured
  <2> QED
    BY <1>1, <2>1 DEF Frames, Agrees
<1> QED
  BY <1>2, <1>3, <1>4, <1>5, <1>6 DEF Kept

LEMMA ReplayFailsKeeps ==
  ASSUME SubsInv, ReplayFails, replay' = {},
         UNCHANGED <<feed, members, watch, serving, inflight, batch, view, late, raced>>
  PROVE  Kept'
<1> USE DEF SubsInv, ReplayFails, SupGoes
<1>1. (SubTypes /\ OneFeedPerKey /\ Left /\ Lates)'
  BY DEF SubTypes, OneFeedPerKey, Left, Lates
<1>2. Captured'
  BY DEF Captured, Up
<1>3. (Viewed /\ Frames)'
  BY DEF Viewed, Frames, Up, NoMixedConnections
<1> QED
  BY <1>1, <1>2, <1>3 DEF Kept

LEMMA ReplayWriteKeeps ==
  ASSUME SubsInv, NEW f \in Feeds, ReplayWrite(f)
  PROVE  Kept'
<1> USE DEF SubsInv, ReplayWrite, connVars, supVars
<1>1. (SubTypes /\ OneFeedPerKey /\ Left /\ Lates)'
  BY DEF SubTypes, OneFeedPerKey, Left, Lates
<1>2. Captured'
  BY DEF Captured, Up
<1>3. Viewed'
  BY DEF Viewed, Up, NoMixedConnections
<1>4. Frames'
  <2>2. (Up /\ conn[dials] = "open")' <=> Up /\ conn[dials] = "open"
    BY DEF Up
  <2>3. CASE ~ (Up /\ conn[dials] = "open")
    BY <2>2, <2>3 DEF Frames
  <2>4. CASE Up /\ conn[dials] = "open"
    <3>1. ASSUME NEW g \in Feeds, (KeyOf[g] \notin raced)'
          PROVE  Agrees(g)'
      <4>1. Agrees(g)
        BY <2>4, <3>1 DEF Frames
      <4>2. feed' = feed /\ replay' = replay \ {f} /\ serving' = serving \cup {f}
        OBVIOUS
      <4>4. f \in replay
        OBVIOUS
      <4>3. watch' = watch /\ dials' = dials
        OBVIOUS
      <4> HIDE DEF SubsInv, ReplayWrite
      <4>5. CASE g = f
        BY <4>1, <4>2, <4>4, <4>5, <4>3 DEF Agrees, Due, Writing
      <4>6. CASE g # f
        BY <4>1, <4>2, <4>6, <4>3 DEF Agrees, Due, Writing
      <4> QED
        BY <4>5, <4>6
    <3> QED
      BY <3>1 DEF Frames
  <2> QED
    BY <2>3, <2>4
<1> QED
  BY <1>1, <1>2, <1>3, <1>4 DEF Kept

LEMMA DispatchCallKeeps ==
  ASSUME SubsInv, NEW w \in Watches, DispatchCall(w)
  PROVE  Kept'
<1> USE DEF SubsInv, DispatchCall, connVars, supVars
<1>1. batch'.to = batch.to \ {w} /\ batch' \in [feed : Feeds \cup {None}, to : SUBSET Watches]
  BY DEF NoBatch, SubTypes
<1>2. sup = "reading" /\ dials \in Sockets
  BY DEF Viewed, Captured
<1>3. SubTypes'
  <2>1. late' \in [Watches -> 0 .. 2]
    BY DEF SubTypes
  <2>2. view' \in [Watches -> Sockets \cup {NoSocket}]
    BY <1>2 DEF SubTypes
  <2> QED
    BY <1>1, <2>1, <2>2 DEF SubTypes
<1>4. (OneFeedPerKey /\ Left /\ Captured)'
  BY DEF OneFeedPerKey, Left, Captured, Up
<1>5. \A v \in Watches : view'[v] = IF v = w THEN dials ELSE view[v]
  BY DEF SubTypes
<1>6. Viewed'
  BY <1>1, <1>2, <1>5 DEF Viewed, Up, NoMixedConnections
<1>7. Lates'
  <2>1. late[w] = 0
    BY DEF Lates, SubTypes
  <2>2. \A v \in Watches : v # w => late'[v] = late[v]
    BY DEF SubTypes
  <2>3. late'[w] = IF watch[w].pc \in {"unsubscribing", "off"} THEN 1 ELSE 0
    BY <2>1 DEF SubTypes
  <2> QED
    BY <1>1, <2>2, <2>3 DEF Lates
<1>8. Frames'
  BY DEF Frames, Agrees, Up, Due, Writing
<1> QED
  BY <1>3, <1>4, <1>6, <1>7, <1>8 DEF Kept

-----------------------------------------------------------------------------
(* Pushes *)

LEMMA PushKeeps ==
  ASSUME SubsInv, NEW f \in Feeds, Push(f)
  PROVE  Kept'
<1> USE DEF SubsInv, Push, connVars, supVars
<1>1. (SubTypes /\ OneFeedPerKey /\ Left /\ Lates)'
  BY DEF SubTypes, OneFeedPerKey, Left, Lates
<1>2. (Captured /\ Viewed)'
  BY DEF Captured, Up, Viewed, NoMixedConnections
<1>3. Frames'
  BY DEF Frames, Agrees, Up, Due, Writing
<1> QED
  BY <1>1, <1>2, <1>3 DEF Kept

LEMMA DispatchTakeKeeps ==
  ASSUME SubsInv, NEW f \in Feeds, DispatchTake(f)
  PROVE  Kept'
<1> USE DEF SubsInv, DispatchTake, connVars, supVars
<1>1. KeyOf[f] \in Keys
  BY WsSubsAssumption
<1>2. batch'.to = members[KeyOf[f]]
  BY DEF NoBatch
<1>3. \A w \in batch'.to : w \in Watches /\ w \in members[Key(w)]
  BY <1>1, <1>2 DEF OneFeedPerKey, SubTypes
<1>4. SubTypes'
  <2>1. batch' \in [feed : Feeds \cup {None}, to : SUBSET Watches]
    BY <1>1 DEF NoBatch, SubTypes
  <2> QED
    BY <2>1 DEF SubTypes
<1>5. (OneFeedPerKey /\ Left /\ Captured)'
  BY DEF OneFeedPerKey, Left, Captured, Up
<1>6. Viewed'
  BY <1>3 DEF Viewed, Up, NoMixedConnections, Left
<1>7. Lates'
  BY <1>3 DEF Lates, Left
<1>8. Frames'
  BY DEF Frames, Agrees, Up, Due, Writing
<1> QED
  BY <1>4, <1>5, <1>6, <1>7, <1>8 DEF Kept

-----------------------------------------------------------------------------
(* Subscribe and Unsubscribe *)

\* What WatchGoes does, cell by cell.
LEMMA Goes ==
  ASSUME SubTypes, NEW w \in Watches, NEW pc \in WatchState,
         NEW s \in Sockets \cup {NoSocket}, WatchGoes(w, pc, s)
  PROVE  /\ watch' \in [Watches -> Places]
         /\ watch'[w] = [pc |-> pc, socket |-> s]
         /\ \A v \in Watches : v # w => watch'[v] = watch[v]
BY DEF SubTypes, WatchGoes, Places

\* NoSocket is a place for every watch at any time.
LEMMA Released ==
  ASSUME SubsInv, NEW w \in Watches, NEW pc \in WatchState \ {"subscribing", "unsubscribing"},
         WatchGoes(w, pc, NoSocket), UNCHANGED <<connVars, replay>>
  PROVE  Captured'
<1> USE DEF SubsInv, connVars, supVars
<1>1. /\ watch'[w] = [pc |-> pc, socket |-> NoSocket]
      /\ \A v \in Watches : v # w => watch'[v] = watch[v]
  BY Goes
<1>2. NoSocket <= dials /\ (sup = "publish" => NoSocket # dials)
  BY DEF TypeOKConn, Sockets, NoSocket, Captured
<1> QED
  BY <1>1, <1>2 DEF Captured, Up

\* The steps of a watch that change neither the registry nor what is served.
LEMMA LeaveKeeps ==
  ASSUME SubsInv, NEW w \in Watches,
         SubscribeRefused(w) \/ SubscribeWriteFails(w) \/ UnsubscribeClosed(w)
           \/ UnsubscribeWriteFails(w)
  PROVE  Kept'
<1> USE DEF SubsInv
<1>1. PICK pc \in {"rejected", "failed", "ended", "off"} :
        /\ WatchGoes(w, pc, NoSocket)
        /\ pc = "rejected" => watch[w].pc = "idle"
        /\ pc = "failed" => watch[w].pc = "subscribing" /\ WriteFails(watch[w].socket)
        /\ pc = "ended" => watch[w].pc = "on"
        /\ pc = "off" => watch[w].pc = "unsubscribing" /\ WriteFails(watch[w].socket)
  BY DEF SubscribeRefused, SubscribeWriteFails, UnsubscribeClosed, UnsubscribeWriteFails
<1>2. UNCHANGED <<connVars, feed, members, replay, serving, inflight, batch, view, late, raced>>
  BY DEF SubscribeRefused, SubscribeWriteFails, UnsubscribeClosed, UnsubscribeWriteFails
<1>3. /\ watch' \in [Watches -> Places]
      /\ watch'[w] = [pc |-> pc, socket |-> NoSocket]
      /\ \A v \in Watches : v # w => watch'[v] = watch[v]
  BY <1>1, Goes DEF WatchState
<1>4. SubTypes'
  BY <1>2, <1>3 DEF SubTypes
<1>5. OneFeedPerKey'
  BY <1>1, <1>2, <1>3 DEF OneFeedPerKey
<1>6. Captured'
  BY <1>1, <1>2, Released DEF WatchState
<1>7. Left'
  BY <1>1, <1>2, <1>3 DEF Left
<1>8. Viewed'
  BY <1>1, <1>2, <1>3 DEF Viewed, Up, NoMixedConnections, connVars, supVars
<1>9. Lates'
  BY <1>1, <1>2, <1>3 DEF Lates
<1>10. Frames'
  <2> SUFFICES ASSUME (Up /\ conn[dials] = "open")', NEW f \in Feeds, (KeyOf[f] \notin raced)'
               PROVE  Agrees(f)'
    BY DEF Frames
  <2>1. UNCHANGED <<sup, conn, dials, feed, replay, serving, raced>>
    BY <1>2 DEF connVars, supVars
  <2>2. Agrees(f)
    BY <2>1 DEF Frames, Up
  <2>3. pc \in {"failed", "off"} => watch[w].socket # dials
    BY <1>1, <2>1 DEF WriteFails
  <2>4. \A v \in Watches : \A at \in {"subscribing", "unsubscribing"} :
          watch'[v].pc = at /\ watch'[v].socket = dials
            <=> watch[v].pc = at /\ watch[v].socket = dials
    BY <1>1, <1>3, <2>1, <2>3
  <2> HIDE DEF SubsInv
  <2> QED
    BY <2>1, <2>2, <2>4 DEF Agrees, Due, Writing
<1> QED
  BY <1>4, <1>5, <1>6, <1>7, <1>8, <1>9, <1>10 DEF Kept

LEMMA FirstKeeps ==
  ASSUME SubsInv, NEW w \in Watches, SubscribeFirst(w)
  PROVE  Kept'
<1> USE DEF SubsInv
<1>1. Key(w) \in Keys /\ FeedOf[w] \in Feeds /\ FeedOf[w] # None /\ KeyOf[FeedOf[w]] = Key(w)
  BY WsSubsAssumption DEF Key
<1>2. PICK pc \in {"on", "subscribing"}, s \in Sockets \cup {NoSocket} :
        /\ WatchGoes(w, pc, s)
        /\ s = socket
        /\ pc = IF socket = NoSocket THEN "on" ELSE "subscribing"
  BY DEF SubscribeFirst, TypeOKConn
<1>3. /\ watch' \in [Watches -> Places]
      /\ watch'[w] = [pc |-> pc, socket |-> s]
      /\ \A v \in Watches : v # w => watch'[v] = watch[v]
  BY <1>2, Goes DEF WatchState
<1>4. /\ UNCHANGED <<connVars, replay, serving, inflight, batch, view, late>>
      /\ watch[w].pc = "idle" /\ feed[Key(w)] = None /\ members[Key(w)] = {}
  BY <1>1 DEF SubscribeFirst, OneFeedPerKey
<1>5. /\ feed' \in [Keys -> Feeds \cup {None}] /\ members' \in [Keys -> SUBSET Watches]
      /\ feed'[Key(w)] = FeedOf[w] /\ members'[Key(w)] = {w}
      /\ \A k \in Keys : k # Key(w) => feed'[k] = feed[k] /\ members'[k] = members[k]
  BY <1>1 DEF SubscribeFirst, SubTypes
<1>6. SubTypes'
  <2>1. raced' \in SUBSET Keys
    BY <1>1 DEF SubscribeFirst, SubTypes
  <2> HIDE DEF SubsInv
  <2>2. SubTypes
    BY DEF SubsInv
  <2> QED
    BY <1>3, <1>4, <1>5, <2>1, <2>2 DEF SubTypes
<1>7. OneFeedPerKey'
  <2> SUFFICES ASSUME NEW k \in Keys
               PROVE  /\ feed'[k] = None <=> members'[k] = {}
                      /\ \A v \in members'[k] : Key(v) = k /\ FeedOf[v] = feed'[k]
                      /\ \A v \in Watches : Key(v) = k /\ watch'[v].pc \in {"subscribing", "on"}
                                              => v \in members'[k]
    BY DEF OneFeedPerKey
  <2>1. /\ feed[k] = None <=> members[k] = {}
        /\ \A v \in members[k] : Key(v) = k /\ FeedOf[v] = feed[k]
        /\ \A v \in Watches : Key(v) = k /\ watch[v].pc \in {"subscribing", "on"}
                                => v \in members[k]
    BY DEF OneFeedPerKey
  <2> HIDE DEF SubsInv
  <2>2. CASE k = Key(w)
    BY <1>1, <1>3, <1>4, <1>5, <2>1, <2>2
  <2>3. CASE k # Key(w)
    BY <1>3, <1>5, <2>1, <2>3
  <2> QED
    BY <2>2, <2>3
<1>8. Captured'
  <2>1. UNCHANGED <<sup, socket, dials, replay>>
    BY <1>4 DEF connVars, supVars
  <2>2. s <= dials /\ (sup = "publish" => s # dials)
    BY <1>2 DEF SocketLifetime, TypeOKConn, Sockets, NoSocket, Captured
  <2>3. pc = "subscribing" => s \in Sockets
    BY <1>2
  <2> QED
    BY <1>2, <1>3, <2>1, <2>2, <2>3 DEF Captured, Up
<1>9. Left'
  <2>1. \A v \in Watches : Key(v) \in Keys
    BY WsSubsAssumption DEF Key
  <2> QED
    BY <1>1, <1>2, <1>3, <1>5, <2>1 DEF Left
<1>10. Viewed'
  <2>1. \A v \in Watches : v # w /\ v \in members'[Key(v)] => v \in members[Key(v)]
    BY <1>5, WsSubsAssumption DEF Key
  <2> QED
    BY <1>2, <1>3, <1>4, <2>1 DEF Viewed, Up, NoMixedConnections, connVars, supVars
<1>11. Lates'
  BY <1>3, <1>4 DEF Lates
<1>12. Frames'
  <2> SUFFICES ASSUME (Up /\ conn[dials] = "open")', NEW f \in Feeds, (KeyOf[f] \notin raced)'
               PROVE  Agrees(f)'
    BY DEF Frames
  <2>1. UNCHANGED <<sup, socket, conn, dials, replay, serving>>
    BY <1>4 DEF connVars, supVars
  <2>2. socket = dials /\ socket # NoSocket
    BY <2>1 DEF Up, Captured, Sockets, NoSocket
  <2>3. KeyOf[f] \notin raced /\ (KeyOf[f] = Key(w) => ~ UnsubscribePending(Key(w)))
    BY <2>2 DEF SubscribeFirst
  <2>4. Agrees(f)
    BY <2>1, <2>3 DEF Frames, Up
  <2>5. watch'[w].pc = "subscribing" /\ watch'[w].socket = dials
    BY <1>2, <1>3, <2>2
  <2> HIDE DEF SubsInv
  <2>6. CASE KeyOf[f] = Key(w)
    <3>1. feed[KeyOf[f]] = None /\ feed'[KeyOf[f]] = FeedOf[w] /\ f # None
      BY <1>4, <1>5, <2>6, WsSubsAssumption
    <3>2. \A v \in Watches : FeedOf[v] = f =>
            ~ (watch[v].pc = "unsubscribing" /\ watch[v].socket = dials)
      BY <2>3, <2>6 DEF UnsubscribePending, Writing, Key
    <3>3. f \notin serving /\ f \notin replay
      BY <2>4, <3>1, <3>2 DEF Agrees, Due, Writing
    <3>4. ~ Due(f, "unsubscribing")'
      BY <1>3, <2>1, <2>5, <3>2 DEF Due, Writing
    <3>5. f = FeedOf[w] => Due(f, "subscribing")'
      BY <2>1, <2>5 DEF Due, Writing
    <3> QED
      BY <2>1, <3>1, <3>3, <3>4, <3>5 DEF Agrees
  <2>7. CASE KeyOf[f] # Key(w)
    <3>1. feed'[KeyOf[f]] = feed[KeyOf[f]]
      BY <1>5, <2>7, WsSubsAssumption
    <3>2. \A v \in Watches : FeedOf[v] = f => watch'[v] = watch[v]
      BY <1>1, <1>3, <2>7
    <3> QED
      BY <2>1, <2>4, <3>1, <3>2 DEF Agrees, Due, Writing
  <2> QED
    BY <2>6, <2>7
<1> QED
  BY <1>6, <1>7, <1>8, <1>9, <1>10, <1>11, <1>12 DEF Kept

LEMMA JoinsKeeps ==
  ASSUME SubsInv, NEW w \in Watches, SubscribeJoins(w)
  PROVE  Kept'
<1> USE DEF SubsInv
<1>1. \A v \in Watches : Key(v) \in Keys
  BY WsSubsAssumption DEF Key
<1>2. /\ UNCHANGED <<connVars, feed, replay, serving, inflight, batch, view, late, raced>>
      /\ WatchGoes(w, "on", NoSocket)
      /\ watch[w].pc = "idle" /\ feed[Key(w)] = FeedOf[w]
  BY DEF SubscribeJoins
<1>3. /\ watch' \in [Watches -> Places]
      /\ watch'[w] = [pc |-> "on", socket |-> NoSocket]
      /\ \A v \in Watches : v # w => watch'[v] = watch[v]
  BY <1>2, Goes DEF WatchState
<1>4. /\ members' \in [Keys -> SUBSET Watches]
      /\ members'[Key(w)] = members[Key(w)] \cup {w}
      /\ \A k \in Keys : k # Key(w) => members'[k] = members[k]
  BY <1>1 DEF SubscribeJoins, SubTypes
<1>5. SubTypes'
  BY <1>2, <1>3, <1>4 DEF SubTypes
<1>6. OneFeedPerKey'
  <2>1. FeedOf[w] # None
    BY WsSubsAssumption
  <2> QED
    BY <1>1, <1>2, <1>3, <1>4, <2>1 DEF OneFeedPerKey
<1>7. Captured'
  BY <1>2, Released DEF WatchState
<1>8. Left'
  BY <1>1, <1>3, <1>4 DEF Left
<1>9. Viewed'
  <2>1. \A v \in Watches : v # w /\ v \in members'[Key(v)] => v \in members[Key(v)]
    BY <1>1, <1>4
  <2> QED
    BY <1>2, <1>3, <2>1 DEF Viewed, Up, NoMixedConnections, connVars, supVars
<1>10. Lates'
  BY <1>2, <1>3 DEF Lates
<1>11. Frames'
  <2> SUFFICES ASSUME (Up /\ conn[dials] = "open")', NEW f \in Feeds, (KeyOf[f] \notin raced)'
               PROVE  Agrees(f)'
    BY DEF Frames
  <2>1. UNCHANGED <<sup, conn, dials, feed, replay, serving, raced>>
    BY <1>2 DEF connVars, supVars
  <2>2. Agrees(f)
    BY <2>1 DEF Frames, Up
  <2>3. \A v \in Watches : \A at \in {"subscribing", "unsubscribing"} :
          watch'[v].pc = at /\ watch'[v].socket = dials
            <=> watch[v].pc = at /\ watch[v].socket = dials
    BY <1>2, <1>3
  <2> HIDE DEF SubsInv
  <2> QED
    BY <2>1, <2>2, <2>3 DEF Agrees, Due, Writing
<1> QED
  BY <1>5, <1>6, <1>7, <1>8, <1>9, <1>10, <1>11 DEF Kept

LEMMA StaysKeeps ==
  ASSUME SubsInv, NEW w \in Watches, UnsubscribeStays(w)
  PROVE  Kept'
<1> USE DEF SubsInv
<1>1. \A v \in Watches : Key(v) \in Keys
  BY WsSubsAssumption DEF Key
<1>2. /\ UNCHANGED <<connVars, feed, replay, serving, inflight, batch, view, late, raced>>
      /\ WatchGoes(w, "off", NoSocket)
      /\ watch[w].pc = "on" /\ Remaining(w) # {}
  BY DEF UnsubscribeStays
<1>3. /\ watch' \in [Watches -> Places]
      /\ watch'[w] = [pc |-> "off", socket |-> NoSocket]
      /\ \A v \in Watches : v # w => watch'[v] = watch[v]
  BY <1>2, Goes DEF WatchState
<1>4. /\ members' \in [Keys -> SUBSET Watches]
      /\ members'[Key(w)] = members[Key(w)] \ {w} /\ members'[Key(w)] # {}
      /\ \A k \in Keys : k # Key(w) => members'[k] = members[k]
  BY <1>1, <1>2 DEF UnsubscribeStays, Remaining, SubTypes
<1>5. SubTypes'
  BY <1>2, <1>3, <1>4 DEF SubTypes
<1>6. OneFeedPerKey'
  BY <1>1, <1>2, <1>3, <1>4 DEF OneFeedPerKey
<1>7. Captured'
  BY <1>2, Released DEF WatchState
<1>8. Left'
  BY <1>1, <1>3, <1>4 DEF Left
<1>9. Viewed'
  <2>1. \A v \in Watches : v \in members'[Key(v)] => v \in members[Key(v)]
    BY <1>1, <1>4
  <2> QED
    BY <1>2, <1>3, <2>1 DEF Viewed, Up, NoMixedConnections, connVars, supVars
<1>10. Lates'
  BY <1>2, <1>3 DEF Lates
<1>11. Frames'
  <2> SUFFICES ASSUME (Up /\ conn[dials] = "open")', NEW f \in Feeds, (KeyOf[f] \notin raced)'
               PROVE  Agrees(f)'
    BY DEF Frames
  <2>1. UNCHANGED <<sup, conn, dials, feed, replay, serving, raced>>
    BY <1>2 DEF connVars, supVars
  <2>2. Agrees(f)
    BY <2>1 DEF Frames, Up
  <2>3. \A v \in Watches : \A at \in {"subscribing", "unsubscribing"} :
          watch'[v].pc = at /\ watch'[v].socket = dials
            <=> watch[v].pc = at /\ watch[v].socket = dials
    BY <1>2, <1>3
  <2> HIDE DEF SubsInv
  <2> QED
    BY <2>1, <2>2, <2>3 DEF Agrees, Due, Writing
<1> QED
  BY <1>5, <1>6, <1>7, <1>8, <1>9, <1>10, <1>11 DEF Kept

LEMMA LastKeeps ==
  ASSUME SubsInv, NEW w \in Watches, UnsubscribeLast(w)
  PROVE  Kept'
<1> USE DEF SubsInv
<1>1. \A v \in Watches : Key(v) \in Keys
  BY WsSubsAssumption DEF Key
<1>2. PICK pc \in {"off", "unsubscribing"}, s \in Sockets \cup {NoSocket} :
        /\ WatchGoes(w, pc, s)
        /\ s = socket
        /\ pc = IF socket = NoSocket THEN "off" ELSE "unsubscribing"
  BY DEF UnsubscribeLast, TypeOKConn
<1>3. /\ watch' \in [Watches -> Places]
      /\ watch'[w] = [pc |-> pc, socket |-> s]
      /\ \A v \in Watches : v # w => watch'[v] = watch[v]
  BY <1>2, Goes DEF WatchState
<1>4. /\ UNCHANGED <<connVars, replay, serving, inflight, batch, view, late>>
      /\ watch[w].pc = "on" /\ members[Key(w)] = {w} /\ feed[Key(w)] = FeedOf[w]
  BY <1>1 DEF UnsubscribeLast, Remaining, OneFeedPerKey
<1>5. /\ feed' \in [Keys -> Feeds \cup {None}] /\ members' \in [Keys -> SUBSET Watches]
      /\ feed'[Key(w)] = None /\ members'[Key(w)] = {}
      /\ \A k \in Keys : k # Key(w) => feed'[k] = feed[k] /\ members'[k] = members[k]
  BY <1>1 DEF UnsubscribeLast, SubTypes
<1>6. SubTypes'
  <2>1. raced' \in SUBSET Keys
    BY <1>1 DEF UnsubscribeLast, SubTypes
  <2> HIDE DEF SubsInv
  <2>2. SubTypes
    BY DEF SubsInv
  <2> QED
    BY <1>3, <1>4, <1>5, <2>1, <2>2 DEF SubTypes
<1>7. OneFeedPerKey'
  <2> SUFFICES ASSUME NEW k \in Keys
               PROVE  /\ feed'[k] = None <=> members'[k] = {}
                      /\ \A v \in members'[k] : Key(v) = k /\ FeedOf[v] = feed'[k]
                      /\ \A v \in Watches : Key(v) = k /\ watch'[v].pc \in {"subscribing", "on"}
                                              => v \in members'[k]
    BY DEF OneFeedPerKey
  <2>1. /\ feed[k] = None <=> members[k] = {}
        /\ \A v \in members[k] : Key(v) = k /\ FeedOf[v] = feed[k]
        /\ \A v \in Watches : Key(v) = k /\ watch[v].pc \in {"subscribing", "on"}
                                => v \in members[k]
    BY DEF OneFeedPerKey
  <2> HIDE DEF SubsInv
  <2>2. CASE k = Key(w)
    BY <1>2, <1>3, <1>4, <1>5, <2>1, <2>2
  <2>3. CASE k # Key(w)
    BY <1>3, <1>5, <2>1, <2>3
  <2> QED
    BY <2>2, <2>3
<1>8. Captured'
  <2>1. UNCHANGED <<sup, socket, dials, replay>>
    BY <1>4 DEF connVars, supVars
  <2>2. s <= dials /\ (sup = "publish" => s # dials)
    BY <1>2 DEF SocketLifetime, TypeOKConn, Sockets, NoSocket, Captured
  <2>3. pc = "unsubscribing" => s \in Sockets
    BY <1>2
  <2> QED
    BY <1>2, <1>3, <2>1, <2>2, <2>3 DEF Captured, Up
<1>9. Left'
  BY <1>1, <1>3, <1>5 DEF Left
<1>10. Viewed'
  <2>1. \A v \in Watches : v \in members'[Key(v)] => v \in members[Key(v)]
    BY <1>1, <1>5
  <2> QED
    BY <1>2, <1>3, <1>4, <2>1 DEF Viewed, Up, NoMixedConnections, connVars, supVars
<1>11. Lates'
  BY <1>2, <1>3, <1>4 DEF Lates
<1>12. Frames'
  <2> SUFFICES ASSUME (Up /\ conn[dials] = "open")', NEW f \in Feeds, (KeyOf[f] \notin raced)'
               PROVE  Agrees(f)'
    BY DEF Frames
  <2>1. UNCHANGED <<sup, socket, conn, dials, replay, serving>>
    BY <1>4 DEF connVars, supVars
  <2>2. socket = dials /\ socket # NoSocket
    BY <2>1 DEF Up, Captured, Sockets, NoSocket
  <2>3. KeyOf[f] \notin raced /\ (KeyOf[f] = Key(w) => FeedOf[w] \notin replay)
    BY <2>2 DEF UnsubscribeLast
  <2>4. Agrees(f)
    BY <2>1, <2>3 DEF Frames, Up
  <2>5. watch'[w].pc = "unsubscribing" /\ watch'[w].socket = dials
    BY <1>2, <1>3, <2>2
  <2> HIDE DEF SubsInv
  <2>6. CASE KeyOf[f] = Key(w)
    <3>1. feed[KeyOf[f]] = FeedOf[w] /\ feed'[KeyOf[f]] = None /\ f # None /\ FeedOf[w] # None
      BY <1>4, <1>5, <2>6, WsSubsAssumption
    <3>2. f \notin replay
      BY <2>3, <2>4, <2>6, <3>1 DEF Agrees
    <3>3. f \in serving => f = FeedOf[w]
      BY <2>4, <3>1 DEF Agrees
    <3>4. f = FeedOf[w] => Due(f, "unsubscribing")'
      BY <2>1, <2>5 DEF Due, Writing
    <3> QED
      BY <2>1, <3>1, <3>2, <3>3, <3>4 DEF Agrees
  <2>7. CASE KeyOf[f] # Key(w)
    <3>1. feed'[KeyOf[f]] = feed[KeyOf[f]]
      BY <1>5, <2>7, WsSubsAssumption
    <3>2. \A v \in Watches : FeedOf[v] = f => watch'[v] = watch[v]
      BY <1>1, <1>3, <2>7 DEF Key
    <3> QED
      BY <2>1, <2>4, <3>1, <3>2 DEF Agrees, Due, Writing
  <2> QED
    BY <2>6, <2>7
<1> QED
  BY <1>6, <1>7, <1>8, <1>9, <1>10, <1>11, <1>12 DEF Kept

\* A frame that is written is one for the current socket, and then the exchange
\* knows what the registry knows.
LEMMA WriteKeeps ==
  ASSUME SubsInv, NEW w \in Watches, SubscribeWrite(w) \/ UnsubscribeWrite(w)
  PROVE  Kept'
<1> USE DEF SubsInv
<1>1. PICK pc \in {"on", "off"} :
        /\ WatchGoes(w, pc, NoSocket)
        /\ pc = "on" => watch[w].pc = "subscribing" /\ serving' = serving \cup {FeedOf[w]}
        /\ pc = "off" => watch[w].pc = "unsubscribing" /\ serving' = serving \ {FeedOf[w]}
  BY DEF SubscribeWrite, UnsubscribeWrite
<1>2. /\ UNCHANGED <<connVars, feed, members, replay, inflight, batch, view, late, raced>>
      /\ Writable(watch[w].socket)
  BY DEF SubscribeWrite, UnsubscribeWrite
<1>3. /\ watch' \in [Watches -> Places]
      /\ watch'[w] = [pc |-> pc, socket |-> NoSocket]
      /\ \A v \in Watches : v # w => watch'[v] = watch[v]
  BY <1>1, Goes DEF WatchState
<1>4. watch[w].socket = dials
  BY <1>1, <1>2 DEF Captured, SocketLifetime
<1>5. Key(w) \in Keys /\ FeedOf[w] \in Feeds /\ FeedOf[w] # None /\ KeyOf[FeedOf[w]] = Key(w)
  BY WsSubsAssumption DEF Key
<1>6. SubTypes'
  <2>1. serving' \in SUBSET Feeds
    BY <1>1, <1>5 DEF SubTypes
  <2> QED
    BY <1>2, <1>3, <2>1 DEF SubTypes
<1>7. OneFeedPerKey'
  BY <1>1, <1>2, <1>3 DEF OneFeedPerKey
<1>8. Captured'
  BY <1>1, <1>2, Released DEF WatchState
<1>9. Left'
  BY <1>1, <1>2, <1>3 DEF Left
<1>10. Viewed'
  BY <1>1, <1>2, <1>3 DEF Viewed, Up, NoMixedConnections, connVars, supVars
<1>11. Lates'
  BY <1>1, <1>2, <1>3 DEF Lates
<1>12. Frames'
  <2> SUFFICES ASSUME (Up /\ conn[dials] = "open")', NEW f \in Feeds, (KeyOf[f] \notin raced)'
               PROVE  Agrees(f)'
    BY DEF Frames
  <2>1. UNCHANGED <<sup, conn, dials, feed, replay, raced>>
    BY <1>2 DEF connVars, supVars
  <2>2. \A g \in Feeds : KeyOf[g] = KeyOf[f] => Agrees(g)
    BY <2>1 DEF Frames, Up
  <2>3. \A v \in Watches : \A at \in {"subscribing", "unsubscribing"} :
          watch'[v].pc = at /\ watch'[v].socket = dials
            <=> v # w /\ watch[v].pc = at /\ watch[v].socket = dials
    BY <1>1, <1>3
  <2>4. CASE pc = "on"
    <3>1. feed[Key(w)] = FeedOf[w]
      BY <1>1, <1>5, <2>4 DEF OneFeedPerKey
    <3> HIDE DEF SubsInv
    <3>2. Agrees(f)
      BY <2>2
    <3>3. serving' = serving \cup {FeedOf[w]}
      BY <1>1, <2>4
    <3>4. f = FeedOf[w] => feed[KeyOf[f]] = f
      BY <1>5, <3>1
    <3>5. watch[w].pc = "subscribing"
      BY <1>1, <2>4
    <3> QED
      BY <2>1, <2>3, <3>2, <3>3, <3>4, <3>5 DEF Agrees, Due, Writing
  <2>5. CASE pc = "off"
    <3> HIDE DEF SubsInv
    <3>1. watch[w].pc = "unsubscribing" /\ serving' = serving \ {FeedOf[w]}
      BY <1>1, <2>5
    <3>2. KeyOf[f] = Key(w) => feed[KeyOf[f]] = None
      BY <1>4, <1>5, <2>2, <3>1 DEF Agrees, Due, Writing
    <3>3. Agrees(f)
      BY <2>2
    <3>4. f # None
      BY WsSubsAssumption
    <3>5. CASE KeyOf[f] = Key(w)
      BY <2>1, <2>3, <3>1, <3>2, <3>3, <3>4, <3>5 DEF Agrees, Due, Writing
    <3>6. CASE KeyOf[f] # Key(w)
      BY <1>5, <2>1, <2>3, <3>1, <3>3, <3>6 DEF Agrees, Due, Writing, Key
    <3> QED
      BY <3>5, <3>6
  <2> QED
    BY <2>4, <2>5
<1> QED
  BY <1>6, <1>7, <1>8, <1>9, <1>10, <1>11, <1>12 DEF Kept

-----------------------------------------------------------------------------
(* The theorems *)

LEMMA SubsStep == SubsInv /\ [Next]_vars => SubsInv'
<1> SUFFICES ASSUME SubsInv, [Next]_vars PROVE SubsInv'
  OBVIOUS
<1>1. TypeOKConn' /\ SocketLifetime'
  BY ConnectionStep, TypeStep, LifetimeStep DEF SubsInv
<1>2. ASSUME Calm PROVE Kept'
  BY <1>2, CalmKeeps DEF Kept
<1>3. ASSUME SupRuns
      PROVE  Kept'
  <2>1. CASE DialSucceeds /\ UNCHANGED subVars
    BY <2>1, DialKeeps
  <2>2. CASE PublishAndReset
    BY <2>2, PublishKeeps
  <2>3. CASE ReplayEnds
    <3>1. CASE ReplayDone /\ replay = {} /\ UNCHANGED subVars
      BY <1>2, <3>1, SupIsCalm
    <3>2. CASE /\ ReplayFails /\ replay' = {}
               /\ UNCHANGED <<feed, members, watch, serving, inflight, batch, view, late, raced>>
      BY <3>2, ReplayFailsKeeps
    <3> QED
      BY <2>3, <3>1, <3>2 DEF ReplayEnds
  <2>4. ASSUME NEW f \in Feeds, ReplayWrite(f)
        PROVE  Kept'
    BY <2>4, ReplayWriteKeeps
  <2>5. ASSUME NEW w \in Watches, DispatchCall(w)
        PROVE  Kept'
    BY <2>5, DispatchCallKeeps
  <2>6. CASE /\ UNCHANGED subVars
             /\ \/ Top \/ DialFails \/ PublishRefused \/ Unpublish \/ Shut
                \/ FailPending \/ Bottom \/ SleepEnds \/ SleepCut
                \/ ReadFails /\ batch = NoBatch
    BY <1>2, <2>6, SupIsCalm
  <2> QED
    BY <1>3, <2>1, <2>2, <2>3, <2>4, <2>5, <2>6 DEF SupRuns
<1>4. ASSUME (AroundStep \/ \E k \in Closers : CloseFailPending(k)) /\ UNCHANGED subVars
      PROVE  Kept'
  BY <1>2, <1>4, AroundIsCalm
<1>5. ASSUME NEW w \in Watches, WatchStep(w)
      PROVE  Kept'
  <2>1. CASE SubscribeFirst(w)
    BY <2>1, FirstKeeps
  <2>2. CASE SubscribeJoins(w)
    BY <2>2, JoinsKeeps
  <2>3. CASE UnsubscribeStays(w)
    BY <2>3, StaysKeeps
  <2>4. CASE UnsubscribeLast(w)
    BY <2>4, LastKeeps
  <2>5. CASE SubscribeWrite(w) \/ UnsubscribeWrite(w)
    BY <2>5, WriteKeeps
  <2>6. CASE \/ SubscribeRefused(w) \/ SubscribeWriteFails(w)
             \/ UnsubscribeClosed(w) \/ UnsubscribeWriteFails(w)
    BY <2>6, LeaveKeeps
  <2> QED
    BY <1>5, <2>1, <2>2, <2>3, <2>4, <2>5, <2>6 DEF WatchStep, FrameStep
<1>6. ASSUME NEW f \in Feeds, Push(f) \/ DispatchTake(f)
      PROVE  Kept'
  BY <1>6, PushKeeps, DispatchTakeKeeps
<1>7. ASSUME UNCHANGED vars
      PROVE  Kept'
  <2>1. Calm
    BY <1>7 DEF vars, connVars, supVars, Calm
  <2> QED
    BY <1>2, <2>1
<1>8. Kept'
  BY <1>3, <1>4, <1>5, <1>6, <1>7 DEF Next
<1> QED
  BY <1>1, <1>8 DEF SubsInv, Kept

\* The inductive invariant: the registry, the frames still to be written, what
\* the exchange serves and what the handlers have seen agree at every step of
\* conn.go and streams.go, whatever order the goroutines take.
THEOREM SubsInvariant == Spec => []SubsInv
  BY SubsInit, SubsStep, PTL DEF Spec

\* The type invariant of the registry, the frames, the pushes and the connection.
THEOREM SubsTypeCorrect == Spec => []TypeOK
<1>1. SubsInv => TypeOK
  BY DEF SubsInv, SubTypes, Places, TypeOK
<1> QED
  BY <1>1, SubsInvariant, PTL

\* A group exists exactly while it has members, and they all asked for its payload:
\* Conn.Subscribe and Conn.Unsubscribe take no consumer's place away.
THEOREM OneFeed == Spec => []OneFeedPerKey
<1>1. SubsInv => OneFeedPerKey
  BY DEF SubsInv
<1> QED
  BY <1>1, SubsInvariant, PTL

\* Between the pushes of two connections every consumer with a Reset is Reset
\* (connectAndRun).
THEOREM NoMix == Spec => []NoMixedConnections
<1>1. SubsInv => NoMixedConnections
  BY DEF SubsInv, Viewed
<1> QED
  BY <1>1, SubsInvariant, PTL

\* After Unsubscribe the handler runs at most once more (Conn.dispatch).
THEOREM LatePush == Spec => []AtMostOneLatePush
<1>1. SubsInv => AtMostOneLatePush
  BY DEF SubsInv, Lates, AtMostOneLatePush
<1> QED
  BY <1>1, SubsInvariant, PTL

\* Once the frames about a key are written, the exchange serves exactly what the
\* registry of Conn holds for it, through every reconnect, unless two opposite
\* frames were outstanding together.
THEOREM ServedExactly == Spec => []ServedAsRegistered
<1>1. SubsInv => ServedAsRegistered
  <2> SUFFICES ASSUME SubsInv, NEW k \in Keys, Quiet(k), k \notin raced
               PROVE  Served(k) = Wanted(k)
    BY DEF ServedAsRegistered
  <2>1. Up /\ conn[dials] = "open" /\ replay = {}
    BY DEF Quiet, Up, SubsInv, Captured
  <2>2. \A f \in Feeds : KeyOf[f] = k => Agrees(f)
    BY <2>1 DEF SubsInv, Frames
  <2>3. \A f \in Feeds : KeyOf[f] = k =>
          \A w \in Watches : FeedOf[w] = f =>
            ~ Writing(w, "subscribing") /\ ~ Writing(w, "unsubscribing")
    BY DEF Quiet, Key
  <2>4. \A f \in Feeds : KeyOf[f] = k => (f \in serving <=> feed[k] = f)
    BY <2>1, <2>2, <2>3 DEF Agrees, Due
  <2>5. feed[k] # None => feed[k] \in Feeds /\ KeyOf[feed[k]] = k
    BY DEF SubsInv, SubTypes, OneFeedPerKey, Key
  <2>6. serving \subseteq Feeds
    BY DEF SubsInv, SubTypes
  <2>7. ASSUME NEW f PROVE f \in Served(k) <=> f \in Wanted(k)
    BY <2>4, <2>5, <2>6, WsSubsAssumption DEF Served, Wanted
  <2> QED
    BY <2>7
<1> QED
  BY <1>1, SubsInvariant, PTL
=============================================================================
