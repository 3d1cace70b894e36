------------------------------- MODULE WsSubs -------------------------------
(***************************************************************************)
(* Subscriptions over the supervised connection: the registry of           *)
(* Conn.Subscribe and Conn.Unsubscribe, its replay on every connect, the   *)
(* dispatch of pushes (internal/ws/conn.go) and the calls of watch that    *)
(* use them (internal/domain/streams.go), attached to the connection life  *)
(* cycle of WsConn.                                                        *)
(*                                                                         *)
(* The registry changes under mu, the frame that tells the exchange is     *)
(* written after mu was released: these are two actions.  Frames of one    *)
(* socket reach the exchange in the order of their writes, so a successful *)
(* write takes effect at once; pushes stay in flight for any time.         *)
(***************************************************************************)
EXTENDS WsConn

CONSTANTS
  Watches,  \* calls of a Watch function, each with its Subscription object
  Feeds,    \* subscription payloads
  Keys,     \* route keys
  FeedOf,   \* Subscription.Payload of each watch
  KeyOf,    \* the route key of each payload
  Resets,   \* the watches whose Subscription has a Reset
  Active,   \* bound: the feeds whose pushes are followed
  None      \* "no feed"

ASSUME WsSubsAssumption ==
  /\ FeedOf \in [Watches -> Feeds]
  /\ KeyOf \in [Feeds -> Keys]
  /\ Active \subseteq Feeds
  /\ Resets \subseteq Watches
  /\ None \notin Feeds

VARIABLES
  feed,      \* c.subs: payload of the group of each key, None if no group
  members,   \* c.subs: members of the group of each key
  watch,     \* per watch: its position and the socket it captured under mu
  replay,    \* connectAndRun: payloads still to be replayed
  serving,   \* the feeds the exchange serves on the current socket
  inflight,  \* feeds with a push on its way on the current socket
  batch,     \* dispatch: the push being delivered and the handlers to call
  view,      \* history: the socket of the pushes a watch saw since its Reset
  late,      \* history: pushes delivered after Unsubscribe (2: two or more)
  raced      \* history: keys whose opposite frames were outstanding together

subVars == <<feed, members, watch, replay, serving, inflight, batch, view, late, raced>>
vars == <<connVars, subVars>>

Key(w) == KeyOf[FeedOf[w]]

\* "on": Watch has returned nil; "failed": it has returned a write error;
\* "rejected": it has returned a conflict or ErrConnClosed; "ended": its
\* context was cancelled after Close; "off": it is unsubscribed.
WatchState == {"idle", "subscribing", "on", "failed", "rejected",
               "unsubscribing", "ended", "off"}

NoBatch == [feed |-> None, to |-> {}]

InitSubs ==
  /\ feed = [k \in Keys |-> None]
  /\ members = [k \in Keys |-> {}]
  /\ watch = [w \in Watches |-> [pc |-> "idle", socket |-> NoSocket]]
  /\ replay = {}
  /\ serving = {}
  /\ inflight = {}
  /\ batch = NoBatch
  /\ view = [w \in Watches |-> NoSocket]
  /\ late = [w \in Watches |-> 0]
  /\ raced = {}

Init == InitConn /\ InitSubs

WatchGoes(w, pc, s) == watch' = [watch EXCEPT ![w] = [pc |-> pc, socket |-> s]]

\* Watch w still has to write its frame to the current socket.
Writing(w, pc) == watch[w].pc = pc /\ watch[w].socket = dials

-----------------------------------------------------------------------------
(* Subscribe, as watch calls it *)

Refused(w) ==
  \/ closed
  \/ feed[Key(w)] \notin {None, FeedOf[w]}

SubscribeRefused(w) ==
  /\ watch[w].pc = "idle"
  /\ Refused(w)
  /\ WatchGoes(w, "rejected", NoSocket)
  /\ UNCHANGED <<connVars, feed, members, replay, serving, inflight, batch, view, late, raced>>

\* An unsubscribe frame of the key is still to be written to this socket.
UnsubscribePending(k) ==
  \E w \in Watches : Key(w) = k /\ Writing(w, "unsubscribing")

\* The first of its key sends the frame if there is a socket.
SubscribeFirst(w) ==
  /\ watch[w].pc = "idle"
  /\ ~ Refused(w)
  /\ feed[Key(w)] = None
  /\ feed' = [feed EXCEPT ![Key(w)] = FeedOf[w]]
  /\ members' = [members EXCEPT ![Key(w)] = {w}]
  /\ IF socket = NoSocket
       THEN WatchGoes(w, "on", NoSocket) /\ UNCHANGED raced
       ELSE /\ WatchGoes(w, "subscribing", socket)
            /\ raced' = IF UnsubscribePending(Key(w)) THEN raced \cup {Key(w)} ELSE raced
  /\ UNCHANGED <<connVars, replay, serving, inflight, batch, view, late>>

SubscribeJoins(w) ==
  /\ watch[w].pc = "idle"
  /\ ~ Refused(w)
  /\ feed[Key(w)] = FeedOf[w]
  /\ members' = [members EXCEPT ![Key(w)] = @ \cup {w}]
  /\ WatchGoes(w, "on", NoSocket)
  /\ UNCHANGED <<connVars, feed, replay, serving, inflight, batch, view, late, raced>>

\* Only the current socket is ever writable (WsConn!SocketLifetime).
SubscribeWrite(w) ==
  /\ watch[w].pc = "subscribing"
  /\ Writable(watch[w].socket)
  /\ serving' = serving \cup {FeedOf[w]}
  /\ WatchGoes(w, "on", NoSocket)
  /\ UNCHANGED <<connVars, feed, members, replay, inflight, batch, view, late, raced>>

\* watch returns the write error and starts no goroutine; the registration
\* made by Subscribe stays.
SubscribeWriteFails(w) ==
  /\ watch[w].pc = "subscribing"
  /\ WriteFails(watch[w].socket)
  /\ WatchGoes(w, "failed", NoSocket)
  /\ UNCHANGED <<connVars, feed, members, replay, serving, inflight, batch, view, late, raced>>

-----------------------------------------------------------------------------
(* Unsubscribe, in the goroutine of watch once its context is done *)

UnsubscribeClosed(w) ==
  /\ watch[w].pc = "on"
  /\ closed
  /\ WatchGoes(w, "ended", NoSocket)
  /\ UNCHANGED <<connVars, feed, members, replay, serving, inflight, batch, view, late, raced>>

\* Mutants: w is not taken out; every leave passes for the last one.
RemainingAll(w) == members[Key(w)]
RemainingNone(w) == {}

\* The members of the group of w that stay when w leaves.
Remaining(w) == members[Key(w)] \ {w}

UnsubscribeStays(w) ==
  /\ watch[w].pc = "on"
  /\ ~ closed
  /\ Remaining(w) # {}
  /\ members' = [members EXCEPT ![Key(w)] = Remaining(w)]
  /\ WatchGoes(w, "off", NoSocket)
  /\ UNCHANGED <<connVars, feed, replay, serving, inflight, batch, view, late, raced>>

\* The last of its key deletes the group and sends the frame.
UnsubscribeLast(w) ==
  /\ watch[w].pc = "on"
  /\ ~ closed
  /\ Remaining(w) = {}
  /\ feed' = [feed EXCEPT ![Key(w)] = None]
  /\ members' = [members EXCEPT ![Key(w)] = {}]
  /\ IF socket = NoSocket
       THEN WatchGoes(w, "off", NoSocket) /\ UNCHANGED raced
       ELSE /\ WatchGoes(w, "unsubscribing", socket)
            /\ raced' = IF FeedOf[w] \in replay THEN raced \cup {Key(w)} ELSE raced
  /\ UNCHANGED <<connVars, replay, serving, inflight, batch, view, late>>

UnsubscribeWrite(w) ==
  /\ watch[w].pc = "unsubscribing"
  /\ Writable(watch[w].socket)
  /\ serving' = serving \ {FeedOf[w]}
  /\ WatchGoes(w, "off", NoSocket)
  /\ UNCHANGED <<connVars, feed, members, replay, inflight, batch, view, late, raced>>

UnsubscribeWriteFails(w) ==
  /\ watch[w].pc = "unsubscribing"
  /\ WriteFails(watch[w].socket)
  /\ WatchGoes(w, "off", NoSocket)
  /\ UNCHANGED <<connVars, feed, members, replay, serving, inflight, batch, view, late, raced>>

-----------------------------------------------------------------------------
(* connectAndRun *)

\* Mutant: no member is Reset.
ViewsKept == view

\* Reset of every member of every group that has one; BBO, trades, candles and
\* asset contexts have none.
ViewsReset ==
  [w \in Watches |-> IF w \in members[Key(w)] \cap Resets THEN NoSocket ELSE view[w]]

\* Mutant: nothing is replayed.
PayloadsForgotten == {}

Payloads == {feed[k] : k \in Keys} \ {None}

\* Under mu: Reset of the members, and the payloads to replay.  A new socket
\* starts without feeds, so earlier races of frames are over.
PublishAndReset ==
  /\ Publish
  /\ replay' = Payloads
  /\ view' = ViewsReset
  /\ serving' = {}
  /\ inflight' = {}
  /\ raced' = {}
  /\ UNCHANGED <<feed, members, watch, batch, late>>

ReplayWrite(f) ==
  /\ sup = "replay"
  /\ f \in replay
  /\ Writable(dials)
  /\ replay' = replay \ {f}
  /\ serving' = serving \cup {f}
  /\ UNCHANGED <<connVars, feed, members, watch, inflight, batch, view, late, raced>>

\* Mutant: the replay stops before its last frame.
ReplayEndsShort ==
  \/ ReplayDone /\ UNCHANGED subVars
  \/ /\ ReplayFails /\ replay # {}
     /\ replay' = {}
     /\ UNCHANGED <<feed, members, watch, serving, inflight, batch, view, late, raced>>

ReplayEnds ==
  \/ ReplayDone /\ replay = {} /\ UNCHANGED subVars
  \/ /\ ReplayFails /\ replay # {}
     /\ replay' = {}
     /\ UNCHANGED <<feed, members, watch, serving, inflight, batch, view, late, raced>>

-----------------------------------------------------------------------------
(* The exchange, and dispatch in the read loop *)

Push(f) ==
  /\ f \in serving \cap Active
  /\ conn[dials] = "open"
  /\ sup \in {"replay", "reading"}
  /\ inflight' = inflight \cup {f}
  /\ UNCHANGED <<connVars, feed, members, watch, replay, serving, batch, view, late, raced>>

\* Under RLock: the members of this moment (copy-on-write, so the slice stays
\* as it is); a push without a group is dropped.
DispatchTake(f) ==
  /\ sup = "reading"
  /\ batch = NoBatch
  /\ f \in inflight
  /\ inflight' = inflight \ {f}
  /\ batch' = IF members[KeyOf[f]] = {} THEN NoBatch
              ELSE [feed |-> f, to |-> members[KeyOf[f]]]
  /\ UNCHANGED <<connVars, feed, members, watch, replay, serving, view, late, raced>>

DispatchCall(w) ==
  /\ w \in batch.to
  /\ batch' = IF batch.to = {w} THEN NoBatch ELSE [batch EXCEPT !.to = @ \ {w}]
  /\ view' = [view EXCEPT ![w] = dials]
  /\ late' = IF watch[w].pc \in {"unsubscribing", "off"} /\ late[w] < 2
               THEN [late EXCEPT ![w] = @ + 1] ELSE late
  /\ UNCHANGED <<connVars, feed, members, watch, replay, serving, inflight, raced>>

-----------------------------------------------------------------------------
FrameStep(w) ==
  \/ SubscribeWrite(w) \/ SubscribeWriteFails(w)
  \/ UnsubscribeWrite(w) \/ UnsubscribeWriteFails(w)

WatchStep(w) ==
  \/ SubscribeRefused(w) \/ SubscribeFirst(w) \/ SubscribeJoins(w)
  \/ UnsubscribeClosed(w) \/ UnsubscribeStays(w) \/ UnsubscribeLast(w)
  \/ FrameStep(w)

\* The supervisor's goroutine also runs dispatch, so it leaves the read loop
\* between two pushes.
SupRuns ==
  \/ (Top \/ DialFails \/ DialSucceeds \/ PublishRefused \/ Unpublish \/ Shut
       \/ FailPending \/ Bottom \/ SleepEnds \/ SleepCut) /\ UNCHANGED subVars
  \/ ReadFails /\ batch = NoBatch /\ UNCHANGED subVars
  \/ PublishAndReset
  \/ ReplayEnds
  \/ \E f \in Feeds : ReplayWrite(f)
  \/ \E w \in Watches : DispatchCall(w)

Next ==
  \/ SupRuns
  \/ (AroundStep \/ \E k \in Closers : CloseFailPending(k)) /\ UNCHANGED subVars
  \/ \E w \in Watches : WatchStep(w)
  \/ \E f \in Feeds : Push(f) \/ DispatchTake(f)

Spec == Init /\ [][Next]_vars

(***************************************************************************)
(* Goroutines run (handshakes, sleeps and reads of a failed socket end),   *)
(* the server is reachable again and again (not every dial fails forever), *)
(* and a call of Subscribe or Unsubscribe completes.  Whether and when a   *)
(* consumer subscribes or cancels is left open.                            *)
(***************************************************************************)
FairSpec ==
  /\ Spec
  /\ WF_vars(SupRuns)
  /\ WF_vars(Watch /\ UNCHANGED subVars)
  /\ SF_vars(DialSucceeds /\ UNCHANGED subVars)
  /\ \A w \in Watches : WF_vars(FrameStep(w))

-----------------------------------------------------------------------------
TypeOK ==
  /\ TypeOKConn
  /\ feed \in [Keys -> Feeds \cup {None}]
  /\ members \in [Keys -> SUBSET Watches]
  /\ watch \in [Watches -> [pc : WatchState, socket : Sockets \cup {NoSocket}]]
  /\ replay \in SUBSET Feeds
  /\ serving \in SUBSET Feeds
  /\ inflight \in SUBSET Feeds
  /\ batch \in [feed : Feeds \cup {None}, to : SUBSET Watches]
  /\ view \in [Watches -> Sockets \cup {NoSocket}]
  /\ late \in [Watches -> 0 .. 2]
  /\ raced \in SUBSET Keys

\* All frames about key k have been written to a connection that works.
Quiet(k) ==
  /\ sup = "reading"
  /\ conn[dials] = "open"
  /\ \A w \in Watches :
       Key(w) = k => ~ Writing(w, "subscribing") /\ ~ Writing(w, "unsubscribing")

\* The feeds the registry asks for under key k.
Wanted(k) == {feed[k]} \ {None}
Served(k) == {f \in serving : KeyOf[f] = k}

(***************************************************************************)
(* Once the frames about a key are written, the exchange serves exactly    *)
(* the feed the registry holds for it: nothing if nobody is left, and one  *)
(* feed, subscribed once, however many watches share it and through every  *)
(* reconnect.  The one exception is a key for which a subscribe and an     *)
(* unsubscribe frame were outstanding on the same socket together; the     *)
(* next connect repairs it.                                                *)
(***************************************************************************)
ServedAsRegistered ==
  \A k \in Keys : Quiet(k) /\ k \notin raced => Served(k) = Wanted(k)

(***************************************************************************)
(* "The exchange is subscribed ONCE ... and every push is delivered to all *)
(* handlers" (conn.go:253-255): when all frames of a registered key are    *)
(* written, the exchange serves it.                                        *)
(***************************************************************************)
RegisteredIsServed == \A k \in Keys : Quiet(k) => Wanted(k) \subseteq Served(k)

(***************************************************************************)
(* A group exists exactly while it has members, all of them asked for the  *)
(* payload the exchange was given, and a watch that is on is one of them:  *)
(* no order of joining, leaving and re-creation under another payload      *)
(* makes a consumer lose its place to another one.                         *)
(***************************************************************************)
OneFeedPerKey ==
  \A k \in Keys :
    /\ feed[k] = None <=> members[k] = {}
    /\ \A w \in members[k] : Key(w) = k /\ FeedOf[w] = feed[k]
    /\ \A w \in Watches :
         Key(w) = k /\ watch[w].pc \in {"subscribing", "on"} => w \in members[k]

(***************************************************************************)
(* No consumer that offers a Reset combines pushes of two connections:     *)
(* between them it has been called, "so a reconnect cannot mix old and new *)
(* state" (conn.go:484-486).                                               *)
(***************************************************************************)
NoMixedConnections == \A w \in batch.to \cap Resets : view[w] \in {NoSocket, dials}

(***************************************************************************)
(* After Unsubscribe has removed a watch, its handler runs at most once    *)
(* more, for the push whose members were captured before.                  *)
(***************************************************************************)
AtMostOneLatePush == \A w \in Watches : late[w] <= 1

(***************************************************************************)
(* "Subscribing while disconnected is legal - it is applied on the next    *)
(* (re)connect" (conn.go:249-251): what is registered is eventually        *)
(* served, also when its frame was lost with the socket, unless it is      *)
(* withdrawn, the connection ends, or the two frames raced.                *)
(***************************************************************************)
EventuallyServed ==
  \A w \in Watches :
    (w \in members[Key(w)] /\ sup # "off")
      ~> \/ FeedOf[w] \in serving
         \/ w \notin members[Key(w)]
         \/ closed \/ cancelled
         \/ dials = MaxSockets /\ conn[dials] # "open"
         \/ Key(w) \in raced
=============================================================================
