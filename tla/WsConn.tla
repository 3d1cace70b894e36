------------------------------- MODULE WsConn -------------------------------
(***************************************************************************)
(* The life of one supervised WebSocket connection object                  *)
(* (internal/ws/conn.go): Start, Close, the supervise goroutine with its   *)
(* dial / publish / replay / read / clean-up cycle and its backoff, the    *)
(* ping loop and the context watcher.  What travels over the socket is in  *)
(* WsPost (requests and replies) and WsSubs (subscriptions), which extend  *)
(* this module and attach their effects to its actions.                    *)
(*                                                                         *)
(* One action per critical section of c.mu, per channel operation and per  *)
(* blocking call; between two of them every other goroutine may run.       *)
(***************************************************************************)
EXTENDS Integers

CONSTANTS
  MaxSockets,      \* bound: successful dials
  InitialBackoff,  \* Config.ReconnectInitialBackoff
  MaxBackoff,      \* Config.ReconnectMaxBackoff
  SeriesCap,       \* bound: sleeps of one backoff series that are counted
  Closers          \* the calls of Close

ASSUME WsConnAssumption ==
  /\ MaxSockets \in Nat
  /\ InitialBackoff \in Nat \ {0}
  /\ MaxBackoff \in Nat \ {0}
  /\ SeriesCap \in Nat

VARIABLES
  sup,        \* where the supervise goroutine is
  socket,     \* c.socket: the published socket, NoSocket for nil
  dials,      \* sockets dialed so far; the last one is the supervisor's
  conn,       \* the state of each socket
  closed,     \* c.closed
  cancelled,  \* superviseCtx.Err() # nil
  connected,  \* result of the latest connectAndRun
  backoff,    \* supervise: the unjittered delay of the next sleep
  series,     \* history: sleeps since the series began, at most SeriesCap
  closer      \* per call of Close: its position and what it read under mu

supVars == <<sup, socket, dials, conn, connected, backoff, series>>
connVars == <<supVars, closed, cancelled, closer>>

NoSocket == 0
Sockets == 1 .. MaxSockets

SupState == {"off", "top", "dialing", "publish", "replay", "reading",
             "unpublish", "shut", "failing", "bottom", "sleeping", "stopped"}

\* "open": usable.  "broken": the network, the peer or a deadline has failed
\* it, this process has not closed it.  "closed": socket.Close() was called.
SocketState == {"none", "open", "broken", "closed"}

CloserState == {"idle", "cancel", "shut", "failing", "done"}

InitConn ==
  /\ sup = "off"
  /\ socket = NoSocket
  /\ dials = 0
  /\ conn = [s \in Sockets |-> "none"]
  /\ closed = FALSE
  /\ cancelled = FALSE
  /\ connected = FALSE
  /\ backoff = InitialBackoff
  /\ series = 0
  /\ closer = [k \in Closers |-> [pc |-> "idle", socket |-> NoSocket, cancel |-> FALSE]]

\* A write on s may succeed / may fail.  A broken socket still takes bytes
\* into its buffers until the failure is noticed.
Writable(s) == conn[s] \in {"open", "broken"}
WriteFails(s) == conn[s] \in {"broken", "closed"}

\* socket.Close() is idempotent.
Closing(s) == [conn EXCEPT ![s] = "closed"]

-----------------------------------------------------------------------------
(* Start and Close *)

\* startOnce: stores cancel under mu, then launches the supervisor.
Start ==
  /\ sup = "off"
  /\ sup' = "top"
  /\ UNCHANGED <<socket, dials, conn, connected, backoff, series, closed, cancelled, closer>>

\* The parent context given to Start ends.
ContextEnds ==
  /\ sup # "off"
  /\ cancelled' = TRUE
  /\ UNCHANGED <<supVars, closed, closer>>

\* The critical section of Close: c.cancel is nil until Start has run.
CloseMark(k) ==
  /\ closer[k].pc = "idle"
  /\ closed' = TRUE
  /\ closer' = [closer EXCEPT ![k] =
                  [pc |-> "cancel", socket |-> socket, cancel |-> sup # "off"]]
  /\ UNCHANGED <<supVars, cancelled>>

\* Mutant: Close does not cancel the supervisor's context.
CloseCancelSkipped(k) ==
  /\ closer[k].pc = "cancel"
  /\ closer' = [closer EXCEPT ![k].pc = "shut"]
  /\ UNCHANGED <<supVars, closed, cancelled>>

CloseCancel(k) ==
  /\ closer[k].pc = "cancel"
  /\ cancelled' = (cancelled \/ closer[k].cancel)
  /\ closer' = [closer EXCEPT ![k].pc = "shut"]
  /\ UNCHANGED <<supVars, closed>>

\* Mutant: Close leaves the socket to the supervisor.
CloseSocketSkipped(k) ==
  /\ closer[k].pc = "shut"
  /\ closer' = [closer EXCEPT ![k].pc = "failing"]
  /\ UNCHANGED <<supVars, closed, cancelled>>

CloseSocket(k) ==
  /\ closer[k].pc = "shut"
  /\ conn' = IF closer[k].socket = NoSocket THEN conn ELSE Closing(closer[k].socket)
  /\ closer' = [closer EXCEPT ![k].pc = "failing"]
  /\ UNCHANGED <<sup, socket, dials, connected, backoff, series, closed, cancelled>>

\* failAllPending(ErrConnClosed); its effect on the requests is in WsPost.
CloseFailPending(k) ==
  /\ closer[k].pc = "failing"
  /\ closer' = [closer EXCEPT ![k].pc = "done"]
  /\ UNCHANGED <<supVars, closed, cancelled>>

-----------------------------------------------------------------------------
(* supervise and connectAndRun *)

SupGoes(from, to) == sup = from /\ sup' = to

\* ctx.Err() at the head of the loop.
Top ==
  /\ SupGoes("top", IF cancelled THEN "stopped" ELSE "dialing")
  /\ UNCHANGED <<socket, dials, conn, connected, backoff, series, closed, cancelled, closer>>

\* A dial may fail at any time, and does when ctx has ended.
DialFails ==
  /\ SupGoes("dialing", "bottom")
  /\ connected' = FALSE
  /\ UNCHANGED <<socket, dials, conn, backoff, series, closed, cancelled, closer>>

DialSucceeds ==
  /\ SupGoes("dialing", "publish")
  /\ dials < MaxSockets
  /\ dials' = dials + 1
  /\ conn' = [conn EXCEPT ![dials + 1] = "open"]
  /\ connected' = TRUE
  /\ UNCHANGED <<socket, backoff, series, closed, cancelled, closer>>

\* Mutant: the socket is published without a look at c.closed.
PublishUnchecked ==
  /\ SupGoes("publish", "replay")
  /\ socket' = dials
  /\ UNCHANGED <<dials, conn, connected, backoff, series, closed, cancelled, closer>>

\* Under mu, with Close not called yet: the socket becomes visible to callers.
Publish ==
  /\ SupGoes("publish", "replay")
  /\ ~ closed
  /\ socket' = dials
  /\ UNCHANGED <<dials, conn, connected, backoff, series, closed, cancelled, closer>>

\* Mutant: the refused socket is forgotten without being closed.
PublishRefusedLeaks ==
  /\ SupGoes("publish", "bottom")
  /\ closed
  /\ UNCHANGED <<socket, dials, conn, connected, backoff, series, closed, cancelled, closer>>

\* Under mu, after Close: the fresh socket is closed and never published.
PublishRefused ==
  /\ SupGoes("publish", "bottom")
  /\ closed
  /\ conn' = Closing(dials)
  /\ UNCHANGED <<socket, dials, connected, backoff, series, closed, cancelled, closer>>

\* All subscribe frames of the registry were written; the loops start.
ReplayDone ==
  /\ SupGoes("replay", "reading")
  /\ UNCHANGED <<socket, dials, conn, connected, backoff, series, closed, cancelled, closer>>

ReplayFails ==
  /\ SupGoes("replay", "unpublish")
  /\ WriteFails(dials)
  /\ UNCHANGED <<socket, dials, conn, connected, backoff, series, closed, cancelled, closer>>

\* ReadMessage returns an error (peer, read deadline or a local Close).
ReadFails ==
  /\ SupGoes("reading", "unpublish")
  /\ conn[dials] # "open"
  /\ UNCHANGED <<socket, dials, conn, connected, backoff, series, closed, cancelled, closer>>

\* The deferred clean-up: c.socket = nil, socket.Close(), failAllPending.
Unpublish ==
  /\ SupGoes("unpublish", "shut")
  /\ socket' = NoSocket
  /\ UNCHANGED <<dials, conn, connected, backoff, series, closed, cancelled, closer>>

Shut ==
  /\ SupGoes("shut", "failing")
  /\ conn' = Closing(dials)
  /\ UNCHANGED <<socket, dials, connected, backoff, series, closed, cancelled, closer>>

\* failAllPending(ErrDisconnected); its effect on the requests is in WsPost.
FailPending ==
  /\ SupGoes("failing", "bottom")
  /\ UNCHANGED <<socket, dials, conn, connected, backoff, series, closed, cancelled, closer>>

\* Mutant: the supervisor ends with the first session.
BottomGivesUp ==
  /\ SupGoes("bottom", IF cancelled \/ connected THEN "stopped" ELSE "sleeping")
  /\ UNCHANGED <<socket, dials, conn, connected, backoff, series, closed, cancelled, closer>>

\* After connectAndRun: stop, or begin to sleep; a session resets the delay.
Bottom ==
  /\ SupGoes("bottom", IF cancelled THEN "stopped" ELSE "sleeping")
  /\ IF connected /\ ~ cancelled
       THEN backoff' = InitialBackoff /\ series' = 0
       ELSE UNCHANGED <<backoff, series>>
  /\ UNCHANGED <<socket, dials, conn, connected, closed, cancelled, closer>>

\* Mutant: no cap.
NextBackoffUncapped(d) == 2 * d

NextBackoff(d) == IF 2 * d > MaxBackoff THEN MaxBackoff ELSE 2 * d

SleepEnds ==
  /\ SupGoes("sleeping", "top")
  /\ backoff' = NextBackoff(backoff)
  /\ series' = IF series < SeriesCap THEN series + 1 ELSE series
  /\ UNCHANGED <<socket, dials, conn, connected, closed, cancelled, closer>>

SleepCut ==
  /\ SupGoes("sleeping", "stopped")
  /\ cancelled
  /\ UNCHANGED <<socket, dials, conn, connected, backoff, series, closed, cancelled, closer>>

-----------------------------------------------------------------------------
(* The two goroutines of a running connection, and the network *)

\* The watcher closes the socket once ctx has ended, unblocking ReadMessage.
\* (It also does when the read loop has failed, which no one can tell apart: a
\* write to a broken socket may fail as one to a closed socket does.)
Watch ==
  /\ sup = "reading"
  /\ cancelled
  /\ conn[dials] # "closed"
  /\ conn' = Closing(dials)
  /\ UNCHANGED <<sup, socket, dials, connected, backoff, series, closed, cancelled, closer>>

\* The ping loop closes a socket it could not write to.
PingFails ==
  /\ sup = "reading"
  /\ conn[dials] = "broken"
  /\ conn' = Closing(dials)
  /\ UNCHANGED <<sup, socket, dials, connected, backoff, series, closed, cancelled, closer>>

\* The peer or the network drops the connection, or goes silent.
Break(s) ==
  /\ conn[s] = "open"
  /\ conn' = [conn EXCEPT ![s] = "broken"]
  /\ UNCHANGED <<sup, socket, dials, connected, backoff, series, closed, cancelled, closer>>

-----------------------------------------------------------------------------
\* The steps to which the extending modules attach no effect: those of the
\* supervisor, and those of callers, of the helper goroutines and the network.
SupPlain ==
  \/ Top \/ DialFails \/ DialSucceeds \/ PublishRefused \/ ReplayFails
  \/ Unpublish \/ Shut \/ Bottom \/ SleepEnds \/ SleepCut

AroundStep ==
  \/ Start \/ ContextEnds \/ Watch \/ PingFails
  \/ \E k \in Closers : CloseMark(k) \/ CloseCancel(k) \/ CloseSocket(k)
  \/ \E s \in Sockets : Break(s)

SupStep == SupPlain \/ Publish \/ ReplayDone \/ ReadFails \/ FailPending

NextConn ==
  \/ SupStep
  \/ AroundStep
  \/ \E k \in Closers : CloseFailPending(k)

SpecConn == InitConn /\ [][NextConn]_connVars

-----------------------------------------------------------------------------
TypeOKConn ==
  /\ sup \in SupState
  /\ socket \in Sockets \cup {NoSocket}
  /\ dials \in Sockets \cup {0}
  /\ conn \in [Sockets -> SocketState]
  /\ closed \in BOOLEAN
  /\ cancelled \in BOOLEAN
  /\ connected \in BOOLEAN
  /\ backoff \in Nat
  /\ series \in 0 .. SeriesCap
  /\ closer \in [Closers -> [pc : CloserState,
                             socket : Sockets \cup {NoSocket},
                             cancel : BOOLEAN]]

\* The supervisor positions in which connectAndRun owns a live socket.
Holding == {"publish", "replay", "reading", "unpublish", "shut"}

(***************************************************************************)
(* Every socket ever dialed is closed, except the one the supervisor is    *)
(* running; callers only see that one, and only from its publication to    *)
(* the first step of its clean-up.  No way out of connectAndRun (Close     *)
(* during the dial, a failed replay, a dead peer, the end of the context)  *)
(* leaks a socket or leaves a stale one published.                         *)
(***************************************************************************)
SocketLifetime ==
  /\ \A s \in Sockets : Writable(s) => s = dials /\ sup \in Holding
  /\ socket # NoSocket =>
       socket = dials /\ sup \in {"replay", "reading", "unpublish"}

(***************************************************************************)
(* After Close has marked the connection, no socket becomes visible any    *)
(* more, wherever the supervisor was: "terminates the connection           *)
(* permanently" (conn.go:202).                                             *)
(***************************************************************************)
NothingPublishedAfterClose ==
  [][closed => socket' \in {socket, NoSocket}]_connVars

(***************************************************************************)
(* The n-th delay of a series of attempts is the initial one doubled n     *)
(* times and capped; a session that reached a live socket starts a new     *)
(* series (conn.go:446-449).                                               *)
(***************************************************************************)
BackoffLaw ==
  sup = "sleeping" /\ series < SeriesCap =>
    backoff = IF series = 0 THEN InitialBackoff
              ELSE IF InitialBackoff * 2 ^ series > MaxBackoff THEN MaxBackoff
              ELSE InitialBackoff * 2 ^ series

AllReleased == \A s \in Sockets : conn[s] \in {"none", "closed"}

(***************************************************************************)
(* A Close that found the connection started ends the supervisor for good, *)
(* with every socket closed, also when it races the dial, the replay, the  *)
(* clean-up or the sleep.                                                  *)
(***************************************************************************)
CloseStops ==
  \A k \in Closers :
    closer[k].cancel ~> [](sup = "stopped" /\ AllReleased)

(***************************************************************************)
(* A published socket that fails is replaced: unless the connection is     *)
(* being ended, a later dial publishes a new one.                          *)
(***************************************************************************)
Recovers ==
  \A s \in Sockets :
    socket = s /\ conn[s] # "open" /\ s < MaxSockets
      ~> (socket > s \/ closed \/ cancelled)
=============================================================================
