---------------------------- MODULE AssetRegistry ----------------------------
(***************************************************************************)
(* The asset registry of a section (internal/assets/registry.go): one      *)
(* metadata snapshot behind an atomic pointer, loaded on first use, swapped *)
(* whole by Refresh and by the automatic refresh, all loads serialised by  *)
(* loadMu.  The exchange's metadata only grows (a coin's asset id is its   *)
(* index), so a snapshot is the number of coins it lists and Nil is 0.     *)
(***************************************************************************)
EXTENDS Naturals

CONSTANTS
  Callers,   \* goroutines that call Get and Refresh
  Ticker,    \* the goroutine of StartAutoRefresh
  Free,      \* nobody holds loadMu
  MaxMeta    \* bound: coins the exchange ever lists

Actors == Callers \cup {Ticker}
Nil == 0

ASSUME RegistryAssumption ==
  /\ Free \notin Actors /\ Ticker \notin Callers
  /\ MaxMeta \in Nat \ {0}

VARIABLES
  meta,      \* what the exchange lists now
  current,   \* the snapshot pointer
  loadMu,    \* holder of the mutex
  pc,        \* where each actor's call is
  op,        \* "get" or "refresh"
  seen,      \* the answer of the load an actor performs
  alive      \* the life context of the client is not done

vars == <<meta, current, loadMu, pc, op, seen, alive>>

TypeOK ==
  /\ meta \in 1 .. MaxMeta
  /\ current \in Nil .. MaxMeta
  /\ loadMu \in Actors \cup {Free}
  /\ pc \in [Actors -> {"idle", "wait", "load", "store", "return", "fail"}]
  /\ op \in [Actors -> {"get", "refresh"}]
  /\ seen \in [Actors -> Nil .. MaxMeta]
  /\ alive \in BOOLEAN

Init ==
  /\ meta = 1
  /\ current = Nil
  /\ loadMu = Free
  /\ pc = [a \in Actors |-> "idle"]
  /\ op = [a \in Actors |-> "get"]
  /\ seen = [a \in Actors |-> Nil]
  /\ alive = TRUE

Goes(a, from, to) == pc[a] = from /\ pc' = [pc EXCEPT ![a] = to]

\* Get's fast path, which finds a snapshot, takes no step here: GetReturns.
GetFirst(c) ==
  /\ current = Nil
  /\ Goes(c, "idle", "wait")
  /\ op' = [op EXCEPT ![c] = "get"]
  /\ UNCHANGED <<meta, current, loadMu, seen, alive>>

\* Refresh, called by anyone or on a tick of the automatic refresh.
Refresh(a) ==
  /\ a = Ticker => alive
  /\ Goes(a, "idle", "wait")
  /\ op' = [op EXCEPT ![a] = "refresh"]
  /\ UNCHANGED <<meta, current, loadMu, seen, alive>>

\* Mutant: the lock does not exclude.
LockUnheld(a) ==
  /\ loadMu' = a
  /\ Goes(a, "wait", IF op[a] = "get" /\ current # Nil THEN "return" ELSE "load")
  /\ UNCHANGED <<meta, current, op, seen, alive>>

\* The waiter looks at nothing but the mutex, its own context included.
Lock(a) ==
  /\ loadMu = Free
  /\ loadMu' = a
  /\ Goes(a, "wait", IF op[a] = "get" /\ current # Nil THEN "return" ELSE "load")
  /\ UNCHANGED <<meta, current, op, seen, alive>>

\* The exchange answers the loader; the answer reaches it later.
Answer(a) ==
  /\ Goes(a, "load", "store")
  /\ seen' = [seen EXCEPT ![a] = meta]
  /\ UNCHANGED <<meta, current, loadMu, op, alive>>

\* Mutant: a call whose load fails queues up again.
LoadRetries(a) ==
  /\ Goes(a, "load", "wait")
  /\ loadMu' = Free
  /\ UNCHANGED <<meta, current, op, seen, alive>>

LoadFails(a) ==
  /\ Goes(a, "load", "fail")
  /\ UNCHANGED <<meta, current, loadMu, op, seen, alive>>

Store(a) ==
  /\ Goes(a, "store", "return")
  /\ current' = seen[a]
  /\ seen' = [seen EXCEPT ![a] = Nil]
  /\ UNCHANGED <<meta, loadMu, op, alive>>

\* The deferred Unlock; the call returns its snapshot or its error.
Unlock(a) ==
  /\ pc[a] \in {"return", "fail"}
  /\ pc' = [pc EXCEPT ![a] = "idle"]
  /\ loadMu' = Free
  /\ op' = [op EXCEPT ![a] = "get"]
  /\ UNCHANGED <<meta, current, seen, alive>>

\* Get(c) returns a snapshot in this step, by either path.
GetReturns(c) ==
  \/ pc[c] = "idle" /\ current # Nil /\ UNCHANGED vars
  \/ pc[c] = "return" /\ op[c] = "get" /\ Unlock(c)

Cancel ==
  /\ alive /\ alive' = FALSE
  /\ UNCHANGED <<meta, current, loadMu, pc, op, seen>>

\* The exchange lists another coin.
Lists ==
  /\ meta < MaxMeta /\ meta' = meta + 1
  /\ UNCHANGED <<current, loadMu, pc, op, seen, alive>>

RegistryStep(a) ==
  \/ a \in Callers /\ GetFirst(a)
  \/ Refresh(a) \/ Lock(a)
  \/ Answer(a) \/ LoadFails(a) \/ Store(a) \/ Unlock(a)

Next == (\E a \in Actors : RegistryStep(a)) \/ Cancel \/ Lists

Spec == Init /\ [][Next]_vars

\* A load ends: the transport's timeout answers it at the latest.  A Go mutex
\* is handed to a waiter that has waited long enough.
RegistryFairness ==
  \A a \in Actors :
    /\ WF_vars(Answer(a) \/ LoadFails(a))
    /\ WF_vars(Store(a)) /\ WF_vars(Unlock(a))
    /\ SF_vars(Lock(a))

FairSpec == Spec /\ RegistryFairness

(***************************************************************************)
(* Properties.                                                             *)
(***************************************************************************)
\* A refresh never replaces the snapshot by an older one and nothing takes it
\* away, whatever order the loads' answers arrive in (registry.go:127-146): a
\* coin that resolved once resolves ever after.
SnapshotNeverOlder == [][current' >= current]_vars

\* Callers of the first Get share one request: while one of them performs a
\* load there is no snapshot and no other load (registry.go:111-123).
FirstLoadShared ==
  \A a \in Actors : pc[a] \in {"load", "store"} /\ op[a] = "get" =>
    /\ current = Nil
    /\ \A b \in Actors \ {a} : pc[b] \notin {"load", "store"}

\* Whoever waits for loadMu gets its turn and returns, although the wait does
\* not look at the caller's context (registry.go:116, 128).
EveryCallReturns == \A a \in Actors : pc[a] = "wait" ~> pc[a] = "idle"
=============================================================================
