--------------------------- MODULE WsConn_proofs ---------------------------
(***************************************************************************)
(* Proofs about the connection life cycle, for every number of dials, any  *)
(* set of concurrent calls of Close and any backoff configuration.         *)
(***************************************************************************)
EXTENDS WsConn, FiniteSetTheorems, TLAPS

\* One step of the supervisor or of its surroundings keeps the types.
LEMMA TypeStep ==
  ASSUME TypeOKConn, [NextConn]_connVars
  PROVE  TypeOKConn'
<1> USE WsConnAssumption DEF TypeOKConn, Sockets, NoSocket, connVars, supVars
<1>1. CASE UNCHANGED connVars
  BY <1>1
<1>2. CASE SupStep
  <2> USE DEF SupGoes, SupState, SocketState, Closing
  <2>1. CASE Top
    BY <2>1 DEF Top
  <2>2. CASE DialFails
    BY <2>2 DEF DialFails
  <2>3. CASE DialSucceeds
    BY <2>3 DEF DialSucceeds
  <2>4. CASE PublishRefused
    BY <2>4 DEF PublishRefused
  <2>5. CASE ReplayFails
    BY <2>5 DEF ReplayFails
  <2>6. CASE Unpublish
    BY <2>6 DEF Unpublish
  <2>7. CASE Shut
    BY <2>7 DEF Shut
  <2>8. CASE Bottom
    BY <2>8 DEF Bottom
  <2>9. CASE SleepEnds
    BY <2>9 DEF SleepEnds, NextBackoff
  <2>10. CASE SleepCut
    BY <2>10 DEF SleepCut
  <2>11. CASE Publish
    BY <2>11 DEF Publish
  <2>12. CASE ReplayDone
    BY <2>12 DEF ReplayDone
  <2>13. CASE ReadFails
    BY <2>13 DEF ReadFails
  <2>14. CASE FailPending
    BY <2>14 DEF FailPending
  <2> QED
    BY <1>2, <2>1, <2>2, <2>3, <2>4, <2>5, <2>6, <2>7, <2>8, <2>9, <2>10,
       <2>11, <2>12, <2>13, <2>14 DEF SupStep, SupPlain
<1>3. CASE AroundStep
  <2> USE DEF SupState, SocketState, CloserState, Closing
  <2>1. CASE Start
    BY <2>1 DEF Start
  <2>2. CASE ContextEnds
    BY <2>2 DEF ContextEnds
  <2>3. CASE Watch
    BY <2>3 DEF Watch
  <2>4. CASE PingFails
    BY <2>4 DEF PingFails
  <2>5. ASSUME NEW k \in Closers, CloseMark(k)
        PROVE  TypeOKConn'
    BY <2>5 DEF CloseMark
  <2>6. ASSUME NEW k \in Closers, CloseCancel(k)
        PROVE  TypeOKConn'
    BY <2>6 DEF CloseCancel
  <2>7. ASSUME NEW k \in Closers, CloseSocket(k)
        PROVE  TypeOKConn'
    BY <2>7 DEF CloseSocket
  <2>8. ASSUME NEW s \in Sockets, Break(s)
        PROVE  TypeOKConn'
    BY <2>8 DEF Break
  <2> QED
    BY <1>3, <2>1, <2>2, <2>3, <2>4, <2>5, <2>6, <2>7, <2>8 DEF AroundStep
<1>4. ASSUME NEW k \in Closers, CloseFailPending(k)
      PROVE  TypeOKConn'
  BY <1>4 DEF CloseFailPending, CloserState
<1> QED
  BY <1>1, <1>2, <1>3, <1>4 DEF NextConn

\* The initial state has the right types.
LEMMA InitTypes == InitConn => TypeOKConn
<1> SUFFICES ASSUME InitConn
             PROVE  TypeOKConn
  OBVIOUS
<1> DEFINE idle == [pc |-> "idle", socket |-> NoSocket, cancel |-> FALSE]
<1>1. idle \in [pc : CloserState, socket : Sockets \cup {NoSocket}, cancel : BOOLEAN]
  BY DEF CloserState
<1> HIDE DEF idle
<1>2. closer \in [Closers -> [pc : CloserState,
                             socket : Sockets \cup {NoSocket},
                             cancel : BOOLEAN]]
  BY <1>1 DEF InitConn, idle
<1>3. sup \in SupState /\ conn \in [Sockets -> SocketState]
  BY DEF InitConn, SupState, SocketState
<1>4. backoff \in Nat /\ series \in 0 .. SeriesCap
  BY WsConnAssumption DEF InitConn
<1>5. socket \in Sockets \cup {NoSocket} /\ dials \in Sockets \cup {0}
  BY DEF InitConn
<1>6. closed \in BOOLEAN /\ cancelled \in BOOLEAN /\ connected \in BOOLEAN
  BY DEF InitConn
<1> QED
  BY <1>2, <1>3, <1>4, <1>5, <1>6 DEF TypeOKConn

(***************************************************************************)
(* Every variable of the connection object keeps its type.                 *)
(***************************************************************************)
THEOREM TypeCorrect == SpecConn => []TypeOKConn
  BY InitTypes, TypeStep, PTL DEF SpecConn

\* Steps that move the supervisor among positions that hold no socket, or that
\* leave it where it is, and at most close a socket.
LEMMA LifetimeFrame ==
  ASSUME TypeOKConn, SocketLifetime,
         UNCHANGED <<socket, dials>>,
         \A s \in Sockets : conn'[s] \in {conn[s], "closed"},
         \/ sup' = sup
         \/ sup \notin Holding
         \/ sup \in {"replay", "reading"} /\ sup' \in {"reading", "unpublish"}
  PROVE  SocketLifetime'
  BY DEF SocketLifetime, Writable, Holding, NoSocket

\* One step keeps every socket but the supervisor's closed.
LEMMA LifetimeStep ==
  ASSUME TypeOKConn, SocketLifetime, [NextConn]_connVars
  PROVE  SocketLifetime'
<1> DEFINE Shrinks == \A s \in Sockets : conn'[s] \in {conn[s], "closed"}
<1>1. CASE UNCHANGED connVars
  BY <1>1, LifetimeFrame DEF connVars, supVars
<1>2. CASE SupStep
  <2> USE DEF SupGoes, Holding
  <2>1. CASE Top
    BY <2>1, LifetimeFrame DEF Top
  <2>2. CASE DialFails
    BY <2>2, LifetimeFrame DEF DialFails
  <2>3. CASE DialSucceeds
    <3>1. /\ socket = NoSocket
          /\ \A s \in Sockets : ~ Writable(s)
      BY <2>3 DEF DialSucceeds, SocketLifetime
    <3>2. \A s \in Sockets : Writable(s)' => s = dials'
      BY <2>3, <3>1 DEF DialSucceeds, Writable, TypeOKConn
    <3> QED
      BY <2>3, <3>1, <3>2 DEF DialSucceeds, SocketLifetime
  <2>4. CASE PublishRefused
    <3>1. \A s \in Sockets : ~ Writable(s)'
      BY <2>4 DEF PublishRefused, SocketLifetime, Writable, Closing, TypeOKConn
    <3>2. socket' = NoSocket
      BY <2>4 DEF PublishRefused, SocketLifetime
    <3> QED
      BY <3>1, <3>2 DEF SocketLifetime
  <2>5. CASE ReplayFails
    BY <2>5, LifetimeFrame DEF ReplayFails
  <2>6. CASE Unpublish
    <3>1. \A s \in Sockets : Writable(s)' = Writable(s)
      BY <2>6 DEF Unpublish, Writable
    <3> QED
      BY <2>6, <3>1 DEF Unpublish, SocketLifetime
  <2>7. CASE Shut
    <3>1. \A s \in Sockets : ~ Writable(s)'
      BY <2>7 DEF Shut, SocketLifetime, Writable, Closing, TypeOKConn
    <3>2. socket' = NoSocket
      BY <2>7 DEF Shut, SocketLifetime
    <3> QED
      BY <3>1, <3>2 DEF SocketLifetime
  <2>8. CASE Bottom
    BY <2>8, LifetimeFrame DEF Bottom
  <2>9. CASE SleepEnds
    BY <2>9, LifetimeFrame DEF SleepEnds
  <2>10. CASE SleepCut
    BY <2>10, LifetimeFrame DEF SleepCut
  <2>11. CASE Publish
    <3>1. \A s \in Sockets : Writable(s)' = Writable(s)
      BY <2>11 DEF Publish, Writable
    <3> QED
      BY <2>11, <3>1 DEF Publish, SocketLifetime
  <2>12. CASE ReplayDone
    BY <2>12, LifetimeFrame DEF ReplayDone
  <2>13. CASE ReadFails
    BY <2>13, LifetimeFrame DEF ReadFails
  <2>14. CASE FailPending
    BY <2>14, LifetimeFrame DEF FailPending
  <2> QED
    BY <1>2, <2>1, <2>2, <2>3, <2>4, <2>5, <2>6, <2>7, <2>8, <2>9, <2>10,
       <2>11, <2>12, <2>13, <2>14 DEF SupStep, SupPlain
<1>3. CASE AroundStep
  <2>1. CASE Start
    BY <2>1, LifetimeFrame DEF Start, Holding
  <2>2. CASE ContextEnds
    BY <2>2, LifetimeFrame DEF ContextEnds, supVars
  <2>3. CASE Watch \/ PingFails
    <3>1. Shrinks
      BY <2>3 DEF Watch, PingFails, Closing, TypeOKConn
    <3> QED
      BY <2>3, <3>1, LifetimeFrame DEF Watch, PingFails
  <2>4. ASSUME NEW k \in Closers, CloseMark(k) \/ CloseCancel(k)
        PROVE  SocketLifetime'
    BY <2>4, LifetimeFrame DEF CloseMark, CloseCancel, supVars
  <2>5. ASSUME NEW k \in Closers, CloseSocket(k)
        PROVE  SocketLifetime'
    <3>1. Shrinks
      BY <2>5 DEF CloseSocket, Closing, TypeOKConn
    <3> QED
      BY <2>5, <3>1, LifetimeFrame DEF CloseSocket
  <2>6. ASSUME NEW s \in Sockets, Break(s)
        PROVE  SocketLifetime'
    <3>1. \A r \in Sockets : Writable(r)' = Writable(r)
      BY <2>6 DEF Break, Writable, TypeOKConn
    <3> QED
      BY <2>6, <3>1 DEF Break, SocketLifetime
  <2> QED
    BY <1>3, <2>1, <2>2, <2>3, <2>4, <2>5, <2>6 DEF AroundStep
<1>4. ASSUME NEW k \in Closers, CloseFailPending(k)
      PROVE  SocketLifetime'
  BY <1>4, LifetimeFrame DEF CloseFailPending, supVars
<1> QED
  BY <1>1, <1>2, <1>3, <1>4 DEF NextConn

(***************************************************************************)
(* No way out of connectAndRun leaks a socket, and callers only ever see   *)
(* the socket the supervisor is running.                                   *)
(***************************************************************************)
THEOREM SocketsReleased == SpecConn => []SocketLifetime
<1>1. InitConn => SocketLifetime
  BY DEF InitConn, SocketLifetime, Writable
<1>2. TypeOKConn /\ SocketLifetime /\ [NextConn]_connVars => SocketLifetime'
  BY LifetimeStep
<1> QED
  BY <1>1, <1>2, TypeCorrect, PTL DEF SpecConn

(***************************************************************************)
(* Once Close has marked the connection no socket is published any more:   *)
(* Publish, the only step that makes one visible, looks at closed under    *)
(* the same lock.                                                          *)
(***************************************************************************)
THEOREM CloseIsFinal == SpecConn => NothingPublishedAfterClose
<1>1. ASSUME [NextConn]_connVars, closed
      PROVE  socket' \in {socket, NoSocket}
  BY <1>1
     DEF NextConn, SupStep, SupPlain, AroundStep, SupGoes, connVars, supVars,
         Top, DialFails, DialSucceeds, PublishRefused, ReplayFails, Unpublish,
         Shut, Bottom, SleepEnds, SleepCut, Publish, ReplayDone, ReadFails,
         FailPending, Start, ContextEnds, Watch, PingFails, CloseMark,
         CloseCancel, CloseSocket, CloseFailPending, Break
<1> QED
  BY <1>1, PTL DEF SpecConn, NothingPublishedAfterClose

-----------------------------------------------------------------------------
(* The backoff *)

\* A set with one element more has twice as many subsets, whence powers of two.
LEMMA PowerDoubles ==
  ASSUME NEW n \in Nat
  PROVE  2 ^ n \in Nat /\ 2 ^ (n + 1) = 2 * 2 ^ n
<1> DEFINE A == 1 .. n
           x == n + 1
           Ax == {B \cup {x} : B \in SUBSET A}
<1>1. IsFiniteSet(A) /\ Cardinality(A) = n
  <2>1. /\ IsFiniteSet(1 .. n)
        /\ Cardinality(1 .. n) = IF 1 > n THEN 0 ELSE n - 1 + 1
    <3>1. 1 \in Int /\ n \in Int
      OBVIOUS
    <3> QED
      BY <3>1, FS_Interval
  <2> QED
    BY <2>1
<1>2. x \notin A
  OBVIOUS
<1>3. IsFiniteSet(A \cup {x}) /\ Cardinality(A \cup {x}) = n + 1
  <2> HIDE DEF A, x
  <2> QED
    BY <1>1, <1>2, FS_AddElement
<1> HIDE DEF A, x
<1>4. /\ IsFiniteSet(SUBSET A) /\ Cardinality(SUBSET A) = 2 ^ n
      /\ Cardinality(SUBSET (A \cup {x})) = 2 ^ (n + 1)
  BY <1>1, <1>3, FS_SUBSET
<1>5. IsFiniteSet(Ax) /\ Cardinality(Ax) = Cardinality(SUBSET A)
  <2> DEFINE f == [B \in SUBSET A |-> B \cup {x}]
  <2>1. f \in [SUBSET A -> Ax]
    OBVIOUS
  <2>2. ASSUME NEW B \in SUBSET A, NEW C \in SUBSET A, f[B] = f[C]
        PROVE  B = C
    <3>1. B \cup {x} = C \cup {x}
      BY <2>2
    <3>2. B = (B \cup {x}) \ {x} /\ C = (C \cup {x}) \ {x}
      BY <1>2
    <3> QED
      BY <3>1, <3>2, Zenon
  <2>3. f \in Injection(SUBSET A, Ax)
    BY <2>1, <2>2 DEF Injection, IsInjective
  <2>4. f \in Surjection(SUBSET A, Ax)
    BY <2>1 DEF Surjection
  <2>5. ExistsBijection(SUBSET A, Ax)
    BY <2>3, <2>4 DEF ExistsBijection, Bijection
  <2> HIDE DEF Ax
  <2> QED
    BY <1>4, <2>5, FS_Bijection
<1>6. SUBSET (A \cup {x}) = (SUBSET A) \cup Ax
  <2>1. ASSUME NEW C \in SUBSET (A \cup {x}), C \notin SUBSET A
        PROVE  C \in Ax
    <3>1. C = (C \ {x}) \cup {x} /\ C \ {x} \in SUBSET A
      BY <2>1
    <3> QED
      BY <3>1
  <2>2. Ax \subseteq SUBSET (A \cup {x})
    OBVIOUS
  <2> QED
    BY <2>1, <2>2
<1>7. (SUBSET A) \cap Ax = {}
  BY <1>2
<1> HIDE DEF Ax
<1>8. Cardinality((SUBSET A) \cup Ax) = Cardinality(SUBSET A) + Cardinality(Ax) - Cardinality({})
  <2>1. Cardinality((SUBSET A) \cup Ax)
          = Cardinality(SUBSET A) + Cardinality(Ax) - Cardinality((SUBSET A) \cap Ax)
    BY <1>4, <1>5, FS_Union
  <2> QED
    BY <1>7, <2>1
<1>9. Cardinality({}) = 0 /\ Cardinality(SUBSET A) \in Nat
  BY <1>4, FS_EmptySet, FS_CardinalityType
<1>10. 2 ^ (n + 1) = 2 ^ n + 2 ^ n - 0
  BY <1>4, <1>5, <1>6, <1>8, <1>9, Zenon
<1>11. 2 ^ n \in Nat
  BY <1>4, <1>9, Zenon
<1> QED
  BY <1>10, <1>11

\* The n-th delay of a series.
DelayOf(n) ==
  IF n = 0 THEN InitialBackoff
  ELSE IF InitialBackoff * 2 ^ n > MaxBackoff THEN MaxBackoff
  ELSE InitialBackoff * 2 ^ n

LEMMA DelayGrows ==
  ASSUME NEW n \in Nat
  PROVE  NextBackoff(DelayOf(n)) = DelayOf(n + 1)
<1> DEFINE p == 2 ^ n
           d == InitialBackoff * p
<1>1. p \in Nat /\ 2 ^ (n + 1) = 2 * p
  BY PowerDoubles
<1>2. n = 0 => p = 1
  OBVIOUS
<1> HIDE DEF p
<1>3. InitialBackoff \in Nat \ {0} /\ MaxBackoff \in Nat \ {0}
  BY WsConnAssumption
<1>4. d \in Nat /\ InitialBackoff * (2 * p) = 2 * d /\ (n = 0 => d = InitialBackoff)
  BY <1>1, <1>2, <1>3
<1>5. /\ n # 0 => DelayOf(n) = IF d > MaxBackoff THEN MaxBackoff ELSE d
      /\ n = 0 => DelayOf(n) = d
      /\ DelayOf(n + 1) = IF 2 * d > MaxBackoff THEN MaxBackoff ELSE 2 * d
  BY <1>1, <1>4 DEF DelayOf, p
<1> HIDE DEF d
<1> QED
  BY <1>3, <1>4, <1>5 DEF NextBackoff

\* While the delays of the series are counted, the next one is as it should be,
\* wherever the supervisor is.
BackoffInv == TypeOKConn /\ (series < SeriesCap => backoff = DelayOf(series))

LEMMA BackoffStep ==
  ASSUME BackoffInv, [NextConn]_connVars
  PROVE  BackoffInv'
<1>1. TypeOKConn'
  BY TypeStep DEF BackoffInv
<1>2. CASE SleepEnds
  <2>1. ASSUME series' < SeriesCap PROVE backoff' = DelayOf(series')
    <3>1. series \in Nat /\ SeriesCap \in Nat
      BY WsConnAssumption DEF BackoffInv, TypeOKConn
    <3>2. series < SeriesCap /\ series' = series + 1 /\ backoff' = NextBackoff(backoff)
      BY <1>2, <2>1, <3>1 DEF SleepEnds
    <3>3. backoff = DelayOf(series)
      BY <3>2 DEF BackoffInv
    <3> QED
      BY <3>1, <3>2, <3>3, DelayGrows
  <2>2. series' < SeriesCap => backoff' = DelayOf(series')
    BY <2>1
  <2> QED
    BY <1>1, <2>2 DEF BackoffInv, DelayOf
<1>3. CASE Bottom
  <2>1. UNCHANGED <<backoff, series>> \/ (backoff' = InitialBackoff /\ series' = 0)
    BY <1>3 DEF Bottom
  <2> QED
    BY <1>1, <2>1 DEF BackoffInv, DelayOf
<1>4. ASSUME ~ SleepEnds, ~ Bottom PROVE BackoffInv'
  <2>1. UNCHANGED <<backoff, series>>
    BY <1>4
       DEF NextConn, SupStep, SupPlain, AroundStep, connVars, supVars,
           Top, DialFails, DialSucceeds, PublishRefused, ReplayFails, Unpublish,
           Shut, SleepCut, Publish, ReplayDone, ReadFails, FailPending, Start,
           ContextEnds, Watch, PingFails, CloseMark, CloseCancel, CloseSocket,
           CloseFailPending, Break
  <2> QED
    BY <1>1, <2>1 DEF BackoffInv, DelayOf
<1> QED
  BY <1>2, <1>3, <1>4

(***************************************************************************)
(* However the attempts, sessions and sleeps follow each other, the n-th   *)
(* delay of a series is the initial one doubled n times and capped.        *)
(***************************************************************************)
THEOREM BackoffIsLawful == SpecConn => []BackoffLaw
<1>1. InitConn => BackoffInv
  BY InitTypes DEF InitConn, BackoffInv, DelayOf
<1>2. BackoffInv /\ [NextConn]_connVars => BackoffInv'
  BY BackoffStep
<1>3. BackoffInv => BackoffLaw
  BY DEF BackoffInv, BackoffLaw, DelayOf
<1> QED
  BY <1>1, <1>2, <1>3, PTL DEF SpecConn
=============================================================================
