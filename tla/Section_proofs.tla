--------------------------- MODULE Section_proofs ---------------------------
(***************************************************************************)
(* Proofs about the stateful parts of a section: the asset registry and    *)
(* the user streams that filter by it (Pushes), for any number of callers, *)
(* any metadata and pushes of any length, and the operations made of       *)
(* several requests (Account), for any number of concurrent calls, coins,  *)
(* orders and lots, and any behaviour of the account's other clients.      *)
(***************************************************************************)
EXTENDS Pushes, Account, FiniteSetTheorems, SequenceTheorems, TLAPS

(***************************************************************************)
(* The registry.                                                           *)
(***************************************************************************)
Inside == {"load", "store", "return", "fail"}

\* loadMu is held by the one actor inside.
Exclusive == \A a \in Actors : pc[a] \in Inside <=> loadMu = a

\* A snapshot, stored or about to be, is one the exchange has answered.
Answered ==
  /\ current =< meta
  /\ \A a \in Actors : pc[a] = "store" => current =< seen[a] /\ seen[a] \in 1 .. meta

\* Get loads only while there is no snapshot.
FirstOnly ==
  \A a \in Actors : pc[a] \in {"load", "store"} /\ op[a] = "get" => current = Nil

\* Get has a snapshot to return.
GetHasSnapshot == \A a \in Actors : pc[a] = "return" => current # Nil

RegistryInv == TypeOK /\ Exclusive /\ Answered /\ FirstOnly /\ GetHasSnapshot

LEMMA RegistryInit == Init => RegistryInv
BY RegistryAssumption
   DEF Init, RegistryInv, TypeOK, Exclusive, Answered, FirstOnly, GetHasSnapshot, Inside, Nil

LEMMA RegistryTypes ==
  ASSUME RegistryInv, [Next]_vars
  PROVE  TypeOK'
<1> USE RegistryAssumption DEF RegistryInv, TypeOK, Goes, Nil
<1>1. CASE UNCHANGED vars
  BY <1>1 DEF vars
<1>2. CASE Cancel
  BY <1>2 DEF Cancel
<1>3. CASE Lists
  BY <1>3 DEF Lists
<1>4. ASSUME NEW a \in Actors, RegistryStep(a)
      PROVE TypeOK'
  <2>1. CASE GetFirst(a)
    BY <2>1 DEF GetFirst
  <2>2. CASE Refresh(a)
    BY <2>2 DEF Refresh
  <2>3. CASE Lock(a)
    BY <2>3 DEF Lock
  <2>4. CASE Answer(a)
    BY <2>4 DEF Answer
  <2>5. CASE LoadFails(a)
    BY <2>5 DEF LoadFails
  <2>6. CASE Store(a)
    BY <2>6 DEF Store
  <2>7. CASE Unlock(a)
    BY <2>7 DEF Unlock
  <2> QED
    BY <1>4, <2>1, <2>2, <2>3, <2>4, <2>5, <2>6, <2>7 DEF RegistryStep
<1> QED
  BY <1>1, <1>2, <1>3, <1>4 DEF Next

LEMMA RegistryKept ==
  ASSUME RegistryInv, [Next]_vars
  PROVE  RegistryInv' /\ current' >= current
<1>0. TypeOK'
  BY RegistryTypes
<1> DEFINE Rest == Exclusive' /\ Answered' /\ FirstOnly' /\ GetHasSnapshot' /\ current' >= current
<1> USE RegistryAssumption
        DEF RegistryInv, TypeOK, Exclusive, Answered, FirstOnly, GetHasSnapshot, Inside, Goes, Nil
<1>1. ASSUME UNCHANGED vars PROVE Rest
  BY <1>1 DEF vars
<1>2. ASSUME Cancel PROVE Rest
  BY <1>2 DEF Cancel
<1>3. ASSUME Lists PROVE Rest
  BY <1>3 DEF Lists
<1>4. ASSUME NEW a \in Actors, RegistryStep(a)
      PROVE Rest
  <2>1. CASE GetFirst(a)
    BY <2>1 DEF GetFirst
  <2>2. CASE Refresh(a)
    BY <2>2 DEF Refresh
  <2>3. CASE Lock(a)
    BY <2>3 DEF Lock, Actors
  <2>4. CASE Answer(a)
    BY <2>4 DEF Answer
  <2>5. CASE LoadFails(a)
    BY <2>5 DEF LoadFails
  <2>6. CASE Store(a)
    BY <2>6 DEF Store
  <2>7. CASE Unlock(a)
    BY <2>7 DEF Unlock, Actors
  <2> QED
    BY <1>4, <2>1, <2>2, <2>3, <2>4, <2>5, <2>6, <2>7 DEF RegistryStep
<1> QED
  BY <1>0, <1>1, <1>2, <1>3, <1>4 DEF Next

(***************************************************************************)
(* The stream.                                                             *)
(***************************************************************************)
\* A stream only reads the registry: its steps are steps of it or none.
LEMMA StreamReads ==
  ASSUME [NextPushes]_allVars
  PROVE  [Next]_vars
<1>1. Watcher \in Actors
  BY PushesAssumption DEF Actors
<1>2. CASE UNCHANGED allVars
  BY <1>2 DEF allVars
<1>3. CASE Next /\ UNCHANGED pushVars
  BY <1>3
<1>4. CASE StreamStep
  <2>1. CASE Watch
    BY <1>1, <2>1 DEF Watch, GetReturns, Next, RegistryStep
  <2>2. CASE (\E p \in AllPushes : Receive(p)) \/ FilterOne \/ FilterEnds \/ Deliver
    BY <2>2 DEF Receive, FilterOne, FilterEnds, Deliver
  <2> QED
    BY <1>4, <2>1, <2>2 DEF StreamStep
<1> QED
  BY <1>2, <1>3, <1>4 DEF NextPushes

LEMMA WatchHasSnapshot ==
  ASSUME RegistryInv, Watch
  PROVE  current' # Nil
<1>1. Watcher \in Actors
  BY PushesAssumption DEF Actors
<1> QED
  BY <1>1 DEF Watch, GetReturns, Unlock, RegistryInv, GetHasSnapshot, vars

LEMMA FilterReadyStep ==
  ASSUME RegistryInv, FilterReady, [NextPushes]_allVars
  PROVE  FilterReady'
<1>1. current \in Nat /\ current' \in Nat /\ current' >= current
  BY StreamReads, RegistryKept, RegistryAssumption DEF RegistryInv, TypeOK, Nil
<1>2. CASE Watch
  BY <1>2, WatchHasSnapshot DEF FilterReady
<1>3. CASE UNCHANGED watching
  BY <1>1, <1>3 DEF FilterReady, Nil
<1>4. Watch \/ UNCHANGED watching
  BY DEF NextPushes, StreamStep, Receive, FilterOne, FilterEnds, Deliver, allVars, pushVars
<1> QED
  BY <1>2, <1>3, <1>4

(***************************************************************************)
(* What a handler gets.                                                    *)
(***************************************************************************)
Cell == [coin : PushCoins \cup {0}, oid : Oids \cup {0}, opt : Opts \cup {Absent, Unset}]

StreamTypes ==
  /\ push \in AllPushes
  /\ reader \in {"read", "filter", "deliver"}
  /\ slots \in [1 .. MaxLen -> Cell]
  /\ flag \in BOOLEAN
  /\ at \in Nat \ {0}
  /\ own \in Seq(Cell)

\* The decode target holds the push.
Loaded ==
  reader # "read" =>
    /\ flag = push.snapshot
    /\ \A i \in DOMAIN push.items : Key(slots[i]) = Key(push.items[i])

\* The elements taken so far: all that base listed, none that is not listed.
Taken ==
  reader # "read" =>
    /\ base =< current /\ base \in Nat
    /\ at =< Len(push.items) + 1
    /\ reader = "deliver" => at = Len(push.items) + 1
    /\ \E S \in SUBSET (1 .. at - 1) :
         /\ Listed(base) \cap (1 .. at - 1) \subseteq S
         /\ S \subseteq Listed(current)
         /\ Keys(own) = Keys(Chosen(S))

StreamInv == StreamTypes /\ Loaded /\ Taken

\* The subsequence of a set of places grows at its end when the set does.
LEMMA ChosenGrows ==
  ASSUME NEW S \in SUBSET Nat, IsFiniteSet(S), NEW m \in Nat, \A i \in S : i < m
  PROVE  /\ Cardinality(S) \in Nat
         /\ DOMAIN Chosen(S) = 1 .. Cardinality(S)
         /\ DOMAIN Chosen(S \cup {m}) = 1 .. (Cardinality(S) + 1)
         /\ \A n \in 1 .. Cardinality(S) : Chosen(S \cup {m})[n] = Chosen(S)[n]
         /\ Chosen(S \cup {m})[Cardinality(S) + 1] = push.items[m]
<1> DEFINE T == S \cup {m}
           rank(U, i) == Cardinality({j \in U : j =< i})
           place(U, n) == CHOOSE i \in U : rank(U, i) = n
<1>1. Cardinality(S) \in Nat /\ m \notin S
  BY FS_CardinalityType
<1>2. Cardinality(T) = Cardinality(S) + 1
  BY <1>1, FS_AddElement
<1>3. \A i \in S : rank(T, i) = rank(S, i)
  <2> SUFFICES ASSUME NEW i \in S PROVE rank(T, i) = rank(S, i)
    BY Zenon
  <2>1. {j \in T : j =< i} = {j \in S : j =< i}
    OBVIOUS
  <2> QED
    BY <2>1
<1>4. rank(T, m) = Cardinality(S) + 1
  <2>1. \A j \in T : j =< m
    OBVIOUS
  <2>2. {j \in T : j =< m} = T
    BY <2>1, Zenon
  <2> QED
    BY <1>2, <2>2, Zenon
<1>5. \A i \in S : rank(S, i) \in Nat /\ rank(S, i) =< Cardinality(S)
  <2> SUFFICES ASSUME NEW i \in S
               PROVE rank(S, i) \in Nat /\ rank(S, i) =< Cardinality(S)
    BY Zenon
  <2>1. {j \in S : j =< i} \in SUBSET S
    OBVIOUS
  <2> QED
    BY <2>1, FS_Subset, FS_CardinalityType
<1> HIDE DEF rank
<1>6. \A n \in 1 .. Cardinality(S) : place(T, n) = place(S, n)
  <2> SUFFICES ASSUME NEW n \in 1 .. Cardinality(S) PROVE place(T, n) = place(S, n)
    BY Zenon
  <2>1. n # Cardinality(S) + 1
    BY <1>1
  <2>2. \A i : (i \in T /\ rank(T, i) = n) <=> (i \in S /\ rank(S, i) = n)
    BY <1>1, <1>3, <1>4, <2>1
  <2> QED
    BY <2>2, Zenon
<1>7. place(T, Cardinality(S) + 1) = m
  <2>1. m \in T /\ rank(T, m) = Cardinality(S) + 1
    BY <1>4
  <2>2. \A i \in T : rank(T, i) = Cardinality(S) + 1 => i = m
    <3> SUFFICES ASSUME NEW i \in S PROVE rank(T, i) # Cardinality(S) + 1
      OBVIOUS
    <3>1. rank(T, i) \in Nat /\ rank(T, i) =< Cardinality(S)
      BY <1>3, <1>5
    <3> QED
      BY <1>1, <3>1
  <2> QED
    BY <2>1, <2>2
<1>8. \A U : Chosen(U) = [n \in 1 .. Cardinality(U) |-> push.items[place(U, n)]]
  BY DEF Chosen, rank
<1> HIDE DEF place
<1> QED
  <2>1. Chosen(S) = [n \in 1 .. Cardinality(S) |-> push.items[place(S, n)]]
    BY <1>8
  <2>2. Chosen(T) = [n \in 1 .. Cardinality(S) + 1 |-> push.items[place(T, n)]]
    BY <1>2, <1>8
  <2>3. Cardinality(S) + 1 \in 1 .. Cardinality(S) + 1
        /\ 1 .. Cardinality(S) \subseteq 1 .. Cardinality(S) + 1
    BY <1>1
  <2> HIDE DEF T
  <2>4. /\ DOMAIN Chosen(T) = 1 .. Cardinality(S) + 1
        /\ \A n \in 1 .. Cardinality(S) : Chosen(T)[n] = Chosen(S)[n]
        /\ Chosen(T)[Cardinality(S) + 1] = push.items[m]
    BY <1>6, <1>7, <2>1, <2>2, <2>3
  <2> QED
    BY <1>1, <2>1, <2>4 DEF T

LEMMA PushShape ==
  ASSUME NEW p \in AllPushes
  PROVE  /\ p.snapshot \in BOOLEAN
         /\ Len(p.items) \in 0 .. MaxLen
         /\ DOMAIN p.items = 1 .. Len(p.items)
         /\ \A i \in DOMAIN p.items : p.items[i] \in Elements
BY PushesAssumption DEF AllPushes

LEMMA StreamTypesStep ==
  ASSUME StreamTypes, [NextPushes]_allVars
  PROVE  StreamTypes'
<1> USE DEF StreamTypes
<1>1. CASE UNCHANGED pushVars
  BY <1>1 DEF pushVars
<1>2. CASE Watch
  BY <1>2 DEF Watch
<1>3. ASSUME NEW p \in AllPushes, Receive(p) PROVE StreamTypes'
  <2>1. \A e \in Elements, c \in Cell : Written(c, e) \in Cell
    BY DEF Written, Elements, Cell
  <2>2. \A n \in 0 .. Len(p.items) : Decoded(n, p.items) \in [1 .. MaxLen -> Cell]
    BY <2>1, PushShape, PushesAssumption DEF Decoded
  <2>3. slots' \in [1 .. MaxLen -> Cell]
    <3>1. Len(p.items) \in 0 .. Len(p.items) /\ 0 .. Len(p.items) - 1 \subseteq 0 .. Len(p.items)
      BY PushShape
    <3>2. PICK n \in 0 .. Len(p.items) : slots' = Decoded(n, p.items)
      BY <1>3, <3>1 DEF Receive
    <3> QED
      BY <2>2, <3>2
  <2>4. flag' \in BOOLEAN
    BY <1>3, PushShape DEF Receive, FlagReset
  <2>5. push' \in AllPushes /\ reader' \in {"read", "filter", "deliver"} /\ at' \in Nat \ {0}
    BY <1>3 DEF Receive
  <2>6. own' \in Seq(Cell)
    BY <1>3, EmptySeq DEF Receive
  <2> QED
    BY <2>3, <2>4, <2>5, <2>6
<1>4. CASE FilterOne
  <2>1. at \in 1 .. MaxLen
    BY <1>4, PushShape, PushesAssumption DEF FilterOne
  <2>2. slots[at] \in Cell
    BY <2>1
  <2> QED
    BY <1>4, <2>1, <2>2 DEF FilterOne
<1>5. CASE FilterEnds
  BY <1>5 DEF FilterEnds
<1>6. CASE Deliver
  <2>1. NoPush \in AllPushes
    <3>1. <<>> \in [1 .. 0 -> Elements] /\ 0 \in 0 .. MaxLen
      BY PushesAssumption
    <3> QED
      BY <3>1 DEF NoPush, AllPushes
  <2> QED
    BY <1>6, <2>1 DEF Deliver
<1> QED
  BY <1>1, <1>2, <1>3, <1>4, <1>5, <1>6 DEF NextPushes, StreamStep, allVars

LEMMA LoadedStep ==
  ASSUME StreamTypes, Loaded, [NextPushes]_allVars
  PROVE  Loaded'
<1> USE DEF Loaded
<1>1. CASE UNCHANGED pushVars \/ Watch \/ FilterOne
  BY <1>1 DEF pushVars, Watch, FilterOne
<1>2. ASSUME NEW p \in AllPushes, Receive(p) PROVE Loaded'
  <2>1. CASE reader' = "read"
    BY <2>1
  <2>2. CASE reader' # "read"
    <3>1. /\ push' = p /\ flag' = p.snapshot
          /\ slots' = Decoded(Len(p.items), p.items)
      BY <1>2, <2>2 DEF Receive, FlagReset
    <3>2. ASSUME NEW i \in DOMAIN p.items PROVE Key(slots'[i]) = Key(p.items[i])
      <4>1. i \in 1 .. MaxLen /\ i =< Len(p.items) /\ p.items[i] \in Elements
        BY PushShape, PushesAssumption
      <4>2. slots'[i] = Written(slots[i], p.items[i])
        BY <3>1, <4>1 DEF StreamTypes, Decoded
      <4> QED
        BY <4>1, <4>2 DEF Written, Key, Elements
    <3> QED
      BY <3>1, <3>2
  <2> QED
    BY <2>1, <2>2
<1>3. CASE FilterEnds
  BY <1>3 DEF FilterEnds
<1>4. CASE Deliver
  BY <1>4 DEF Deliver
<1> QED
  BY <1>1, <1>2, <1>3, <1>4 DEF NextPushes, StreamStep, allVars

LEMMA FilterOneTakes ==
  ASSUME StreamInv, current \in Nat, FilterOne
  PROVE  Taken'
<1>1. /\ at \in 1 .. Len(push.items) /\ DOMAIN push.items = 1 .. Len(push.items)
      /\ Len(push.items) \in Nat
  BY PushShape DEF StreamInv, StreamTypes, FilterOne
<1>2. PICK S \in SUBSET (1 .. at - 1) :
        /\ Listed(base) \cap (1 .. at - 1) \subseteq S
        /\ S \subseteq Listed(current)
        /\ Keys(own) = Keys(Chosen(S))
  BY DEF StreamInv, Taken, FilterOne
<1>3. /\ UNCHANGED <<push, base, current, reader>> /\ at' = at + 1
      /\ reader = "filter" /\ base =< current /\ base \in Nat
  BY DEF FilterOne, vars, StreamInv, Taken
<1>4. Key(slots[at]) = Key(push.items[at])
  BY <1>1, <1>3 DEF StreamInv, Loaded
<1>5. owns(slots[at].coin) <=> at \in Listed(current)
  BY <1>1, <1>4 DEF owns, Listed, Key, Nil
<1>6. at \in Listed(base) => at \in Listed(current)
  BY <1>3 DEF Listed
<1>7. (1 .. at' - 1) = (1 .. at - 1) \cup {at}
  BY <1>1, <1>3
<1>8. CASE ~ owns(slots[at].coin)
  <2>1. own' = own
    BY <1>8 DEF FilterOne
  <2>2. /\ S \in SUBSET (1 .. at' - 1)
        /\ Listed(base) \cap (1 .. at' - 1) \subseteq S
        /\ S \subseteq Listed(current)
        /\ Keys(own') = Keys(Chosen(S))
    BY <1>2, <1>5, <1>6, <1>7, <1>8, <2>1
  <2>3. /\ Listed(base)' = Listed(base) /\ Listed(current)' = Listed(current)
        /\ Chosen(S)' = Chosen(S)
    BY <1>3 DEF Listed, Chosen
  <2>4. at' =< Len(push'.items) + 1
    BY <1>1, <1>3
  <2> QED
    BY <1>3, <2>2, <2>3, <2>4 DEF Taken, Keys
<1>9. CASE owns(slots[at].coin)
  <2>0. PICK T : T = S \cup {at}
    OBVIOUS
  <2>1. own' = Append(own, slots[at])
    BY <1>9 DEF FilterOne
  <2>2. /\ T \in SUBSET (1 .. at' - 1)
        /\ Listed(base) \cap (1 .. at' - 1) \subseteq T
        /\ T \subseteq Listed(current)
    BY <1>2, <1>5, <1>7, <1>9, <2>0
  <2>3. S \in SUBSET Nat /\ IsFiniteSet(S) /\ at \in Nat /\ \A i \in S : i < at
    <3>1. IsFiniteSet(1 .. at - 1)
      <4>1. 1 \in Int /\ at - 1 \in Int
        BY <1>1
      <4> QED
        BY <4>1, FS_Interval
    <3>2. IsFiniteSet(S)
      BY <1>2, <3>1, FS_Subset
    <3> QED
      BY <1>1, <1>2, <3>2
  <2>4. /\ Cardinality(S) \in Nat
        /\ DOMAIN Chosen(S) = 1 .. Cardinality(S)
        /\ DOMAIN Chosen(T) = 1 .. (Cardinality(S) + 1)
        /\ \A n \in 1 .. Cardinality(S) : Chosen(T)[n] = Chosen(S)[n]
        /\ Chosen(T)[Cardinality(S) + 1] = push.items[at]
    BY <2>0, <2>3, ChosenGrows
  <2>5. own \in Seq(Cell) /\ slots[at] \in Cell
    BY <1>1, PushShape, PushesAssumption DEF StreamInv, StreamTypes
  <2>6. DOMAIN own = 1 .. Cardinality(S) /\ \A n \in 1 .. Cardinality(S) : Key(own[n]) = Key(Chosen(S)[n])
    <3>1. DOMAIN Keys(own) = DOMAIN own /\ DOMAIN Keys(Chosen(S)) = DOMAIN Chosen(S)
      BY DEF Keys
    <3>2. DOMAIN own = 1 .. Cardinality(S)
      BY <1>2, <2>4, <3>1
    <3>3. ASSUME NEW n \in 1 .. Cardinality(S) PROVE Key(own[n]) = Key(Chosen(S)[n])
      <4>1. Keys(own)[n] = Key(own[n]) /\ Keys(Chosen(S))[n] = Key(Chosen(S)[n])
        BY <2>4, <3>2 DEF Keys
      <4> QED
        BY <1>2, <4>1
    <3> QED
      BY <3>2, <3>3
  <2>7. Len(own) = Cardinality(S)
    BY <2>4, <2>5, <2>6
  <2>8. /\ DOMAIN own' = 1 .. (Cardinality(S) + 1)
        /\ \A n \in 1 .. Cardinality(S) : own'[n] = own[n]
        /\ own'[Cardinality(S) + 1] = slots[at]
    BY <2>1, <2>4, <2>5, <2>7
  <2>9. \A n \in 1 .. (Cardinality(S) + 1) : Key(own'[n]) = Key(Chosen(T)[n])
    <3> SUFFICES ASSUME NEW n \in 1 .. (Cardinality(S) + 1)
                 PROVE Key(own'[n]) = Key(Chosen(T)[n])
      OBVIOUS
    <3>1. CASE n \in 1 .. Cardinality(S)
      BY <2>4, <2>6, <2>8, <3>1
    <3>2. CASE n = Cardinality(S) + 1
      BY <1>4, <2>4, <2>8, <3>2
    <3> QED
      BY <2>4, <3>1, <3>2
  <2>10. Keys(own') = Keys(Chosen(T))
    <3> DEFINE D == 1 .. (Cardinality(S) + 1)
    <3>1. Keys(own') = [n \in D |-> Key(own'[n])]
      BY <2>8 DEF Keys
    <3>2. Keys(Chosen(T)) = [n \in D |-> Key(Chosen(T)[n])]
      BY <2>4 DEF Keys
    <3> HIDE DEF D
    <3>3. \A n \in D : Key(own'[n]) = Key(Chosen(T)[n])
      BY <2>9 DEF D
    <3> QED
      BY <3>1, <3>2, <3>3
  <2>11. /\ Listed(base)' = Listed(base) /\ Listed(current)' = Listed(current)
         /\ Chosen(T)' = Chosen(T)
    BY <1>3 DEF Listed, Chosen
  <2>12. at' =< Len(push'.items) + 1
    BY <1>1, <1>3
  <2> QED
    BY <1>3, <2>2, <2>10, <2>11, <2>12 DEF Taken, Keys
<1> QED
  BY <1>8, <1>9

LEMMA TakenStep ==
  ASSUME RegistryInv, StreamInv, [NextPushes]_allVars
  PROVE  Taken'
<1>1. current \in Nat /\ current' \in Nat /\ current =< current'
  BY StreamReads, RegistryKept, RegistryAssumption DEF RegistryInv, TypeOK, Nil
<1>2. CASE UNCHANGED pushVars \/ Watch
  <2>1. UNCHANGED <<push, reader, base, at, own>>
    BY <1>2 DEF pushVars, Watch
  <2>2. ASSUME reader # "read" PROVE Taken'
    <3>1. PICK S \in SUBSET (1 .. at - 1) :
            /\ Listed(base) \cap (1 .. at - 1) \subseteq S
            /\ S \subseteq Listed(current)
            /\ Keys(own) = Keys(Chosen(S))
      BY <2>2 DEF StreamInv, Taken
    <3>2. Listed(current) \subseteq Listed(current)'
      BY <1>1, <2>1 DEF Listed
    <3>3. Listed(base)' = Listed(base) /\ Chosen(S)' = Chosen(S) /\ Keys(own)' = Keys(own)
      BY <2>1 DEF Listed, Chosen, Keys
    <3>4. Keys(Chosen(S))' = Keys(Chosen(S))
      BY <3>3 DEF Keys
    <3>5. base =< current' /\ base \in Nat
      BY <1>1, <2>2 DEF StreamInv, Taken
    <3>6. /\ at =< Len(push.items) + 1
          /\ reader = "deliver" => at = Len(push.items) + 1
      BY <2>2 DEF StreamInv, Taken
    <3> QED
      BY <2>1, <3>1, <3>2, <3>3, <3>4, <3>5, <3>6 DEF Taken
  <2> QED
    BY <2>1, <2>2 DEF Taken
<1>3. ASSUME NEW p \in AllPushes, Receive(p) PROVE Taken'
  <2>1. CASE reader' = "read"
    BY <2>1 DEF Taken
  <2>2. CASE reader' # "read"
    <3>1. /\ push' = p /\ base' = current /\ at' = 1 /\ own' = <<>> /\ reader' = "filter"
      BY <1>3, <2>2 DEF Receive
    <3>2. Len(p.items) \in Nat
      BY PushShape
    <3>3. Keys(own') = Keys(Chosen({})')
      <4>1. Cardinality({}) = 0
        BY FS_EmptySet
      <4>2. Chosen({})' = [n \in 1 .. 0 |->
                push'.items[CHOOSE i \in {} : Cardinality({j \in {} : j =< i}) = n]]
        BY <4>1 DEF Chosen
      <4>3. DOMAIN Chosen({})' = {} /\ DOMAIN own' = {}
        BY <3>1, <4>2
      <4> QED
        BY <4>3 DEF Keys
    <3>4. {} \in SUBSET (1 .. at' - 1) /\ (1 .. at' - 1) = {}
      BY <3>1
    <3> QED
      BY <1>1, <3>1, <3>2, <3>3, <3>4 DEF Taken
  <2> QED
    BY <2>1, <2>2
<1>4. CASE FilterOne
  BY <1>1, <1>4, FilterOneTakes
<1>5. CASE FilterEnds
  <2>1. /\ UNCHANGED <<push, base, current, at, own>>
        /\ reader = "filter" /\ at > Len(push.items)
    BY <1>5 DEF FilterEnds, vars
  <2>2. Len(push.items) \in Nat /\ at \in Nat
    BY PushShape DEF StreamInv, StreamTypes
  <2>3. Listed(base)' = Listed(base) /\ Listed(current)' = Listed(current)
        /\ \A S : Chosen(S)' = Chosen(S)
    BY <2>1 DEF Listed, Chosen
  <2>4. at = Len(push.items) + 1
    BY <2>1, <2>2 DEF StreamInv, Taken
  <2> QED
    BY <2>1, <2>3, <2>4 DEF StreamInv, Taken, Keys
<1>6. CASE Deliver
  BY <1>6 DEF Deliver, Taken
<1> QED
  BY <1>2, <1>3, <1>4, <1>5, <1>6 DEF NextPushes, StreamStep, allVars

LEMMA StreamInit == InitPushes => StreamInv
<1> SUFFICES ASSUME InitPushes PROVE StreamInv
  OBVIOUS
<1>1. NoPush \in AllPushes
  <2>1. <<>> \in [1 .. 0 -> Elements] /\ 0 \in 0 .. MaxLen
    BY PushesAssumption
  <2> QED
    BY <2>1 DEF NoPush, AllPushes
<1>2. Zero \in Cell
  BY DEF Zero, Cell
<1>3. StreamTypes
  <2>1. slots \in [1 .. MaxLen -> Cell]
    BY <1>2 DEF InitPushes
  <2>2. own \in Seq(Cell)
    BY EmptySeq DEF InitPushes
  <2>3. push \in AllPushes
    BY <1>1, Zenon DEF InitPushes
  <2>4. reader \in {"read", "filter", "deliver"} /\ at \in Nat \ {0}
    BY DEF InitPushes
  <2>5. flag \in BOOLEAN
    BY Zenon DEF InitPushes
  <2> QED
    BY <2>1, <2>2, <2>3, <2>4, <2>5 DEF StreamTypes
<1> QED
  BY <1>3 DEF InitPushes, StreamInv, Loaded, Taken

\* The inductive invariant of the registry, alone and under streams.
THEOREM RegistryInvariant == Spec => []RegistryInv
BY RegistryInit, RegistryKept, PTL DEF Spec

\* The composition implements the registry.
THEOREM StreamsKeepRegistry == SpecPushes => Spec
<1>1. InitPushes => Init
  BY DEF InitPushes
<1>2. [NextPushes]_allVars => [Next]_vars
  BY StreamReads
<1> QED
  BY <1>1, <1>2, PTL DEF SpecPushes, Spec

\* No load replaces the snapshot by an older one or takes it away.
THEOREM SnapshotsGrow == Spec => SnapshotNeverOlder
<1>1. RegistryInv /\ [Next]_vars => [current' >= current]_vars
  BY RegistryKept
<1> QED
  BY <1>1, RegistryInvariant, PTL DEF Spec, SnapshotNeverOlder

\* Concurrent callers of the first Get share one load.
THEOREM LoadsShared == Spec => []FirstLoadShared
<1>1. RegistryInv => FirstLoadShared
  BY DEF RegistryInv, Exclusive, FirstOnly, FirstLoadShared, Inside
<1> QED
  BY <1>1, RegistryInvariant, PTL

\* A started stream always has a snapshot to filter with.
THEOREM StreamsCanFilter == SpecPushes => []FilterReady
<1>1. InitPushes => FilterReady
  BY DEF InitPushes, FilterReady
<1> QED
  BY <1>1, FilterReadyStep, RegistryInvariant, StreamsKeepRegistry, PTL DEF SpecPushes

\* The inductive invariant of a stream: the decode target holds the push, and
\* the filter has taken what it had to and nothing else.
THEOREM StreamInvariant == SpecPushes => []StreamInv
<1>1. RegistryInv /\ StreamInv /\ [NextPushes]_allVars => StreamInv'
  BY StreamTypesStep, LoadedStep, TakenStep DEF StreamInv
<1> QED
  BY <1>1, StreamInit, RegistryInvariant, StreamsKeepRegistry, PTL DEF SpecPushes

\* A handler gets the section's elements of its own push, in order, each once,
\* with the push's flag, however refreshes run into the filter.
THEOREM OwnPushDelivered == SpecPushes => []DeliveredIsOwnPush
<1>1. StreamInv => DeliveredIsOwnPush
  <2> SUFFICES ASSUME StreamInv, reader = "deliver"
               PROVE /\ flag = push.snapshot
                     /\ \E S \in SUBSET DOMAIN push.items :
                          /\ Listed(base) \subseteq S /\ S \subseteq Listed(current)
                          /\ Keys(own) = Keys(Chosen(S))
    BY DEF DeliveredIsOwnPush
  <2>1. DOMAIN push.items = 1 .. Len(push.items) /\ Len(push.items) \in Nat
    BY PushShape DEF StreamInv, StreamTypes
  <2>2. at - 1 = Len(push.items)
    BY <2>1 DEF StreamInv, Taken
  <2>3. Listed(base) \subseteq DOMAIN push.items
    BY DEF Listed
  <2> QED
    BY <2>1, <2>2, <2>3 DEF StreamInv, Loaded, Taken
<1> QED
  BY <1>1, StreamInvariant, PTL

(***************************************************************************)
(* Operations made of several requests.                                    *)
(***************************************************************************)
\* An order was placed no later than now.
PlacedInTime == \A o \in DOMAIN placed : placed[o].time =< now

\* What a call is, by where it is.
Stage(k) ==
  /\ phase[k] = "idle" => DOMAIN cancelled[k] = {}
  /\ result[k] # "none" => phase[k] = "done"
  /\ call[k].kind = "cancelAll" => call[k].ttl = 0
  /\ phase[k] = "cancel" => call[k].kind \in {"cancelAll", "cancelForgotten"}
  /\ phase[k] \in {"read", "price", "order"} /\ call[k].kind = "close" => call[k].coin \in Owned
  /\ phase[k] \in {"price", "order"} => call[k].kind = "close"

\* An order the call may cancel at time t.
Due(k, o, t) ==
  /\ placed[o].coin \in Owned
  /\ call[k].coin \in {AnyCoin, placed[o].coin}
  /\ t - placed[o].time >= call[k].ttl

\* The orders a call has chosen, and those it has cancelled, were asked for.
OnlyAsked(k) ==
  /\ phase[k] = "cancel" => \A o \in chosen[k] : Due(k, o, now)
  /\ \A o \in DOMAIN cancelled[k] : Due(k, o, cancelled[k][o])

\* Of the orders open at the begin, the asked ones that still are open have
\* been chosen, and are gone when the call has succeeded.
AllAsked(k) ==
  call[k].kind = "cancelAll" =>
    \A o \in before[k] \cap open : Asked(o, call[k].coin) =>
      /\ phase[k] = "cancel" => o \in chosen[k]
      /\ result[k] # "ok"

\* A closing order may only reduce.
Reduces(k) == phase[k] \in {"price", "order"} => order[k].reduceOnly

AccountInv ==
  /\ AccountTypeOK
  /\ PlacedInTime
  /\ \A k \in Ops : Stage(k) /\ OnlyAsked(k) /\ AllAsked(k) /\ Reduces(k)

LEMMA AccountInit == InitAccount => AccountInv
<1> SUFFICES ASSUME InitAccount PROVE AccountInv
  OBVIOUS
<1> USE AccountAssumption DEF InitAccount, NoCall, NoOrder
<1>1. AccountTypeOK
  <2>1. DOMAIN placed = 1 .. 0
    OBVIOUS
  <2>2. placed \in [1 .. 0 -> [coin : Coins, time : 0 .. MaxTime]]
    BY <2>1
  <2>3. \A k \in Ops : cancelled[k] = [o \in {} |-> 0] /\ DOMAIN cancelled[k] = {}
    OBVIOUS
  <2>4. cancelled = [k \in Ops |-> cancelled[k]]
    OBVIOUS
  <2>5. call \in [Ops -> [kind : Kinds \cup {"none"}, coin : Coins \cup {AnyCoin},
                        ttl : 0 .. MaxTime]]
    OBVIOUS
  <2>6. order \in [Ops -> [isBuy : BOOLEAN, size : Nat, reduceOnly : BOOLEAN]]
    OBVIOUS
  <2>7. \A k \in Ops : chosen[k] = {} /\ before[k] = {}
    OBVIOUS
  <2>8. \E n \in 0 .. MaxOrders : placed \in [1 .. n -> [coin : Coins, time : 0 .. MaxTime]]
    <3>1. 0 \in 0 .. MaxOrders
      OBVIOUS
    <3> QED
      BY <2>2, <3>1, Zenon
  <2>9. /\ now \in 0 .. MaxTime /\ open \subseteq DOMAIN placed
        /\ phase \in [Ops -> {"idle", "read", "price", "cancel", "order", "done"}]
        /\ found \in [Ops -> BOOLEAN]
        /\ result \in [Ops -> {"none", "error", "ok"}]
        /\ chosen \in [Ops -> SUBSET OrderIds]
        /\ before \in [Ops -> SUBSET OrderIds]
    OBVIOUS
  <2> HIDE DEF InitAccount
  <2> QED
    BY <2>3, <2>4, <2>5, <2>6, <2>7, <2>8, <2>9 DEF AccountTypeOK, InitAccount
<1>2. PlacedInTime
  BY DEF PlacedInTime
<1>3. \A k \in Ops : Stage(k) /\ OnlyAsked(k) /\ AllAsked(k) /\ Reduces(k)
  BY DEF Stage, OnlyAsked, AllAsked, Reduces
<1> QED
  BY <1>1, <1>2, <1>3 DEF AccountInv

\* A reduce-only fill leaves the position on its side and no larger.
LEMMA FillReduces ==
  ASSUME NEW o \in [isBuy : BOOLEAN, size : Nat, reduceOnly : BOOLEAN], o.reduceOnly,
         NEW p \in Int, NEW n \in 0 .. Fillable(o, p),
         NEW q, q = IF o.isBuy THEN p + n ELSE p - n
  PROVE  /\ q \in Int
         /\ Size(q) =< Size(p)
         /\ p >= 0 => q >= 0
         /\ p =< 0 => q =< 0
BY DEF Fillable, Size

LEMMA WithinBound ==
  ASSUME NEW p \in Positions, NEW q \in Int, Size(q) =< Size(p)
  PROVE  q \in Positions
BY AccountAssumption DEF Positions, Size

\* A step of a call leaves the orders and the time alone, but for the orders it
\* cancels.
LEMMA OpLeaves ==
  ASSUME NEW k \in Ops, Begins(k) \/ OpStep(k)
  PROVE  now' = now /\ placed' = placed /\ open' \subseteq open
BY DEF Begins, OpStep, Begin, Fails, ReadOrders, CancelBatch, ReadPosition, ReadPrice,
       FillClose, account

\* The types after a step of a call.
LEMMA TypeOpStep ==
  ASSUME AccountInv, NEW k \in Ops, Begins(k) \/ OpStep(k)
  PROVE  AccountTypeOK'
<1> USE AccountAssumption DEF AccountTypeOK, AccountInv
<1>1. ASSUME NEW c \in [kind : Kinds, coin : Coins \cup {AnyCoin}, ttl : 0 .. MaxTime],
             Begin(k, c)
      PROVE AccountTypeOK'
  <2>1. open \in SUBSET OrderIds
    BY DEF OrderIds
  <2>2. /\ UNCHANGED <<now, placed, open, position, chosen, order, found, cancelled>>
        /\ call' = [call EXCEPT ![k] = c]
        /\ before' = [before EXCEPT ![k] = open]
        /\ phase' \in [Ops -> {"idle", "read", "price", "cancel", "order", "done"}]
        /\ result' \in [Ops -> {"none", "error", "ok"}]
    BY <1>1 DEF Begin, Step, Ends, account
  <2>3. before' \in [Ops -> SUBSET OrderIds] /\ \A j \in Ops : before'[j] \subseteq DOMAIN placed
    BY <2>1, <2>2
  <2>4. call' \in [Ops -> [kind : Kinds \cup {"none"}, coin : Coins \cup {AnyCoin},
                         ttl : 0 .. MaxTime]]
    BY <2>2
  <2> QED
    BY <2>2, <2>3, <2>4
<1>2. CASE Fails(k)
  BY <1>2 DEF Fails, Ends, Step, account
<1>3. CASE ReadOrders(k)
  <2>1. /\ UNCHANGED <<now, placed, open, position, call, order, found, before, cancelled>>
        /\ phase' \in [Ops -> {"idle", "read", "price", "cancel", "order", "done"}]
        /\ result' \in [Ops -> {"none", "error", "ok"}]
    BY <1>3 DEF ReadOrders, Ends, Step, account
  <2>2. PICK those \in SUBSET open : chosen' = [chosen EXCEPT ![k] = those]
    BY <1>3 DEF ReadOrders
  <2>3. /\ chosen' \in [Ops -> SUBSET OrderIds]
        /\ \A j \in Ops : chosen'[j] \subseteq DOMAIN placed
    BY <2>2 DEF OrderIds
  <2> QED
    BY <2>1, <2>3
<1>4. CASE CancelBatch(k)
  <2>1. /\ UNCHANGED <<now, placed, position, call, chosen, order, found, before>>
        /\ phase' \in [Ops -> {"idle", "read", "price", "cancel", "order", "done"}]
        /\ result' \in [Ops -> {"none", "error", "ok"}]
        /\ open' \subseteq DOMAIN placed
        /\ cancelled' = [cancelled EXCEPT ![k] = [o \in open \cap chosen[k] |-> now]]
    BY <1>4 DEF CancelBatch, Ends, Step
  <2>2. cancelled' = [j \in Ops |-> cancelled'[j]]
    BY <2>1
  <2>3. ASSUME NEW j \in Ops
        PROVE  /\ DOMAIN cancelled'[j] \subseteq DOMAIN placed
               /\ \A o \in DOMAIN cancelled'[j] : cancelled'[j][o] \in 0 .. MaxTime
    BY <2>1
  <2> QED
    BY <2>1, <2>2, <2>3
<1>5. CASE ReadPosition(k)
  <2>1. position[call[k].coin] \in Positions
    BY <1>5 DEF ReadPosition, Stage
  <2>2. CloseOrder(position[call[k].coin]) \in
          [isBuy : BOOLEAN, size : Nat, reduceOnly : BOOLEAN]
    BY <2>1 DEF CloseOrder, Size, Positions
  <2>3. /\ UNCHANGED <<now, placed, open, position, call, chosen, before, cancelled>>
        /\ phase' \in [Ops -> {"idle", "read", "price", "cancel", "order", "done"}]
        /\ result' \in [Ops -> {"none", "error", "ok"}]
        /\ found' \in [Ops -> BOOLEAN]
    BY <1>5 DEF ReadPosition, Ends, Step, account
  <2>4. order' \in [Ops -> [isBuy : BOOLEAN, size : Nat, reduceOnly : BOOLEAN]]
    BY <1>5, <2>2 DEF ReadPosition
  <2> QED
    BY <2>3, <2>4
<1>6. CASE ReadPrice(k)
  BY <1>6 DEF ReadPrice, Step, account
<1>7. CASE FillClose(k)
  <2>1. call[k].coin \in Owned /\ order[k].reduceOnly
    BY <1>7 DEF FillClose, Stage, Reduces
  <2>2. PICK n \in 0 .. Fillable(order[k], position[call[k].coin]) :
          position' = [position EXCEPT ![call[k].coin] =
                         IF order[k].isBuy THEN @ + n ELSE @ - n]
    BY <1>7 DEF FillClose
  <2> DEFINE p == position[call[k].coin]
             q == IF order[k].isBuy THEN p + n ELSE p - n
  <2>3. p \in Int /\ p \in Positions
    BY <2>1 DEF Positions
  <2>4. q \in Int /\ Size(q) =< Size(p)
    <3>1. order[k] \in [isBuy : BOOLEAN, size : Nat, reduceOnly : BOOLEAN]
      OBVIOUS
    <3>2. n \in 0 .. Fillable(order[k], p)
      OBVIOUS
    <3> HIDE DEF p, AccountTypeOK, AccountInv
    <3> QED
      BY <2>1, <2>3, <3>1, <3>2, FillReduces
  <2>5. q \in Positions
    BY <2>3, <2>4, WithinBound
  <2>6. position' \in [Owned -> Positions]
    <3>1. position' = [position EXCEPT ![call[k].coin] = q]
      BY <2>1, <2>2
    <3> HIDE DEF q
    <3> QED
      BY <2>1, <2>5, <3>1
  <2>7. /\ UNCHANGED <<now, placed, open, call, chosen, order, found, before, cancelled>>
        /\ phase' \in [Ops -> {"idle", "read", "price", "cancel", "order", "done"}]
        /\ result' \in [Ops -> {"none", "error", "ok"}]
    BY <1>7 DEF FillClose, Ends, Step
  <2> QED
    BY <2>6, <2>7
<1> QED
  BY <1>1, <1>2, <1>3, <1>4, <1>5, <1>6, <1>7 DEF OpStep, Begins

\* It touches nothing of another call.
LEMMA OnlyItsOwn ==
  ASSUME AccountTypeOK, NEW k \in Ops, Begins(k) \/ OpStep(k), NEW j \in Ops, j # k
  PROVE  /\ phase'[j] = phase[j] /\ call'[j] = call[j] /\ chosen'[j] = chosen[j]
         /\ order'[j] = order[j] /\ result'[j] = result[j] /\ before'[j] = before[j]
         /\ cancelled'[j] = cancelled[j]
BY DEF AccountTypeOK, Begins, OpStep, Begin, Fails, ReadOrders, CancelBatch, ReadPosition,
       ReadPrice, FillClose, account, Step, Ends

\* The facts about a call survive the steps of another one.
LEMMA OtherCallKept ==
  ASSUME AccountInv, NEW k \in Ops, Begins(k) \/ OpStep(k), NEW j \in Ops, j # k
  PROVE  (Stage(j) /\ OnlyAsked(j) /\ AllAsked(j) /\ Reduces(j))'
<1>1. now' = now /\ placed' = placed /\ open' \subseteq open
  BY OpLeaves
<1>2. /\ phase'[j] = phase[j] /\ call'[j] = call[j] /\ chosen'[j] = chosen[j]
      /\ order'[j] = order[j] /\ result'[j] = result[j] /\ before'[j] = before[j]
      /\ cancelled'[j] = cancelled[j]
  BY OnlyItsOwn DEF AccountInv
<1>3. Stage(j) /\ OnlyAsked(j) /\ AllAsked(j) /\ Reduces(j)
  BY DEF AccountInv
<1>4. Stage(j)' /\ Reduces(j)'
  BY <1>2, <1>3 DEF Stage, Reduces
<1>5. OnlyAsked(j)'
  BY <1>1, <1>2, <1>3 DEF OnlyAsked, Due
<1>6. AllAsked(j)'
  BY <1>1, <1>2, <1>3 DEF AllAsked, Asked
<1> QED
  BY <1>4, <1>5, <1>6

\* A call's own steps keep the facts about it.
LEMMA StageStep ==
  ASSUME AccountInv, NEW k \in Ops, Begins(k) \/ OpStep(k)
  PROVE  Stage(k)' /\ Reduces(k)'
<1> USE DEF AccountTypeOK, AccountInv, Stage, Reduces, Step, Ends
<1>1. ASSUME NEW c, Begin(k, c) PROVE Stage(k)' /\ Reduces(k)'
  BY <1>1 DEF Begin, account
<1>2. CASE Fails(k)
  BY <1>2 DEF Fails, account
<1>3. CASE ReadOrders(k)
  BY <1>3 DEF ReadOrders, account
<1>4. CASE CancelBatch(k)
  BY <1>4 DEF CancelBatch
<1>5. CASE ReadPosition(k)
  BY <1>5 DEF ReadPosition, CloseOrder, account
<1>6. CASE ReadPrice(k)
  BY <1>6 DEF ReadPrice, account
<1>7. CASE FillClose(k)
  BY <1>7 DEF FillClose
<1> QED
  BY <1>1, <1>2, <1>3, <1>4, <1>5, <1>6, <1>7 DEF OpStep, Begins

LEMMA AskedStep ==
  ASSUME AccountInv, NEW k \in Ops, Begins(k) \/ OpStep(k)
  PROVE  OnlyAsked(k)' /\ AllAsked(k)'
<1>0. now' = now /\ placed' = placed /\ open' \subseteq open
  BY OpLeaves
<1>1. Stage(k) /\ OnlyAsked(k) /\ AllAsked(k) /\ AccountTypeOK
  BY DEF AccountInv
<1>2. ASSUME NEW c, Begin(k, c) PROVE OnlyAsked(k)' /\ AllAsked(k)'
  <2>1. phase'[k] # "cancel" /\ DOMAIN cancelled'[k] = {} /\ result'[k] # "ok"
    BY <1>1, <1>2 DEF Begin, Stage, Step, Ends, AccountTypeOK
  <2> QED
    BY <2>1 DEF OnlyAsked, AllAsked
<1>3. ASSUME Fails(k) \/ ReadPosition(k) \/ ReadPrice(k) \/ FillClose(k)
      PROVE OnlyAsked(k)' /\ AllAsked(k)'
  <2>1. /\ phase'[k] # "cancel"
        /\ UNCHANGED <<call, before, cancelled, chosen>>
        /\ call[k].kind = "cancelAll" => result'[k] # "ok"
    BY <1>1, <1>3 DEF Fails, ReadPosition, ReadPrice, FillClose, Stage, Step, Ends, AccountTypeOK,
                      account
  <2> QED
    BY <1>0, <1>1, <2>1 DEF OnlyAsked, AllAsked, Due
<1>4. CASE ReadOrders(k)
  <2> DEFINE asked == {o \in open : Asked(o, call[k].coin)}
             those == IF call[k].kind = "cancelAll" THEN asked
                      ELSE {o \in asked : OldEnough(o, call[k].ttl)}
  <2>1. /\ chosen'[k] = those
        /\ UNCHANGED <<open, call, before, cancelled>>
    BY <1>1, <1>4 DEF ReadOrders, account, AccountTypeOK
  <2>2. /\ result'[k] = "ok" => those = {}
        /\ phase'[k] = "cancel" => \A o \in those : placed[o].coin \in Owned
    BY <1>1, <1>4 DEF ReadOrders, Step, Ends, AccountTypeOK, Stage
  <2>3. \A o \in those : now - placed[o].time >= call[k].ttl
    <3>1. PICK n \in 0 .. MaxOrders :
            placed \in [1 .. n -> [coin : Coins, time : 0 .. MaxTime]]
      BY <1>1 DEF AccountTypeOK
    <3>2. ASSUME NEW o \in those PROVE now - placed[o].time >= call[k].ttl
      <4>1. o \in DOMAIN placed /\ placed[o].time \in Nat /\ now \in Nat /\ call[k].ttl \in Nat
        BY <1>1, <3>1, AccountAssumption DEF AccountTypeOK
      <4>2. placed[o].time =< now
        BY <4>1 DEF AccountInv, PlacedInTime
      <4>3. CASE call[k].kind = "cancelAll"
        BY <1>1, <4>1, <4>2, <4>3 DEF Stage
      <4>4. CASE call[k].kind # "cancelAll"
        BY <4>1, <4>4 DEF OldEnough
      <4> QED
        BY <4>3, <4>4
    <3> QED
      BY <3>2
  <2>4. \A o \in those : call[k].coin \in {AnyCoin, placed[o].coin}
    BY DEF Asked
  <2> HIDE DEF those
  <2>5. OnlyAsked(k)'
    BY <1>0, <1>1, <2>1, <2>2, <2>3, <2>4 DEF OnlyAsked, Due
  <2>6. AllAsked(k)'
    BY <1>0, <1>1, <2>1, <2>2 DEF AllAsked, Asked, those
  <2> QED
    BY <2>5, <2>6
<1>5. CASE CancelBatch(k)
  <2>1. /\ phase[k] = "cancel" /\ phase'[k] = "done"
        /\ open' = open \ chosen[k]
        /\ cancelled'[k] = [o \in open \cap chosen[k] |-> now]
        /\ UNCHANGED <<call, before>>
    BY <1>1, <1>5 DEF CancelBatch, Step, Ends, AccountTypeOK
  <2> QED
    BY <1>0, <1>1, <2>1 DEF OnlyAsked, AllAsked, Due, Asked
<1> QED
  BY <1>2, <1>3, <1>4, <1>5 DEF OpStep, Begins

LEMMA CallStepKeeps ==
  ASSUME AccountInv, NEW k \in Ops, Begins(k) \/ OpStep(k)
  PROVE  AccountInv'
<1>1. AccountTypeOK'
  BY TypeOpStep
<1>2. PlacedInTime'
  BY OpLeaves DEF AccountInv, PlacedInTime
<1>3. ASSUME NEW j \in Ops
      PROVE (Stage(j) /\ OnlyAsked(j) /\ AllAsked(j) /\ Reduces(j))'
  BY StageStep, AskedStep, OtherCallKept
<1> QED
  BY <1>1, <1>2, <1>3 DEF AccountInv

\* Orders get new numbers and keep what they were placed with; the calls are
\* not touched by others.
LEMMA OthersKeep ==
  ASSUME AccountInv, Others
  PROVE  AccountInv'
<1> USE AccountAssumption
<1>1. UNCHANGED calls
  BY DEF Others, Place, Gone, Trade, Passes
<1>2. PICK n \in 0 .. MaxOrders :
        placed \in [1 .. n -> [coin : Coins, time : 0 .. MaxTime]]
  BY DEF AccountInv, AccountTypeOK
<1>3. /\ now \in 0 .. MaxTime /\ now' \in 0 .. MaxTime /\ now =< now'
  BY DEF AccountInv, AccountTypeOK, Others, Place, Gone, Trade, Passes, calls
<1>4. position' \in [Owned -> Positions]
  BY DEF AccountInv, AccountTypeOK, Others, Place, Gone, Trade, Passes, calls
<1> DEFINE Grows ==
      /\ \E m \in 0 .. MaxOrders :
           placed' \in [1 .. m -> [coin : Coins, time : 0 .. MaxTime]]
      /\ DOMAIN placed \subseteq DOMAIN placed'
      /\ \A o \in DOMAIN placed : placed'[o] = placed[o]
      /\ \A o \in DOMAIN placed' \ DOMAIN placed : placed'[o].time = now
      /\ open' \subseteq open \cup (DOMAIN placed' \ DOMAIN placed)
      /\ placed' = placed \/ now' = now
<1>5. Grows
  <2>1. ASSUME NEW coin \in Coins, Place(coin) PROVE Grows
    <3>1. Cardinality(1 .. n) = n
      BY FS_Interval
    <3>2. DOMAIN placed = 1 .. n /\ n + 1 \in 0 .. MaxOrders
      BY <1>2, <2>1, <3>1 DEF Place
    <3>3. /\ placed' = [o \in (1 .. n) \cup {n + 1} |->
                          IF o = n + 1 THEN [coin |-> coin, time |-> now] ELSE placed[o]]
          /\ open' = open \cup {n + 1}
          /\ now' = now
      BY <2>1, <3>1, <3>2 DEF Place
    <3>4. (1 .. n) \cup {n + 1} = 1 .. (n + 1) /\ n + 1 \notin 1 .. n
      OBVIOUS
    <3>5. placed' \in [1 .. (n + 1) -> [coin : Coins, time : 0 .. MaxTime]]
      BY <1>2, <1>3, <3>3, <3>4
    <3> QED
      BY <3>2, <3>3, <3>4, <3>5
  <2>2. ASSUME (\E o \in open : Gone(o)) \/ (\E coin \in Owned : Trade(coin)) \/ Passes
        PROVE Grows
    BY <1>2, <2>2 DEF Gone, Trade, Passes
  <2> QED
    BY <2>1, <2>2 DEF Others
<1>6. AccountTypeOK'
  <2>1. open' \subseteq DOMAIN placed'
    BY <1>5 DEF AccountInv, AccountTypeOK
  <2>2. \A k \in Ops : /\ chosen'[k] \cup before'[k] \subseteq DOMAIN placed'
                      /\ DOMAIN cancelled'[k] \subseteq DOMAIN placed'
                      /\ \A o \in DOMAIN cancelled'[k] : cancelled'[k][o] \in 0 .. MaxTime
    BY <1>1, <1>5 DEF AccountInv, AccountTypeOK, calls
  <2> QED
    BY <1>1, <1>3, <1>4, <1>5, <2>1, <2>2 DEF AccountInv, AccountTypeOK, calls
<1>7. PlacedInTime'
  <2>1. ASSUME NEW o \in DOMAIN placed' PROVE placed'[o].time =< now'
    <3>1. CASE o \in DOMAIN placed
      <4>1. placed[o].time \in Int /\ placed[o].time =< now
        BY <1>2, <3>1 DEF AccountInv, PlacedInTime
      <4> QED
        BY <1>3, <1>5, <3>1, <4>1
    <3>2. CASE o \notin DOMAIN placed
      BY <1>3, <1>5, <2>1, <3>2
    <3> QED
      BY <3>1, <3>2
  <2> QED
    BY <2>1 DEF PlacedInTime
<1>8. ASSUME NEW k \in Ops
      PROVE (Stage(k) /\ OnlyAsked(k) /\ AllAsked(k) /\ Reduces(k))'
  <2>1. Stage(k) /\ OnlyAsked(k) /\ AllAsked(k) /\ Reduces(k)
    BY DEF AccountInv
  <2>2. /\ chosen[k] \cup before[k] \subseteq DOMAIN placed
        /\ DOMAIN cancelled[k] \subseteq DOMAIN placed
        /\ call[k].ttl \in Int
    BY DEF AccountInv, AccountTypeOK
  <2>3. Stage(k)' /\ Reduces(k)'
    BY <1>1, <2>1 DEF Stage, Reduces, calls
  <2>4. OnlyAsked(k)'
    <3>1. ASSUME phase[k] = "cancel", NEW o \in chosen[k] PROVE Due(k, o, now)'
      <4>1. o \in DOMAIN placed /\ placed[o].time \in Int /\ placed'[o] = placed[o]
        BY <1>2, <1>5, <2>2
      <4>2. Due(k, o, now)
        BY <2>1, <3>1 DEF OnlyAsked
      <4> QED
        BY <1>1, <1>3, <2>2, <4>1, <4>2 DEF Due, calls
    <3>2. ASSUME NEW o \in DOMAIN cancelled[k] PROVE Due(k, o, cancelled[k][o])'
      <4>1. placed'[o] = placed[o]
        BY <1>5, <2>2
      <4>2. Due(k, o, cancelled[k][o])
        BY <2>1 DEF OnlyAsked
      <4> QED
        BY <1>1, <4>1, <4>2 DEF Due, calls
    <3> QED
      BY <1>1, <3>1, <3>2 DEF OnlyAsked, calls
  <2>5. AllAsked(k)'
    <3>1. \A o \in before[k] : placed'[o] = placed[o] /\ (o \in open' => o \in open)
      BY <1>5, <2>2
    <3> QED
      BY <1>1, <2>1, <3>1 DEF AllAsked, Asked, calls
  <2> QED
    BY <2>3, <2>4, <2>5
<1> QED
  BY <1>6, <1>7, <1>8 DEF AccountInv

LEMMA AccountStep ==
  ASSUME AccountInv, [NextAccount]_accountVars
  PROVE  AccountInv'
<1>1. CASE UNCHANGED accountVars
  BY <1>1 DEF accountVars, AccountInv, AccountTypeOK, PlacedInTime, Stage, OnlyAsked, AllAsked, Reduces,
              Due, Asked
<1>2. CASE NextAccount
  BY <1>2, CallStepKeeps, OthersKeep DEF NextAccount
<1> QED
  BY <1>1, <1>2

\* The inductive invariant of the operations made of several requests.
THEOREM AccountInvariant == SpecAccount => []AccountInv
BY AccountInit, AccountStep, PTL DEF SpecAccount

\* CancelAllOrders that reports success has left none of the orders it was
\* asked to cancel and that were open when it began.
THEOREM CancelAllIsComplete == SpecAccount => []CancelAllComplete
<1>1. AccountInv => CancelAllComplete
  <2> SUFFICES ASSUME AccountInv, NEW k \in Ops, call[k].kind = "cancelAll", result[k] = "ok",
                      NEW o \in before[k] \cap open
               PROVE /\ call[k].coin = AnyCoin => placed[o].coin \notin Owned
                     /\ call[k].coin # placed[o].coin
    BY DEF CancelAllComplete
  <2>1. ~ Asked(o, call[k].coin)
    BY DEF AccountInv, AllAsked
  <2>2. placed[o].coin \in Coins
    BY DEF AccountInv, AccountTypeOK
  <2> QED
    BY <2>1, <2>2, AccountAssumption DEF Asked
<1> QED
  BY <1>1, AccountInvariant, PTL

\* No call cancels an order of another coin or section, or a younger one than
\* it was asked to.
THEOREM OnlyAskedCancelled == SpecAccount => []CancelsOnlyAsked
<1>1. AccountInv => CancelsOnlyAsked
  BY DEF AccountInv, OnlyAsked, Due, CancelsOnlyAsked
<1> QED
  BY <1>1, AccountInvariant, PTL

\* A closing order changes a position towards zero only, whatever the account
\* traded since the position was read.
THEOREM CloseOnlyReduces == SpecAccount => CloseNeverFlips
<1>1. AccountInv /\ [NextAccount]_accountVars =>
        [\A k \in Ops : FillClose(k) =>
           \A c \in Owned : /\ Size(position'[c]) =< Size(position[c])
                            /\ position[c] >= 0 => position'[c] >= 0
                            /\ position[c] =< 0 => position'[c] =< 0]_accountVars
  <2> SUFFICES ASSUME AccountInv, NEW k \in Ops, FillClose(k), NEW c \in Owned
               PROVE /\ Size(position'[c]) =< Size(position[c])
                     /\ position[c] >= 0 => position'[c] >= 0
                     /\ position[c] =< 0 => position'[c] =< 0
    OBVIOUS
  <2>1. call[k].coin \in Owned /\ order[k].reduceOnly
    BY DEF FillClose, AccountInv, Stage, Reduces
  <2>2. order[k] \in [isBuy : BOOLEAN, size : Nat, reduceOnly : BOOLEAN]
    BY DEF AccountInv, AccountTypeOK
  <2>3. position \in [Owned -> Int]
    BY AccountAssumption DEF AccountInv, AccountTypeOK, Positions
  <2>4. PICK n \in 0 .. Fillable(order[k], position[call[k].coin]) :
          position' = [position EXCEPT ![call[k].coin] =
                         IF order[k].isBuy THEN @ + n ELSE @ - n]
    BY DEF FillClose
  <2>5. CASE c # call[k].coin
    BY <2>3, <2>4, <2>5 DEF Size
  <2>6. CASE c = call[k].coin
    <3>1. position'[c] = IF order[k].isBuy THEN position[c] + n ELSE position[c] - n
      BY <2>1, <2>3, <2>4, <2>6
    <3>2. position[c] \in Int /\ n \in 0 .. Fillable(order[k], position[c])
      BY <2>3, <2>4, <2>6
    <3> QED
      BY <2>1, <2>2, <3>1, <3>2, FillReduces
  <2> QED
    BY <2>5, <2>6
<1> QED
  BY <1>1, AccountInvariant, PTL DEF SpecAccount, CloseNeverFlips
=============================================================================
