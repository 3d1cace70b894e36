----------------------------- MODULE Nonce_proofs -----------------------------
(***************************************************************************)
(* Proofs about the nonce generators, for every set of clients, every      *)
(* assignment of keys, every clock and every number of nonces.             *)
(***************************************************************************)
EXTENDS Nonce, SequenceTheorems, TLAPS

\* What TypeOK says about the entries of the log.
LEMMA LogType ==
  ASSUME TypeOK
  PROVE  /\ Len(issued) \in Nat
         /\ \A i \in 1 .. Len(issued) :
              issued[i].signer \in Signers /\ issued[i].nonce \in Nat
<1> DEFINE Entry == [signer : Signers, nonce : Nat]
<1>1. issued \in Seq(Entry)
  BY DEF TypeOK
<1> HIDE DEF Entry
<1>2. Len(issued) \in Nat /\ \A i \in 1 .. Len(issued) : issued[i] \in Entry
  BY <1>1, ElementOfSeq, LenProperties
<1> QED
  BY <1>2 DEF Entry

\* A step that neither draws a nonce nor touches a generator or the clock's
\* high-water mark leaves the three statements about the log alone.
LEMMA LogFrame ==
  ASSUME LastBounds, IssuedIncreasing, NoGapBelowLast,
         UNCHANGED <<maxClock, registry, last, issued>>
  PROVE  LastBounds' /\ IssuedIncreasing' /\ NoGapBelowLast'
  BY DEF LastBounds, IssuedIncreasing, NoGapBelowLast, Handed

\* No generator is registered and nothing was drawn: the invariant holds at first.
LEMMA InitInv == Init => NonceInv
<1> SUFFICES ASSUME Init
             PROVE  NonceInv
  OBVIOUS
<1>1. TypeOK
  BY DEF Init, TypeOK, ClientState
<1>2. clock <= maxClock
  BY DEF Init
<1>3. SharedGenerator /\ OwnSigner /\ UnusedUntilStored /\ CandidateNext /\ ReadDuringCall
  BY DEF Init, SharedGenerator, OwnSigner, UnusedUntilStored, CandidateNext, ReadDuringCall
<1>4. Len(issued) = 0 /\ \A s \in Signers : registry[s] = None
  BY DEF Init
<1>5. LastBounds /\ IssuedIncreasing /\ NoGapBelowLast
  BY <1>4 DEF LastBounds, IssuedIncreasing, NoGapBelowLast
<1> QED
  BY <1>1, <1>2, <1>3, <1>5 DEF NonceInv

\* registry.Load in ForSigner: it only finds what is registered.
LEMMA LookupInv ==
  ASSUME NonceInv, NEW c \in Clients, Lookup(c)
  PROVE  NonceInv'
<1> SignerOf[c] \in Signers
  BY NonceAssumption
<1>1. TypeOK'
  BY DEF Lookup, NonceInv, TypeOK, ClientState
<1>2. (clock <= maxClock)' /\ OwnSigner' /\ UnusedUntilStored'
  BY DEF Lookup, NonceInv, OwnSigner, UnusedUntilStored
<1>3. SharedGenerator'
  BY DEF Lookup, NonceInv, TypeOK, ClientState, SharedGenerator
<1>4. CandidateNext' /\ ReadDuringCall'
  BY DEF Lookup, NonceInv, TypeOK, ClientState, CandidateNext, ReadDuringCall
<1>5. LastBounds' /\ IssuedIncreasing' /\ NoGapBelowLast'
  BY LogFrame DEF Lookup, NonceInv
<1> QED
  BY <1>1, <1>2, <1>3, <1>4, <1>5 DEF NonceInv

\* registry.LoadOrStore in ForSigner: the generator it registers is unused.
LEMMA LoadOrStoreInv ==
  ASSUME NonceInv, NEW c \in Clients, LoadOrStore(c)
  PROVE  NonceInv'
<1> DEFINE s == SignerOf[c]
<1>1. s \in Signers /\ None \notin Clients
  BY NonceAssumption
<1>2. /\ registry' = [registry EXCEPT ![s] = Stored(c)]
      /\ gen' = [gen EXCEPT ![c] = Stored(c)]
      /\ pc' = [pc EXCEPT ![c] = "ready"]
      /\ UNCHANGED <<clock, maxClock, last, seen, cand, shown, issued>>
      /\ pc[c] = "store"
      /\ Stored(c) \in Clients
      /\ registry[s] # None => Stored(c) = registry[s]
      /\ registry[s] = None => Stored(c) = c
  BY <1>1 DEF LoadOrStore, Stored, NonceInv, TypeOK
<1> HIDE DEF s
<1>3. TypeOK'
  BY <1>1, <1>2 DEF NonceInv, TypeOK, ClientState
<1>4. (clock <= maxClock)' /\ IssuedIncreasing'
  BY <1>2 DEF NonceInv, IssuedIncreasing
<1>5. SharedGenerator'
  <2> SUFFICES ASSUME NEW d \in Clients, pc'[d] \notin {"lookup", "store"}
               PROVE  gen'[d] \in Clients /\ registry'[SignerOf[d]] = gen'[d]
    BY DEF SharedGenerator
  <2>1. CASE d = c
    BY <1>1, <1>2, <2>1 DEF s, NonceInv, TypeOK
  <2>2. CASE d # c
    <3>1. gen[d] \in Clients /\ registry[SignerOf[d]] = gen[d]
      BY <1>2, <2>2 DEF NonceInv, TypeOK, SharedGenerator
    <3> QED
      BY <1>1, <1>2, <2>2, <3>1, NonceAssumption DEF NonceInv, TypeOK
  <2> QED
    BY <2>1, <2>2
<1>6. OwnSigner'
  BY <1>1, <1>2 DEF s, NonceInv, TypeOK, OwnSigner
<1>7. UnusedUntilStored'
  <2> SUFFICES ASSUME NEW d \in Clients, registry'[SignerOf[d]] # d
               PROVE  last[d] = 0
    BY <1>2 DEF UnusedUntilStored
  <2>1. registry[SignerOf[d]] # d
    BY <1>1, <1>2, NonceAssumption DEF NonceInv, TypeOK
  <2> QED
    BY <2>1 DEF NonceInv, UnusedUntilStored
<1>8. CandidateNext' /\ ReadDuringCall'
  BY <1>2 DEF NonceInv, TypeOK, CandidateNext, ReadDuringCall
<1>9. LastBounds'
  <2> SUFFICES ASSUME NEW i \in 1 .. Len(issued)
               PROVE  /\ registry'[issued[i].signer] # None
                      /\ issued[i].nonce <= last[registry'[issued[i].signer]]
    BY <1>2 DEF LastBounds
  <2>1. /\ issued[i].signer \in Signers
        /\ registry[issued[i].signer] # None
        /\ issued[i].nonce <= last[registry[issued[i].signer]]
    BY LogType DEF NonceInv, LastBounds
  <2>2. registry'[issued[i].signer] = registry[issued[i].signer]
    BY <1>1, <1>2, <2>1 DEF NonceInv, TypeOK
  <2> QED
    BY <2>1, <2>2
<1>10. NoGapBelowLast'
  <2> SUFFICES ASSUME NEW t \in Signers, registry'[t] # None,
                      NEW v \in maxClock + 1 .. last[registry'[t]]
               PROVE  Handed(t, v)
    BY <1>2 DEF NoGapBelowLast, Handed
  <2>1. CASE registry[t] # None
    <3>1. registry'[t] = registry[t]
      BY <1>1, <1>2, <2>1 DEF NonceInv, TypeOK
    <3> QED
      BY <2>1, <3>1 DEF NonceInv, NoGapBelowLast
  <2>2. CASE registry[t] = None
    <3>1. t = s /\ registry'[t] = c
      BY <1>1, <1>2, <2>2 DEF NonceInv, TypeOK
    <3>2. last[c] = 0
      BY <1>1, <2>2, <3>1 DEF s, NonceInv, UnusedUntilStored
    <3> QED
      BY <3>1, <3>2 DEF NonceInv, TypeOK
  <2> QED
    BY <2>1, <2>2
<1> QED
  BY <1>3, <1>4, <1>5, <1>6, <1>7, <1>8, <1>9, <1>10 DEF NonceInv

\* The steps of Next before its CAS touch neither `last` nor the registry.
LEMMA BeforeCasInv ==
  ASSUME NonceInv, NEW c \in Clients,
         Call(c) \/ LoadLast(c) \/ ReadClock(c) \/ CasFails(c)
  PROVE  NonceInv'
<1>1. UNCHANGED <<clock, maxClock, registry, gen, last, issued>>
  BY DEF Call, LoadLast, ReadClock, CasFails
<1>2. (clock <= maxClock)' /\ OwnSigner' /\ UnusedUntilStored'
  BY <1>1 DEF NonceInv, OwnSigner, UnusedUntilStored
<1>3. LastBounds' /\ IssuedIncreasing' /\ NoGapBelowLast'
  BY <1>1, LogFrame DEF NonceInv
<1>4. pc[c] \notin {"lookup", "store"} /\ gen[c] \in Clients
  BY DEF Call, LoadLast, ReadClock, CasFails, NonceInv, SharedGenerator
<1>5. CASE Call(c)
  <2>1. TypeOK'
    BY <1>5 DEF Call, NonceInv, TypeOK, ClientState
  <2>2. SharedGenerator' /\ CandidateNext'
    BY <1>4, <1>5
       DEF Call, NonceInv, TypeOK, ClientState, SharedGenerator, CandidateNext
  <2>3. ReadDuringCall'
    BY <1>5 DEF Call, NonceInv, TypeOK, ReadDuringCall
  <2> QED
    BY <1>2, <1>3, <2>1, <2>2, <2>3 DEF NonceInv
<1>6. CASE LoadLast(c)
  <2>1. TypeOK'
    BY <1>4, <1>6 DEF LoadLast, NonceInv, TypeOK, ClientState
  <2>2. SharedGenerator' /\ CandidateNext'
    BY <1>4, <1>6
       DEF LoadLast, NonceInv, TypeOK, ClientState, SharedGenerator, CandidateNext
  <2>3. ReadDuringCall'
    BY <1>6 DEF LoadLast, NonceInv, TypeOK, ReadDuringCall
  <2> QED
    BY <1>2, <1>3, <2>1, <2>2, <2>3 DEF NonceInv
<1>7. CASE ReadClock(c)
  <2>1. /\ Candidate(clock, seen[c]) \in Nat
        /\ Candidate(clock, seen[c]) > seen[c]
        /\ Candidate(clock, seen[c]) > maxClock
             => Candidate(clock, seen[c]) = seen[c] + 1
    BY DEF Candidate, NonceInv, TypeOK
  <2>2. TypeOK'
    BY <1>7, <2>1 DEF ReadClock, NonceInv, TypeOK, ClientState
  <2>3. SharedGenerator'
    BY <1>4, <1>7 DEF ReadClock, NonceInv, TypeOK, ClientState, SharedGenerator
  <2>4. CandidateNext'
    BY <1>7, <2>1 DEF ReadClock, NonceInv, TypeOK, ClientState, CandidateNext
  <2>5. ReadDuringCall'
    BY <1>7 DEF ReadClock, NonceInv, TypeOK, ReadDuringCall
  <2> QED
    BY <1>2, <1>3, <2>2, <2>3, <2>4, <2>5 DEF NonceInv
<1>8. CASE CasFails(c)
  <2>1. TypeOK'
    BY <1>8 DEF CasFails, NonceInv, TypeOK, ClientState
  <2>2. SharedGenerator' /\ CandidateNext'
    BY <1>4, <1>8
       DEF CasFails, NonceInv, TypeOK, ClientState, SharedGenerator, CandidateNext
  <2>3. ReadDuringCall'
    BY <1>8 DEF CasFails, NonceInv, TypeOK, ReadDuringCall
  <2> QED
    BY <1>2, <1>3, <2>1, <2>2, <2>3 DEF NonceInv
<1> QED
  BY <1>5, <1>6, <1>7, <1>8

\* The successful compare-and-swap of Next: the drawn nonce extends the log of
\* its signer, above every nonce drawn before and without a gap above the clock.
LEMMA CasSucceedsInv ==
  ASSUME NonceInv, NEW c \in Clients, CasSucceeds(c)
  PROVE  NonceInv'
<1> DEFINE s == SignerOf[c]
           g == gen[c]
           e == [signer |-> s, nonce |-> cand[c]]
           Entry == [signer : Signers, nonce : Nat]
<1>1. /\ s \in Signers
      /\ g \in Clients /\ g # None
      /\ registry[s] = g
      /\ cand[c] \in Nat /\ last[g] \in Nat /\ maxClock \in Nat
      /\ cand[c] > last[g]
      /\ cand[c] > maxClock => cand[c] = last[g] + 1
  BY NonceAssumption
     DEF CasSucceeds, Unmoved, NonceInv, TypeOK, SharedGenerator, CandidateNext
<1>2. /\ issued' = Append(issued, e)
      /\ last' = [last EXCEPT ![g] = cand[c]]
      /\ UNCHANGED <<clock, maxClock, registry, gen, seen, cand>>
      /\ pc' = [pc EXCEPT ![c] = "ready"]
      /\ shown' = [shown EXCEPT ![c] = {}]
  BY DEF CasSucceeds
<1>3. /\ Len(issued) \in Nat
      /\ issued' \in Seq(Entry)
      /\ Len(issued') = Len(issued) + 1
      /\ issued'[Len(issued) + 1].signer = s
      /\ issued'[Len(issued) + 1].nonce = cand[c]
      /\ \A i \in 1 .. Len(issued) : issued'[i] = issued[i]
  <2>1. issued \in Seq(Entry) /\ e \in Entry
    BY <1>1 DEF NonceInv, TypeOK
  <2>2. Len(issued) \in Nat
    BY LogType DEF NonceInv
  <2> HIDE DEF Entry
  <2>3. /\ issued' \in Seq(Entry)
        /\ Len(issued') = Len(issued) + 1
        /\ issued'[Len(issued) + 1] = e
        /\ \A i \in 1 .. Len(issued) : issued'[i] = issued[i]
    BY <1>2, <2>1, AppendProperties
  <2> QED
    BY <2>2, <2>3
<1>4. /\ last'[g] = cand[c]
      /\ \A d \in Clients : d # g => last'[d] = last[d]
      /\ \A d \in Clients : last[d] \in Nat /\ last'[d] \in Nat /\ last[d] <= last'[d]
  BY <1>1, <1>2 DEF NonceInv, TypeOK
<1> HIDE DEF s, g, e
<1>5. TypeOK'
  <2>1. /\ last' \in [Clients -> Nat] /\ pc' \in [Clients -> ClientState]
        /\ shown' \in [Clients -> SUBSET Nat]
    BY <1>1, <1>2 DEF NonceInv, TypeOK, ClientState
  <2> QED
    BY <1>2, <1>3, <2>1 DEF NonceInv, TypeOK
<1>6. (clock <= maxClock)' /\ OwnSigner'
  BY <1>2 DEF NonceInv, OwnSigner
<1>7. SharedGenerator' /\ CandidateNext' /\ ReadDuringCall'
  <2>1. SharedGenerator' /\ CandidateNext'
    BY <1>2 DEF CasSucceeds, NonceInv, TypeOK, SharedGenerator, CandidateNext
  <2>2. ReadDuringCall'
    BY <1>2 DEF NonceInv, TypeOK, ReadDuringCall
  <2> QED
    BY <2>1, <2>2
<1>8. \* no other signer uses this generator
      \A t \in Signers : registry[t] = g => t = s
  BY <1>1 DEF NonceInv, OwnSigner
<1>9. UnusedUntilStored'
  <2> SUFFICES ASSUME NEW d \in Clients, registry[SignerOf[d]] # d
               PROVE  last'[d] = 0
    BY <1>2 DEF UnusedUntilStored
  <2>1. d # g
    BY <1>1 DEF NonceInv, OwnSigner
  <2> QED
    BY <1>4, <2>1 DEF NonceInv, UnusedUntilStored
<1>10. LastBounds'
  <2> SUFFICES ASSUME NEW i \in 1 .. Len(issued')
               PROVE  /\ registry[issued'[i].signer] # None
                      /\ issued'[i].nonce <= last'[registry[issued'[i].signer]]
    BY <1>2 DEF LastBounds
  <2>1. CASE i = Len(issued) + 1
    BY <1>1, <1>3, <1>4, <2>1
  <2>2. CASE i \in 1 .. Len(issued)
    <3>1. /\ issued[i].signer \in Signers
          /\ issued[i].nonce \in Nat
          /\ registry[issued[i].signer] # None
          /\ issued[i].nonce <= last[registry[issued[i].signer]]
      BY <2>2, LogType DEF NonceInv, LastBounds
    <3>2. registry[issued[i].signer] \in Clients
      BY <3>1 DEF NonceInv, TypeOK
    <3>3. issued[i].nonce <= last'[registry[issued[i].signer]]
      BY <1>4, <3>1, <3>2
    <3>4. issued'[i] = issued[i]
      BY <1>3, <2>2
    <3> QED
      BY <3>1, <3>3, <3>4
  <2> QED
    BY <1>3, <2>1, <2>2
<1>11. IssuedIncreasing'
  <2> SUFFICES ASSUME NEW i \in 1 .. Len(issued'), NEW j \in 1 .. Len(issued'),
                      i < j, issued'[i].signer = issued'[j].signer
               PROVE  issued'[i].nonce < issued'[j].nonce
    BY DEF IssuedIncreasing
  <2>1. i \in 1 .. Len(issued)
    BY <1>3
  <2>2. issued'[i] = issued[i] /\ issued[i].nonce \in Nat
    BY <1>3, <2>1, LogType DEF NonceInv
  <2>3. CASE j = Len(issued) + 1
    <3>1. issued[i].signer = s
      BY <1>3, <2>2, <2>3
    <3>2. issued[i].nonce <= last[g]
      BY <1>1, <2>1, <3>1 DEF NonceInv, LastBounds
    <3> QED
      BY <1>1, <1>3, <2>2, <2>3, <3>2
  <2>4. CASE j \in 1 .. Len(issued)
    <3>1. issued'[j] = issued[j]
      BY <1>3, <2>4
    <3> QED
      BY <2>1, <2>2, <2>4, <3>1 DEF NonceInv, IssuedIncreasing
  <2> QED
    BY <1>3, <2>3, <2>4
<1>12. NoGapBelowLast'
  <2> SUFFICES ASSUME NEW t \in Signers, registry[t] # None,
                      NEW v \in maxClock + 1 .. last'[registry[t]]
               PROVE  Handed(t, v)'
    BY <1>2 DEF NoGapBelowLast
  <2>1. ASSUME Handed(t, v)
        PROVE  Handed(t, v)'
    <3>1. PICK i \in 1 .. Len(issued) : issued[i].signer = t /\ issued[i].nonce = v
      BY <2>1 DEF Handed
    <3>2. i \in 1 .. Len(issued') /\ issued'[i] = issued[i]
      BY <1>3
    <3> QED
      BY <3>1, <3>2 DEF Handed
  <2>2. CASE t # s
    <3>1. registry[t] \in Clients /\ registry[t] # g
      BY <1>8, <2>2 DEF NonceInv, TypeOK
    <3>2. last'[registry[t]] = last[registry[t]]
      BY <1>4, <3>1
    <3> QED
      BY <2>1, <3>2 DEF NonceInv, NoGapBelowLast
  <2>3. CASE t = s /\ v = cand[c]
    <3>1. Len(issued) + 1 \in 1 .. Len(issued')
      BY <1>3
    <3> QED
      BY <1>3, <2>3, <3>1 DEF Handed
  <2>4. CASE t = s /\ v # cand[c]
    <3>1. v \in maxClock + 1 .. last[g]
      BY <1>1, <1>4, <2>4
    <3> QED
      BY <1>1, <2>1, <2>4, <3>1 DEF NonceInv, NoGapBelowLast
  <2> QED
    BY <2>2, <2>3, <2>4
<1> QED
  BY <1>5, <1>6, <1>7, <1>9, <1>10, <1>11, <1>12 DEF NonceInv

\* The values above a later clock are among those above an earlier one.
LEMMA IntervalShrinks ==
  ASSUME NEW a \in Nat, NEW b \in Nat, a <= b, NEW m \in Nat
  PROVE  b + 1 .. m \subseteq a + 1 .. m
  OBVIOUS

\* The wall clock moves, forth or back: its high-water mark never falls.
LEMMA ClockInv ==
  ASSUME NonceInv, ClockMoves
  PROVE  NonceInv'
<1>1. /\ clock' \in Nat /\ maxClock' \in Nat
      /\ clock' <= maxClock' /\ maxClock <= maxClock'
      /\ UNCHANGED <<registry, gen, last, pc, seen, cand, issued>>
      /\ shown' = [c \in Clients |-> IF shown[c] = {} THEN {} ELSE shown[c] \cup {clock'}]
  BY NonceAssumption DEF ClockMoves, NonceInv, TypeOK
<1>2. TypeOK'
  <2>1. shown' \in [Clients -> SUBSET Nat]
    BY <1>1 DEF NonceInv, TypeOK
  <2> QED
    BY <1>1, <2>1 DEF NonceInv, TypeOK
<1>3. /\ SharedGenerator' /\ OwnSigner' /\ UnusedUntilStored'
      /\ LastBounds' /\ IssuedIncreasing'
  BY <1>1
     DEF NonceInv, SharedGenerator, OwnSigner, UnusedUntilStored, LastBounds,
         IssuedIncreasing
<1>4. CandidateNext' /\ ReadDuringCall'
  <2>1. CandidateNext'
    BY <1>1 DEF NonceInv, TypeOK, CandidateNext
  <2>2. ReadDuringCall'
    BY <1>1 DEF NonceInv, TypeOK, ReadDuringCall
  <2> QED
    BY <2>1, <2>2
<1>5. NoGapBelowLast'
  <2> SUFFICES ASSUME NEW t \in Signers, registry'[t] # None,
                      NEW v \in maxClock' + 1 .. last'[registry'[t]]
               PROVE  Handed(t, v)'
    BY DEF NoGapBelowLast
  <2>1. registry[t] # None /\ v \in maxClock' + 1 .. last[registry[t]]
    BY <1>1
  <2>2. last[registry[t]] \in Nat /\ maxClock \in Nat
    <3>1. registry[t] \in Clients
      BY <2>1 DEF NonceInv, TypeOK
    <3> QED
      BY <3>1 DEF NonceInv, TypeOK
  <2>3. maxClock' + 1 .. last[registry[t]] \subseteq maxClock + 1 .. last[registry[t]]
    BY <1>1, <2>2, IntervalShrinks
  <2>4. v \in maxClock + 1 .. last[registry[t]]
    BY <2>1, <2>3
  <2> QED
    BY <1>1, <2>1, <2>4 DEF NonceInv, NoGapBelowLast, Handed
<1> QED
  BY <1>1, <1>2, <1>3, <1>4, <1>5 DEF NonceInv

(***************************************************************************)
(* NonceInv holds throughout: ForSigner gives every client of a key the    *)
(* same generator, and the CAS loop keeps its `last` above all its nonces. *)
(***************************************************************************)
THEOREM NonceInvariant == Spec => []NonceInv
<1>1. NonceInv /\ [Next]_vars => NonceInv'
  <2> SUFFICES ASSUME NonceInv, [Next]_vars
               PROVE  NonceInv'
    OBVIOUS
  <2>1. CASE ClockMoves
    BY <2>1, ClockInv
  <2>2. ASSUME NEW c \in Clients, ClientStep(c)
        PROVE  NonceInv'
    BY <2>2, LookupInv, LoadOrStoreInv, BeforeCasInv, CasSucceedsInv
       DEF ClientStep
  <2>3. CASE UNCHANGED vars
    BY <2>3
       DEF vars, NonceInv, TypeOK, SharedGenerator, OwnSigner,
           UnusedUntilStored, LastBounds, CandidateNext, ReadDuringCall,
           IssuedIncreasing, NoGapBelowLast, Handed
  <2> QED
    BY <2>1, <2>2, <2>3 DEF Next
<1> QED
  BY <1>1, InitInv, PTL DEF Spec

(***************************************************************************)
(* Every variable of Next and ForSigner keeps its type.                    *)
(***************************************************************************)
THEOREM TypeCorrect == Spec => []TypeOK
  BY NonceInvariant, PTL DEF NonceInv

(***************************************************************************)
(* The nonces of one signer strictly increase, for any number of clients.  *)
(***************************************************************************)
THEOREM NoncesIncrease == Spec => []IssuedIncreasing
  BY NonceInvariant, PTL DEF NonceInv

(***************************************************************************)
(* The nonces of a signer run ahead of the clock without gaps.             *)
(***************************************************************************)
THEOREM NoncesFollowClock == Spec => []NoGapAhead
<1>1. NonceInv => NoGapAhead
  <2> SUFFICES ASSUME NonceInv, NEW i \in 1 .. Len(issued),
                      NEW v \in maxClock + 1 .. issued[i].nonce
               PROVE  Handed(issued[i].signer, v)
    BY DEF NoGapAhead
  <2>1. /\ issued[i].signer \in Signers
        /\ issued[i].nonce \in Nat
        /\ registry[issued[i].signer] # None
        /\ issued[i].nonce <= last[registry[issued[i].signer]]
    BY LogType DEF NonceInv, LastBounds
  <2>2. registry[issued[i].signer] \in Clients
    BY <2>1 DEF NonceInv, TypeOK
  <2>3. v \in maxClock + 1 .. last[registry[issued[i].signer]]
    BY <2>1, <2>2 DEF NonceInv, TypeOK
  <2> QED
    BY <2>1, <2>3 DEF NonceInv, NoGapBelowLast
<1> QED
  BY <1>1, NonceInvariant, PTL

\* The candidate of a CAS that succeeds is the source's answer to a time of the
\* call, and installing it moves the top of its signer only.
LEMMA CasReturns ==
  ASSUME NonceInv, NEW c \in Clients, CasSucceeds(c)
  PROVE  Source!Return(c)
<1> DEFINE s == SignerOf[c]
           g == gen[c]
<1>1. /\ s \in Signers /\ g \in Clients /\ g # None /\ registry[s] = g
      /\ last[g] \in Nat /\ last[g] = seen[c]
  BY NonceAssumption DEF CasSucceeds, Unmoved, NonceInv, TypeOK, SharedGenerator
<1>2. PICK now \in shown[c] : cand[c] = Candidate(now, seen[c])
  BY DEF CasSucceeds, NonceInv, ReadDuringCall
<1>3. Top[s] = last[g]
  BY <1>1 DEF Top
<1>4. now \in Nat
  BY <1>2 DEF NonceInv, TypeOK
<1>5. cand[c] = Source!Following(now, Top[s])
  BY <1>1, <1>2, <1>3, <1>4 DEF Candidate, Source!Following
<1>6. Top' = [Top EXCEPT ![s] = cand[c]]
  <2>1. /\ last' = [last EXCEPT ![g] = cand[c]] /\ registry' = registry
    BY DEF CasSucceeds
  <2>2. ASSUME NEW t \in Signers
        PROVE  (IF registry'[t] = None THEN 0 ELSE last'[registry'[t]])
                 = IF t = s THEN cand[c] ELSE Top[t]
    <3>1. CASE t = s
      BY <1>1, <2>1, <3>1 DEF NonceInv, TypeOK
    <3>2. CASE t # s /\ registry[t] # None
      <4>1. registry[t] \in Clients /\ registry[t] # g
        BY <1>1, <3>2 DEF NonceInv, TypeOK, OwnSigner
      <4> QED
        BY <2>1, <3>2, <4>1 DEF Top, NonceInv, TypeOK
    <3>3. CASE t # s /\ registry[t] = None
      BY <2>1, <3>3 DEF Top
    <3> QED
      BY <3>1, <3>2, <3>3
  <2> QED
    BY <1>1, <2>2 DEF Top
<1>7. /\ issued' = Append(issued, [signer |-> s, nonce |-> cand[c]])
      /\ shown' = [shown EXCEPT ![c] = {}]
      /\ UNCHANGED clock
  BY DEF CasSucceeds
<1> QED
  BY <1>2, <1>5, <1>6, <1>7 DEF Source!Return

(***************************************************************************)
(* The generators implement the atomic nonce source of NonceSource: the    *)
(* successful compare-and-swap is the one step in which a call takes       *)
(* effect; loading, retrying and registering leave the source alone, since *)
(* a generator that is registered has never been used.                     *)
(***************************************************************************)
THEOREM ImplementsSource == Spec => SourceSpec
<1>1. Init => Source!Init
  <2> SUFFICES ASSUME Init
               PROVE  Source!Init
    OBVIOUS
  <2>1. clock \in Nat /\ Top = [s \in Signers |-> 0]
    BY NonceAssumption DEF Init, Top
  <2> QED
    BY <2>1 DEF Init, Source!Init
<1>2. NonceInv /\ [Next]_vars => [Source!Next]_(Source!vars)
  <2> SUFFICES ASSUME NonceInv, [Next]_vars
               PROVE  Source!Next \/ UNCHANGED Source!vars
    OBVIOUS
  <2>1. CASE ClockMoves
    <3>1. /\ clock' \in Nat
          /\ shown' = [c \in Clients |-> IF shown[c] = {} THEN {} ELSE shown[c] \cup {clock'}]
          /\ UNCHANGED <<registry, last, issued>>
      BY <2>1, NonceAssumption DEF ClockMoves
    <3>2. Top' = Top
      BY <3>1 DEF Top
    <3> QED
      BY <3>1, <3>2 DEF Source!Tick, Source!Next
  <2>2. ASSUME NEW c \in Clients, Call(c)
        PROVE  Source!Next
    <3>1. shown[c] = {}
      BY <2>2 DEF Call, NonceInv, ReadDuringCall
    <3>2. Top' = Top
      BY <2>2 DEF Call, Top
    <3> QED
      BY <2>2, <3>1, <3>2 DEF Call, Source!Call, Source!Next
  <2>3. ASSUME NEW c \in Clients, CasSucceeds(c)
        PROVE  Source!Next
    BY <2>3, CasReturns DEF Source!Next
  <2>4. ASSUME NEW c \in Clients, Lookup(c) \/ LoadLast(c) \/ ReadClock(c) \/ CasFails(c)
        PROVE  UNCHANGED Source!vars
    BY <2>4 DEF Lookup, LoadLast, ReadClock, CasFails, Top, Source!vars
  <2>5. ASSUME NEW c \in Clients, LoadOrStore(c)
        PROVE  UNCHANGED Source!vars
    <3>1. /\ registry' = [registry EXCEPT ![SignerOf[c]] = Stored(c)]
          /\ UNCHANGED <<clock, shown, issued, last>>
          /\ SignerOf[c] \in Signers /\ None \notin Clients
      BY <2>5, NonceAssumption DEF LoadOrStore
    <3>2. ASSUME NEW t \in Signers
          PROVE  (IF registry'[t] = None THEN 0 ELSE last'[registry'[t]]) = Top[t]
      <4>1. CASE registry[t] = None /\ t = SignerOf[c]
        <5>1. registry'[t] = c /\ last[c] = 0
          BY <3>1, <4>1 DEF Stored, NonceInv, TypeOK, UnusedUntilStored
        <5> QED
          BY <3>1, <4>1, <5>1 DEF Top
      <4>2. CASE registry[t] # None \/ t # SignerOf[c]
        <5>1. registry'[t] = registry[t]
          BY <3>1, <4>2 DEF Stored, NonceInv, TypeOK
        <5> QED
          BY <3>1, <5>1 DEF Top
      <4> QED
        BY <4>1, <4>2
    <3>3. Top' = Top
      BY <3>2 DEF Top
    <3> QED
      BY <3>1, <3>3 DEF Source!vars
  <2>6. CASE UNCHANGED vars
    BY <2>6 DEF vars, Top, Source!vars
  <2> QED
    BY <2>1, <2>2, <2>3, <2>4, <2>5, <2>6 DEF Next, ClientStep
<1> QED
  BY <1>1, <1>2, NonceInvariant, PTL DEF Spec, SourceSpec, Source!Spec
=============================================================================
