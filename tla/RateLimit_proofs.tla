-------------------------- MODULE RateLimit_proofs --------------------------
(***************************************************************************)
(* Proofs about the rate-limit window, for any number of callers, weights, *)
(* buckets and seconds, and a clock that jumps both ways.                  *)
(***************************************************************************)
EXTENDS RateLimit, SequenceTheorems, FiniteSetTheorems, TLAPS

\* A caller inside account has a weight left to add, and weights are positive.
Owing ==
  \A c \in Callers :
    /\ due[c] \in Seq(Nat \ {0})
    /\ pc[c] \in {"stamp", "load", "cas"} => due[c] # <<>>

\* A bucket is of a second of its slot that weight was added under.
Filed ==
  \A i \in Slots :
    buckets[i].stamp # 0 => /\ buckets[i].stamp % Ring = i
                            /\ added[buckets[i].stamp] > 0

WindowInv == TypeOK /\ Owing /\ Filed /\ NothingLost

LEMMA SlotOf ==
  ASSUME NEW s \in Nat
  PROVE  s % Ring \in Slots
BY RateLimitAssumption DEF Slots

\* A scan ends with the last bucket.
LEMMA NextBucket ==
  ASSUME NEW i \in Slots
  PROVE  i + 1 \in 0 .. Ring
<1>1. \A k \in Nat \ {0} : \A n \in 0 .. k - 1 : n + 1 \in 0 .. k
  OBVIOUS
<1> QED
  BY <1>1, RateLimitAssumption DEF Slots

LEMMA WeightIsNat == \A w \in Word : w.weight \in Nat
<1>1. 0 .. FieldMax \subseteq Nat
  BY RateLimitAssumption
<1> QED
  BY <1>1 DEF Word

LEMMA SecondsAreNat == Seconds \subseteq Nat /\ Stamps \subseteq Nat /\ 0 \notin Seconds
BY RateLimitAssumption DEF Seconds, Stamps

LEMMA EmptySequence == ASSUME NEW S PROVE <<>> \in Seq(S)
OBVIOUS

LEMMA WindowInit == Init => WindowInv
<1> SUFFICES ASSUME Init PROVE WindowInv
  OBVIOUS
<1> USE RateLimitAssumption DEF Init
<1>1. TypeOK
  <2>1. Empty \in Word
    BY DEF Empty, Word, Stamps
  <2>2. due \in [Callers -> Seq(Nat)]
    BY EmptySequence
  <2>3. Ring \in Seconds
    BY DEF Seconds
  <2>4. scan \in [Callers -> [next : 0 .. Ring, total : Nat]]
    OBVIOUS
  <2>5. buckets \in [Slots -> Word] /\ old \in [Callers -> Word]
    BY <2>1
  <2>6. pc \in [Callers -> CallerState] /\ left \in [Callers -> 0 .. MaxRequests]
    BY DEF CallerState
  <2>7. clock \in Seconds /\ second \in [Callers -> Seconds] /\ added \in [Seconds -> Nat]
    BY <2>3
  <2> QED
    BY <2>2, <2>4, <2>5, <2>6, <2>7 DEF TypeOK
<1>2. Owing
  BY EmptySequence DEF Owing
<1>3. Filed
  BY DEF Filed, Empty
<1>4. NothingLost
  BY DEF NothingLost
<1> QED
  BY <1>1, <1>2, <1>3, <1>4 DEF WindowInv

\* The steps of a caller outside Add's swap, and those of the clock, leave the
\* buckets and the history of them alone.
Quiet == UNCHANGED <<buckets, added, stale>>

LEMMA QuietKeeps ==
  ASSUME WindowInv, Quiet
  PROVE  Filed' /\ NothingLost'
BY DEF WindowInv, Quiet, Filed, NothingLost, Kept

\* Adding a weight to a word that holds the capped sum gives the capped sum.
LEMMA CappedSum ==
  ASSUME NEW a \in Nat, NEW h \in Nat
  PROVE  Capped(Capped(a) + h) = Capped(a + h)
BY RateLimitAssumption DEF Capped

LEMMA CappedType ==
  ASSUME NEW a \in Nat
  PROVE  Capped(a) \in 0 .. FieldMax
BY RateLimitAssumption DEF Capped

LEMMA SwapKeeps ==
  ASSUME WindowInv, NEW c \in Callers, CasSucceeds(c)
  PROVE  Filed' /\ NothingLost' /\ buckets' \in [Slots -> Word]
         /\ added' \in [Seconds -> Nat] /\ stale' \in BOOLEAN
<1>0. PICK s, h, w : s = second[c] /\ h = Head(due[c]) /\ w = buckets[s % Ring]
  OBVIOUS
<1>1. s \in Seconds /\ s \in Nat /\ s # 0 /\ s % Ring \in Slots /\ h \in Nat /\ h > 0
  <2>1. s \in Seconds
    BY <1>0 DEF WindowInv, TypeOK
  <2>2. s \in Nat /\ s # 0
    BY <2>1, SecondsAreNat
  <2>3. due[c] \in Seq(Nat \ {0}) /\ due[c] # <<>>
    BY DEF WindowInv, Owing, CasSucceeds, Goes
  <2>4. h \in Nat \ {0}
    BY <1>0, <2>3
  <2> QED
    BY <2>1, <2>2, <2>4, SlotOf
<1>2. w \in Word /\ w.stamp \in Nat /\ w.weight \in 0 .. FieldMax /\ w.weight \in Nat
  <2>1. w \in Word
    BY <1>0, <1>1 DEF WindowInv, TypeOK
  <2>2. w.stamp \in Stamps /\ w.weight \in 0 .. FieldMax
    BY <2>1 DEF Word
  <2>3. w.stamp \in Nat
    BY <2>2, SecondsAreNat
  <2>4. w.weight \in Nat
    BY <2>2, RateLimitAssumption
  <2> QED
    BY <2>1, <2>2, <2>3, <2>4
<1> DEFINE kept == IF w.stamp = s THEN w.weight ELSE 0
<1>3. /\ buckets' = [buckets EXCEPT ![s % Ring] = [stamp |-> s, weight |-> Capped(kept + h)]]
      /\ added' = [added EXCEPT ![s] = @ + h]
      /\ stale' = (stale \/ w.stamp > s)
  BY <1>0 DEF CasSucceeds, Unmoved, Slot, Updated
<1>4. kept \in Nat /\ Capped(kept + h) \in 0 .. FieldMax
  <2>1. kept \in Nat
    BY <1>2
  <2> QED
    BY <2>1, <1>1, CappedType
<1>5. [stamp |-> s, weight |-> Capped(kept + h)] \in Word
  BY <1>1, <1>4 DEF Word, Stamps
<1> HIDE DEF kept
<1>6. buckets' \in [Slots -> Word]
  BY <1>1, <1>3, <1>5 DEF WindowInv, TypeOK
<1>7. added' \in [Seconds -> Nat] /\ stale' \in BOOLEAN
  BY <1>1, <1>3 DEF WindowInv, TypeOK
<1>8. /\ \A t \in Seconds \ {s} : added'[t] = added[t]
      /\ added'[s] = added[s] + h /\ added'[s] > 0
      /\ added[s] \in Nat
      /\ \A t \in Seconds : added[t] > 0 => added'[t] > 0
  BY <1>1, <1>3 DEF WindowInv, TypeOK
<1>9. /\ \A i \in Slots \ {s % Ring} : buckets'[i] = buckets[i]
      /\ buckets'[s % Ring] = [stamp |-> s, weight |-> Capped(kept + h)]
  BY <1>1, <1>3 DEF WindowInv, TypeOK
<1>10. \A i \in Slots : buckets[i].stamp \in Stamps
  BY DEF WindowInv, TypeOK, Word
<1>11. Filed'
  <2> SUFFICES ASSUME NEW i \in Slots, buckets'[i].stamp # 0
               PROVE  buckets'[i].stamp % Ring = i /\ added'[buckets'[i].stamp] > 0
    BY DEF Filed
  <2>1. CASE i = s % Ring
    BY <1>8, <1>9, <2>1
  <2>2. CASE i # s % Ring
    <3>1. buckets'[i] = buckets[i]
      BY <1>9, <2>2
    <3>2. buckets[i].stamp \in Seconds
      BY <1>10, <3>1 DEF Stamps
    <3> QED
      BY <1>8, <3>1, <3>2 DEF WindowInv, Filed
  <2> QED
    BY <2>1, <2>2
<1>12. NothingLost'
  <2> SUFFICES ASSUME ~ stale', NEW t \in Seconds, added'[t] > 0
               PROVE  Kept(t)'
    BY DEF NothingLost
  <2>1. ~ stale /\ w.stamp <= s
    <3>1. ~ stale /\ ~ (w.stamp > s)
      BY <1>3, Zenon
    <3> QED
      BY <1>1, <1>2, <3>1
  <2>2. \A u \in Seconds : added[u] > 0 => Kept(u)
    BY <2>1 DEF WindowInv, NothingLost
  <2>3. t \in Nat /\ t % Ring \in Slots
    BY SecondsAreNat, SlotOf
  <2>4. CASE t = s
    <3>1. Capped(kept + h) = Capped(added[s] + h)
      <4>1. CASE w.stamp = s
        <5>1. added[s] > 0
          BY <1>0, <1>1, <4>1 DEF WindowInv, Filed
        <5>2. w = [stamp |-> s, weight |-> Capped(added[s])]
          BY <1>0, <1>1, <2>2, <4>1, <5>1 DEF Kept
        <5>3. kept = Capped(added[s])
          BY <4>1, <5>2 DEF kept
        <5> QED
          BY <1>1, <1>8, <5>3, CappedSum
      <4>2. CASE w.stamp # s
        <5>1. ~ (added[s] > 0)
          <6>1. ~ (w.stamp > s)
            BY <1>1, <1>2, <2>1
          <6>2. Kept(s) => w = [stamp |-> s, weight |-> Capped(added[s])] \/ w.stamp > s
            BY <1>0 DEF Kept
          <6>3. ~ Kept(s)
            BY <4>2, <6>1, <6>2
          <6> QED
            BY <1>1, <2>2, <6>3, Zenon
        <5>2. added[s] = 0 /\ kept = 0
          BY <1>8, <4>2, <5>1 DEF kept
        <5> QED
          BY <5>2
      <4> QED
        BY <4>1, <4>2
    <3> QED
      BY <1>8, <1>9, <2>4, <3>1 DEF Kept
  <2>5. CASE t # s /\ t % Ring = s % Ring
    <3>1. Kept(t)
      BY <1>8, <2>2, <2>5
    <3>2. t < s
      <4>1. w.stamp = t \/ w.stamp > t
        BY <1>0, <2>5, <3>1 DEF Kept
      <4> QED
        BY <1>1, <1>2, <2>1, <2>3, <2>5, <4>1
    <3> QED
      BY <1>8, <1>9, <2>5, <3>2 DEF Kept
  <2>6. CASE t # s /\ t % Ring # s % Ring
    <3>1. Kept(t) /\ added'[t] = added[t]
      BY <1>8, <2>2, <2>6
    <3>2. buckets'[t % Ring] = buckets[t % Ring]
      BY <1>9, <2>3, <2>6
    <3>3. buckets[t % Ring].stamp > t => buckets[t % Ring].stamp \in Seconds
      BY <1>10, <2>3 DEF Stamps
    <3> QED
      BY <1>8, <3>1, <3>2, <3>3 DEF Kept
  <2> QED
    BY <2>4, <2>5, <2>6
<1> QED
  BY <1>6, <1>7, <1>11, <1>12

LEMMA ReadKeeps ==
  ASSUME WindowInv, NEW c \in Callers, ReadBucket(c)
  PROVE  WindowInv'
<1>1. scan[c].next \in Slots /\ scan[c].next + 1 \in 0 .. Ring
  BY NextBucket DEF ReadBucket
<1>2. Counted(buckets[scan[c].next], second[c]) \in Nat
  <2>1. buckets[scan[c].next] \in Word
    BY <1>1 DEF WindowInv, TypeOK
  <2>2. buckets[scan[c].next].weight \in Nat
    BY <2>1, WeightIsNat
  <2> QED
    BY <2>2 DEF Counted
<1>3. scan \in [Callers -> [next : 0 .. Ring, total : Nat]] /\ scan[c].total \in Nat
  BY DEF WindowInv, TypeOK
<1>4. scan' \in [Callers -> [next : 0 .. Ring, total : Nat]]
  <2>1. PICK n, m : /\ n = scan[c].next + 1
                    /\ m = scan[c].total + Counted(buckets[scan[c].next], second[c])
    OBVIOUS
  <2>2. n \in 0 .. Ring
    BY <1>1, <2>1
  <2>3. m \in Nat
    BY <1>2, <1>3, <2>1
  <2>4. scan' = [scan EXCEPT ![c].next = n, ![c].total = m]
    BY <2>1 DEF ReadBucket
  <2> QED
    BY <1>3, <2>2, <2>3, <2>4
<1>5. UNCHANGED <<clock, regressed, buckets, pc, left, second, due, old, added, stale>>
  BY DEF ReadBucket
<1>6. TypeOK'
  BY <1>4, <1>5 DEF WindowInv, TypeOK
<1>7. Owing' /\ Quiet
  BY <1>5 DEF WindowInv, Owing, Quiet
<1> QED
  BY <1>6, <1>7, QuietKeeps DEF WindowInv

LEMMA CallerKeeps ==
  ASSUME WindowInv, NEW c \in Callers, CallerStep(c)
  PROVE  WindowInv'
<1> USE DEF WindowInv, TypeOK, Goes, CallerState
<1>1. CASE Begin(c)
  <2>1. left' \in [Callers -> 0 .. MaxRequests]
    <3>1. \A n \in Nat : \A k \in 0 .. n : k > 0 => k - 1 \in 0 .. n
      OBVIOUS
    <3>2. left[c] - 1 \in 0 .. MaxRequests
      BY <1>1, <3>1, RateLimitAssumption DEF Begin
    <3> QED
      BY <1>1, <3>2 DEF Begin
  <2>2. scan' \in [Callers -> [next : 0 .. Ring, total : Nat]]
    <3>1. 0 \in 0 .. Ring
      BY RateLimitAssumption
    <3> QED
      BY <1>1, <3>1 DEF Begin
  <2>3. /\ pc' \in [Callers -> CallerState] /\ second' \in [Callers -> Seconds]
        /\ UNCHANGED <<clock, regressed, buckets, due, old, added, stale>>
    BY <1>1 DEF Begin
  <2>4. TypeOK'
    BY <2>1, <2>2, <2>3
  <2>5. Owing'
    BY <1>1, <2>3 DEF Begin, Owing
  <2> QED
    BY <2>3, <2>4, <2>5, QuietKeeps DEF Quiet
<1>2. CASE ReadBucket(c)
  BY <1>2, ReadKeeps
<1>3. CASE Admit(c) \/ Refuse(c)
  BY <1>3, QuietKeeps DEF Admit, Refuse, Quiet, Owing
<1>4. CASE Answered(c)
  <2>0. WeightOf[c] \in Nat \ {0} /\ (ExtraOf[c] > 0 => ExtraOf[c] \in Nat \ {0})
    BY RateLimitAssumption
  <2>1. /\ <<WeightOf[c]>> \in Seq(Nat \ {0}) /\ <<WeightOf[c]>> # <<>>
        /\ ExtraOf[c] > 0 => <<WeightOf[c], ExtraOf[c]>> \in Seq(Nat \ {0})
        /\ <<WeightOf[c], ExtraOf[c]>> # <<>>
    BY <2>0
  <2>2. PICK d : due' = [due EXCEPT ![c] = d] /\ d \in Seq(Nat \ {0}) /\ d # <<>>
    BY <1>4, <2>1 DEF Answered
  <2>3. d \in Seq(Nat)
    <3>1. Nat \ {0} \subseteq Nat
      OBVIOUS
    <3> QED
      BY <2>2, <3>1, SeqMonotonic
  <2>4. /\ due' \in [Callers -> Seq(Nat)] /\ pc' \in [Callers -> CallerState]
        /\ UNCHANGED <<clock, regressed, buckets, left, second, scan, old, added, stale>>
    BY <1>4, <2>2, <2>3 DEF Answered
  <2>5. TypeOK'
    BY <2>4
  <2>6. Owing'
    BY <1>4, <2>2 DEF Answered, Owing
  <2> QED
    BY <2>4, <2>5, <2>6, QuietKeeps DEF Quiet
<1>5. CASE Stamp(c)
  BY <1>5, QuietKeeps DEF Stamp, Quiet, Owing
<1>6. CASE LoadBucket(c)
  <2>1. Slot(c) \in Slots
    BY SlotOf, SecondsAreNat DEF Slot
  <2> QED
    BY <1>6, <2>1, QuietKeeps DEF LoadBucket, Quiet, Owing
<1>7. CASE CasSucceeds(c)
  <2>1. due[c] \in Seq(Nat \ {0}) /\ due[c] # <<>>
    BY <1>7 DEF CasSucceeds, Owing
  <2>2. /\ Tail(due[c]) \in Seq(Nat \ {0}) /\ Tail(due[c]) \in Seq(Nat)
        /\ Len(due[c]) > 1 => Tail(due[c]) # <<>>
    <3>1. /\ Tail(due[c]) \in Seq(Nat \ {0}) /\ Len(Tail(due[c])) = Len(due[c]) - 1
          /\ Len(due[c]) \in Nat
      BY <2>1, HeadTailProperties, LenProperties
    <3>2. Tail(due[c]) \in Seq(Nat)
      BY <3>1
    <3>3. Len(due[c]) > 1 => Len(Tail(due[c])) # 0
      <4>1. \A n \in Nat : n > 1 => n - 1 # 0
        OBVIOUS
      <4>2. Len(due[c]) > 1 => Len(due[c]) - 1 # 0
        BY <3>1, <4>1
      <4> QED
        BY <3>1, <4>2, Zenon
    <3>4. Len(Tail(due[c])) # 0 => Tail(due[c]) # <<>>
      BY Len(<<>>) = 0
    <3> QED
      BY <3>1, <3>2, <3>3, <3>4
  <2>3. Owing' /\ due' \in [Callers -> Seq(Nat)]
    BY <1>7, <2>2 DEF CasSucceeds, Owing
  <2> QED
    BY <1>7, <2>3, SwapKeeps DEF CasSucceeds
<1>8. CASE CasFails(c)
  BY <1>8, QuietKeeps DEF CasFails, Quiet, Owing
<1> QED
  BY <1>1, <1>2, <1>3, <1>4, <1>5, <1>6, <1>7, <1>8 DEF CallerStep

LEMMA WindowStep == WindowInv /\ [Next]_vars => WindowInv'
<1> SUFFICES ASSUME WindowInv, [Next]_vars PROVE WindowInv'
  OBVIOUS
<1>1. CASE UNCHANGED vars
  BY <1>1 DEF vars, WindowInv, TypeOK, Owing, Filed, NothingLost, Kept
<1>2. CASE ClockMoves
  BY <1>2, QuietKeeps DEF ClockMoves, Quiet, WindowInv, TypeOK, Owing
<1> QED
  BY <1>1, <1>2, CallerKeeps DEF Next

\* The inductive invariant of the window.
THEOREM WindowInvariant == Spec => []WindowInv
BY WindowInit, WindowStep, PTL DEF Spec

\* Concurrent Adds neither lose nor duplicate weight, whatever the clock does.
THEOREM WeightKept == Spec => []NothingLost
BY WindowInvariant, PTL DEF WindowInv

(***************************************************************************)
(* Sums over finite sets, by the units they count.                         *)
(***************************************************************************)
Units(f, S) == UNION {{x} \X (1 .. f[x]) : x \in S}

LEMMA OwnUnits ==
  ASSUME NEW x, NEW n \in Nat
  PROVE  IsFiniteSet({x} \X (1 .. n)) /\ Cardinality({x} \X (1 .. n)) = n
<1>1. /\ IsFiniteSet(1 .. n)
      /\ Cardinality(1 .. n) = IF 1 > n THEN 0 ELSE n - 1 + 1
  <2>1. 1 \in Int /\ n \in Int
    OBVIOUS
  <2> QED
    BY <2>1, FS_Interval
<1>2. IsFiniteSet(1 .. n) /\ Cardinality(1 .. n) = n
  BY <1>1
<1>3. IsFiniteSet({x}) /\ Cardinality({x}) = 1
  BY FS_Singleton
<1>4. /\ IsFiniteSet({x} \X (1 .. n))
      /\ Cardinality({x} \X (1 .. n)) = Cardinality({x}) * Cardinality(1 .. n)
  BY <1>2, <1>3, FS_Product
<1> QED
  BY <1>2, <1>3, <1>4

\* A sum of numbers is a number.
LEMMA SumNat ==
  ASSUME NEW f, NEW S, IsFiniteSet(S), \A x \in S : f[x] \in Nat
  PROVE  IsFiniteSet(Units(f, S)) /\ Sum(f, S) \in Nat
<1> DEFINE own(x) == {x} \X (1 .. f[x])
           g == [x \in S |-> own(x)]
           R == {own(x) : x \in S}
<1>1. \A x \in S : IsFiniteSet(own(x))
  BY OwnUnits
<1>2. g \in Surjection(S, R)
  BY DEF Surjection
<1>3. \A U \in R : IsFiniteSet(U)
  BY <1>1
<1>4. Units(f, S) = UNION R
  BY DEF Units
<1> HIDE DEF g, R
<1>5. IsFiniteSet(R)
  BY <1>2, FS_Surjection
<1>6. IsFiniteSet(Units(f, S))
  BY <1>3, <1>4, <1>5, FS_UNION
<1> QED
  BY <1>6, FS_CardinalityType DEF Sum, Units

\* A sum with fewer members, or smaller ones, or zeros more, is not larger.
LEMMA SumWithin ==
  ASSUME NEW f, NEW g, NEW S, NEW T, IsFiniteSet(T),
         \A x \in T : g[x] \in Nat,
         \A x \in S : f[x] \in Nat /\ (f[x] = 0 \/ (x \in T /\ f[x] <= g[x]))
  PROVE  Sum(f, S) \in Nat /\ Sum(g, T) \in Nat /\ Sum(f, S) <= Sum(g, T)
<1>1. Units(f, S) \subseteq Units(g, T)
  <2> SUFFICES ASSUME NEW u \in Units(f, S) PROVE u \in Units(g, T)
    OBVIOUS
  <2>1. PICK x \in S : u \in {x} \X (1 .. f[x])
    BY DEF Units
  <2>2. 1 .. f[x] # {}
    BY <2>1
  <2>3. f[x] # 0
    BY <2>2
  <2>4. x \in T /\ f[x] <= g[x] /\ f[x] \in Nat /\ g[x] \in Nat
    BY <2>1, <2>3
  <2>5. u \in {x} \X (1 .. g[x])
    <3>1. 1 .. f[x] \subseteq 1 .. g[x]
      BY <2>4
    <3> QED
      BY <2>1, <3>1
  <2> QED
    BY <2>4, <2>5 DEF Units
<1>2. IsFiniteSet(Units(g, T)) /\ Sum(g, T) \in Nat
  BY SumNat
<1>3. IsFiniteSet(Units(f, S)) /\ Cardinality(Units(f, S)) <= Cardinality(Units(g, T))
  BY <1>1, <1>2, FS_Subset
<1> QED
  BY <1>2, <1>3, FS_CardinalityType DEF Sum, Units

\* The share of one member.
LEMMA SumPoint ==
  ASSUME NEW f, NEW S, IsFiniteSet(S), \A x \in S : f[x] \in Nat, NEW y \in S
  PROVE  Sum(f, S \ {y}) \in Nat /\ Sum(f, S) = Sum(f, S \ {y}) + f[y]
<1> DEFINE own == {y} \X (1 .. f[y])
           rest == Units(f, S \ {y})
<1>1. Units(f, S) = rest \cup own /\ rest \cap own = {}
  BY DEF Units
<1>2. IsFiniteSet(own) /\ Cardinality(own) = f[y] /\ f[y] \in Nat
  BY OwnUnits
<1>3. IsFiniteSet(rest) /\ Sum(f, S \ {y}) \in Nat
  <2>1. IsFiniteSet(S \ {y})
    BY FS_RemoveElement
  <2> QED
    BY <2>1, SumNat
<1>4. Sum(f, S) = Cardinality(Units(f, S)) /\ Sum(f, S \ {y}) = Cardinality(rest)
  BY DEF Sum, Units
<1> HIDE DEF own, rest
<1>5. Cardinality(rest \cup own) = Cardinality(rest) + Cardinality(own) - Cardinality(rest \cap own)
  BY <1>2, <1>3, FS_Union
<1>6. Cardinality(rest \cap own) = 0
  BY <1>1, FS_EmptySet
<1>7. Cardinality(Units(f, S)) = Cardinality(rest) + Cardinality(own) - 0
  BY <1>1, <1>5, <1>6
<1> QED
  BY <1>2, <1>3, <1>4, <1>7

LEMMA SumNone == ASSUME NEW f PROVE Sum(f, {}) = 0
<1>1. UNION {{x} \X (1 .. f[x]) : x \in {}} = {}
  OBVIOUS
<1> QED
  BY <1>1, FS_EmptySet DEF Sum

(***************************************************************************)
(* The overshoot.  Of the admitted requests whose weight is in the window  *)
(* or still to come, take the one that began last: its scan saw all weight *)
(* that was added before it began, and each other caller had at most one   *)
(* request under way then.  The order in which requests began is not in    *)
(* the state: the invariant says that there is a rank of the callers'      *)
(* latest requests with what follows from it.                              *)
(***************************************************************************)
Window == {t \in Seconds : clock - t \in 0 .. Ring - 1}

\* The sum of the weights a caller has still to add.
Owed(s) == IF Len(s) = 0 THEN 0 ELSE IF Len(s) = 1 THEN s[1] ELSE s[1] + s[2]

Owes == \A d \in Callers : Len(due[d]) <= 2 /\ Owed(due[d]) \in 0 .. Cost[d]

\* A clock that never stepped back is the latest second of all.
Timely ==
  ~ regressed => /\ \A d \in Callers : second[d] <= clock
                 /\ \A t \in Seconds : added[t] > 0 => t <= clock

\* What a request that began no later than rank m may still add.
Pending(d, rank, m) ==
  IF pc[d] = "sent" \/ (pc[d] = "scan" /\ rank[d] <= m) THEN Cost[d]
  ELSE IF pc[d] \in {"stamp", "load", "cas"} THEN Owed(due[d])
  ELSE 0
Pend(rank, m) == [d \in Callers |-> Pending(d, rank, m)]

\* The seconds whose bucket the scan of e has still to read.
Unread(e) == {t \in Seconds : t <= second[e] /\ t % Ring >= scan[e].next}

\* The window and what requests up to rank r may add to it, where the last
\* admitted request is of rank r and of caller c.
Bounded(rank, r, c) ==
  Sum(added, Window) + Sum(Pend(rank, r), Callers)
    <= Limit + Sum(Cost, Callers \ {c}) + ExtraOf[c]

\* The scan of e has seen, or will, all but what the others had under way.
Sees(rank, e) ==
  \/ scan[e].total >= Limit
  \/ Sum(added, Window \ Unread(e)) + Sum(Pend(rank, rank[e]), Callers \ {e})
       <= scan[e].total + Sum(Cost, Callers \ {e})

InOrder(rank, r, c) ==
  /\ Bounded(rank, r, c)
  /\ \A e \in Callers : pc[e] = "scan" /\ rank[e] > r => Sees(rank, e)

\* The latest requests have an order as above.
Ordered ==
  \E n \in Nat : \E rank \in [Callers -> 0 .. n] : \E r \in 0 .. n : \E c \in Callers :
    InOrder(rank, r, c)

OvershootInv ==
  /\ WindowInv /\ Owes /\ Timely
  /\ ~ stale /\ ~ regressed => Ordered

LEMMA SecondsFinite ==
  ASSUME NEW S \in SUBSET Seconds
  PROVE  IsFiniteSet(S)
<1>1. IsFiniteSet(Seconds)
  BY FS_Interval, RateLimitAssumption DEF Seconds
<1> QED
  BY <1>1, FS_Subset

LEMMA CallersFinite ==
  ASSUME NEW D \in SUBSET Callers
  PROVE  IsFiniteSet(D) /\ Sum(Cost, D) \in Nat
<1>1. IsFiniteSet(D)
  BY RateLimitAssumption, FS_Subset
<1>2. \A d \in D : Cost[d] \in Nat
  BY RateLimitAssumption DEF Cost
<1> QED
  BY <1>1, <1>2, SumNat

\* No request has more to add than it costs.
LEMMA PendingBound ==
  ASSUME Owes, NEW rank, NEW m, NEW d \in Callers
  PROVE  Cost[d] \in Nat /\ Pending(d, rank, m) \in 0 .. Cost[d]
<1>1. Cost[d] \in Nat
  BY RateLimitAssumption DEF Cost
<1> QED
  BY <1>1 DEF Pending, Owes

\* A second still in the window after the clock moved was in it before.
LEMMA Nearer ==
  ASSUME NEW a \in Nat, NEW b \in Nat, NEW t \in Nat, NEW k \in Nat,
         t <= a, a <= b, b - t \in 0 .. k - 1
  PROVE  a - t \in 0 .. k - 1
OBVIOUS

\* Two numbers of one slot that are less than a ring apart are one.
LEMMA OneOfSlot ==
  ASSUME NEW k \in Nat \ {0}, NEW a \in Nat, NEW b \in Nat,
         a % k = b % k, a <= b, b - a < k
  PROVE  a = b
<1>1. \A z \in Nat : /\ z = k * (z \div k) + (z % k)
                     /\ z \div k \in Nat
                     /\ z % k \in 0 .. k - 1
  <2> TAKE z \in Nat
  <2>1. z = k * (z \div k) + (z % k)
    OBVIOUS
  <2>2. z % k \in 0 .. k - 1
    OBVIOUS
  <2>3. z \div k \in Nat
    OBVIOUS
  <2> QED
    BY <2>1, <2>2, <2>3
<1>2. PICK p \in Nat, q \in Nat, x \in 0 .. k - 1 : a = k * p + x /\ b = k * q + x
  BY <1>1
<1>3. b - a = k * (q - p)
  BY <1>2
<1>4. q - p <= 0 \/ q - p >= 1
  BY <1>2
<1>5. CASE q - p <= 0
  <2>1. k * (q - p) <= 0
    BY <1>2, <1>5
  <2> QED
    BY <1>3, <2>1
<1>6. CASE q - p >= 1
  <2>1. k * (q - p) >= k
    BY <1>2, <1>6
  <2> QED
    BY <1>3, <2>1
<1> QED
  BY <1>4, <1>5, <1>6

\* A step that adds no weight and does not turn back the clock.
Calm ==
  /\ WindowInv /\ Owes /\ Timely
  /\ ~ regressed /\ clock' >= clock /\ clock' \in Seconds
  /\ UNCHANGED added

\* A step after which no caller has more to add than before.
Lessens(rank, rank2, m) ==
  \A d \in Callers : Pending(d, rank2, m)' \in 0 .. Pending(d, rank, m)

LEMMA AddedType ==
  ASSUME WindowInv, NEW V
  PROVE  /\ clock \in Nat
         /\ Window \subseteq Seconds /\ IsFiniteSet(Window \ V)
         /\ \A t \in Window \ V : added[t] \in Nat
         /\ Sum(added, Window \ V) \in Nat
<1>1. Window \subseteq Seconds
  BY DEF Window
<1>2. IsFiniteSet(Window \ V)
  BY <1>1, SecondsFinite
<1>3. \A t \in Window \ V : added[t] \in Nat
  BY <1>1 DEF WindowInv, TypeOK
<1>4. clock \in Nat
  BY SecondsAreNat DEF WindowInv, TypeOK
<1> QED
  BY <1>1, <1>2, <1>3, <1>4, SumNat

LEMMA PendType ==
  ASSUME Owes, NEW rank, NEW m, NEW D \in SUBSET Callers
  PROVE  /\ \A d \in D : /\ Pend(rank, m)[d] = Pending(d, rank, m)
                         /\ Pend(rank, m)[d] \in Nat
                         /\ Pend(rank, m)[d] <= Cost[d]
         /\ Sum(Pend(rank, m), D) \in Nat /\ Sum(Cost, D) \in Nat
         /\ Sum(Pend(rank, m), D) <= Sum(Cost, D)
<1>1. \A d \in D : Pend(rank, m)[d] = Pending(d, rank, m)
  BY DEF Pend
<1>2. \A d \in D : Cost[d] \in Nat /\ Pending(d, rank, m) \in 0 .. Cost[d]
  BY PendingBound
<1>3. \A d \in D : Cost[d] \in Nat /\ Pend(rank, m)[d] \in Nat /\ Pend(rank, m)[d] <= Cost[d]
  BY <1>1, <1>2
<1>4. IsFiniteSet(D)
  BY CallersFinite
<1> QED
  BY <1>1, <1>3, <1>4, SumWithin

\* The window loses no second that weight was added under but by its age.
LEMMA CalmWindow ==
  ASSUME Calm, NEW V
  PROVE  /\ Sum(added', Window' \ V) \in Nat
         /\ Sum(added', Window' \ V) <= Sum(added, Window \ V)
<1>1. \A t \in Seconds : added[t] \in Nat /\ added'[t] = added[t] /\ t \in Nat
  BY SecondsAreNat DEF Calm, WindowInv, TypeOK
<1>2. Window' \subseteq Seconds
  BY DEF Window
<1>3. \A t \in Window' : t \in Window \/ added[t] = 0
  <2> SUFFICES ASSUME NEW t \in Window', added[t] # 0 PROVE t \in Window
    OBVIOUS
  <2>1. t \in Seconds /\ t \in Nat /\ clock' - t \in 0 .. Ring - 1
    BY SecondsAreNat DEF Window
  <2>2. t <= clock
    BY <1>1, <2>1 DEF Calm, Timely
  <2>3. clock \in Nat /\ clock' \in Nat /\ clock <= clock' /\ Ring \in Nat
    BY SecondsAreNat, RateLimitAssumption DEF Calm, WindowInv, TypeOK
  <2>4. clock - t \in 0 .. Ring - 1
    BY <2>1, <2>2, <2>3, Nearer
  <2> QED
    BY <2>1, <2>4 DEF Window
<1> DEFINE S == Window' \ V
           T == Window \ V
<1>4. IsFiniteSet(T) /\ \A t \in T : added[t] \in Nat
  BY AddedType DEF Calm
<1>5. \A t \in S : added'[t] \in Nat /\ (added'[t] = 0 \/ (t \in T /\ added'[t] <= added[t]))
  BY <1>1, <1>2, <1>3
<1> HIDE DEF S, T
<1>6. Sum(added', S) \in Nat /\ Sum(added', S) <= Sum(added, T)
  BY <1>4, <1>5, SumWithin
<1> QED
  BY <1>6 DEF S, T

LEMMA CalmPending ==
  ASSUME Owes, NEW rank, NEW rank2, NEW m, Lessens(rank, rank2, m),
         NEW D \in SUBSET Callers
  PROVE  /\ Sum(Pend(rank2, m)', D) \in Nat
         /\ Sum(Pend(rank2, m)', D) <= Sum(Pend(rank, m), D)
<1> DEFINE f == Pend(rank2, m)'
           g == Pend(rank, m)
<1>1. \A d \in D : f[d] = Pending(d, rank2, m)' /\ g[d] = Pending(d, rank, m)
  BY DEF Pend
<1>2. \A d \in D : g[d] \in Nat
  BY PendType
<1>3. \A d \in D : Pending(d, rank2, m)' \in 0 .. Pending(d, rank, m)
  BY DEF Lessens
<1> HIDE DEF f, g
<1>4. \A d \in D : g[d] \in Nat /\ f[d] \in Nat /\ f[d] <= g[d]
  BY <1>1, <1>2, <1>3
<1>5. IsFiniteSet(D)
  BY CallersFinite
<1>6. Sum(f, D) \in Nat /\ Sum(f, D) <= Sum(g, D)
  BY <1>4, <1>5, SumWithin
<1> QED
  BY <1>6 DEF f, g

LEMMA BoundedKept ==
  ASSUME Calm, NEW rank, NEW rank2, NEW r, NEW c \in Callers,
         Lessens(rank, rank2, r), Bounded(rank, r, c)
  PROVE  Bounded(rank2, r, c)'
<1> DEFINE a == Sum(added, Window)
           a2 == Sum(added', Window')
           p == Sum(Pend(rank, r), Callers)
           p2 == Sum(Pend(rank2, r)', Callers)
           b == Limit + Sum(Cost, Callers \ {c}) + ExtraOf[c]
<1>1. a \in Nat /\ a2 \in Nat /\ a2 <= a
  <2>1. Window \ {} = Window /\ Window' \ {} = Window'
    OBVIOUS
  <2> QED
    BY <2>1, AddedType, CalmWindow DEF Calm
<1>2. p \in Nat /\ p2 \in Nat /\ p2 <= p
  BY CalmPending, PendType DEF Calm
<1>3. b \in Nat
  BY CallersFinite, RateLimitAssumption
<1>4. a + p <= b
  BY DEF Bounded
<1> HIDE DEF a, a2, p, p2, b
<1>5. a2 + p2 <= b
  BY <1>1, <1>2, <1>3, <1>4
<1> QED
  BY <1>5 DEF Bounded, a2, p2, b

LEMMA SeesKept ==
  ASSUME Calm, NEW rank, NEW rank2, NEW e \in Callers, rank2[e] = rank[e],
         Lessens(rank, rank2, rank[e]), Sees(rank, e),
         second'[e] = second[e], scan'[e] = scan[e]
  PROVE  Sees(rank2, e)'
<1>1. CASE scan[e].total >= Limit
  BY <1>1 DEF Sees
<1>2. CASE Sum(added, Window \ Unread(e)) + Sum(Pend(rank, rank[e]), Callers \ {e})
             <= scan[e].total + Sum(Cost, Callers \ {e})
  <2> DEFINE m == rank[e]
             a == Sum(added, Window \ Unread(e))
             a2 == Sum(added', Window' \ Unread(e))
             p == Sum(Pend(rank, m), Callers \ {e})
             p2 == Sum(Pend(rank2, m)', Callers \ {e})
             b == scan[e].total + Sum(Cost, Callers \ {e})
  <2>1. a \in Nat /\ a2 \in Nat /\ a2 <= a
    BY AddedType, CalmWindow DEF Calm
  <2>2. p \in Nat /\ p2 \in Nat /\ p2 <= p
    BY CalmPending, PendType DEF Calm
  <2>3. b \in Nat
    <3>1. scan[e].total \in Nat
      BY DEF Calm, WindowInv, TypeOK
    <3> QED
      BY <3>1, CallersFinite
  <2>4. a + p <= b
    BY <1>2
  <2>5. Unread(e)' = Unread(e)
    BY DEF Unread
  <2> HIDE DEF a, a2, p, p2, b
  <2>6. a2 + p2 <= b
    BY <2>1, <2>2, <2>3, <2>4
  <2> QED
    BY <2>5, <2>6 DEF Sees, a2, p2, b
<1> QED
  BY <1>1, <1>2 DEF Sees

LEMMA OvershootInit == Init => OvershootInv
<1> SUFFICES ASSUME Init PROVE OvershootInv
  OBVIOUS
<1>1. WindowInv
  BY WindowInit
<1>2. Owes
  <2>1. \A d \in Callers : due[d] = <<>> /\ Cost[d] \in Nat
    BY RateLimitAssumption DEF Init, Cost
  <2>2. Len(<<>>) = 0 /\ Owed(<<>>) = 0
    BY DEF Owed
  <2> QED
    BY <2>1, <2>2 DEF Owes
<1>3. Timely
  <2>1. /\ \A d \in Callers : second[d] = Ring
        /\ \A t \in Seconds : ~ (added[t] > 0)
        /\ clock \in Seconds
    BY DEF Init
  <2>2. clock >= Ring
    BY <2>1, RateLimitAssumption DEF Seconds
  <2> QED
    BY <2>1, <2>2, RateLimitAssumption DEF Timely
<1>4. PICK c \in Callers : TRUE
  BY RateLimitAssumption
<1> DEFINE rank == [d \in Callers |-> 0]
<1>5. rank \in [Callers -> 0 .. 0] /\ 0 \in 0 .. 0 /\ 0 \in Nat
  OBVIOUS
<1>6. InOrder(rank, 0, c)
  <2>1. \A d \in Callers : pc[d] = "idle" /\ Pend(rank, 0)[d] = 0
    BY DEF Init, Pend, Pending
  <2>2. \A t \in Window : added[t] = 0
    BY DEF Init, Window
  <2>3. IsFiniteSet({})
    BY FS_EmptySet
  <2>4. Sum(added, Window) \in Nat /\ Sum(added, Window) <= 0
    BY <2>2, <2>3, SumWithin, SumNone
  <2>5. Sum(Pend(rank, 0), Callers) \in Nat /\ Sum(Pend(rank, 0), Callers) <= 0
    BY <2>1, <2>3, SumWithin, SumNone
  <2>6. Limit + Sum(Cost, Callers \ {c}) + ExtraOf[c] \in Nat
    BY CallersFinite, RateLimitAssumption
  <2> QED
    BY <2>1, <2>4, <2>5, <2>6 DEF InOrder, Bounded
<1> QED
  BY <1>1, <1>2, <1>3, <1>5, <1>6 DEF OvershootInv, Ordered

\* What is owed falls by the weight added.
LEMMA OwedFalls ==
  ASSUME NEW s \in Seq(Nat \ {0}), s # <<>>, Len(s) <= 2
  PROVE  /\ Head(s) \in Nat \ {0}
         /\ Owed(s) \in Nat /\ Owed(Tail(s)) \in Nat
         /\ Owed(s) = Owed(Tail(s)) + Head(s)
         /\ Len(Tail(s)) <= 2
         /\ Len(s) <= 1 => Owed(Tail(s)) = 0
<1> DEFINE t == Tail(s)
           h == Head(s)
           n == Len(s)
<1>1. /\ h = s[1] /\ h \in Nat \ {0}
      /\ Len(t) = n - 1
      /\ \A i \in 1 .. n - 1 : t[i] = s[i + 1]
  BY HeadTailProperties
<1>2. n \in Nat /\ n # 0
  BY LenProperties, EmptySeq
<1>3. \A i \in 1 .. n : s[i] \in Nat
  BY ElementOfSeq
<1>4. n = 1 \/ n = 2
  <2>1. \A k \in Nat : k # 0 /\ k <= 2 => k = 1 \/ k = 2
    OBVIOUS
  <2> QED
    BY <1>2, <2>1, Zenon
<1> HIDE DEF t, h
<1>5. CASE n = 1
  <2>1. Len(s) = 1 /\ Len(t) = 0
    BY <1>1, <1>5
  <2>2. Owed(s) = h /\ Owed(t) = 0
    BY <1>1, <2>1 DEF Owed
  <2>3. \A k \in Nat : k = 0 + k /\ 0 \in Nat
    OBVIOUS
  <2>4. Owed(s) \in Nat /\ Owed(t) \in Nat /\ Owed(s) = Owed(t) + h
    BY <1>1, <2>2, <2>3
  <2>5. Len(t) <= 2
    BY <2>1
  <2> QED
    BY <1>1, <2>2, <2>4, <2>5, Zenon DEF t, h
<1>6. CASE n = 2
  <2>1. Len(s) = 2 /\ Len(t) = 1
    BY <1>1, <1>6
  <2>2. t[1] = s[2] /\ s[2] \in Nat
    BY <1>1, <1>3, <1>6
  <2>3. Owed(s) = h + s[2] /\ Owed(t) = s[2]
    BY <1>1, <2>1, <2>2 DEF Owed
  <2>4. \A j, k \in Nat : j + k = k + j /\ j + k \in Nat
    OBVIOUS
  <2>5. Owed(s) \in Nat /\ Owed(t) \in Nat /\ Owed(s) = Owed(t) + h
    BY <1>1, <2>2, <2>3, <2>4
  <2>6. Len(t) <= 2 /\ ~ (Len(s) <= 1)
    BY <2>1
  <2> QED
    BY <1>1, <2>5, <2>6, Zenon DEF t, h
<1> QED
  BY <1>4, <1>5, <1>6

LEMMA OwesKept ==
  ASSUME WindowInv, Owes, NEW c \in Callers, CallerStep(c)
  PROVE  Owes'
<1>1. \A d \in Callers : Cost[d] = WeightOf[d] + ExtraOf[d] /\ WeightOf[d] \in Nat
                         /\ ExtraOf[d] \in Nat
  BY RateLimitAssumption DEF Cost
<1>2. CASE Answered(c)
  <2> DEFINE short == <<WeightOf[c]>>
             long == <<WeightOf[c], ExtraOf[c]>>
  <2>1. /\ Len(short) = 1 /\ Owed(short) = WeightOf[c]
        /\ Len(long) = 2 /\ Owed(long) = WeightOf[c] + ExtraOf[c]
    BY DEF Owed
  <2> HIDE DEF short, long
  <2>2. PICK s : due' = [due EXCEPT ![c] = s] /\ s \in {short, long}
    BY <1>2 DEF Answered, short, long
  <2>3. Len(s) <= 2 /\ Owed(s) \in 0 .. Cost[c]
    <3>1. /\ Len(short) <= 2 /\ Len(long) <= 2
          /\ \A w, x \in Nat : w \in 0 .. w + x /\ w + x \in 0 .. w + x
      BY <2>1
    <3>2. Owed(short) \in 0 .. Cost[c] /\ Owed(long) \in 0 .. Cost[c]
      BY <1>1, <2>1, <3>1, Zenon
    <3> QED
      BY <2>2, <3>1, <3>2, Zenon
  <2>4. due'[c] = s /\ \A d \in Callers \ {c} : due'[d] = due[d]
    BY <2>2 DEF WindowInv, TypeOK
  <2> QED
    BY <2>3, <2>4 DEF Owes
<1>3. CASE CasSucceeds(c)
  <2>1. due[c] \in Seq(Nat \ {0}) /\ due[c] # <<>> /\ Len(due[c]) <= 2
        /\ Owed(due[c]) \in 0 .. Cost[c]
    BY <1>3 DEF CasSucceeds, Goes, WindowInv, Owing, Owes
  <2>2. Len(Tail(due[c])) <= 2 /\ Owed(Tail(due[c])) \in 0 .. Cost[c]
    <3>1. PICK h \in Nat, o \in Nat, p \in Nat :
            h = Head(due[c]) /\ o = Owed(due[c]) /\ p = Owed(Tail(due[c]))
      BY <2>1, OwedFalls
    <3>2. o = p + h /\ Len(Tail(due[c])) <= 2
      BY <2>1, <3>1, OwedFalls
    <3>3. Cost[c] \in Nat /\ o \in 0 .. Cost[c]
      BY <1>1, <2>1, <3>1, PendingBound
    <3>4. p \in 0 .. Cost[c]
      BY <3>2, <3>3
    <3> QED
      BY <3>1, <3>2, <3>4, Zenon
  <2>3. due'[c] = Tail(due[c]) /\ \A d \in Callers \ {c} : due'[d] = due[d]
    BY <1>3 DEF CasSucceeds, WindowInv, TypeOK
  <2> QED
    BY <2>2, <2>3 DEF Owes
<1>4. CASE UNCHANGED due
  BY <1>4 DEF Owes
<1> QED
  BY <1>2, <1>3, <1>4
  DEF CallerStep, Begin, ReadBucket, Admit, Refuse, Stamp, LoadBucket, CasFails

LEMMA TimelyKept ==
  ASSUME WindowInv, Timely, NEW c \in Callers, CallerStep(c)
  PROVE  Timely'
<1> SUFFICES ASSUME ~ regressed'
             PROVE  /\ \A d \in Callers : second'[d] <= clock'
                    /\ \A t \in Seconds : added'[t] > 0 => t <= clock'
  BY DEF Timely
<1>1. clock' = clock /\ regressed' = regressed
  BY DEF CallerStep, Begin, ReadBucket, Admit, Refuse, Answered, Stamp, LoadBucket,
         CasSucceeds, CasFails
<1>2. /\ \A d \in Callers : second[d] <= clock
      /\ \A t \in Seconds : added[t] > 0 => t <= clock
  BY <1>1 DEF Timely
<1>3. clock \in Nat /\ clock <= clock
  BY SecondsAreNat DEF WindowInv, TypeOK
<1>4. \A d \in Callers : second'[d] \in {second[d], clock}
  BY DEF CallerStep, Begin, ReadBucket, Admit, Refuse, Answered, Stamp, LoadBucket,
         CasSucceeds, CasFails, WindowInv, TypeOK
<1>5. \A t \in Seconds : added'[t] = added[t] \/ t = second[c]
  BY DEF CallerStep, Begin, ReadBucket, Admit, Refuse, Answered, Stamp, LoadBucket,
         CasSucceeds, CasFails, WindowInv, TypeOK
<1> QED
  BY <1>1, <1>2, <1>3, <1>4, <1>5

\* The scan of e goes on as it was.
Untouched(e) == pc[e] = "scan" /\ second'[e] = second[e] /\ scan'[e] = scan[e]

\* A step that adds nothing keeps the order of the requests, if the scans it
\* touches still see what they have to.
LEMMA CalmOrder ==
  ASSUME Calm, NEW n \in Nat, NEW rank, NEW rank2, NEW r \in 0 .. n, NEW c \in Callers,
         InOrder(rank, r, c), \A e \in Callers : rank[e] \in 0 .. n,
         \A m \in r .. n : Lessens(rank, rank2, m),
         \A e \in Callers :
           pc'[e] = "scan" /\ rank2[e] > r =>
             Sees(rank2, e)' \/ (Untouched(e) /\ rank2[e] = rank[e])
  PROVE  InOrder(rank2, r, c)'
<1>1. Bounded(rank2, r, c)'
  <2>1. Lessens(rank, rank2, r)
    <3>1. r \in r .. n
      OBVIOUS
    <3> QED
      BY <3>1
  <2> QED
    BY <2>1, BoundedKept DEF InOrder
<1>2. ASSUME NEW e \in Callers, pc'[e] = "scan", rank2[e] > r
      PROVE  Sees(rank2, e)'
  <2>1. SUFFICES ASSUME Untouched(e), rank2[e] = rank[e] PROVE Sees(rank2, e)'
    BY <1>2
  <2>2. Sees(rank, e)
    BY <1>2, <2>1 DEF InOrder, Untouched
  <2>3. Lessens(rank, rank2, rank[e])
    <3>1. rank[e] \in r .. n
      BY <1>2, <2>1
    <3> QED
      BY <3>1
  <2> QED
    BY <2>1, <2>2, <2>3, SeesKept DEF Untouched
<1> QED
  BY <1>1, <1>2 DEF InOrder

\* Reading the next bucket: the scan sees the weight of one second more.
LEMMA ReadSees ==
  ASSUME WindowInv, Timely, Owes, ~ stale, ~ regressed,
         NEW e \in Callers, ReadBucket(e), NEW rank, Sees(rank, e)
  PROVE  Sees(rank, e)'
<1> DEFINE i == scan[e].next
           s == second[e]
           w == buckets[i]
           k == Counted(w, s)
           U == Unread(e)
           m == rank[e]
           P == Sum(Pend(rank, m), Callers \ {e})
           C == Sum(Cost, Callers \ {e})
<1>1. /\ i \in Slots /\ i \in Nat /\ s \in Nat /\ s <= clock /\ clock \in Nat
      /\ w \in Word /\ w.weight \in Nat
      /\ scan[e].total \in Nat
      /\ Ring \in Nat \ {0}
  <2>1. i \in Slots
    BY DEF ReadBucket
  <2>2. w \in Word /\ scan[e].total \in Nat
    BY <2>1 DEF WindowInv, TypeOK
  <2>3. s \in Nat /\ clock \in Nat
    BY SecondsAreNat DEF WindowInv, TypeOK
  <2>4. i \in Nat
    BY <2>1 DEF Slots
  <2>5. w.weight \in Nat
    BY <2>2 DEF Word
  <2>6. s <= clock
    BY DEF Timely
  <2> QED
    BY <2>1, <2>2, <2>3, <2>4, <2>5, <2>6, RateLimitAssumption
<1>2. k \in Nat
  BY <1>1 DEF Counted
<1>3. /\ scan'[e].next = i + 1 /\ scan'[e].total = scan[e].total + k
      /\ second' = second /\ added' = added /\ clock' = clock /\ pc' = pc /\ due' = due
  <2>1. scan[e] \in [next : 0 .. Ring, total : Nat] /\ DOMAIN scan = Callers
    BY DEF WindowInv, TypeOK
  <2> QED
    BY <2>1 DEF ReadBucket
<1>4. /\ Pend(rank, m)' = Pend(rank, m) /\ Window' = Window
      /\ P \in Nat /\ C \in Nat
  <2>1. Pend(rank, m)' = Pend(rank, m) /\ Window' = Window
    BY <1>3 DEF Pend, Pending, Window
  <2> QED
    BY <2>1, PendType
<1>5. \A t \in Window \ Unread(e)' : t \in Window \ U \/ (t <= s /\ t % Ring = i)
  <2> SUFFICES ASSUME NEW t \in Window, t \notin Unread(e)', t \in U
               PROVE  t <= s /\ t % Ring = i
    OBVIOUS
  <2>1. t \in Seconds /\ t <= s /\ t % Ring >= i
    BY DEF Unread
  <2>2. ~ (t % Ring >= i + 1)
    BY <1>3, <2>1 DEF Unread
  <2>3. t % Ring \in Nat
    BY <2>1, SecondsAreNat, SlotOf DEF Slots
  <2> QED
    BY <1>1, <2>1, <2>2, <2>3
<1> DEFINE V == Window \ U
           V2 == Window \ Unread(e)'
<1>6. /\ IsFiniteSet(V) /\ IsFiniteSet(V2)
      /\ \A t \in V \cup V2 : added[t] \in Nat
      /\ Sum(added, V) \in Nat /\ Sum(added, V2) \in Nat
  BY AddedType
<1>7. \A t \in Window : /\ t \in Seconds /\ t \in Nat
                        /\ clock - t \in 0 .. Ring - 1
                        /\ clock - t < Ring
  BY <1>1, SecondsAreNat DEF Window
<1>8. CASE scan[e].total >= Limit
  <2>1. scan[e].total + k >= Limit
    BY <1>1, <1>2, <1>8, RateLimitAssumption
  <2> QED
    BY <1>3, <2>1 DEF Sees
<1>9. CASE Sum(added, V) + P <= scan[e].total + C
  <2>1. SUFFICES scan[e].total + k >= Limit \/ Sum(added, V2) + P <= scan[e].total + k + C
    BY <1>3, <1>4 DEF Sees
  <2>2. CASE \E t \in V2 : t \notin V /\ added[t] > 0
    <3>1. PICK t \in V2 : t \notin V /\ added[t] > 0
      BY <2>2
    <3>2. /\ t \in Window /\ t <= s /\ t % Ring = i
          /\ t \in Seconds /\ t \in Nat /\ clock - t < Ring
          /\ added[t] \in Nat
      BY <1>5, <1>6, <1>7, <3>1
    <3>3. w = [stamp |-> t, weight |-> Capped(added[t])]
      <4>1. Kept(t)
        BY <3>1, <3>2 DEF WindowInv, NothingLost
      <4>2. SUFFICES ASSUME w.stamp > t, added[w.stamp] > 0 PROVE FALSE
        BY <3>2, <4>1 DEF Kept
      <4>3. w.stamp \in Stamps
        BY <1>1 DEF Word
      <4>4. w.stamp \in Seconds /\ w.stamp \in Nat /\ w.stamp # 0
        <5>1. w.stamp \in Nat /\ t \in Nat
          BY <3>2, <4>3, SecondsAreNat, Zenon
        <5>2. \A x, y \in Nat : x > y => x # 0
          OBVIOUS
        <5>3. w.stamp # 0
          BY <4>2, <5>1, <5>2, Zenon
        <5> QED
          BY <4>3, <5>1, <5>3 DEF Stamps
      <4>5. w.stamp % Ring = t % Ring
        BY <1>1, <3>2, <4>4 DEF WindowInv, Filed
      <4>6. w.stamp <= clock
        BY <4>2, <4>4 DEF Timely
      <4>7. t <= w.stamp /\ w.stamp - t < Ring
        BY <1>1, <3>2, <4>2, <4>4, <4>6
      <4>8. t = w.stamp
        BY <1>1, <3>2, <4>4, <4>5, <4>7, OneOfSlot
      <4> QED
        BY <3>2, <4>2, <4>8
    <3>4. s - t \in 0 .. Ring - 1
      BY <1>1, <3>2
    <3>5. k = Capped(added[t])
      BY <3>3, <3>4 DEF Counted
    <3>6. CASE added[t] > FieldMax
      <4>1. k >= Limit
        BY <3>5, <3>6, RateLimitAssumption DEF Capped
      <4> QED
        BY <1>1, <1>2, <4>1, RateLimitAssumption
    <3>7. CASE ~ (added[t] > FieldMax)
      <4>1. k = added[t]
        BY <3>5, <3>7 DEF Capped
      <4>2. Sum(added, V2) = Sum(added, V2 \ {t}) + added[t]
            /\ Sum(added, V2 \ {t}) \in Nat
        BY <1>6, <3>1, SumPoint
      <4>3. \A u \in V2 \ {t} : added[u] \in Nat /\ (added[u] = 0 \/ u \in V)
        <5> SUFFICES ASSUME NEW u \in V2, u # t, u \notin V PROVE added[u] = 0
          BY <1>6
        <5>1. /\ u \in Window /\ u % Ring = i /\ u \in Nat /\ clock - u < Ring
              /\ u <= s
          BY <1>5, <1>7
        <5>2. CASE u <= t
          <6>1. t - u < Ring
            BY <1>1, <3>2, <5>1
          <6> QED
            BY <1>1, <3>2, <5>1, <5>2, <6>1, OneOfSlot
        <5>3. CASE t <= u
          <6>1. u - t < Ring
            BY <1>1, <3>2, <5>1
          <6> QED
            BY <1>1, <3>2, <5>1, <5>3, <6>1, OneOfSlot
        <5> QED
          BY <3>2, <5>1, <5>2, <5>3
      <4>4. Sum(added, V2 \ {t}) <= Sum(added, V)
        <5>1. \A u \in V : added[u] \in Nat
          BY <1>6
        <5>2. \A u \in V2 \ {t} : added[u] \in Nat /\ (added[u] = 0 \/ (u \in V /\ added[u] <= added[u]))
          BY <4>3
        <5> HIDE DEF V, V2
        <5> QED
          BY <1>6, <5>1, <5>2, SumWithin
      <4> HIDE DEF V, V2, P, C, k
      <4> QED
        BY <1>1, <1>2, <1>4, <1>6, <1>9, <3>2, <4>1, <4>2, <4>4
    <3> QED
      BY <3>6, <3>7
  <2>3. CASE \A t \in V2 : t \in V \/ ~ (added[t] > 0)
    <3>1. \A u \in V2 : added[u] \in Nat /\ (added[u] = 0 \/ (u \in V /\ added[u] <= added[u]))
      BY <1>6, <2>3
    <3>2. \A u \in V : added[u] \in Nat
      BY <1>6
    <3> HIDE DEF V, V2, P, C, k
    <3>3. Sum(added, V2) <= Sum(added, V)
      BY <1>6, <3>1, <3>2, SumWithin
    <3> QED
      BY <1>1, <1>2, <1>4, <1>6, <1>9, <3>3
  <2> QED
    BY <2>2, <2>3
<1> QED
  BY <1>8, <1>9 DEF Sees

\* A request that begins will see all weight added until now.
LEMMA BeginSees ==
  ASSUME WindowInv, Timely, Owes, Owes', ~ regressed, NEW e \in Callers, Begin(e), NEW rank
  PROVE  Sees(rank, e)'
<1>1. /\ scan'[e] = [next |-> 0, total |-> 0] /\ second'[e] = clock
      /\ clock' = clock /\ added' = added
  BY DEF Begin, WindowInv, TypeOK
<1>2. clock \in Nat
  BY SecondsAreNat DEF WindowInv, TypeOK
<1>3. Window' \ Unread(e)' = {}
  <2> SUFFICES ASSUME NEW t \in Window' PROVE t \in Unread(e)'
    OBVIOUS
  <2>1. t \in Seconds /\ t \in Nat /\ clock - t \in 0 .. Ring - 1
    BY <1>1, SecondsAreNat DEF Window
  <2>2. t <= clock
    BY <1>2, <2>1
  <2>3. t % Ring >= 0
    BY <2>1, SlotOf DEF Slots
  <2> QED
    BY <1>1, <2>1, <2>2, <2>3 DEF Unread
<1> DEFINE m == rank[e]
           P == Sum(Pend(rank, m)', Callers \ {e})
           C == Sum(Cost, Callers \ {e})
<1>4. P \in Nat /\ C \in Nat /\ P <= C
  <2> DEFINE f == Pend(rank, m)'
  <2>1. \A d \in Callers : f[d] = Pending(d, rank, m)'
    BY DEF Pend
  <2>2. \A d \in Callers : Cost[d] \in Nat /\ Pending(d, rank, m)' \in 0 .. Cost[d]
    BY RateLimitAssumption DEF Pending, Owes, Cost
  <2>3. \A d \in Callers \ {e} : Cost[d] \in Nat /\ f[d] \in Nat /\ f[d] <= Cost[d]
    BY <2>1, <2>2
  <2> HIDE DEF f
  <2>4. IsFiniteSet(Callers \ {e})
    BY CallersFinite
  <2> QED
    BY <2>3, <2>4, SumWithin DEF f
<1>5. Sum(added', {}) = 0
  BY SumNone
<1> HIDE DEF P, C
<1>6. 0 + P <= 0 + C
  BY <1>4
<1> QED
  BY <1>1, <1>3, <1>5, <1>6 DEF Sees, P, C

\* The step moves weight h from what d owes into the window.
Moves(d, h, rank, m) ==
  /\ \A V : /\ Sum(added', Window \ V) \in Nat
            /\ Sum(added', Window \ V) <= Sum(added, Window \ V) + h
  /\ \A D \in SUBSET Callers : d \in D =>
       /\ Sum(Pend(rank, m)', D) \in Nat
       /\ Sum(Pend(rank, m), D) = Sum(Pend(rank, m)', D) + h

\* The weight a successful swap adds to the window it takes from what was due.
LEMMA SwapSums ==
  ASSUME WindowInv, Owes, NEW d \in Callers, CasSucceeds(d), NEW rank, NEW m
  PROVE  \E h \in Nat : Moves(d, h, rank, m)
<1> DEFINE h == Head(due[d])
           s == second[d]
           f == Pend(rank, m)
           g == Pend(rank, m)'
<1>1. due[d] \in Seq(Nat \ {0}) /\ due[d] # <<>> /\ Len(due[d]) <= 2 /\ pc[d] = "cas"
  BY DEF CasSucceeds, Goes, WindowInv, Owing, Owes
<1>2. /\ h \in Nat
      /\ Owed(due[d]) \in Nat /\ Owed(Tail(due[d])) \in Nat
      /\ Owed(due[d]) = Owed(Tail(due[d])) + h
      /\ ~ (Len(due[d]) > 1) => Owed(Tail(due[d])) = 0
  <2>1. ~ (Len(due[d]) > 1) => Len(due[d]) <= 1
    BY <1>1, LenProperties
  <2> QED
    BY <1>1, <2>1, OwedFalls
<1>3. /\ \A c \in Callers \ {d} : due'[c] = due[c] /\ pc'[c] = pc[c]
      /\ due'[d] = Tail(due[d])
      /\ pc'[d] = IF Len(due[d]) > 1 THEN "stamp" ELSE "idle"
  BY DEF CasSucceeds, Goes, WindowInv, TypeOK
<1>4. /\ s \in Seconds
      /\ added'[s] = added[s] + h
      /\ \A t \in Seconds \ {s} : added'[t] = added[t]
      /\ \A t \in Seconds : added[t] \in Nat
  <2>1. s \in Seconds /\ added \in [Seconds -> Nat]
    BY DEF WindowInv, TypeOK
  <2>2. added' = [added EXCEPT ![s] = @ + h]
    BY DEF CasSucceeds
  <2> HIDE DEF s, h
  <2> QED
    BY <2>1, <2>2
<1>5. ASSUME NEW V
      PROVE  /\ Sum(added', Window \ V) \in Nat
             /\ Sum(added', Window \ V) <= Sum(added, Window \ V) + h
  <2> DEFINE T == Window \ V
  <2>1. IsFiniteSet(T) /\ T \subseteq Seconds /\ Sum(added, T) \in Nat
    BY AddedType
  <2> HIDE DEF T, h, s
  <2>2. \A t \in T : added[t] \in Nat /\ added'[t] \in Nat
    <3>1. h \in Nat /\ added[s] + h \in Nat
      BY <1>2, <1>4
    <3> QED
      BY <1>4, <2>1, <3>1
  <2>3. CASE s \in T
    <3>1. /\ Sum(added, T) = Sum(added, T \ {s}) + added[s] /\ Sum(added, T \ {s}) \in Nat
          /\ Sum(added', T) = Sum(added', T \ {s}) + added'[s] /\ Sum(added', T \ {s}) \in Nat
      BY <2>1, <2>2, <2>3, SumPoint
    <3>2. IsFiniteSet(T \ {s})
      BY <2>1, FS_Subset
    <3>3. /\ \A t \in T \ {s} : added[t] \in Nat
          /\ \A t \in T \ {s} : added'[t] \in Nat /\ t \in T \ {s} /\ added'[t] <= added[t]
      BY <1>4, <2>1, <2>2
    <3>4. Sum(added', T \ {s}) <= Sum(added, T \ {s})
      BY <3>2, <3>3, SumWithin
    <3>5. /\ h \in Nat /\ added[s] \in Nat /\ added'[s] = added[s] + h
      BY <1>2, <1>4
    <3>6. /\ Sum(added', T) \in Nat
          /\ Sum(added', T) <= Sum(added, T) + h
      BY <3>1, <3>4, <3>5
    <3> QED
      BY <3>6 DEF T
  <2>4. CASE s \notin T
    <3>1. \A t \in T : added'[t] \in Nat /\ t \in T /\ added'[t] <= added[t]
      BY <1>4, <2>1, <2>2, <2>4
    <3>2. Sum(added', T) \in Nat /\ Sum(added', T) <= Sum(added, T)
      BY <2>1, <2>2, <3>1, SumWithin
    <3> QED
      BY <1>2, <2>1, <3>2 DEF T
  <2> QED
    BY <2>3, <2>4
<1>6. ASSUME NEW D \in SUBSET Callers, d \in D
      PROVE  /\ Sum(g, D) \in Nat
             /\ Sum(f, D) = Sum(g, D) + h
  <2>1. \A c \in D : f[c] = Pending(c, rank, m) /\ g[c] = Pending(c, rank, m)'
    BY DEF Pend
  <2>2. \A c \in D : f[c] \in Nat
    BY PendType
  <2>3. \A c \in D \ {d} : g[c] = f[c]
    BY <1>3, <2>1 DEF Pending
  <2>4. f[d] = Owed(due[d])
    BY <1>1, <1>6, <2>1 DEF Pending
  <2>5. g[d] = Owed(Tail(due[d]))
    <3>1. CASE Len(due[d]) > 1
      BY <1>3, <1>6, <2>1, <3>1 DEF Pending
    <3>2. CASE ~ (Len(due[d]) > 1)
      BY <1>2, <1>3, <1>6, <2>1, <3>2 DEF Pending
    <3> QED
      BY <3>1, <3>2
  <2> HIDE DEF f, g, h
  <2>6. \A c \in D : g[c] \in Nat
    BY <1>2, <2>2, <2>3, <2>5
  <2>7. IsFiniteSet(D) /\ IsFiniteSet(D \ {d})
    BY CallersFinite
  <2>8. /\ Sum(f, D) = Sum(f, D \ {d}) + f[d] /\ Sum(f, D \ {d}) \in Nat
        /\ Sum(g, D) = Sum(g, D \ {d}) + g[d] /\ Sum(g, D \ {d}) \in Nat
    BY <1>6, <2>2, <2>6, <2>7, SumPoint
  <2>9. Sum(f, D \ {d}) = Sum(g, D \ {d})
    <3>1. UNION {{x} \X (1 .. f[x]) : x \in D \ {d}} = UNION {{x} \X (1 .. g[x]) : x \in D \ {d}}
      BY <2>3
    <3> QED
      BY <3>1 DEF Sum
  <2> QED
    BY <1>2, <1>6, <2>2, <2>4, <2>5, <2>6, <2>8, <2>9
<1> QED
  BY <1>2, <1>5, <1>6 DEF Moves

\* A swap moves weight from what is due into the window.
LEMMA SwapOrder ==
  ASSUME WindowInv, Owes, NEW d \in Callers, CasSucceeds(d),
         NEW rank, NEW r, NEW c \in Callers, InOrder(rank, r, c)
  PROVE  InOrder(rank, r, c)'
<1>1. /\ Window' = Window
      /\ \A e \in Callers : Unread(e)' = Unread(e)
      /\ scan' = scan
      /\ pc[d] = "cas" /\ \A e \in Callers : pc'[e] = "scan" => pc[e] = "scan"
  BY DEF CasSucceeds, Goes, Window, Unread, WindowInv, TypeOK
<1>2. Bounded(rank, r, c)'
  <2> DEFINE a == Sum(added, Window)
             a2 == Sum(added', Window)
             p == Sum(Pend(rank, r), Callers)
             p2 == Sum(Pend(rank, r)', Callers)
             b == Limit + Sum(Cost, Callers \ {c}) + ExtraOf[c]
  <2>1. PICK h \in Nat : Moves(d, h, rank, r)
    BY SwapSums
  <2>2. a \in Nat /\ a2 \in Nat /\ a2 <= a + h
    <3>1. Window \ {} = Window
      OBVIOUS
    <3>2. Sum(added, Window \ {}) \in Nat
      BY AddedType
    <3>3. Sum(added', Window \ {}) \in Nat /\ Sum(added', Window \ {}) <= Sum(added, Window \ {}) + h
      BY <2>1 DEF Moves
    <3> QED
      BY <3>1, <3>2, <3>3, Zenon
  <2>3. p2 \in Nat /\ p = p2 + h
    BY <2>1 DEF Moves
  <2>4. b \in Nat /\ a + p <= b
    BY CallersFinite, RateLimitAssumption DEF InOrder, Bounded
  <2> HIDE DEF a, a2, p, p2, b
  <2>5. a2 + p2 <= b
    BY <2>2, <2>3, <2>4
  <2> QED
    BY <1>1, <2>5 DEF Bounded, a2, p2, b
<1>3. ASSUME NEW e \in Callers, pc'[e] = "scan", rank[e] > r
      PROVE  Sees(rank, e)'
  <2> DEFINE m == rank[e]
             a == Sum(added, Window \ Unread(e))
             a2 == Sum(added', Window \ Unread(e))
             p == Sum(Pend(rank, m), Callers \ {e})
             p2 == Sum(Pend(rank, m)', Callers \ {e})
             b == scan[e].total + Sum(Cost, Callers \ {e})
  <2>1. e # d /\ Sees(rank, e)
    <3>1. pc[e] = "scan"
      BY <1>1, <1>3
    <3> QED
      BY <1>1, <1>3, <3>1 DEF InOrder
  <2>2. PICK h \in Nat : Moves(d, h, rank, m)
    BY SwapSums
  <2>3. a \in Nat /\ a2 \in Nat /\ a2 <= a + h
    BY <2>2, AddedType DEF Moves
  <2>4. p2 \in Nat /\ p = p2 + h
    <3>1. Callers \ {e} \in SUBSET Callers /\ d \in Callers \ {e}
      BY <2>1
    <3> QED
      BY <2>2, <3>1 DEF Moves
  <2>5. b \in Nat
    <3>1. scan[e].total \in Nat
      BY DEF WindowInv, TypeOK
    <3> QED
      BY <3>1, CallersFinite
  <2>6. CASE scan[e].total >= Limit
    BY <1>1, <2>6 DEF Sees
  <2>7. CASE a + p <= b
    <3> HIDE DEF a, a2, p, p2, b
    <3>1. a2 + p2 <= b
      BY <2>3, <2>4, <2>5, <2>7
    <3> QED
      BY <1>1, <3>1 DEF Sees, a2, p2, b
  <2> QED
    BY <2>1, <2>6, <2>7 DEF Sees
<1> QED
  BY <1>2, <1>3 DEF InOrder

\* A request that fits becomes the last one admitted.
LEMMA AdmitOrder ==
  ASSUME Calm, NEW e \in Callers, Admit(e),
         NEW n \in Nat, NEW rank, NEW r \in 0 .. n, NEW c \in Callers,
         InOrder(rank, r, c), \A d \in Callers : rank[d] \in 0 .. n,
         rank[e] > r
  PROVE  InOrder(rank, rank[e], e)'
<1> DEFINE m == rank[e]
           a == Sum(added, Window)
           p == Sum(Pend(rank, m), Callers \ {e})
           p2 == Sum(Pend(rank, m)', Callers \ {e})
           q2 == Sum(Pend(rank, m)', Callers)
           C == Sum(Cost, Callers \ {e})
           total == scan[e].total
<1>1. /\ pc[e] = "scan" /\ pc'[e] = "sent"
      /\ \A d \in Callers \ {e} : pc'[d] = pc[d]
      /\ scan[e].next = Ring /\ total + WeightOf[e] <= Limit
      /\ second' = second /\ scan' = scan /\ due' = due /\ clock' = clock /\ added' = added
  BY DEF Admit, Goes, Scanned, Fits, Calm, WindowInv, TypeOK
<1>2. m \in 0 .. n /\ m \in Nat /\ r \in Nat
  OBVIOUS
<1>3. /\ total \in Nat /\ Limit \in Nat /\ WeightOf[e] \in Nat /\ WeightOf[e] > 0
      /\ ExtraOf[e] \in Nat /\ Cost[e] = WeightOf[e] + ExtraOf[e]
  <2>1. total \in Nat
    BY DEF Calm, WindowInv, TypeOK
  <2> QED
    BY <2>1, RateLimitAssumption DEF Cost
<1>4. \A j \in m .. n : Lessens(rank, rank, j)
  <2> SUFFICES ASSUME NEW j \in m .. n, NEW d \in Callers
               PROVE  Pending(d, rank, j)' \in 0 .. Pending(d, rank, j)
    BY DEF Lessens
  <2>1. Pending(d, rank, j)' = Pending(d, rank, j)
    <3>1. CASE d = e
      <4>1. m <= j
        BY <1>2
      <4> QED
        BY <1>1, <3>1, <4>1 DEF Pending
    <3>2. CASE d # e
      BY <1>1, <3>2 DEF Pending
    <3> QED
      BY <3>1, <3>2
  <2>2. Pending(d, rank, j) \in Nat
    BY PendingBound DEF Calm
  <2> QED
    BY <2>1, <2>2
<1>5. Lessens(rank, rank, m)
  <2>1. m \in m .. n
    BY <1>2
  <2> QED
    BY <1>4, <2>1
<1>6. a + p <= total + C
  <2>1. Unread(e) = {}
    <3> SUFFICES ASSUME NEW t \in Unread(e) PROVE FALSE
      OBVIOUS
    <3>1. t \in Nat /\ t % Ring >= Ring
      BY <1>1, SecondsAreNat DEF Unread
    <3>2. t % Ring \in 0 .. Ring - 1
      BY <3>1, SlotOf DEF Slots
    <3> QED
      BY <3>1, <3>2, RateLimitAssumption
  <2>2. Window \ Unread(e) = Window
    BY <2>1
  <2>3. ~ (total >= Limit)
    BY <1>1, <1>3
  <2>4. Sees(rank, e)
    BY <1>1 DEF InOrder
  <2> QED
    BY <2>2, <2>3, <2>4 DEF Sees
<1>7. /\ a \in Nat /\ p \in Nat /\ p2 \in Nat /\ p2 <= p /\ C \in Nat
  <2>1. Sum(added, Window \ {}) \in Nat /\ Window \ {} = Window
    BY AddedType DEF Calm
  <2> QED
    BY <1>5, <2>1, CalmPending, PendType DEF Calm
<1>8. q2 = p2 + Cost[e]
  <2> DEFINE g == Pend(rank, m)'
  <2>1. \A d \in Callers : g[d] = Pending(d, rank, m)'
    BY DEF Pend
  <2>2. \A d \in Callers : Pending(d, rank, m) \in Nat /\ Pending(d, rank, m)' \in 0 .. Pending(d, rank, m)
    BY <1>5, PendingBound DEF Calm, Lessens
  <2>3. g[e] = Cost[e]
    BY <1>1, <2>1 DEF Pending
  <2> HIDE DEF g
  <2>4. \A d \in Callers : g[d] \in Nat
    BY <2>1, <2>2
  <2>5. IsFiniteSet(Callers)
    BY RateLimitAssumption
  <2>6. Sum(g, Callers) = Sum(g, Callers \ {e}) + g[e]
    BY <2>4, <2>5, SumPoint
  <2> QED
    BY <2>3, <2>6 DEF g
<1>9. Bounded(rank, m, e)'
  <2> HIDE DEF a, p, p2, q2, C, total
  <2>1. a + q2 <= Limit + C + ExtraOf[e]
    BY <1>1, <1>3, <1>6, <1>7, <1>8
  <2>2. Window' = Window
    BY <1>1 DEF Window
  <2> QED
    BY <1>1, <2>1, <2>2 DEF Bounded, a, q2, C
<1>10. ASSUME NEW d \in Callers, pc'[d] = "scan", rank[d] > m
       PROVE  Sees(rank, d)'
  <2>1. d # e /\ pc[d] = "scan"
    BY <1>1, <1>10
  <2>2. rank[d] > r /\ rank[d] \in m .. n
    BY <1>2, <1>10
  <2> QED
    BY <1>1, <1>4, <2>1, <2>2, SeesKept DEF InOrder
<1> QED
  BY <1>9, <1>10 DEF InOrder

LEMMA BeginOrder ==
  ASSUME Calm, Owes', NEW e \in Callers, Begin(e), Ordered
  PROVE  Ordered'
<1>1. PICK n \in Nat : \E rank \in [Callers -> 0 .. n] : \E r \in 0 .. n :
                         \E c \in Callers : InOrder(rank, r, c)
  BY DEF Ordered
<1>2. PICK rank \in [Callers -> 0 .. n] : \E r \in 0 .. n : \E c \in Callers : InOrder(rank, r, c)
  BY <1>1
<1>3. PICK r \in 0 .. n : \E c \in Callers : InOrder(rank, r, c)
  BY <1>2
<1>4. PICK c \in Callers : InOrder(rank, r, c)
  BY <1>3
<1> DEFINE rank2 == [rank EXCEPT ![e] = n + 1]
<1>5. /\ rank2 \in [Callers -> 0 .. n + 1] /\ n + 1 \in Nat /\ r \in 0 .. n + 1
      /\ rank2[e] = n + 1 /\ \A d \in Callers \ {e} : rank2[d] = rank[d]
      /\ \A d \in Callers : rank[d] \in 0 .. n
  OBVIOUS
<1>6. /\ pc[e] = "idle" /\ pc'[e] = "scan"
      /\ \A d \in Callers \ {e} : /\ pc'[d] = pc[d] /\ second'[d] = second[d]
                                  /\ scan'[d] = scan[d]
      /\ due' = due
  BY DEF Begin, Goes, Calm, WindowInv, TypeOK
<1> HIDE DEF rank2
<1>7. \A m \in r .. n : Lessens(rank, rank2, m)
  <2> SUFFICES ASSUME NEW m \in r .. n, NEW d \in Callers
               PROVE  Pending(d, rank2, m)' \in 0 .. Pending(d, rank, m)
    BY DEF Lessens
  <2>1. Pending(d, rank2, m)' = Pending(d, rank, m)
    <3>1. CASE d = e
      <4>1. ~ (rank2[e] <= m)
        BY <1>5
      <4> QED
        BY <1>6, <3>1, <4>1 DEF Pending
    <3>2. CASE d # e
      BY <1>5, <1>6, <3>2 DEF Pending
    <3> QED
      BY <3>1, <3>2
  <2>2. Pending(d, rank, m) \in Nat
    BY PendingBound DEF Calm
  <2> QED
    BY <2>1, <2>2
<1>8. \A d \in Callers : pc'[d] = "scan" /\ rank2[d] > r =>
                           Sees(rank2, d)' \/ (Untouched(d) /\ rank2[d] = rank[d])
  <2> SUFFICES ASSUME NEW d \in Callers, pc'[d] = "scan"
               PROVE  Sees(rank2, d)' \/ (Untouched(d) /\ rank2[d] = rank[d])
    OBVIOUS
  <2>1. CASE d = e
    BY <2>1, BeginSees DEF Calm
  <2>2. CASE d # e
    BY <1>5, <1>6, <2>2 DEF Untouched
  <2> QED
    BY <2>1, <2>2
<1>9. InOrder(rank2, r, c)'
  BY <1>4, <1>5, <1>7, <1>8, CalmOrder
<1> QED
  BY <1>5, <1>9 DEF Ordered

\* The other steps keep the order: what is pending at rank r or later falls.
LEMMA CallerOrder ==
  ASSUME WindowInv, Owes, Timely, Owes', ~ stale, ~ regressed,
         NEW e \in Callers, CallerStep(e), Ordered
  PROVE  Ordered'
<1>0. ASSUME ~ CasSucceeds(e)
      PROVE  Calm
  <2>1. clock' = clock /\ added' = added
    BY <1>0 DEF CallerStep, Begin, ReadBucket, Admit, Refuse, Answered, Stamp, LoadBucket,
                CasFails
  <2>2. clock \in Seconds /\ clock >= clock
    BY SecondsAreNat DEF WindowInv, TypeOK
  <2> QED
    BY <2>1, <2>2 DEF Calm
<1>1. CASE Begin(e)
  <2>1. pc[e] = "idle"
    BY <1>1 DEF Begin, Goes
  <2>2. Calm
    BY <1>0, <2>1 DEF CasSucceeds, Goes
  <2> QED
    BY <1>1, <2>2, BeginOrder
<1>2. CASE ~ Begin(e)
  <2>1. PICK n \in Nat : \E rank \in [Callers -> 0 .. n] : \E r \in 0 .. n :
                           \E c \in Callers : InOrder(rank, r, c)
    BY DEF Ordered
  <2>2. PICK rank \in [Callers -> 0 .. n] : \E r \in 0 .. n : \E c \in Callers : InOrder(rank, r, c)
    BY <2>1
  <2>3. PICK r \in 0 .. n : \E c \in Callers : InOrder(rank, r, c)
    BY <2>2
  <2>4. PICK c \in Callers : InOrder(rank, r, c)
    BY <2>3
  <2>5. \A d \in Callers : rank[d] \in 0 .. n
    OBVIOUS
  <2>6. SUFFICES \E r2 \in 0 .. n : \E c2 \in Callers : InOrder(rank, r2, c2)'
    BY DEF Ordered
  <2>7. CASE CasSucceeds(e)
    BY <2>4, <2>7, SwapOrder
  <2>8. CASE Admit(e) /\ rank[e] > r
    <3>1. Calm
      BY <1>0, <2>8 DEF Admit, CasSucceeds, Goes
    <3> QED
      BY <2>4, <2>5, <2>8, <3>1, AdmitOrder
  <2>9. CASE ~ CasSucceeds(e) /\ ~ (Admit(e) /\ rank[e] > r)
    <3>1. Calm
      BY <1>0, <2>9
    <3>2. \A d \in Callers \ {e} : /\ pc'[d] = pc[d] /\ second'[d] = second[d]
                                   /\ scan'[d] = scan[d] /\ due'[d] = due[d]
      BY <2>9 DEF CallerStep, Begin, ReadBucket, Admit, Refuse, Answered, Stamp, LoadBucket,
                  CasFails, Goes, WindowInv, TypeOK
    <3>3. \A m \in r .. n : Pending(e, rank, m)' \in 0 .. Pending(e, rank, m)
      <4> SUFFICES ASSUME NEW m \in r .. n
                   PROVE  Pending(e, rank, m)' \in 0 .. Pending(e, rank, m)
        OBVIOUS
      <4>1. Pending(e, rank, m) \in Nat
        BY PendingBound
      <4>2. CASE Admit(e)
        <5>1. rank[e] <= m
          BY <2>5, <2>9, <4>2
        <5>2. pc[e] = "scan" /\ pc'[e] = "sent"
          BY <4>2 DEF Admit, Goes, WindowInv, TypeOK
        <5>3. Pending(e, rank, m)' = Pending(e, rank, m)
          BY <5>1, <5>2 DEF Pending
        <5> QED
          BY <4>1, <5>3
      <4>3. CASE Refuse(e)
        <5>1. pc'[e] = "idle"
          BY <4>3 DEF Refuse, Goes, WindowInv, TypeOK
        <5>2. Pending(e, rank, m)' = 0
          BY <5>1 DEF Pending
        <5> QED
          BY <4>1, <5>2
      <4>4. CASE Answered(e)
        <5>1. pc[e] = "sent" /\ pc'[e] = "stamp"
          BY <4>4 DEF Answered, Goes, WindowInv, TypeOK
        <5>2. Pending(e, rank, m) = Cost[e] /\ Pending(e, rank, m)' = Owed(due'[e])
          BY <5>1 DEF Pending
        <5> QED
          BY <5>2 DEF Owes
      <4>5. CASE ReadBucket(e)
        <5>1. Pending(e, rank, m)' = Pending(e, rank, m)
          BY <4>5 DEF ReadBucket, Pending
        <5> QED
          BY <4>1, <5>1
      <4>6. CASE Stamp(e) \/ LoadBucket(e) \/ CasFails(e)
        <5>1. /\ pc[e] \in {"stamp", "load", "cas"} /\ pc'[e] \in {"stamp", "load", "cas"}
              /\ due' = due
          BY <4>6 DEF Stamp, LoadBucket, CasFails, Goes, WindowInv, TypeOK
        <5>2. Pending(e, rank, m)' = Pending(e, rank, m)
          BY <5>1 DEF Pending
        <5> QED
          BY <4>1, <5>2
      <4> QED
        BY <1>2, <2>9, <4>2, <4>3, <4>4, <4>5, <4>6 DEF CallerStep
    <3>4. \A m \in r .. n : Lessens(rank, rank, m)
      <4> SUFFICES ASSUME NEW m \in r .. n, NEW d \in Callers
                   PROVE  Pending(d, rank, m)' \in 0 .. Pending(d, rank, m)
        BY DEF Lessens
      <4>1. CASE d = e
        BY <3>3, <4>1
      <4>2. CASE d # e
        <5>1. Pending(d, rank, m)' = Pending(d, rank, m)
          BY <3>2, <4>2 DEF Pending
        <5>2. Pending(d, rank, m) \in Nat
          BY PendingBound
        <5> QED
          BY <5>1, <5>2
      <4> QED
        BY <4>1, <4>2
    <3>5. \A d \in Callers : pc'[d] = "scan" /\ rank[d] > r =>
                               Sees(rank, d)' \/ (Untouched(d) /\ rank[d] = rank[d])
      <4> SUFFICES ASSUME NEW d \in Callers, pc'[d] = "scan", rank[d] > r
                   PROVE  Sees(rank, d)' \/ Untouched(d)
        OBVIOUS
      <4>1. CASE d # e
        BY <3>2, <4>1 DEF Untouched
      <4>2. CASE d = e
        <5>1. ReadBucket(e)
          BY <1>2, <2>9, <4>2
          DEF CallerStep, Admit, Refuse, Answered, Stamp, LoadBucket, CasFails, Goes,
              WindowInv, TypeOK
        <5>2. Sees(rank, e)
          BY <2>4, <4>2, <5>1 DEF ReadBucket, InOrder
        <5> QED
          BY <4>2, <5>1, <5>2, ReadSees
      <4> QED
        BY <4>1, <4>2
    <3>6. InOrder(rank, r, c)'
      BY <2>4, <2>5, <3>1, <3>4, <3>5, CalmOrder
    <3> QED
      BY <3>6
  <2> QED
    BY <2>7, <2>8, <2>9
<1> QED
  BY <1>1, <1>2

\* So does a clock that moves on.
LEMMA ClockOrder ==
  ASSUME Calm, UNCHANGED <<pc, second, scan, due>>, Ordered
  PROVE  Ordered'
<1>1. PICK n \in Nat : \E rank \in [Callers -> 0 .. n] : \E r \in 0 .. n :
                         \E c \in Callers : InOrder(rank, r, c)
  BY DEF Ordered
<1>2. PICK rank \in [Callers -> 0 .. n] : \E r \in 0 .. n : \E c \in Callers : InOrder(rank, r, c)
  BY <1>1
<1>3. PICK r \in 0 .. n : \E c \in Callers : InOrder(rank, r, c)
  BY <1>2
<1>4. PICK c \in Callers : InOrder(rank, r, c)
  BY <1>3
<1>5. \A m \in r .. n : Lessens(rank, rank, m)
  <2> SUFFICES ASSUME NEW m \in r .. n, NEW d \in Callers
               PROVE  Pending(d, rank, m)' \in 0 .. Pending(d, rank, m)
    BY DEF Lessens
  <2>1. Pending(d, rank, m)' = Pending(d, rank, m)
    BY DEF Pending
  <2>2. Pending(d, rank, m) \in Nat
    BY PendingBound DEF Calm
  <2> QED
    BY <2>1, <2>2
<1>6. \A d \in Callers : pc'[d] = "scan" => Untouched(d)
  BY DEF Untouched
<1>7. InOrder(rank, r, c)'
  BY <1>4, <1>5, <1>6, CalmOrder
<1> QED
  BY <1>7 DEF Ordered

LEMMA OvershootStep == OvershootInv /\ [Next]_vars => OvershootInv'
<1> SUFFICES ASSUME OvershootInv, [Next]_vars PROVE OvershootInv'
  OBVIOUS
<1>1. WindowInv /\ Owes /\ Timely /\ (~ stale /\ ~ regressed => Ordered)
  BY DEF OvershootInv
<1>2. WindowInv'
  BY <1>1, WindowStep
<1>3. ASSUME Owes', Timely', ~ stale' /\ ~ regressed' => Ordered'
      PROVE  OvershootInv'
  BY <1>2, <1>3 DEF OvershootInv
<1>4. CASE \E c \in Callers : CallerStep(c)
  <2>1. PICK c \in Callers : CallerStep(c)
    BY <1>4
  <2>2. Owes' /\ Timely'
    BY <1>1, <2>1, OwesKept, TimelyKept
  <2>3. ASSUME ~ stale', ~ regressed' PROVE ~ stale /\ ~ regressed
    <3>1. regressed' = regressed
      BY <2>1 DEF CallerStep, Begin, ReadBucket, Admit, Refuse, Answered, Stamp, LoadBucket,
                  CasSucceeds, CasFails
    <3>2. CASE CasSucceeds(c)
      <4>1. stale' = (stale \/ old[c].stamp > second[c])
        BY <3>2 DEF CasSucceeds
      <4> QED
        BY <2>3, <3>1, <4>1, Zenon
    <3>3. CASE ~ CasSucceeds(c)
      <4>1. stale' = stale
        BY <2>1, <3>3 DEF CallerStep, Begin, ReadBucket, Admit, Refuse, Answered, Stamp,
                          LoadBucket, CasFails
      <4> QED
        BY <2>3, <3>1, <4>1
    <3> QED
      BY <3>2, <3>3
  <2>4. ~ stale' /\ ~ regressed' => Ordered'
    BY <1>1, <2>1, <2>2, <2>3, CallerOrder
  <2> QED
    BY <1>3, <2>2, <2>4
<1>5. CASE ClockMoves \/ UNCHANGED vars
  <2>1. /\ UNCHANGED <<buckets, pc, left, second, scan, due, old, added, stale>>
        /\ clock' \in Seconds /\ clock \in Nat /\ clock' \in Nat
        /\ ~ regressed' => ~ regressed /\ clock' >= clock
    <3>1. clock \in Nat /\ clock \in Seconds
      BY <1>1, SecondsAreNat DEF WindowInv, TypeOK
    <3>2. CASE ClockMoves
      <4>1. PICK t \in Seconds : /\ clock' = t
                                 /\ regressed' = (regressed \/ t < clock)
        BY <3>2 DEF ClockMoves
      <4>2. t \in Nat
        BY SecondsAreNat
      <4>3. ~ regressed' => ~ regressed /\ ~ (t < clock)
        BY <4>1, Zenon
      <4>4. ~ (t < clock) => t >= clock
        BY <3>1, <4>2
      <4> QED
        BY <3>1, <3>2, <4>1, <4>2, <4>3, <4>4 DEF ClockMoves
    <3>3. CASE UNCHANGED vars
      BY <3>1, <3>3 DEF vars
    <3> QED
      BY <1>5, <3>2, <3>3
  <2>2. Owes'
    BY <1>1, <2>1 DEF Owes
  <2>3. Timely'
    <3> SUFFICES ASSUME ~ regressed'
                 PROVE  /\ \A d \in Callers : second[d] <= clock'
                        /\ \A t \in Seconds : added[t] > 0 => t <= clock'
      BY <2>1 DEF Timely
    <3>1. \A d \in Callers : second[d] \in Nat
      BY <1>1, SecondsAreNat DEF WindowInv, TypeOK
    <3> QED
      BY <1>1, <2>1, <3>1, SecondsAreNat DEF Timely
  <2>4. ~ stale' /\ ~ regressed' => Ordered'
    <3> SUFFICES ASSUME ~ stale', ~ regressed' PROVE Ordered'
      OBVIOUS
    <3>1. Calm /\ Ordered
      BY <1>1, <2>1 DEF Calm
    <3> QED
      BY <2>1, <3>1, ClockOrder
  <2> QED
    BY <1>3, <2>2, <2>3, <2>4
<1> QED
  BY <1>4, <1>5 DEF Next

\* The inductive invariant of the overshoot: requests have an order of which
\* the bound follows.
THEOREM OvershootInvariant == Spec => []OvershootInv
BY OvershootInit, OvershootStep, PTL DEF Spec

\* Concurrent requests exceed the limit by no more than one request of every
\* other caller and the items of the last one.
THEOREM OvershootIsBounded == Spec => []OvershootBounded
<1>1. OvershootInv => OvershootBounded
  <2> SUFFICES ASSUME OvershootInv, ~ stale, ~ regressed
               PROVE  \E c \in Callers :
                        InWindow <= Limit + Together(Callers \ {c}) + ExtraOf[c]
    BY DEF OvershootBounded
  <2>0. PICK n \in Nat : \E rank \in [Callers -> 0 .. n] : \E r \in 0 .. n :
                           \E c \in Callers : InOrder(rank, r, c)
    BY DEF OvershootInv, Ordered
  <2>1. PICK rank \in [Callers -> 0 .. n] : \E r \in 0 .. n : \E c \in Callers : InOrder(rank, r, c)
    BY <2>0
  <2>2. PICK r \in 0 .. n : \E c \in Callers : InOrder(rank, r, c)
    BY <2>1
  <2>3. PICK c \in Callers : Bounded(rank, r, c)
    BY <2>2 DEF InOrder
  <2>4. InWindow = Sum(added, Window) /\ Together(Callers \ {c}) = Sum(Cost, Callers \ {c})
    BY DEF InWindow, Window, Together
  <2>5. Sum(Pend(rank, r), Callers) \in Nat
    BY PendType DEF OvershootInv
  <2>6. Sum(added, Window) \in Nat
    <3>1. Window \ {} = Window
      OBVIOUS
    <3>2. Sum(added, Window \ {}) \in Nat
      BY AddedType DEF OvershootInv
    <3> QED
      BY <3>1, <3>2, Zenon
  <2>7. Limit + Sum(Cost, Callers \ {c}) + ExtraOf[c] \in Nat
    BY CallersFinite, RateLimitAssumption
  <2> QED
    BY <2>3, <2>4, <2>5, <2>6, <2>7 DEF Bounded
<1> QED
  BY <1>1, OvershootInvariant, PTL
=============================================================================
