------------------------------ MODULE RateLimit ------------------------------
(***************************************************************************)
(* The SDK-side accounting of IP weight: the lock-free sliding window      *)
(* (internal/ratelimit/window.go) as the engine uses it around a request   *)
(* (internal/engine/engine.go): admit reads the window before the request  *)
(* is sent, account adds to it after the reply.  The guard of admit is     *)
(* switched on (RejectWhenExhausted).  One action per atomic operation on  *)
(* a bucket and per reading of the clock; the clock may jump both ways.    *)
(***************************************************************************)
EXTENDS Integers, FiniteSets, Sequences

CONSTANTS
  Callers,      \* goroutines that perform requests
  WeightOf,     \* the weight of a caller's requests
  ExtraOf,      \* what the items of a reply weigh on top, 0 for an action
  Limit,        \* Window.limit
  Ring,         \* windowSeconds
  FieldMax,     \* 0xffffffff, the largest weight a bucket holds
  MaxRequests,  \* bound: requests per caller
  MaxClock      \* bound: largest second the clock shows

ASSUME RateLimitAssumption ==
  /\ IsFiniteSet(Callers) /\ Callers # {}
  /\ WeightOf \in [Callers -> Nat \ {0}]
  /\ ExtraOf \in [Callers -> Nat]
  /\ Limit \in Nat
  /\ Ring \in Nat \ {0}
  /\ FieldMax \in Nat /\ FieldMax >= Limit
  /\ MaxRequests \in Nat
  /\ MaxClock \in Nat /\ MaxClock >= Ring

VARIABLES
  clock,      \* the wall clock, in seconds
  regressed,  \* history: the clock has stepped back
  buckets,    \* Window.buckets: the second and the weight packed in one word
  pc,         \* where each caller is
  left,       \* requests each caller may still begin
  second,     \* `second` of the current usedAt or Add
  scan,       \* usedAt: the next bucket to read and the total so far
  due,        \* account: the weights still to be added
  old,        \* Add: the word loaded
  added,      \* history: the weight added under each second
  stale       \* history: an Add has replaced a bucket of a later second

vars == <<clock, regressed, buckets, pc, left, second, scan, due, old, added, stale>>

\* The epoch is far enough from zero for the empty buckets to be out of every
\* window.
Seconds == Ring .. MaxClock
Stamps == Seconds \cup {0}
Slots == 0 .. Ring - 1
CallerState == {"idle", "scan", "sent", "stamp", "load", "cas"}
Word == [stamp : Stamps, weight : 0 .. FieldMax]
Empty == [stamp |-> 0, weight |-> 0]

Init ==
  /\ clock \in Seconds
  /\ regressed = FALSE
  /\ buckets = [i \in Slots |-> Empty]
  /\ pc = [c \in Callers |-> "idle"]
  /\ left = [c \in Callers |-> MaxRequests]
  /\ second = [c \in Callers |-> Ring]
  /\ scan = [c \in Callers |-> [next |-> 0, total |-> 0]]
  /\ due = [c \in Callers |-> <<>>]
  /\ old = [c \in Callers |-> Empty]
  /\ added = [t \in Seconds |-> 0]
  /\ stale = FALSE

Goes(c, from, to) == pc[c] = from /\ pc' = [pc EXCEPT ![c] = to]

-----------------------------------------------------------------------------
(* admit: Used() + weight > Limit() *)

Begin(c) ==
  /\ Goes(c, "idle", "scan")
  /\ left[c] > 0
  /\ left' = [left EXCEPT ![c] = @ - 1]
  /\ second' = [second EXCEPT ![c] = clock]
  /\ scan' = [scan EXCEPT ![c] = [next |-> 0, total |-> 0]]
  /\ UNCHANGED <<clock, regressed, buckets, due, old, added, stale>>

\* Mutant: the youngest second of the window is left out.
CountedLate(w, s) == IF s - w.stamp \in 1 .. Ring - 1 THEN w.weight ELSE 0

\* What word w contributes to the window that ends with second s.
Counted(w, s) == IF s - w.stamp \in 0 .. Ring - 1 THEN w.weight ELSE 0

ReadBucket(c) ==
  /\ pc[c] = "scan"
  /\ scan[c].next \in Slots
  /\ scan' = [scan EXCEPT ![c].next = @ + 1,
                          ![c].total = @ + Counted(buckets[scan[c].next], second[c])]
  /\ UNCHANGED <<clock, regressed, buckets, pc, left, second, due, old, added, stale>>

Scanned(c) == scan[c].next = Ring
Fits(c) == scan[c].total + WeightOf[c] <= Limit

Admit(c) ==
  /\ Goes(c, "scan", "sent")
  /\ Scanned(c)
  /\ Fits(c)
  /\ UNCHANGED <<clock, regressed, buckets, left, second, scan, due, old, added, stale>>

Refuse(c) ==
  /\ Goes(c, "scan", "idle")
  /\ Scanned(c)
  /\ ~ Fits(c)
  /\ UNCHANGED <<clock, regressed, buckets, left, second, scan, due, old, added, stale>>

-----------------------------------------------------------------------------
(* account, after the transport has returned *)

\* Success or failure: the weight is due.  The items of a decoded reply are
\* charged by a second call of account.
Answered(c) ==
  /\ Goes(c, "sent", "stamp")
  /\ \/ due' = [due EXCEPT ![c] = <<WeightOf[c]>>]
     \/ ExtraOf[c] > 0 /\ due' = [due EXCEPT ![c] = <<WeightOf[c], ExtraOf[c]>>]
  /\ UNCHANGED <<clock, regressed, buckets, left, second, scan, old, added, stale>>

\* Add: second := now()
Stamp(c) ==
  /\ Goes(c, "stamp", "load")
  /\ second' = [second EXCEPT ![c] = clock]
  /\ UNCHANGED <<clock, regressed, buckets, left, scan, due, old, added, stale>>

Slot(c) == second[c] % Ring

LoadBucket(c) ==
  /\ Goes(c, "load", "cas")
  /\ old' = [old EXCEPT ![c] = buckets[Slot(c)]]
  /\ UNCHANGED <<clock, regressed, buckets, left, second, scan, due, added, stale>>

Capped(w) == IF w > FieldMax THEN FieldMax ELSE w

\* The word Add installs over word w: it keeps the weight of its own second.
Updated(w, s, weight) ==
  [stamp |-> s, weight |-> Capped((IF w.stamp = s THEN w.weight ELSE 0) + weight)]

\* Mutant: a plain store in place of the CAS.
UnmovedAlways(c) == TRUE

Unmoved(c) == buckets[Slot(c)] = old[c]

CasSucceeds(c) ==
  /\ Goes(c, "cas", IF Len(due[c]) > 1 THEN "stamp" ELSE "idle")
  /\ Unmoved(c)
  /\ buckets' = [buckets EXCEPT ![Slot(c)] = Updated(old[c], second[c], Head(due[c]))]
  /\ due' = [due EXCEPT ![c] = Tail(@)]
  /\ added' = [added EXCEPT ![second[c]] = @ + Head(due[c])]
  /\ stale' = (stale \/ old[c].stamp > second[c])
  /\ UNCHANGED <<clock, regressed, left, second, scan, old>>

CasFails(c) ==
  /\ Goes(c, "cas", "load")
  /\ ~ Unmoved(c)
  /\ UNCHANGED <<clock, regressed, buckets, left, second, scan, due, old, added, stale>>

-----------------------------------------------------------------------------
ClockMoves ==
  \E t \in Seconds \ {clock} :
    /\ clock' = t
    /\ regressed' = (regressed \/ t < clock)
    /\ UNCHANGED <<buckets, pc, left, second, scan, due, old, added, stale>>

CallerStep(c) ==
  \/ Begin(c) \/ ReadBucket(c) \/ Admit(c) \/ Refuse(c)
  \/ Answered(c) \/ Stamp(c) \/ LoadBucket(c) \/ CasSucceeds(c) \/ CasFails(c)

Next == ClockMoves \/ \E c \in Callers : CallerStep(c)

Spec == Init /\ [][Next]_vars

-----------------------------------------------------------------------------
TypeOK ==
  /\ clock \in Seconds
  /\ regressed \in BOOLEAN
  /\ buckets \in [Slots -> Word]
  /\ pc \in [Callers -> CallerState]
  /\ left \in [Callers -> 0 .. MaxRequests]
  /\ second \in [Callers -> Seconds]
  /\ scan \in [Callers -> [next : 0 .. Ring, total : Nat]]
  /\ due \in [Callers -> Seq(Nat)]
  /\ old \in [Callers -> Word]
  /\ added \in [Seconds -> Nat]
  /\ stale \in BOOLEAN

\* The window holds all weight added under second t, or has given its bucket
\* to a later second.
Kept(t) ==
  LET word == buckets[t % Ring] IN
    \/ word = [stamp |-> t, weight |-> Capped(added[t])]
    \/ word.stamp > t /\ added[word.stamp] > 0

(***************************************************************************)
(* Concurrent Adds neither lose nor duplicate weight: what was added under *)
(* a second stays in its bucket, to the unit, until a second one window    *)
(* later needs the bucket.  The exception is an Add whose second is a      *)
(* whole window behind the bucket it meets.                                *)
(***************************************************************************)
NothingLost == ~ stale => \A t \in Seconds : added[t] > 0 => Kept(t)

\* The sum of f over S, as the number of its units.
Sum(f, S) == Cardinality(UNION {{x} \X (1 .. f[x]) : x \in S})

\* The weight added under the seconds of the window that ends now.
InWindow == Sum(added, {t \in Seconds : clock - t \in 0 .. Ring - 1})

Cost == [c \in Callers |-> WeightOf[c] + ExtraOf[c]]
Together(S) == Sum(Cost, S)

(***************************************************************************)
(* admit checks and account adds later, so concurrent requests exceed the  *)
(* limit that "a request whose weight does not fit" is to respect          *)
(* (config.go:103-105), but by no more than one request of every other     *)
(* caller and the items of the last one, however many requests race.  A    *)
(* clock that steps back hides the seconds it left, so the bound is stated *)
(* for a clock that does not.                                              *)
(***************************************************************************)
OvershootBounded ==
  ~ stale /\ ~ regressed =>
    \E c \in Callers : InWindow <= Limit + Together(Callers \ {c}) + ExtraOf[c]
=============================================================================
