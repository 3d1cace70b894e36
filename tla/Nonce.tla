-------------------------------- MODULE Nonce --------------------------------
(***************************************************************************)
(* The lock-free nonce generator (internal/nonce/nonce.go) as SDK clients  *)
(* of one process use it: every client resolves the generator of its       *)
(* signer through ForSigner (a Load, then a LoadOrStore on a sync.Map) and *)
(* then calls Next, a compare-and-swap loop over the last issued nonce and *)
(* the wall clock.  One action per atomic operation, so every interleaving *)
(* of the clients is a behaviour.  The clock may step back (NTP, manual    *)
(* adjustment): time.Now().UnixMilli() is not monotonic.                   *)
(***************************************************************************)
EXTENDS Integers, Sequences

CONSTANTS
  Clients,    \* the clients (each also stands for one calling goroutine)
  Signers,    \* signer addresses
  SignerOf,   \* the key each client was built with
  MaxClock,   \* bound: largest wall-clock reading, in milliseconds
  MaxIssued,  \* bound: total number of nonces drawn
  None        \* "no generator yet"

ASSUME NonceAssumption ==
  /\ SignerOf \in [Clients -> Signers]
  /\ MaxClock \in Nat
  /\ MaxIssued \in Nat
  /\ None \notin Clients

VARIABLES
  clock,      \* the wall clock
  maxClock,   \* history: the latest time the wall clock has ever shown
  registry,   \* sync.Map: the generator of each signer; a generator is
              \* named after the client whose New() created it
  gen,        \* the generator a client resolved
  last,       \* atomic.Int64 of each generator
  pc,         \* where each client is
  seen,       \* `last` as loaded by the current iteration of Next
  cand,       \* `next`, the value the CAS tries to install
  shown,      \* history: the times the clock has shown since a call began
  issued      \* history: nonces handed out, in the order of the CASes

vars == <<clock, maxClock, registry, gen, last, pc, seen, cand, shown, issued>>

ClientState == {"lookup", "store", "ready", "load", "clock", "cas"}

Init ==
  /\ clock \in 0 .. MaxClock
  /\ maxClock = clock
  /\ registry = [s \in Signers |-> None]
  /\ gen = [c \in Clients |-> None]
  /\ last = [c \in Clients |-> 0]
  /\ pc = [c \in Clients |-> "lookup"]
  /\ seen = [c \in Clients |-> 0]
  /\ cand = [c \in Clients |-> 0]
  /\ shown = [c \in Clients |-> {}]
  /\ issued = <<>>

-----------------------------------------------------------------------------
(* ForSigner *)

\* registry.Load: take the generator that is already there.
Lookup(c) ==
  /\ pc[c] = "lookup"
  /\ gen' = [gen EXCEPT ![c] = registry[SignerOf[c]]]
  /\ pc' = [pc EXCEPT ![c] =
              IF registry[SignerOf[c]] = None THEN "store" ELSE "ready"]
  /\ UNCHANGED <<clock, maxClock, registry, last, seen, cand, shown, issued>>

\* Mutant: a plain Store, which replaces the generator of another client.
StoredByAll(c) == c

\* The generator LoadOrStore returns to client c, which offers its own.
Stored(c) == IF registry[SignerOf[c]] = None THEN c ELSE registry[SignerOf[c]]

\* registry.LoadOrStore: atomically keep the present generator or store ours.
LoadOrStore(c) ==
  /\ pc[c] = "store"
  /\ registry' = [registry EXCEPT ![SignerOf[c]] = Stored(c)]
  /\ gen' = [gen EXCEPT ![c] = Stored(c)]
  /\ pc' = [pc EXCEPT ![c] = "ready"]
  /\ UNCHANGED <<clock, maxClock, last, seen, cand, shown, issued>>

-----------------------------------------------------------------------------
(* Next *)

Call(c) ==
  /\ pc[c] = "ready"
  /\ Len(issued) < MaxIssued
  /\ pc' = [pc EXCEPT ![c] = "load"]
  /\ shown' = [shown EXCEPT ![c] = {clock}]
  /\ UNCHANGED <<clock, maxClock, registry, gen, last, seen, cand, issued>>

LoadLast(c) ==
  /\ pc[c] = "load"
  /\ seen' = [seen EXCEPT ![c] = last[gen[c]]]
  /\ pc' = [pc EXCEPT ![c] = "clock"]
  /\ UNCHANGED <<clock, maxClock, registry, gen, last, cand, shown, issued>>

\* Mutant: the step skips a value.
CandidateSkips(now, l) == IF now <= l THEN l + 2 ELSE now

\* Mutant: a plain counter, which the clock does not forward.
CandidateCounts(now, l) == l + 1

\* max(now, last + 1)
Candidate(now, l) == IF now <= l THEN l + 1 ELSE now

ReadClock(c) ==
  /\ pc[c] = "clock"
  /\ cand' = [cand EXCEPT ![c] = Candidate(clock, seen[c])]
  /\ pc' = [pc EXCEPT ![c] = "cas"]
  /\ UNCHANGED <<clock, maxClock, registry, gen, last, seen, shown, issued>>

\* The generator still holds the value this call loaded: the CAS succeeds.
Unmoved(c) == last[gen[c]] = seen[c]

CasSucceeds(c) ==
  /\ pc[c] = "cas"
  /\ Unmoved(c)
  /\ last' = [last EXCEPT ![gen[c]] = cand[c]]
  /\ issued' = Append(issued, [signer |-> SignerOf[c], nonce |-> cand[c]])
  /\ pc' = [pc EXCEPT ![c] = "ready"]
  /\ shown' = [shown EXCEPT ![c] = {}]
  /\ UNCHANGED <<clock, maxClock, registry, gen, seen, cand>>

CasFails(c) ==
  /\ pc[c] = "cas"
  /\ ~ Unmoved(c)
  /\ pc' = [pc EXCEPT ![c] = "load"]
  /\ UNCHANGED <<clock, maxClock, registry, gen, last, seen, cand, shown, issued>>

-----------------------------------------------------------------------------
\* The wall clock shows another time, later or earlier.
ClockMoves ==
  \E t \in 0 .. MaxClock :
    /\ clock' = t
    /\ maxClock' = IF t > maxClock THEN t ELSE maxClock
    /\ shown' = [c \in Clients |-> IF shown[c] = {} THEN {} ELSE shown[c] \cup {t}]
    /\ UNCHANGED <<registry, gen, last, pc, seen, cand, issued>>

ClientStep(c) ==
  \/ Lookup(c) \/ LoadOrStore(c)
  \/ Call(c) \/ LoadLast(c) \/ ReadClock(c) \/ CasSucceeds(c) \/ CasFails(c)

Next == ClockMoves \/ \E c \in Clients : ClientStep(c)

Spec == Init /\ [][Next]_vars

-----------------------------------------------------------------------------
TypeOK ==
  /\ clock \in Nat
  /\ maxClock \in Nat
  /\ registry \in [Signers -> Clients \cup {None}]
  /\ gen \in [Clients -> Clients \cup {None}]
  /\ last \in [Clients -> Nat]
  /\ pc \in [Clients -> ClientState]
  /\ seen \in [Clients -> Nat]
  /\ cand \in [Clients -> Nat]
  /\ shown \in [Clients -> SUBSET Nat]
  /\ issued \in Seq([signer : Signers, nonce : Nat])

(***************************************************************************)
(* The nonces of a signer strictly increase in the order in which their    *)
(* compare-and-swaps took effect, whichever clients drew them and however  *)
(* the clock moved.  It contains both promises of nonce.go: clients built  *)
(* with one key never emit a nonce twice ("MUST share one generator",      *)
(* nonce.go:26-30), and a nonce exceeds those of all calls that returned   *)
(* before its own call began (nonce.go:65-66).                             *)
(***************************************************************************)
IssuedIncreasing ==
  \A i, j \in 1 .. Len(issued) :
    i < j /\ issued[i].signer = issued[j].signer
      => issued[i].nonce < issued[j].nonce

\* Nonce v was handed out for signer s.
Handed(s, v) ==
  \E j \in 1 .. Len(issued) : issued[j].signer = s /\ issued[j].nonce = v

(***************************************************************************)
(* "Under bursts it runs ahead of the clock by at most the burst size"     *)
(* (nonce.go:20-22): above the latest time the clock has ever shown, the   *)
(* nonces of a signer have no gap, so the lead over the clock is exactly   *)
(* the number of nonces that did not fit into it.                          *)
(***************************************************************************)
NoGapAhead ==
  \A i \in 1 .. Len(issued) :
    \A v \in maxClock + 1 .. issued[i].nonce : Handed(issued[i].signer, v)

-----------------------------------------------------------------------------
(* The conjuncts that make IssuedIncreasing and NoGapAhead inductive. *)

\* A client that has resolved a generator has resolved the registered one.
SharedGenerator ==
  \A c \in Clients :
    pc[c] \notin {"lookup", "store"} =>
      /\ gen[c] \in Clients
      /\ registry[SignerOf[c]] = gen[c]

\* A generator serves one signer, the key of the client that created it.
OwnSigner ==
  \A s \in Signers : registry[s] # None => SignerOf[registry[s]] = s

\* A client whose generator is not in the registry has never used it.
UnusedUntilStored ==
  \A c \in Clients : registry[SignerOf[c]] # c => last[c] = 0

\* `last` of the registered generator bounds every nonce of its signer.
LastBounds ==
  \A i \in 1 .. Len(issued) :
    /\ registry[issued[i].signer] # None
    /\ issued[i].nonce <= last[registry[issued[i].signer]]

\* A pending CAS installs a larger value, beyond the clock only the next one.
CandidateNext ==
  \A c \in Clients :
    pc[c] = "cas" =>
      /\ cand[c] > seen[c]
      /\ cand[c] > maxClock => cand[c] = seen[c] + 1

\* A call has been shown the time of now, a client outside a call none, and the
\* pending CAS has a time shown during the call.
ReadDuringCall ==
  \A c \in Clients :
    /\ pc[c] \in {"lookup", "store", "ready"} => shown[c] = {}
    /\ pc[c] \in {"load", "clock", "cas"} => clock \in shown[c]
    /\ pc[c] = "cas" => \E now \in shown[c] : cand[c] = Candidate(now, seen[c])

NoGapBelowLast ==
  \A s \in Signers :
    registry[s] # None =>
      \A v \in maxClock + 1 .. last[registry[s]] : Handed(s, v)

(***************************************************************************)
(* The inductive invariant: each call works on the one registered          *)
(* generator of its signer, whose `last` dominates all its nonces and has  *)
(* no hole above the clock, and each candidate of a CAS extends that.      *)
(***************************************************************************)
NonceInv ==
  /\ TypeOK
  /\ clock <= maxClock
  /\ SharedGenerator
  /\ OwnSigner
  /\ UnusedUntilStored
  /\ LastBounds
  /\ CandidateNext
  /\ ReadDuringCall
  /\ IssuedIncreasing
  /\ NoGapBelowLast

-----------------------------------------------------------------------------
\* The last nonce of each signer.
Top == [s \in Signers |-> IF registry[s] = None THEN 0 ELSE last[registry[s]]]

(***************************************************************************)
(* The compare-and-swap loop behind the shared registry implements the     *)
(* atomic source: however the calls of one key interleave, each takes      *)
(* effect as a single max(now, last + 1) between its begin and its return, *)
(* with a time of that very call: a nonce is "not smaller than the current *)
(* time" (nonce.go:65-66), and one that is ahead of every time of its call *)
(* is the successor of the signer's last one (nonce.go:18-22).             *)
(***************************************************************************)
Source == INSTANCE NonceSource WITH top <- Top
SourceSpec == Source!Spec
=============================================================================
