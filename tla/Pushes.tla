------------------------------- MODULE Pushes -------------------------------
(***************************************************************************)
(* A user stream of a section (perpetuals/stream.go over                   *)
(* internal/domain/streams.go): the pushes of one account-wide channel,    *)
(* decoded into storage that is reused from push to push and filtered by   *)
(* the section's registry, element by element, on the read goroutine while *)
(* the registry is refreshed by others.  The model is that of userFills;   *)
(* orderUpdates is the same without the IsSnapshot flag.                   *)
(*                                                                         *)
(* An element is [coin, oid, opt]: coin n is the n-th of the section's     *)
(* metadata, 0 one of another section; opt is an optional key, Absent when *)
(* the push does not carry it and Unset in a Go value that was never set.  *)
(***************************************************************************)
EXTENDS AssetRegistry, SequencesExt

CONSTANTS
  Watcher,   \* the caller that starts the stream
  PushCoins, \* coins the elements of pushes are of
  Oids,      \* identities of elements
  Opts,      \* values of the optional key
  MaxLen,    \* bound: elements in a push
  Absent, Unset

ASSUME PushesAssumption ==
  /\ Watcher \in Callers /\ MaxLen \in Nat \ {0}
  /\ PushCoins \subseteq 0 .. MaxMeta /\ Unset \notin Opts

VARIABLES
  watching,  \* the stream was started
  push,      \* the push being handled, <<>> elements when none
  reader,    \* "read", "filter" or "deliver"
  base,      \* the snapshot when the push was decoded (for the properties)
  slots,     \* the backing array of the decode target
  flag,      \* its IsSnapshot
  at,        \* the element the filter looks at
  own        \* the section's elements of the push

pushVars == <<watching, push, reader, base, slots, flag, at, own>>
allVars == <<vars, pushVars>>

Zero == [coin |-> 0, oid |-> 0, opt |-> Unset]
Elements == [coin : PushCoins, oid : Oids, opt : Opts \cup {Absent}]
NoPush == [snapshot |-> FALSE, items |-> <<>>]

InitPushes ==
  /\ Init
  /\ watching = FALSE
  /\ push = NoPush
  /\ reader = "read"
  /\ base = Nil
  /\ slots = [i \in 1 .. MaxLen |-> Zero]
  /\ flag = FALSE
  /\ at = 1
  /\ own = <<>>

\* preload, then the subscription: only when Get returned a snapshot.
Watch ==
  /\ ~ watching /\ GetReturns(Watcher)
  /\ watching' = TRUE
  /\ UNCHANGED <<push, reader, base, slots, flag, at, own>>

\* The decoder writes the keys a push has into the element's old storage.
Written(old, e) == [e EXCEPT !.opt = IF e.opt = Absent THEN old.opt ELSE e.opt]
Decoded(n, items) ==
  [i \in DOMAIN slots |-> IF i =< n THEN Written(slots[i], items[i]) ELSE slots[i]]

\* Mutant: the flag of an earlier push is not reset.
FlagKept(p) == flag \/ p.snapshot

\* fills.IsSnapshot = false; the key is there only when it is true.
FlagReset(p) == p.snapshot

\* A push arrives and decodes; a malformed one has written its first elements
\* and is dropped.
Receive(p) ==
  /\ watching /\ reader = "read"
  /\ \A i \in DOMAIN p.items : p.items[i].coin =< meta
  /\ flag' = FlagReset(p)
  /\ \/ /\ slots' = Decoded(Len(p.items), p.items)
        /\ push' = p /\ reader' = "filter"
        /\ base' = current /\ at' = 1 /\ own' = <<>>
     \/ /\ \E n \in 0 .. Len(p.items) - 1 : slots' = Decoded(n, p.items)
        /\ UNCHANGED <<push, reader, base, at, own>>
  /\ UNCHANGED <<vars, watching>>

\* owns: the snapshot of this very moment lists the coin.
owns(coin) == current # Nil /\ coin \in 1 .. current

FilterOne ==
  /\ reader = "filter" /\ at =< Len(push.items)
  /\ own' = IF owns(slots[at].coin) THEN Append(own, slots[at]) ELSE own
  /\ at' = at + 1
  /\ UNCHANGED <<vars, watching, push, reader, base, slots, flag>>

\* The handler is not called without elements, except for a snapshot.
FilterEnds ==
  /\ reader = "filter" /\ at > Len(push.items)
  /\ reader' = IF own # <<>> \/ flag THEN "deliver" ELSE "read"
  /\ UNCHANGED <<vars, watching, push, base, slots, flag, at, own>>

Deliver ==
  /\ reader = "deliver" /\ reader' = "read"
  /\ push' = NoPush /\ own' = <<>>
  /\ at' = 1 /\ base' = Nil
  /\ UNCHANGED <<vars, watching, slots, flag>>

AllPushes ==
  [snapshot : BOOLEAN, items : UNION {[1 .. n -> Elements] : n \in 0 .. MaxLen}]

StreamStep ==
  \/ Watch
  \/ \E p \in AllPushes : Receive(p)
  \/ FilterOne
  \/ FilterEnds
  \/ Deliver

NextPushes == (Next /\ UNCHANGED pushVars) \/ StreamStep

SpecPushes == InitPushes /\ [][NextPushes]_allVars

FairPushes == SpecPushes /\ RegistryFairness

(***************************************************************************)
(* Properties.                                                             *)
(***************************************************************************)
Key(e) == <<e.coin, e.oid>>
Keys(s) == [i \in DOMAIN s |-> Key(s[i])]
Listed(n) == {i \in DOMAIN push.items : push.items[i].coin \in 1 .. n}
Chosen(S) == [n \in 1 .. Cardinality(S) |->
                push.items[CHOOSE i \in S : Cardinality({j \in S : j =< i}) = n]]

\* What the handler gets is this push: its IsSnapshot, and its elements of the
\* section in order, none of an earlier push and none twice; an element is left
\* out only when no snapshot of the time listed its coin, and one that any
\* snapshot since the start listed is in, however refreshes run into the filter
\* (stream.go:130-141, 159-172; streams.go:271-278, 337-345).
DeliveredIsOwnPush ==
  reader = "deliver" =>
    /\ flag = push.snapshot
    /\ \E S \in SUBSET DOMAIN push.items :
         /\ Listed(base) \subseteq S /\ S \subseteq Listed(current)
         /\ Keys(own) = Keys(Chosen(S))

\* A started stream always has a snapshot to filter with.
FilterReady == watching => current # Nil

\* "Fields the exchange omits for a given order decode to their zero value"
\* (types/orders.go:16): a key the push does not have reads as unset, not as
\* the value an earlier push had in the same slot of the reused array.
FullState ==
  reader = "deliver" =>
    \A i \in DOMAIN own : \E e \in ToSet(push.items) :
      /\ Key(e) = Key(own[i])
      /\ own[i].opt = IF e.opt = Absent THEN Unset ELSE e.opt
=============================================================================
