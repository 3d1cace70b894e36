----------------------------- MODULE NonceSource -----------------------------
(***************************************************************************)
(* What the nonce generators of internal/nonce promise, without compare-   *)
(* and-swap, retries or registry: every call of Next takes effect in one   *)
(* step between its begin and its return, as max(now, last + 1) of an      *)
(* atomic source that all callers of the signer share, where now is a time *)
(* the clock showed during the call.  The exchange accepts a nonce that is *)
(* new and near its own time; the step gives both.                         *)
(***************************************************************************)
EXTENDS Integers, Sequences

CONSTANTS Clients, Signers, SignerOf

VARIABLES
  clock,    \* the wall clock
  shown,    \* per client: the times shown since its running call began
  top,      \* per signer: the last nonce handed out
  issued    \* every nonce handed out: [signer, nonce] in issuing order

vars == <<clock, shown, top, issued>>

Init ==
  /\ clock \in Nat
  /\ shown = [c \in Clients |-> {}]
  /\ top = [s \in Signers |-> 0]
  /\ issued = <<>>

Call(c) ==
  /\ shown[c] = {}
  /\ shown' = [shown EXCEPT ![c] = {clock}]
  /\ UNCHANGED <<clock, top, issued>>

\* "max(now_ms, last + 1)", atomically.
Following(now, last) == IF now > last THEN now ELSE last + 1

Return(c) ==
  \E now \in shown[c] :
    LET signer == SignerOf[c]
        n == Following(now, top[signer])
    IN /\ top' = [top EXCEPT ![signer] = n]
       /\ issued' = Append(issued, [signer |-> signer, nonce |-> n])
       /\ shown' = [shown EXCEPT ![c] = {}]
       /\ UNCHANGED clock

Tick ==
  /\ clock' \in Nat
  /\ shown' = [c \in Clients |-> IF shown[c] = {} THEN {} ELSE shown[c] \cup {clock'}]
  /\ UNCHANGED <<top, issued>>

Next == Tick \/ \E c \in Clients : Call(c) \/ Return(c)

Spec == Init /\ [][Next]_vars
=============================================================================
