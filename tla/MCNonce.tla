------------------------------ MODULE MCNonce ------------------------------
(* Two clients share a signer, a third one has a key of its own. *)
EXTENDS Nonce, TLC

CONSTANTS a, b, x, s, t

MCSignerOf == (a :> s) @@ (b :> s) @@ (x :> t)
MCClients == {a, b, x}
MCSigners == {s, t}
=============================================================================
