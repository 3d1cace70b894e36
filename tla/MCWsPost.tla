------------------------------ MODULE MCWsPost ------------------------------
(* Two requests, one caller of Close, two connections. *)
EXTENDS WsPost, TLC
CONSTANTS p1, p2, k1
Symmetry == Permutations({p1, p2})
=============================================================================
