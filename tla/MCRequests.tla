----------------------------- MODULE MCRequests -----------------------------
(***************************************************************************)
(* Requests for TLC: interchangeable calls.                                *)
(***************************************************************************)
EXTENDS Requests

Symmetry == Permutations(Calls)
=============================================================================
