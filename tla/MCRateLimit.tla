---------------------------- MODULE MCRateLimit ----------------------------
(* Two callers: actions of weight 1, and info requests of weight 2 whose    *)
(* items weigh 1 more.                                                      *)
EXTENDS RateLimit, TLC
CONSTANTS a, b
MCWeightOf == (a :> 1) @@ (b :> 2)
MCExtraOf == (a :> 0) @@ (b :> 1)
=============================================================================
