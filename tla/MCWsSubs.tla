------------------------------ MODULE MCWsSubs ------------------------------
(* Watches a and b want the feed f, watch c another feed g of the same key. *)
EXTENDS WsSubs
CONSTANTS a, b, c, f, g, kf, k1

MCFeedOf == [w \in Watches |-> IF w = c THEN g ELSE f]
MCKeyOf == [x \in Feeds |-> kf]
=============================================================================
