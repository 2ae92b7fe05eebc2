--------------------------- MODULE MCOrderService ---------------------------
(***************************************************************************)
(* OrderService with one bettor, whose two orders on one market fit the    *)
(* daily limit only one at a time and the weekly limit together, who may   *)
(* also ask for an order of a negative price, and a second user who may    *)
(* try to cancel them.                                                     *)
(***************************************************************************)
EXTENDS OrderService

CONSTANTS ann, bob, mkt, k1, k2, k3, s1, s2

MCUserOf   == [k \in {k1, k2, k3} |-> ann]
MCMarketOf == [k \in {k1, k2, k3} |-> mkt]
MCStake    == [k \in {k1, k2, k3} |-> IF k = k3 THEN -1 ELSE 2]
=============================================================================
