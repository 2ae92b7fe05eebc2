-------------------------- MODULE MCMarketLifecycle --------------------------
(***************************************************************************)
(* MarketLifecycle with one market (markets share nothing), two concurrent *)
(* requests and the consumer.                                              *)
(***************************************************************************)
EXTENDS MarketLifecycle, TLC

CONSTANTS mkt, s1, s2

Symmetry == Permutations({s1, s2})
=============================================================================
