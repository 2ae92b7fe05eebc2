--------------------------- MODULE MCMarketManager ---------------------------
(***************************************************************************)
(* MarketManager with two orders, one of them on an outcome the AMM does   *)
(* not have, a malformed event, two voids of the market, and one restart.  *)
(***************************************************************************)
EXTENDS MarketManager

CONSTANTS a, b, x

MCOrderLog == <<a, x, b>>
=============================================================================
