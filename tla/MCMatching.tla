----------------------------- MODULE MCMatching -----------------------------
(***************************************************************************)
(* Matching with three users and two outcomes.  A quantity counts lots of  *)
(* 100 shares, and the AMM has the default liquidity b = 100: its prices   *)
(* depend on the lots by which one outcome has outsold the other.          *)
(***************************************************************************)
EXTENDS Matching

CONSTANTS ann, bob, cat

MCUsers    == {ann, bob, cat}
MCOutcomes == {0, 1}

Limit(u, s, p, q, o) == [user |-> u, side |-> s, type |-> "LIMIT", price |-> p,
                         quantity |-> q, outcome |-> o]
Market(u, s, q, o)   == [user |-> u, side |-> s, type |-> "MARKET", price |-> 0,
                         quantity |-> q, outcome |-> o]

\* Bids of two users at one price and a better one; asks that meet some of
\* them, on both outcomes; orders the AMM fills at once, one of them for a
\* price above 99.
MCOrders == {Limit(ann, "YES", 45, 2, 0), Limit(bob, "YES", 45, 1, 0),
             Limit(bob, "YES", 49, 1, 0), Limit(cat, "NO", 55, 3, 0),
             Limit(ann, "NO", 48, 1, 0), Limit(cat, "NO", 48, 1, 1),
             Market(ann, "YES", 1, 1), Limit(bob, "YES", 130, 1, 0)}

\* round(99 / (1 + exp(-d))) within 1..99, for d from -4 to 4.
SpotTable == <<2, 5, 12, 27, 50, 72, 87, 94, 97>>

\* What fill_order makes of n lots, for n from 1 to 4.  cost adds max_q to the
\* logarithm without dividing it by b, so a purchase that raises the greatest
\* quantity costs about b times as much, and its average is clamped to 99.
AverageTable ==
    << <<3, 5, 10, 17>>, <<8, 13, 21, 99>>, <<18, 28, 99, 99>>,
       <<38, 99, 99, 99>>, <<99, 99, 99, 99>>, <<99, 99, 99, 99>>,
       <<99, 99, 99, 99>>, <<99, 99, 99, 99>>, <<99, 99, 99, 99>> >>

Lead(sold, o) == sold[o] - sold[1 - o]

MCSpot    == [sold \in SharesSold |-> [o \in Outcomes |-> SpotTable[Lead(sold, o) + 5]]]
MCAverage == [sold \in SharesSold |-> [o \in Outcomes |->
                AverageTable[Lead(sold, o) + 5]]]
=============================================================================
