------------------------------ MODULE Matching ------------------------------
(***************************************************************************)
(* matching-engine, the task of one market: its order book, its LMSR AMM   *)
(* and process_order, which adds an order to the book, matches while the   *)
(* best YES and the best NO order cross, and offers what is left to the    *)
(* AMM.  The task is the only writer of the book; process_order is cut in  *)
(* steps, one per turn of its loop, so that the loop needs no recursion.   *)
(*                                                                         *)
(* A price level of the code's BTreeMap exists when its queue here is not  *)
(* empty: every operation the program sends prunes the levels it empties.  *)
(* (Cancel would not, but nothing in src/ sends it.)                       *)
(***************************************************************************)
EXTENDS Integers, Sequences, FiniteSets, FiniteSetsExt, SequencesExt

CONSTANTS Users,
          Outcomes,   \* outcome indices the AMM was built with
          Orders,     \* the orders that may arrive on orders.placed
          MaxPrice,   \* the highest price_minor an event can state
          Spot,       \* price_minor of the AMM: by shares sold, by outcome
          Average,    \* average price of a purchase: also by its size
          MaxOrders,  \* bound: orders submitted in a behaviour
          MaxShares   \* bound: shares of an outcome the AMM may come to sell

Sides      == {"YES", "NO"}
SharesSold == [Outcomes -> 0..MaxShares]
Minor      == 1..99

\* into_order checks neither price nor quantity.  A quantity of zero is kept out
\* by the CHECK of the orders table, which the one producer of orders.placed has
\* passed; nothing keeps out a price above 99.
ASSUME OrdersAssumption ==
    /\ MaxPrice \in Nat
    /\ Orders \subseteq [user : Users, side : Sides, type : {"LIMIT", "MARKET"},
                         price : 0..MaxPrice, quantity : Nat \ {0}, outcome : Outcomes]

ASSUME AmmAssumption ==
    /\ Spot \in [SharesSold -> [Outcomes -> Minor]]
    /\ Average \in [SharesSold -> [Outcomes -> [1..MaxShares -> Minor]]]

ASSUME BoundAssumption == MaxOrders \in Nat /\ MaxShares \in Nat /\ "none" \notin Users

VARIABLES
    book,      \* bids (YES) and asks (NO): queues of resting orders by price
    seq,       \* the book's sequence number
    shares,    \* quantities of the AMM: shares sold of each outcome
    phase,     \* idle, matching, fallback; exited after a void
    cur,       \* the order process_order works on
    filled,    \* clob_filled: total quantity of the CLOB trades it returned
    trades,    \* every trade, in the order it is logged and published
    placed,    \* history: quantity each user has submitted
    dropped,   \* history: quantity taken off the book without a trade
    submitted  \* counter of the bound

ledger == <<placed, dropped>>
vars == <<book, seq, shares, phase, cur, filled, trades, ledger, submitted>>

-----------------------------------------------------------------------------
Levels == {o.price : o \in Orders}

\* The prices of a side that hold an order.
Open(s) == {l \in Levels : book[s][l] # <<>>}

Best(s) == Max(Open(s))

BothSides == Open("YES") # {} /\ Open("NO") # {}

Crosses == BothSides /\ Best("YES") + Best("NO") >= 100

\* Mutant: a filled order stays at the front of its queue.
FillWithoutPop(queue, n) == [queue EXCEPT ![1].remaining = @ - n]

\* A queue whose first order is filled by n, and leaves once nothing remains.
FillFront(queue, n) ==
    IF Head(queue).remaining = n THEN Tail(queue)
    ELSE [queue EXCEPT ![1].remaining = @ - n]

\* What is left of a queue without the orders that are gone, as it was ordered.
Retain(queue, gone) ==
    LET Kept[n \in 0..Len(queue)] ==
          IF n = 0 THEN <<>>
          ELSE IF queue[n] \in gone THEN Kept[n - 1] ELSE Append(Kept[n - 1], queue[n])
    IN  Kept[Len(queue)]

\* What rests on a side, and of one user on both.
Resting(s) == UNION {ToSet(book[s][l]) : l \in Levels}
RestingOf(u) == {o \in Resting("YES") \cup Resting("NO") : o.user = u}
Remaining(orders) == MapThenSumSet(LAMBDA o : o.remaining, orders)

-----------------------------------------------------------------------------
NoOrder == [user |-> "none", side |-> "none", type |-> "none", price |-> 0,
            quantity |-> 0, outcome |-> 0, seq |-> 0]

Init ==
    /\ book = [s \in Sides |-> [l \in Levels |-> <<>>]] /\ seq = 0
    /\ shares = [o \in Outcomes |-> 0]
    /\ phase = "idle" /\ cur = NoOrder /\ filled = 0
    /\ trades = <<>>
    /\ placed = [u \in Users |-> 0] /\ dropped = [u \in Users |-> 0]
    /\ submitted = 0

\* process_order returns and its locals go out of scope.
Return == phase' = "idle" /\ cur' = NoOrder /\ filled' = 0

\* Mutant: a new order enters its level at the front.
EnterInFront(queue, order) == <<order>> \o queue

Enter(queue, order) == Append(queue, order)

Numbered(order, n) ==
    [user |-> order.user, side |-> order.side, type |-> order.type,
     price |-> order.price, quantity |-> order.quantity,
     outcome |-> order.outcome, seq |-> n]

\* The task receives an order: add_order numbers it and queues it at its price.
AddOrder(order) ==
    /\ phase = "idle"
    /\ submitted < MaxOrders
    /\ shares[order.outcome] + order.quantity <= MaxShares
    /\ submitted' = submitted + 1
    /\ seq' = seq + 1
    /\ book' = [book EXCEPT ![order.side][order.price] =
         Enter(@, [user |-> order.user, outcome |-> order.outcome,
                   price |-> order.price, remaining |-> order.quantity,
                   seq |-> seq'])]
    /\ cur' = Numbered(order, seq')
    /\ phase' = "matching"
    /\ placed' = [placed EXCEPT ![order.user] = @ + order.quantity]
    /\ UNCHANGED <<shares, filled, trades, dropped>>

\* Mutant: the trade takes the sequence number but does not advance it.
MatchInPlace ==
    /\ phase = "matching"
    /\ Crosses
    /\ LET bid == Head(book["YES"][Best("YES")])
           ask == Head(book["NO"][Best("NO")])
           qty == Min({bid.remaining, ask.remaining})
       IN  /\ trades' = Append(trades,
                [type |-> "clob", buyer |-> bid.user, seller |-> ask.user,
                 price |-> bid.price, quantity |-> qty,
                 outcome |-> bid.outcome, seq |-> seq])
           /\ book' = [book EXCEPT !["YES"][bid.price] = FillFront(@, qty),
                                   !["NO"][ask.price] = FillFront(@, qty)]
           /\ filled' = filled + qty
    /\ UNCHANGED <<seq, shares, phase, cur, ledger, submitted>>

\* One turn of match_orders: execute_match on the fronts of the best levels,
\* at the bid's price and for the bid's outcome.
ExecuteMatch ==
    /\ phase = "matching"
    /\ Crosses
    /\ LET bid == Head(book["YES"][Best("YES")])
           ask == Head(book["NO"][Best("NO")])
           qty == Min({bid.remaining, ask.remaining})
       IN  /\ trades' = Append(trades,
                [type |-> "clob", buyer |-> bid.user, seller |-> ask.user,
                 price |-> bid.price, quantity |-> qty,
                 outcome |-> bid.outcome, seq |-> seq])
           /\ book' = [book EXCEPT !["YES"][bid.price] = FillFront(@, qty),
                                   !["NO"][ask.price] = FillFront(@, qty)]
           /\ filled' = filled + qty
    /\ seq' = seq + 1
    /\ UNCHANGED <<shares, phase, cur, ledger, submitted>>

\* Mutant: the loop ends after its first trade.
StopAfterOneTrade ==
    /\ phase = "matching"
    /\ ~Crosses \/ filled > 0
    /\ \/ cur.quantity <= filled /\ Return
       \/ cur.quantity > filled /\ phase' = "fallback" /\ UNCHANGED <<cur, filled>>
    /\ UNCHANGED <<book, seq, shares, trades, ledger, submitted>>

\* The loop ends; process_order returns at once when the order is filled.
StopMatching ==
    /\ phase = "matching"
    /\ ~Crosses
    /\ \/ cur.quantity <= filled /\ Return
       \/ cur.quantity > filled /\ phase' = "fallback" /\ UNCHANGED <<cur, filled>>
    /\ UNCHANGED <<book, seq, shares, trades, ledger, submitted>>

EffectivePrice == IF cur.type = "MARKET" THEN 99 ELSE cur.price
CanFill == Spot[shares][cur.outcome] <= EffectivePrice

\* Every resting order of the user on the outcome, whichever its side.
Withdrawn == {o \in RestingOf(cur.user) : o.outcome = cur.outcome}

\* Mutant: the AMM is asked for the whole order again.
AmmQuantityWhole == cur.quantity

AmmQuantity == cur.quantity - filled

\* fill_amm: the AMM sells all that is left at one average price, under the
\* next sequence number, which it does not take; the user's orders on the
\* outcome then leave the book, the remainder of this one among them.
FillFromAmm ==
    /\ phase = "fallback"
    /\ CanFill
    /\ trades' = Append(trades,
         [type |-> "amm", buyer |-> cur.user, seller |-> "none",
          price |-> Average[shares][cur.outcome][AmmQuantity],
          quantity |-> AmmQuantity, outcome |-> cur.outcome, seq |-> seq + 1])
    /\ shares' = [shares EXCEPT ![cur.outcome] = @ + AmmQuantity]
    /\ book' = [s \in Sides |-> [l \in Levels |-> Retain(book[s][l], Withdrawn)]]
    /\ dropped' = [dropped EXCEPT ![cur.user] =
                     @ + Remaining({o \in Withdrawn : o.seq # cur.seq})]
    /\ Return
    /\ UNCHANGED <<seq, placed, submitted>>

\* The AMM asks more than the order's price: the remainder rests.
RestRemainder ==
    /\ phase = "fallback"
    /\ ~CanFill
    /\ Return
    /\ UNCHANGED <<book, seq, shares, trades, ledger, submitted>>

\* Void: cancel_all, and the task exits.
VoidMarket ==
    /\ phase = "idle"
    /\ phase' = "exited"
    /\ dropped' = [u \in Users |-> dropped[u] + Remaining(RestingOf(u))]
    /\ book' = [s \in Sides |-> [l \in Levels |-> <<>>]]
    /\ UNCHANGED <<seq, shares, cur, filled, trades, placed, submitted>>

Next ==
    \/ \E o \in Orders : AddOrder(o)
    \/ ExecuteMatch \/ StopMatching
    \/ FillFromAmm \/ RestRemainder
    \/ VoidMarket

Spec == Init /\ [][Next]_vars

-----------------------------------------------------------------------------
RestingOrder == [user : Users, outcome : Outcomes, price : Levels,
                 remaining : Nat \ {0}, seq : Nat]

Trade == [type : {"clob", "amm"}, buyer : Users, seller : Users \cup {"none"},
          price : Nat, quantity : Nat \ {0}, outcome : Outcomes, seq : Nat]

\* Every variable has its type; in particular no order rests with nothing left.
TypeOK ==
    /\ book \in [Sides -> [Levels -> Seq(RestingOrder)]]
    /\ seq \in Nat /\ filled \in Nat /\ submitted \in Nat
    /\ shares \in SharesSold
    /\ phase \in {"idle", "matching", "fallback", "exited"}
    /\ cur = NoOrder \/ \E o \in Orders, n \in 1..seq : cur = Numbered(o, n)
    /\ trades \in Seq(Trade)
    /\ placed \in [Users -> Nat] /\ dropped \in [Users -> Nat]

\* Between orders no two resting orders can match (has_crossable_spread).
Uncrossed == phase # "matching" => ~Crosses

\* What process_order computes from its trades is what the book holds of its
\* order: it never asks the AMM for shares the book has sold, nor for fewer.
RemainderRests ==
    phase \in {"matching", "fallback"} =>
        cur.quantity - filled =
            Remaining({o \in Resting(cur.side) : o.seq = cur.seq})

\* The shares a user traded, on either side and by either venue.
Part(trade, u) == (IF trade.buyer = u THEN trade.quantity ELSE 0)
                    + (IF trade.seller = u THEN trade.quantity ELSE 0)
Traded(u) == MapThenSumSet(LAMBDA i : Part(trades[i], u), DOMAIN trades)

\* All a user submitted was traded, rests on the book, or was taken off it:
\* no fill is lost or counted twice between the CLOB and the AMM.
SharesAccounted ==
    \A u \in Users : placed[u] = Traded(u) + Remaining(RestingOf(u)) + dropped[u]

\* The CLOB's trades are logged in the order of their sequence numbers, and no
\* two share one (seq of OrderBook, the key of the WAL).
ClobTradesOrdered ==
    \A i, j \in DOMAIN trades :
        i < j /\ trades[i].type = "clob" /\ trades[j].type = "clob" =>
            trades[i].seq < trades[j].seq

Ahead(o, p) == o.price > p.price \/ (o.price = p.price /\ o.seq <= p.seq)

\* A match takes from no order while a better priced one, or an older one at
\* the same price, rests on its side, partly filled or not (BTreeMap and FIFO).
PriceTimePriority ==
    [][phase = "matching" =>
         \A s \in Sides : \A o \in Resting(s) \ Resting(s)' :
             \A p \in Resting(s) : Ahead(o, p)]_vars

\* Violated.  "Per-market monotonically increasing sequence number for
\* deterministic ordering" (migrations/000001_create_trades.up.sql:15), a unique
\* index with the market: no two trades of a market share a number.
DistinctSeqNos ==
    \A i, j \in DOMAIN trades : trades[i].seq = trades[j].seq => i = j
=============================================================================
