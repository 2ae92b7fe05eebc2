-------------------------- MODULE OrderServiceProofs --------------------------
(***************************************************************************)
(* Theorems of OrderService: its tables keep their types, an order is      *)
(* announced once as placed and at most once as cancelled, and what a user *)
(* whose totals have lost no stake is told is left of the betting limits   *)
(* is within them, for any users, orders, prices, handlers, limits and     *)
(* failures.                                                               *)
(*                                                                         *)
(* That one cancel at most gets to its announcement rests on the compare-  *)
(* and-set: the handler that made the row cancelled is the only one past   *)
(* its update (Cancels), and whoever still waits with its update read the  *)
(* row as pending, so that its update finds nothing (Updates).             *)
(*                                                                         *)
(* That the limits hold rests on the account LimInv keeps: a row covers    *)
(* every stake of its day and week that was charged, those included that   *)
(* a handler has charged and not inserted, and a handler works on a row    *)
(* that advances the one it read, no other handler being between the two.  *)
(***************************************************************************)
EXTENDS OrderService, TLAPS, FiniteSetTheorems

\* p has made the order k cancelled and has not announced it.
Announces(p, k) == pc[p] = "cancelled" /\ req[p] = k

Placements == \A k \in Keys :
    /\ started[<<"placed", k>>] <= 1
    /\ orders[k] = "none" => started[<<"placed", k>>] = 0

Cancels == \A k \in Keys :
    /\ started[<<"cancelled", k>>] <= 1
    /\ started[<<"cancelled", k>>] = 1 => orders[k] = "cancelled"
    /\ \A p \in Processes : Announces(p, k) =>
           /\ orders[k] = "cancelled" /\ started[<<"cancelled", k>>] = 0
           /\ \A q \in Processes : Announces(q, k) => q = p

Updates == \A p \in Processes : pc[p] = "update" => seen[p] = "pending"

IndInv == TypeOK /\ Placements /\ Cancels /\ Updates

\* The account of announcements bounds each of them by one.
LEMMA IndInvOnce == IndInv => AnnouncedOnce
  BY DEF IndInv, Placements, Cancels, AnnouncedOnce, Events

-----------------------------------------------------------------------------
(* Types *)

\* The days of a behaviour are natural numbers.
LEMMA DaysAreNat == Days \subseteq Nat /\ 0 \in Days /\ \A d \in Midnights : d \in Days /\ d + 1 \in Days
<1>1. \A d \in Midnights : d \in Nat
  BY LimitAssumption
<1> QED
  BY <1>1 DEF Days

\* The weeks they fall in are, too.
LEMMA WeeksAreNat == \A d \in Days : WeekOf(d) \in Nat
<1> SUFFICES ASSUME NEW d \in Days PROVE d \div DaysInWeek \in Nat
  BY DEF WeekOf
<1>1. d \in Nat /\ DaysInWeek \in Nat /\ DaysInWeek > 0
  BY DaysAreNat, LimitAssumption
<1> QED
  BY <1>1

\* The rows a handler starts from are well typed.
LEMMA NoLimitOK == NoLimit \in RGLimit /\ (today \in Days => NewLimit \in RGLimit)
<1>1. NoLimit \in RGLimit
  BY DaysAreNat DEF NoLimit, RGLimit
<1>2. ASSUME today \in Days PROVE NewLimit \in RGLimit
  BY <1>1, <1>2, WeeksAreNat DEF NewLimit, NoLimit, RGLimit
<1> QED
  BY <1>1, <1>2

\* A reset keeps a row well typed.
LEMMA ResetOK == ASSUME NEW l \in RGLimit, today \in Days PROVE Reset(l) \in RGLimit
<1>1. /\ l.daily \in Int /\ l.weekly \in Int
      /\ l.day \in Days /\ l.week \in Nat /\ WeekOf(today) \in Nat
  BY WeeksAreNat DEF RGLimit
<1> DEFINE d    == IF l.day < today THEN 0 ELSE l.daily
           day  == IF l.day < today THEN today ELSE l.day
           w    == IF l.week < WeekOf(today) THEN 0 ELSE l.weekly
           week == IF l.week < WeekOf(today) THEN WeekOf(today) ELSE l.week
<1>2. d \in Int /\ day \in Days /\ w \in Int /\ week \in Nat
  BY <1>1
<1>3. Reset(l) = [l EXCEPT !.daily = d, !.day = day, !.weekly = w, !.week = week]
  BY DEF Reset
<1> HIDE DEF d, day, w, week
<1> QED
  BY <1>2, <1>3 DEF RGLimit

\* So does a charge.
LEMMA ChargingOK ==
    ASSUME TypeOK, NEW p \in Processes, pc[p] # "idle"
    PROVE  Charging(p) \in RGLimit
<1> DEFINE l == Reset(lim[p])
<1>1. l \in RGLimit
  BY ResetOK DEF TypeOK
<1>2. Stake[K(p)] \in Int
  BY KeysAssumption DEF TypeOK, K
<1>3. Charging(p) = [l EXCEPT !.exists = TRUE, !.daily = l.daily + Stake[K(p)],
                              !.weekly = l.weekly + Stake[K(p)]]
  BY DEF Charging
<1> HIDE DEF l
<1>4. l.daily + Stake[K(p)] \in Int /\ l.weekly + Stake[K(p)] \in Int
  BY <1>1, <1>2 DEF RGLimit
<1> QED
  BY <1>1, <1>3, <1>4 DEF RGLimit

\* The invariant holds before the first request.
LEMMA InitOK == Init => IndInv
<1> SUFFICES ASSUME Init PROVE IndInv
  OBVIOUS
<1>1. TypeOK
  BY NoLimitOK, DaysAreNat, LimitAssumption DEF Init, TypeOK, Events
<1>2. Placements /\ Cancels /\ Updates
  BY DEF Init, Placements, Cancels, Announces, Updates, Events
<1> QED
  BY <1>1, <1>2 DEF IndInv

-----------------------------------------------------------------------------
(* What a step leaves as it was *)

\* A step that announces nothing, alters no row and takes no handler past its
\* update keeps what is known of announcements.
LEMMA Quiet ==
    ASSUME IndInv, UNCHANGED <<orders, started>>,
           \A p \in Processes, k \in Keys : Announces(p, k)' => Announces(p, k)
    PROVE  Placements' /\ Cancels'
<1>1. Placements'
  BY DEF IndInv, Placements
<1>2. Cancels'
  BY DEF IndInv, Cancels
<1> QED
  BY <1>1, <1>2

\* A handler that returns.
LEMMA ReturnOK ==
    ASSUME IndInv, NEW p \in Processes, Return(p)
    PROVE  /\ pc' = [pc EXCEPT ![p] = "idle"]
           /\ req' \in [Processes -> Keys \cup {"none"}]
           /\ \A q \in Processes : pc'[q] # "idle" => req'[q] \in Keys
           /\ seen' \in [Processes -> Statuses \cup {"none"}]
           /\ lim' \in [Processes -> RGLimit]
           /\ \A q \in Processes, k \in Keys : Announces(q, k)' <=> (Announces(q, k) /\ q # p)
           /\ Updates'
<1> USE DEF IndInv, TypeOK, Return, Goto
<1>1. pc' = [pc EXCEPT ![p] = "idle"] /\ req' \in [Processes -> Keys \cup {"none"}]
  OBVIOUS
<1>2. seen' \in [Processes -> Statuses \cup {"none"}]
  OBVIOUS
<1>3. lim' \in [Processes -> RGLimit]
  BY NoLimitOK
<1>4. ASSUME NEW q \in Processes, q # p
      PROVE  pc'[q] = pc[q] /\ req'[q] = req[q] /\ seen'[q] = seen[q]
  BY <1>4
<1>5. pc'[p] = "idle"
  OBVIOUS
<1>6. \A q \in Processes : pc'[q] # "idle" => req'[q] \in Keys
  BY <1>4, <1>5
<1>7. \A q \in Processes, k \in Keys : Announces(q, k)' <=> (Announces(q, k) /\ q # p)
  BY <1>4, <1>5 DEF Announces
<1>8. Updates'
  BY <1>4, <1>5 DEF Updates
<1> QED
  BY <1>1, <1>2, <1>3, <1>6, <1>7, <1>8

\* A handler that answers and changes at most the cache, the faults, the limits
\* or the topic, and the history of the limits.
LEMMA ReturnStep ==
    ASSUME IndInv, NEW p \in Processes, Return(p),
           UNCHANGED <<orders, charged, started, market, voids, today, sent>>,
           limits' \in [Users -> RGLimit], lapsed' \subseteq Users, cache' \subseteq Keys,
           work' \subseteq Keys, running' \subseteq Events, topic' \subseteq Events,
           faults' \in 0..MaxFaults
    PROVE  IndInv'
<1>1. TypeOK'
  BY ReturnOK DEF IndInv, TypeOK
<1>2. Placements' /\ Cancels'
  BY ReturnOK, Quiet
<1> QED
  BY <1>1, <1>2, ReturnOK DEF IndInv

\* A handler that answers with an error although its statement on an order took
\* effect: the row is made, or cancelled, and nothing is announced.
LEMMA UnansweredStep ==
    ASSUME IndInv, NEW p \in Processes, Return(p), NEW k \in Keys, NEW s \in Statuses,
           orders' = [orders EXCEPT ![k] = s], orders[k] \in {"none", "pending"},
           charged' \in [Keys -> Days \cup {-1}],
           \A j \in Keys : charged'[j] # -1 => Stake[j] > 0,
           UNCHANGED <<limits, cache, work, events, market, voids, today, lapsed, sent>>,
           faults' \in 0..MaxFaults
    PROVE  IndInv'
<1> USE DEF events
<1>1. orders' \in [Keys -> Statuses \cup {"none"}]
  BY DEF IndInv, TypeOK
<1>2. TypeOK'
  BY <1>1, ReturnOK DEF IndInv, TypeOK
<1>3. \A j \in Keys : /\ orders'[j] = "none" => orders[j] = "none"
                      /\ orders[j] = "cancelled" => orders'[j] = "cancelled"
  BY DEF IndInv, TypeOK, Statuses
<1>4. \A q \in Processes, j \in Keys : Announces(q, j)' => Announces(q, j)
  BY ReturnOK
<1>5. Placements'
  BY <1>3 DEF IndInv, Placements
<1>6. Cancels'
  BY <1>3, <1>4 DEF IndInv, Cancels
<1> QED
  BY <1>2, <1>5, <1>6, ReturnOK DEF IndInv

\* A handler goes on to l with other limits in hand.
LEMMA GotoStep ==
    ASSUME IndInv, NEW p \in Processes, pc[p] # "idle",
           NEW l \in {"newlimit", "check", "charge", "insert", "fill"}, Goto(p, l),
           UNCHANGED <<req, seen>>, lim' \in [Processes -> RGLimit],
           UNCHANGED <<orders, charged, work, events, market, voids, today, sent>>,
           limits' \in [Users -> RGLimit], cache' \subseteq Keys,
           lapsed' \subseteq Users, faults' \in 0..MaxFaults
    PROVE  IndInv'
<1> USE DEF IndInv, Goto, events
<1>1. pc'[p] = l /\ \A q \in Processes : q # p => pc'[q] = pc[q]
  BY DEF TypeOK
<1>2. pc' \in [Processes -> {"idle", "limit", "newlimit", "check", "charge", "insert",
                             "read", "fill", "update", "cancelled"}]
  BY DEF TypeOK
<1>3. \A q \in Processes : pc'[q] # "idle" => req'[q] \in Keys
  BY <1>1 DEF TypeOK
<1>4. TypeOK'
  BY <1>2, <1>3 DEF TypeOK
<1>5. \A q \in Processes, k \in Keys : Announces(q, k)' => Announces(q, k)
  BY <1>1 DEF Announces
<1>6. Placements' /\ Cancels'
  BY <1>5, Quiet
<1>7. Updates'
  BY <1>1 DEF Updates
<1> QED
  BY <1>4, <1>6, <1>7

\* A handler takes a request.
LEMMA EnterStep ==
    ASSUME IndInv, NEW p \in Processes, NEW k \in Keys,
           NEW l \in {"limit", "read", "update"}, Enter(p, k, l),
           seen' \in [Processes -> Statuses \cup {"none"}],
           \A q \in Processes : q # p => seen'[q] = seen[q],
           l = "update" => seen'[p] = "pending"
    PROVE  IndInv'
<1> USE DEF IndInv, Enter, Goto, tables, events, outside
<1>1. /\ pc'[p] = l /\ req'[p] = k
      /\ \A q \in Processes : q # p => pc'[q] = pc[q] /\ req'[q] = req[q]
  BY DEF TypeOK
<1>2. /\ pc' \in [Processes -> {"idle", "limit", "newlimit", "check", "charge", "insert",
                                "read", "fill", "update", "cancelled"}]
      /\ req' \in [Processes -> Keys \cup {"none"}]
  BY DEF TypeOK
<1>3. \A q \in Processes : pc'[q] # "idle" => req'[q] \in Keys
  BY <1>1 DEF TypeOK
<1>4. sent' \in 0..MaxRequests
  BY LimitAssumption DEF TypeOK
<1>5. TypeOK'
  BY <1>2, <1>3, <1>4 DEF TypeOK
<1>6. \A q \in Processes, j \in Keys : Announces(q, j)' => Announces(q, j)
  BY <1>1 DEF Announces
<1>7. Placements' /\ Cancels'
  BY <1>6, Quiet
<1>8. Updates'
  BY <1>1 DEF Updates
<1> QED
  BY <1>5, <1>7, <1>8

\* A step that concerns no handler.
LEMMA OutsideStep ==
    ASSUME IndInv, UNCHANGED <<tables, handler, started, sent>>,
           cache' = cache, market' \in [Markets -> {"active", "voided"}], voids' \subseteq Markets,
           work' \subseteq Keys, running' \subseteq Events, topic' \subseteq Events,
           today' \in Days, lapsed' = lapsed, faults' \in 0..MaxFaults
    PROVE  IndInv'
<1> USE DEF IndInv, tables, handler
<1>1. TypeOK'
  BY DEF TypeOK
<1>2. Placements' /\ Cancels'
  BY Quiet DEF Announces
<1>3. Updates'
  BY DEF Updates
<1> QED
  BY <1>1, <1>2, <1>3

\* The process dies.
LEMMA DieStep ==
    ASSUME IndInv, Die, UNCHANGED <<tables, market, voids, today, lapsed, sent>>,
           cache' \subseteq Keys, faults' \in 0..MaxFaults
    PROVE  IndInv'
<1> USE DEF IndInv, Die, tables
<1>1. TypeOK'
  BY NoLimitOK DEF TypeOK
<1>2. Placements' /\ Cancels'
  BY Quiet DEF Announces
<1>3. Updates'
  BY DEF Updates
<1> QED
  BY <1>1, <1>2, <1>3

\* A fault is counted within its bound.
LEMMA FaultOK == IndInv /\ Fault => faults' \in 0..MaxFaults
  BY LimitAssumption DEF IndInv, TypeOK, Fault

\* A write to the cache keeps it well typed, also one that fails.
LEMMA CacheOK ==
    ASSUME IndInv, NEW copies \in SUBSET Keys, CacheBecomes(copies)
    PROVE  cache' \subseteq Keys /\ faults' \in 0..MaxFaults
  BY FaultOK DEF CacheBecomes, IndInv, TypeOK

-----------------------------------------------------------------------------
(* The actions *)

\* A request to place an order is taken.
LEMMA BeginCreateStep ==
    ASSUME IndInv, NEW p \in Processes, NEW k \in Keys, BeginCreate(p, k) PROVE IndInv'
<1>1. seen' = seen /\ Enter(p, k, "limit")
  BY DEF BeginCreate
<1> QED
  BY <1>1, EnterStep DEF IndInv, TypeOK

\* A request to read one is taken.
LEMMA BeginGetStep ==
    ASSUME IndInv, NEW p \in Processes, NEW k \in Keys, BeginGet(p, k) PROVE IndInv'
<1>1. seen' = seen /\ Enter(p, k, "read")
  BY DEF BeginGet
<1> QED
  BY <1>1, EnterStep DEF IndInv, TypeOK

\* A request to cancel one is taken: its row was pending.
LEMMA BeginCancelStep ==
    ASSUME IndInv, NEW p \in Processes, NEW k \in Keys, NEW u \in Users, BeginCancel(p, k, u)
    PROVE  IndInv'
<1>1. /\ Enter(p, k, "update")
      /\ seen' = [seen EXCEPT ![p] = orders[k]]
  BY DEF BeginCancel
<1>2. orders[k] = "pending"
  BY DEF BeginCancel, Cancellable, ValidStatusTransitions
<1> QED
  BY <1>1, <1>2, EnterStep DEF IndInv, TypeOK

\* The four statements of the limit check.
LEMMA LimitSteps ==
    ASSUME IndInv, NEW p \in Processes, ReadLimit(p) \/ CreateLimit(p) \/ CheckLimit(p) \/ ChargeLimit(p)
    PROVE  IndInv'
<1>1. /\ limits \in [Users -> RGLimit] /\ lim \in [Processes -> RGLimit]
      /\ cache \subseteq Keys /\ lapsed \subseteq Users
      /\ work \subseteq Keys /\ running \subseteq Events /\ topic \subseteq Events
      /\ faults \in 0..MaxFaults /\ today \in Days
  BY DEF IndInv, TypeOK
<1>2. pc[p] # "idle" => U(p) \in Users
  BY KeysAssumption DEF IndInv, TypeOK, U
<1>3. CASE ReadLimit(p)
  <2>1. lim' \in [Processes -> RGLimit]
    BY <1>1, <1>2, <1>3, NoLimitOK DEF ReadLimit
  <2>2. lapsed' \subseteq Users
    BY <1>1, <1>2, <1>3 DEF ReadLimit
  <2> DEFINE l == IF limits[U(p)].exists THEN "check" ELSE "newlimit"
  <2>3. Goto(p, l) /\ l \in {"check", "newlimit"}
    BY <1>3 DEF ReadLimit
  <2> HIDE DEF l
  <2> QED
    BY <1>1, <1>3, <2>1, <2>2, <2>3, GotoStep DEF ReadLimit, tables
<1>4. CASE CreateLimit(p)
  <2>1. [lim[p] EXCEPT !.exists = TRUE] \in RGLimit
    BY <1>1 DEF RGLimit
  <2>2. limits' \in [Users -> RGLimit]
    BY <1>1, <1>2, <1>4, <2>1 DEF CreateLimit, LimitCreated
  <2> QED
    BY <1>1, <1>4, <2>2, GotoStep DEF CreateLimit, LimitCreated
<1>5. CASE CheckLimit(p)
  <2>1. CASE Return(p)
    BY <1>1, <1>5, <2>1, ReturnStep DEF CheckLimit, tables, events, outside
  <2>2. CASE lim' = [lim EXCEPT ![p] = Charging(p)] /\ Goto(p, "charge") /\ UNCHANGED <<req, seen>>
    <3>1. lim' \in [Processes -> RGLimit]
      BY <1>1, <1>5, <2>2, ChargingOK DEF CheckLimit, IndInv
    <3> QED
      BY <1>1, <1>5, <2>2, <3>1, GotoStep DEF CheckLimit, tables, outside
  <2> QED
    BY <1>5, <2>1, <2>2 DEF CheckLimit
<1>6. CASE ChargeLimit(p)
  <2>1. limits' \in [Users -> RGLimit] /\ lapsed' \subseteq Users
    BY <1>1, <1>2, <1>6 DEF ChargeLimit, LimitCharged
  <2> QED
    BY <1>1, <1>6, <2>1, GotoStep DEF ChargeLimit, LimitCharged
<1> QED
  BY <1>3, <1>4, <1>5, <1>6

\* The insert either makes the row and announces it, or finds it.
LEMMA InsertOrderStep ==
    ASSUME IndInv, NEW p \in Processes, InsertOrder(p) PROVE IndInv'
<1> DEFINE k == K(p)
           e == <<"placed", k>>
<1>1. k \in Keys /\ e \in Events /\ Return(p)
  BY DEF IndInv, TypeOK, InsertOrder, K, Events
<1>2. CASE UNCHANGED <<tables, lapsed, events>>
  BY <1>1, <1>2, ReturnStep DEF InsertOrder, IndInv, TypeOK, events, tables
<1>3. CASE OrderInserted(p) /\ Publish(<<"placed", K(p)>>)
  <2>1. /\ orders' = [orders EXCEPT ![k] = "pending"] /\ orders[k] = "none"
        /\ charged' = [charged EXCEPT ![k] = ChargedDay(p)]
        /\ running' = running \cup {e} /\ topic' = topic
        /\ started' = [started EXCEPT ![e] = @ + 1]
    BY <1>3 DEF OrderInserted, Exists, Publish
  <2>2. ChargedDay(p) \in Days
    BY DEF IndInv, TypeOK, RGLimit, ChargedDay
  <2>3. TypeOK'
    <3>1. orders' \in [Keys -> Statuses \cup {"none"}]
      BY <1>1, <2>1 DEF IndInv, TypeOK, Statuses
    <3>2. /\ charged' \in [Keys -> Days \cup {-1}]
          /\ \A j \in Keys : charged'[j] # -1 => Stake[j] > 0
      BY <1>1, <1>3, <2>1, <2>2 DEF IndInv, TypeOK, OrderInserted
    <3>3. started' \in [Events -> Nat] /\ running' \subseteq Events
      BY <1>1, <2>1 DEF IndInv, TypeOK
    <3> QED
      BY <1>1, <1>3, <2>1, <3>1, <3>2, <3>3, ReturnOK
         DEF IndInv, TypeOK, InsertOrder, OrderInserted
  <2>4. started' \in [Events -> Nat] /\ started \in [Events -> Nat]
    BY <2>3 DEF IndInv, TypeOK
  <2>5. started'[e] = 1 /\ orders'[k] = "pending"
    BY <1>1, <2>1, <2>4 DEF IndInv, Placements, TypeOK
  <2>6. Placements'
    <3> SUFFICES ASSUME NEW j \in Keys
                 PROVE  /\ started'[<<"placed", j>>] <= 1
                        /\ orders'[j] = "none" => started'[<<"placed", j>>] = 0
      BY DEF Placements
    <3>1. CASE j = k
      BY <2>5, <3>1
    <3>2. CASE j # k
      <4>1. started'[<<"placed", j>>] = started[<<"placed", j>>] /\ orders'[j] = orders[j]
        BY <2>1, <2>4, <3>2 DEF Events, IndInv, TypeOK
      <4> QED
        BY <4>1 DEF IndInv, Placements
    <3> QED
      BY <3>1, <3>2
  <2>7. \A j \in Keys : started'[<<"cancelled", j>>] = started[<<"cancelled", j>>]
    BY <2>1, <2>4 DEF Events
  <2>8. \A j \in Keys : orders[j] = "cancelled" => orders'[j] = "cancelled"
    BY <1>1, <2>1 DEF IndInv, TypeOK
  <2>9. \A q \in Processes, j \in Keys : Announces(q, j)' => Announces(q, j)
    BY <1>1, ReturnOK
  <2>10. Cancels'
    BY <2>7, <2>8, <2>9 DEF IndInv, Cancels
  <2> QED
    BY <1>1, <2>3, <2>6, <2>10, ReturnOK DEF IndInv
<1> QED
  BY <1>2, <1>3 DEF InsertOrder

\* A read of the row, which the cache is filled with and the caller told.
LEMMA GetSteps ==
    ASSUME IndInv, NEW p \in Processes, ReadOrder(p) \/ FillCache(p) PROVE IndInv'
<1>1. CASE ReadOrder(p)
  BY <1>1, GotoStep DEF ReadOrder, IndInv, TypeOK, tables, outside
<1>2. CASE FillCache(p)
  <2>1. K(p) \in Keys /\ cache \cup {K(p)} \in SUBSET Keys
    BY <1>2 DEF IndInv, TypeOK, FillCache, K
  <2>2. cache' \subseteq Keys /\ faults' \in 0..MaxFaults
    BY <1>2, <2>1, CacheOK DEF FillCache
  <2> QED
    BY <1>2, <2>2, ReturnStep DEF FillCache, IndInv, TypeOK, tables, events
<1> QED
  BY <1>1, <1>2

\* Of all who read a row as pending, the update of one finds it so.
LEMMA UpdateStatusStep ==
    ASSUME IndInv, NEW p \in Processes, UpdateStatus(p) PROVE IndInv'
<1> DEFINE k == K(p)
<1>1. k \in Keys /\ k = req[p] /\ pc[p] = "update" /\ seen[p] = "pending"
  BY DEF IndInv, TypeOK, Updates, UpdateStatus, K
<1>2. CASE Return(p) /\ UNCHANGED <<tables, lapsed>>
  BY <1>2, ReturnStep DEF UpdateStatus, IndInv, TypeOK, events, tables
<1>3. CASE OrderCancelled(p) /\ Goto(p, "cancelled") /\ UNCHANGED <<req, seen, lim>>
  <2>1. /\ orders' = [orders EXCEPT ![k] = "cancelled"] /\ orders[k] = "pending"
        /\ pc' = [pc EXCEPT ![p] = "cancelled"]
        /\ UNCHANGED <<req, seen, lim, started>>
    BY <1>1, <1>3 DEF UpdateStatus, OrderCancelled, Goto, events
  <2>2. TypeOK'
    <3>1. orders' \in [Keys -> Statuses \cup {"none"}]
      BY <1>1, <2>1 DEF IndInv, TypeOK, Statuses
    <3>2. /\ pc' \in [Processes -> {"idle", "limit", "newlimit", "check", "charge", "insert",
                                    "read", "fill", "update", "cancelled"}]
          /\ \A q \in Processes : pc'[q] # "idle" => req'[q] \in Keys
      BY <1>1, <2>1 DEF IndInv, TypeOK
    <3> QED
      BY <1>3, <2>1, <3>1, <3>2 DEF IndInv, TypeOK, UpdateStatus, OrderCancelled, events
  <2>3. Placements'
    BY <1>1, <2>1 DEF IndInv, Placements, TypeOK
  <2>4. \A q \in Processes, j \in Keys :
            Announces(q, j)' <=> IF q = p THEN j = k ELSE Announces(q, j)
    BY <1>1, <2>1 DEF Announces, IndInv, TypeOK
  <2>5. started[<<"cancelled", k>>] = 0 /\ \A q \in Processes : ~Announces(q, k)
    <3>1. started[<<"cancelled", k>>] \in Nat
      BY <1>1 DEF IndInv, TypeOK, Events
    <3> QED
      BY <1>1, <2>1, <3>1 DEF IndInv, Cancels
  <2>6. Cancels'
    <3> SUFFICES ASSUME NEW j \in Keys
                 PROVE  /\ started[<<"cancelled", j>>] <= 1
                        /\ started[<<"cancelled", j>>] = 1 => orders'[j] = "cancelled"
                        /\ \A q \in Processes : Announces(q, j)' =>
                               /\ orders'[j] = "cancelled" /\ started[<<"cancelled", j>>] = 0
                               /\ \A r \in Processes : Announces(r, j)' => r = q
      BY <2>1 DEF Cancels
    <3>1. CASE j = k
      BY <1>1, <2>1, <2>4, <2>5, <3>1 DEF IndInv, TypeOK
    <3>2. CASE j # k
      <4>1. orders'[j] = orders[j] /\ \A q \in Processes : Announces(q, j)' => Announces(q, j)
        BY <2>1, <2>4, <3>2 DEF IndInv, TypeOK
      <4> QED
        BY <4>1 DEF IndInv, Cancels
    <3> QED
      BY <3>1, <3>2
  <2>7. Updates'
    BY <1>1, <2>1 DEF IndInv, TypeOK, Updates
  <2> QED
    BY <2>2, <2>3, <2>6, <2>7 DEF IndInv
<1> QED
  BY <1>2, <1>3 DEF UpdateStatus

\* The one handler past its update announces the cancel.
LEMMA FinishCancelStep ==
    ASSUME IndInv, NEW p \in Processes, FinishCancel(p) PROVE IndInv'
<1> DEFINE k == K(p)
           e == <<"cancelled", k>>
<1>1. k \in Keys /\ e \in Events /\ Return(p) /\ Announces(p, k)
  BY DEF IndInv, TypeOK, FinishCancel, K, Events, Announces
<1>2. /\ running' = running \cup {e} /\ topic' = topic
      /\ started' = [started EXCEPT ![e] = @ + 1] /\ UNCHANGED orders
  BY DEF FinishCancel, Publish, tables
<1>3. cache' \subseteq Keys /\ faults' \in 0..MaxFaults
  <2>1. cache \ {K(p)} \in SUBSET Keys
    BY DEF IndInv, TypeOK
  <2> QED
    BY <2>1, CacheOK DEF FinishCancel
<1>4. started' \in [Events -> Nat] /\ started \in [Events -> Nat]
  BY <1>1, <1>2 DEF IndInv, TypeOK
<1>5. TypeOK'
  <2>1. UNCHANGED <<orders, limits, charged, work, market, voids, today, lapsed, sent>>
    BY DEF FinishCancel, tables
  <2>2. running' \subseteq Events /\ topic' \subseteq Events
    BY <1>1, <1>2 DEF IndInv, TypeOK
  <2>3. /\ pc' \in [Processes -> {"idle", "limit", "newlimit", "check", "charge", "insert",
                                  "read", "fill", "update", "cancelled"}]
        /\ \A q \in Processes : pc'[q] # "idle" => req'[q] \in Keys
    BY <1>1, ReturnOK DEF IndInv, TypeOK
  <2> HIDE DEF k, e
  <2> QED
    BY <1>1, <1>3, <1>4, <2>1, <2>2, <2>3, ReturnOK DEF IndInv, TypeOK
<1>6. Placements'
  BY <1>2, <1>4 DEF IndInv, Placements, Events
<1>7. orders[k] = "cancelled" /\ started[e] = 0 /\ \A q \in Processes : Announces(q, k) => q = p
  BY <1>1 DEF IndInv, Cancels
<1>8. \A q \in Processes, j \in Keys : Announces(q, j)' <=> (Announces(q, j) /\ q # p)
  BY <1>1, ReturnOK
<1>9. Cancels'
  <2> SUFFICES ASSUME NEW j \in Keys
               PROVE  /\ started'[<<"cancelled", j>>] <= 1
                      /\ started'[<<"cancelled", j>>] = 1 => orders[j] = "cancelled"
                      /\ \A q \in Processes : Announces(q, j)' =>
                             /\ orders[j] = "cancelled" /\ started'[<<"cancelled", j>>] = 0
                             /\ \A r \in Processes : Announces(r, j)' => r = q
    BY <1>2 DEF Cancels
  <2>1. CASE j = k
    <3>1. started'[<<"cancelled", j>>] = 1
      BY <1>1, <1>2, <1>4, <1>7, <2>1
    <3>2. \A q \in Processes : ~Announces(q, j)'
      BY <1>7, <1>8, <2>1
    <3> QED
      BY <1>7, <2>1, <3>1, <3>2
  <2>2. CASE j # k
    <3>1. started'[<<"cancelled", j>>] = started[<<"cancelled", j>>]
      BY <1>2, <1>4, <2>2 DEF Events
    <3> QED
      BY <1>8, <3>1 DEF IndInv, Cancels
  <2> QED
    BY <2>1, <2>2
<1> QED
  BY <1>1, <1>5, <1>6, <1>9, ReturnOK DEF IndInv

\* The process ends on the panic of a cancel.
LEMMA FinishWithoutOrderStep ==
    ASSUME IndInv, NEW p \in Processes, FinishWithoutOrder(p) PROVE IndInv'
<1>1. cache' \subseteq Keys /\ faults' \in 0..MaxFaults
  BY FaultOK DEF FinishWithoutOrder, IndInv, TypeOK, K
<1> QED
  BY <1>1, DieStep DEF FinishWithoutOrder

\* The process ends.
LEMMA CrashStep == IndInv /\ Crash => IndInv'
  BY FaultOK, DieStep DEF Crash, IndInv, TypeOK

\* A statement fails, or takes effect while its answer is lost.
LEMMA StatementFailsStep ==
    ASSUME IndInv, NEW p \in Processes, StatementFails(p) PROVE IndInv'
<1> USE DEF events
<1>1. /\ Return(p) /\ faults' \in 0..MaxFaults /\ K(p) \in Keys /\ U(p) \in Users
      /\ UNCHANGED <<cache, work, running, topic, started, market, voids, today, sent>>
  BY FaultOK, KeysAssumption DEF StatementFails, IndInv, TypeOK, K, U
<1>2. lim[p] \in RGLimit /\ [lim[p] EXCEPT !.exists = TRUE] \in RGLimit
  BY DEF IndInv, TypeOK, RGLimit
<1>3. CASE UNCHANGED <<tables, lapsed>>
  BY <1>1, <1>3, ReturnStep DEF IndInv, TypeOK, tables
<1>4. CASE LimitCreated(p) \/ LimitCharged(p)
  <2>1. limits' \in [Users -> RGLimit] /\ lapsed' \subseteq Users
    BY <1>1, <1>2, <1>4 DEF IndInv, TypeOK, LimitCreated, LimitCharged
  <2> QED
    BY <1>1, <1>4, <2>1, ReturnStep DEF IndInv, TypeOK, LimitCreated, LimitCharged
<1>5. CASE OrderInserted(p)
  <2>1. ChargedDay(p) \in Days
    BY <1>2 DEF ChargedDay, RGLimit
  <2>2. /\ charged' \in [Keys -> Days \cup {-1}]
        /\ \A j \in Keys : charged'[j] # -1 => Stake[j] > 0
    BY <1>1, <1>5, <2>1 DEF OrderInserted, IndInv, TypeOK
  <2> QED
    BY <1>1, <1>5, <2>2, UnansweredStep DEF OrderInserted, Exists, Statuses
<1>6. CASE pc[p] = "update" /\ OrderCancelled(p)
  <2>1. orders[K(p)] = "pending"
    BY <1>6 DEF OrderCancelled, IndInv, Updates
  <2>2. charged' = charged
    BY <1>6 DEF OrderCancelled
  <2> QED
    BY <1>1, <1>6, <2>1, <2>2, UnansweredStep DEF OrderCancelled, Statuses, IndInv, TypeOK
<1> QED
  BY <1>3, <1>4, <1>5, <1>6 DEF StatementFails, StatementOf

\* The consumer comes to a listed order: it works on it, or passes it over.
LEMMA CancelNextStep ==
    ASSUME IndInv, NEW k \in Keys, CancelNext(k) PROVE IndInv'
<1>1. Voider \in Processes /\ pc[Voider] = "idle"
  BY DEF CancelNext, Processes
<1>2. CASE ~Cancellable(k)
  <2>1. UNCHANGED <<tables, handler, cache, started, sent, market, voids, today, lapsed, faults, running, topic>>
    BY <1>2 DEF CancelNext, handler, events, outside
  <2> QED
    BY <2>1, OutsideStep DEF IndInv, TypeOK, CancelNext
<1>3. CASE Cancellable(k)
  <2>1. /\ pc' = [pc EXCEPT ![Voider] = "update"] /\ req' = [req EXCEPT ![Voider] = k]
        /\ seen' = [seen EXCEPT ![Voider] = orders[k]] /\ orders[k] = "pending"
        /\ UNCHANGED <<orders, started, lim>>
    BY <1>3 DEF CancelNext, Cancellable, ValidStatusTransitions, Goto, tables, events
  <2>2. /\ pc'[Voider] = "update" /\ req'[Voider] = k /\ seen'[Voider] = "pending"
        /\ \A q \in Processes : q # Voider =>
               pc'[q] = pc[q] /\ req'[q] = req[q] /\ seen'[q] = seen[q]
    BY <1>1, <2>1 DEF IndInv, TypeOK
  <2>3. TypeOK'
    <3>1. /\ pc' \in [Processes -> {"idle", "limit", "newlimit", "check", "charge", "insert",
                                    "read", "fill", "update", "cancelled"}]
          /\ req' \in [Processes -> Keys \cup {"none"}]
          /\ seen' \in [Processes -> Statuses \cup {"none"}]
      BY <2>1 DEF IndInv, TypeOK, Statuses
    <3>2. \A q \in Processes : pc'[q] # "idle" => req'[q] \in Keys
      BY <2>2 DEF IndInv, TypeOK
    <3> QED
      BY <2>1, <3>1, <3>2 DEF IndInv, TypeOK, CancelNext, tables, events, outside
  <2>4. Placements' /\ Cancels'
    BY <2>1, <2>2, Quiet DEF Announces
  <2>5. Updates'
    BY <2>1, <2>2 DEF IndInv, Updates
  <2> QED
    BY <2>3, <2>4, <2>5 DEF IndInv
<1> QED
  BY <1>2, <1>3

\* Steps of no handler: the consumer's reads, the goroutines, the world outside.
LEMMA OtherSteps ==
    ASSUME IndInv,
           \/ \E m \in Markets : HandleMarketVoided(m) \/ ListFails(m) \/ VoidMarket(m)
           \/ \E k \in Keys : CancelNextFails(k)
           \/ \E e \in Events : WriteMessage(e) \/ WriteFails(e)
           \/ NextDay
    PROVE  IndInv'
<1> USE DEF IndInv, TypeOK, events, outside
<1>1. ASSUME NEW m \in Markets, HandleMarketVoided(m) PROVE IndInv'
  BY <1>1, OutsideStep DEF HandleMarketVoided, ListPendingOrders
<1>2. ASSUME NEW m \in Markets, ListFails(m) PROVE IndInv'
  BY <1>2, FaultOK, OutsideStep DEF ListFails
<1>3. ASSUME NEW m \in Markets, VoidMarket(m) PROVE IndInv'
  BY <1>3, OutsideStep DEF VoidMarket
<1>4. ASSUME NEW k \in Keys, CancelNextFails(k) PROVE IndInv'
  BY <1>4, FaultOK, OutsideStep DEF CancelNextFails
<1>5. ASSUME NEW e \in Events, WriteMessage(e) PROVE IndInv'
  BY <1>5, OutsideStep DEF WriteMessage
<1>6. ASSUME NEW e \in Events, WriteFails(e) PROVE IndInv'
  BY <1>6, FaultOK, OutsideStep DEF WriteFails
<1>7. ASSUME NextDay PROVE IndInv'
  BY <1>7, DaysAreNat, OutsideStep DEF NextDay
<1> QED
  BY <1>1, <1>2, <1>3, <1>4, <1>5, <1>6, <1>7

-----------------------------------------------------------------------------
\* Every step keeps the invariant.
LEMMA NextOK == IndInv /\ [Next]_vars => IndInv'
<1> SUFFICES ASSUME IndInv, [Next]_vars PROVE IndInv'
  OBVIOUS
<1>1. CASE UNCHANGED vars
  BY <1>1 DEF vars, tables, handler, events, outside, IndInv, TypeOK, Placements, Cancels,
              Announces, Updates
<1>2. ASSUME NEW p \in Processes, Handle(p) PROVE IndInv'
  BY <1>2, LimitSteps, InsertOrderStep, GetSteps, UpdateStatusStep,
     FinishCancelStep DEF Handle, CreateStep, GetStep, CancelStep
<1>3. ASSUME NEW p \in Sessions, NEW k \in Keys,
             BeginCreate(p, k) \/ BeginGet(p, k) \/ \E u \in Users : BeginCancel(p, k, u)
      PROVE  IndInv'
  <2>1. p \in Processes
    BY DEF Processes
  <2> QED
    BY <1>3, <2>1, BeginCreateStep, BeginGetStep, BeginCancelStep
<1>4. ASSUME Consume PROVE IndInv'
  BY <1>4, CancelNextStep, OtherSteps DEF Consume
<1>5. ASSUME Failure PROVE IndInv'
  BY <1>5, FinishWithoutOrderStep, StatementFailsStep, CrashStep, OtherSteps DEF Failure
<1> QED
  BY <1>1, <1>2, <1>3, <1>4, <1>5, OtherSteps DEF Next

\* The invariant holds of every behaviour.
LEMMA IndInvHolds == Spec => []IndInv
  BY InitOK, NextOK, PTL DEF Spec

\* The tables, the handlers and the consumer keep their types, and only an order
\* of a positive price is ever charged to a user.
THEOREM TypeCorrect == Spec => []TypeOK
  BY IndInvHolds, PTL DEF IndInv

\* An order is announced once as placed and at most once as cancelled, however
\* many handlers place, repeat and cancel it at once and whatever fails.
THEOREM OnceAnnounced == Spec => []AnnouncedOnce
  BY IndInvHolds, IndInvOnce, PTL

-----------------------------------------------------------------------------
(* Sums.  The sum of natural weights over a finite set is the number of     *)
(* units of weight, so what is known of cardinalities is known of sums.     *)

\* Every nonempty set of natural numbers has a least one.
LEMMA LeastNumber ==
    ASSUME NEW S \in SUBSET Nat, S # {}
    PROVE  \E n \in S : \A m \in S : n <= m
<1>1. PICK n \in S : \A m \in S : <<m, n>> \notin OpToRel(<, Nat)
  BY WFMin, NatLessThanWellFounded, Zenon
<1>2. \A m \in S : ~(m < n)
  BY <1>1, Zenon DEF OpToRel
<1> QED
  BY <1>2

\* Among some subsets of a finite set there is a smallest one.
LEMMA SmallestSet ==
    ASSUME NEW S, IsFiniteSet(S), NEW B \in SUBSET (SUBSET S), B # {}
    PROVE  \E T \in B : \A V \in B : Cardinality(T) <= Cardinality(V)
<1> DEFINE C == {Cardinality(T) : T \in B}
<1>1. \A T \in B : Cardinality(T) \in Nat
  BY FS_Subset, FS_CardinalityType
<1>2. C \in SUBSET Nat /\ C # {}
  BY <1>1
<1>3. PICK n \in C : \A m \in C : n <= m
  BY <1>2, LeastNumber
<1>4. PICK T \in B : n = Cardinality(T)
  OBVIOUS
<1>5. \A V \in B : Cardinality(V) \in C
  OBVIOUS
<1> QED
  BY <1>3, <1>4, <1>5

Unit(w, x)  == {x} \X (1..w[x])
Units(w, S) == UNION {Unit(w, x) : x \in S}

\* An element of weight n has n units.
LEMMA UnitCount ==
    ASSUME NEW w, NEW x, w[x] \in Nat
    PROVE  IsFiniteSet(Unit(w, x)) /\ Cardinality(Unit(w, x)) = w[x]
<1>1. IsFiniteSet({x}) /\ Cardinality({x}) = 1
  BY FS_Singleton
<1>2. IsFiniteSet(1..w[x]) /\ Cardinality(1..w[x]) = w[x]
  BY FS_Interval
<1>3. /\ IsFiniteSet({x} \X (1..w[x]))
      /\ Cardinality({x} \X (1..w[x])) = Cardinality({x}) * Cardinality(1..w[x])
  BY <1>1, <1>2, FS_Product
<1>4. Cardinality({x}) * Cardinality(1..w[x]) = w[x]
  BY <1>1, <1>2
<1> QED
  BY <1>3, <1>4 DEF Unit

\* Finitely many elements have finitely many units.
LEMMA UnitsFinite ==
    ASSUME NEW S, IsFiniteSet(S), NEW w, \A x \in S : w[x] \in Nat
    PROVE  IsFiniteSet(Units(w, S)) /\ Cardinality(Units(w, S)) \in Nat
<1> DEFINE parts == {Unit(w, x) : x \in S}
           f == [x \in S |-> Unit(w, x)]
<1>1. f \in Surjection(S, parts)
  BY DEF Surjection
<1>2. IsFiniteSet(parts)
  BY <1>1, FS_Surjection
<1>3. \A P \in parts : IsFiniteSet(P)
  BY UnitCount
<1>4. IsFiniteSet(UNION parts)
  BY <1>2, <1>3, FS_UNION
<1> QED
  BY <1>4, FS_CardinalityType DEF Units

\* A new element adds its own units.
LEMMA UnitsAdd ==
    ASSUME NEW S, IsFiniteSet(S), NEW x, x \notin S,
           NEW w, w[x] \in Nat, \A y \in S : w[y] \in Nat
    PROVE  Cardinality(Units(w, S \cup {x})) = Cardinality(Units(w, S)) + w[x]
<1>1. Units(w, S \cup {x}) = Units(w, S) \cup Unit(w, x)
  BY DEF Units
<1>2. Units(w, S) \cap Unit(w, x) = {}
  BY DEF Units, Unit
<1>3. /\ IsFiniteSet(Units(w, S)) /\ Cardinality(Units(w, S)) \in Nat
      /\ IsFiniteSet(Unit(w, x)) /\ Cardinality(Unit(w, x)) = w[x]
  BY UnitsFinite, UnitCount
<1>4. Cardinality(Units(w, S) \cup Unit(w, x))
        = Cardinality(Units(w, S)) + w[x] - Cardinality(Units(w, S) \cap Unit(w, x))
  BY <1>3, FS_Union
<1>5. Cardinality(Units(w, S) \cap Unit(w, x)) = 0
  BY <1>2, FS_EmptySet
<1>6. Cardinality(Units(w, S \cup {x})) = Cardinality(Units(w, S)) + w[x] - 0
  BY <1>1, <1>4, <1>5, Zenon
<1> QED
  BY <1>3, <1>6

\* The empty set has no unit.
LEMMA NoUnits == ASSUME NEW w PROVE Cardinality(Units(w, {})) = 0
<1>1. Units(w, {}) = {}
  BY DEF Units
<1> QED
  BY <1>1, FS_EmptySet

\* A sum takes the elements of a set out one by one.
SummedUp(D, w, f) ==
    [s \in D |-> IF s = {} THEN 0
                 ELSE w[CHOOSE x \in s : TRUE] + f[s \ {CHOOSE x \in s : TRUE}]]

\* The sum over a finite set is the number of units.
LEMMA SumIsCount ==
    ASSUME NEW S, IsFiniteSet(S), NEW w, \A x \in S : w[x] \in Nat
    PROVE  SumFunctionOnSet(w, S) = Cardinality(Units(w, S))
<1> DEFINE count == [s \in SUBSET S |-> Cardinality(Units(w, s))]
           one(s) == CHOOSE x \in s : TRUE
<1>1. ASSUME NEW s \in SUBSET S, s # {}
      PROVE  /\ one(s) \in s /\ Cardinality(s \ {one(s)}) < Cardinality(s)
             /\ Cardinality(Units(w, s)) = w[one(s)] + Cardinality(Units(w, s \ {one(s)}))
             /\ w[one(s)] \in Nat
  <2>1. one(s) \in s
    BY <1>1
  <2> HIDE DEF one
  <2>2. IsFiniteSet(s) /\ Cardinality(s) \in Nat
    BY FS_Subset, FS_CardinalityType
  <2>3. /\ IsFiniteSet(s \ {one(s)}) /\ Cardinality(s \ {one(s)}) = Cardinality(s) - 1
    BY <2>1, <2>2, FS_RemoveElement
  <2>4. /\ (s \ {one(s)}) \cup {one(s)} = s /\ w[one(s)] \in Nat
        /\ \A y \in s \ {one(s)} : w[y] \in Nat
    BY <2>1
  <2>5. Cardinality(Units(w, s)) = Cardinality(Units(w, s \ {one(s)})) + w[one(s)]
    BY <2>3, <2>4, UnitsAdd
  <2>6. Cardinality(Units(w, s \ {one(s)})) \in Nat
    BY <2>3, <2>4, UnitsFinite
  <2> QED
    BY <2>1, <2>2, <2>3, <2>4, <2>5, <2>6
<1>2. count = SummedUp(SUBSET S, w, count)
  <2>1. \A s \in SUBSET S : s # {} => s \ {one(s)} \in SUBSET S
    OBVIOUS
  <2> QED
    BY <1>1, <2>1, NoUnits DEF SummedUp
<1>3. ASSUME NEW f, f = SummedUp(SUBSET S, w, f)
      PROVE  f[S] = Cardinality(Units(w, S))
  <2> DEFINE Bad == {s \in SUBSET S : f[s] # Cardinality(Units(w, s))}
  <2> SUFFICES ASSUME Bad # {} PROVE FALSE
    OBVIOUS
  <2>1. PICK s \in Bad : \A t \in Bad : Cardinality(s) <= Cardinality(t)
    BY SmallestSet
  <2>2. s \in SUBSET S /\ f[s] # Cardinality(Units(w, s))
    OBVIOUS
  <2>3. f[s] = IF s = {} THEN 0 ELSE w[one(s)] + f[s \ {one(s)}]
    BY <1>3, <2>2, Zenon DEF SummedUp
  <2>4. s # {}
    BY <2>2, <2>3, NoUnits
  <2>5. s \ {one(s)} \in SUBSET S /\ s \ {one(s)} \notin Bad
    <3>1. IsFiniteSet(s) /\ Cardinality(s) \in Nat
      BY <2>2, FS_Subset, FS_CardinalityType
    <3>2. one(s) \in s
      BY <2>4
    <3> HIDE DEF one
    <3>3. Cardinality(s \ {one(s)}) = Cardinality(s) - 1
      BY <3>1, <3>2, FS_RemoveElement
    <3>4. ~(Cardinality(s) <= Cardinality(s \ {one(s)}))
      BY <3>1, <3>3
    <3> HIDE DEF Bad
    <3>5. s \ {one(s)} \notin Bad
      BY <2>1, <3>4
    <3> QED
      BY <2>2, <3>5
  <2>6. f[s \ {one(s)}] = Cardinality(Units(w, s \ {one(s)}))
    BY <2>5
  <2> HIDE DEF Bad, one
  <2> QED
    BY <1>1, <2>2, <2>3, <2>4, <2>6
<1>4. SumFunctionOnSet(w, S) = (CHOOSE f : f = SummedUp(SUBSET S, w, f))[S]
  BY DEF SumFunctionOnSet, FoldFunctionOnSet, MapThenFoldSet, SummedUp
<1> HIDE DEF count
<1> QED
  BY <1>2, <1>3, <1>4

Weighs(w, S) == IsFiniteSet(S) /\ \A x \in S : w[x] \in Nat

\* A sum of natural numbers is one.
LEMMA SumType ==
    ASSUME NEW S, NEW w, Weighs(w, S)
    PROVE  SumFunctionOnSet(w, S) \in Nat
BY SumIsCount, UnitsFinite DEF Weighs

\* The empty sum is zero.
LEMMA SumNone == ASSUME NEW w PROVE SumFunctionOnSet(w, {}) = 0
BY SumIsCount, NoUnits, FS_EmptySet

\* A new element adds its weight.
LEMMA SumAdd ==
    ASSUME NEW S, NEW x, x \notin S, NEW w, Weighs(w, S), w[x] \in Nat
    PROVE  SumFunctionOnSet(w, S \cup {x}) = SumFunctionOnSet(w, S) + w[x]
<1>1. IsFiniteSet(S \cup {x})
  BY FS_AddElement DEF Weighs
<1>2. \A y \in S \cup {x} : w[y] \in Nat
  BY DEF Weighs
<1>3. /\ SumFunctionOnSet(w, S \cup {x}) = Cardinality(Units(w, S \cup {x}))
      /\ SumFunctionOnSet(w, S) = Cardinality(Units(w, S))
  BY <1>1, <1>2, SumIsCount DEF Weighs
<1> QED
  BY <1>3, UnitsAdd DEF Weighs

\* A sum grows with its set and with its weights; elements without weight do
\* not count.
LEMMA SumGrows ==
    ASSUME NEW S, NEW w, Weighs(w, S), NEW T, NEW v, Weighs(v, T),
           \A x \in T : v[x] = 0 \/ (x \in S /\ v[x] <= w[x])
    PROVE  SumFunctionOnSet(v, T) <= SumFunctionOnSet(w, S)
<1>1. \A x \in T : Unit(v, x) = {} \/ (x \in S /\ Unit(v, x) \subseteq Unit(w, x))
  <2> SUFFICES ASSUME NEW x \in T
               PROVE  Unit(v, x) = {} \/ (x \in S /\ Unit(v, x) \subseteq Unit(w, x))
    OBVIOUS
  <2>1. CASE v[x] = 0
    <3>1. 1..v[x] = {}
      BY <2>1
    <3> QED
      BY <3>1 DEF Unit
  <2>2. CASE x \in S /\ v[x] <= w[x]
    <3>1. 1..v[x] \subseteq 1..w[x]
      BY <2>2 DEF Weighs
    <3> QED
      BY <2>2, <3>1 DEF Unit
  <2> QED
    BY <2>1, <2>2
<1>2. Units(v, T) \subseteq Units(w, S)
  BY <1>1 DEF Units
<1>3. IsFiniteSet(Units(w, S))
  BY UnitsFinite DEF Weighs
<1> QED
  BY <1>2, <1>3, FS_Subset, SumIsCount DEF Weighs

\* Weights moved to distinct elements of another set.
LEMMA SumMoved ==
    ASSUME NEW S, NEW w, Weighs(w, S), NEW T, NEW v, Weighs(v, T),
           NEW f \in [T -> S], \A x, y \in T : f[x] = f[y] => x = y,
           \A x \in T : v[x] <= w[f[x]]
    PROVE  SumFunctionOnSet(v, T) <= SumFunctionOnSet(w, S)
<1> DEFINE g == [t \in Units(v, T) |-> <<f[t[1]], t[2]>>]
<1>1. \A t \in Units(v, T) : t[1] \in T /\ t[2] \in 1..v[t[1]] /\ t = <<t[1], t[2]>>
  BY DEF Units, Unit
<1>2. ASSUME NEW t \in Units(v, T) PROVE g[t] \in Units(w, S)
  <2>1. t[1] \in T /\ f[t[1]] \in S /\ t[2] \in 1..w[f[t[1]]]
    BY <1>1 DEF Weighs
  <2>2. g[t] \in Unit(w, f[t[1]])
    BY <2>1 DEF Unit
  <2> QED
    BY <2>1, <2>2 DEF Units
<1>3. \A t, u \in Units(v, T) : g[t] = g[u] => t = u
  BY <1>1
<1>4. g \in Injection(Units(v, T), Units(w, S))
  BY <1>2, <1>3 DEF Injection, IsInjective
<1> HIDE DEF g
<1>5. Cardinality(Units(v, T)) <= Cardinality(Units(w, S))
  BY <1>4, FS_Injection, UnitsFinite DEF Weighs
<1> QED
  BY <1>5, SumIsCount DEF Weighs

-----------------------------------------------------------------------------
(* The account of the limits *)

\* A stake a user has been charged: that of an order, or that of a handler which
\* has written the limits and not yet inserted its order.
Item == ({"key"} \X Keys) \cup ({"handler"} \X Processes)

Held(i)  == IF i[1] = "key" THEN charged[i[2]] # -1 ELSE pc[i[2]] = "insert"
Owner(i) == IF i[1] = "key" THEN UserOf[i[2]] ELSE U(i[2])
DayOf(i) == IF i[1] = "key" THEN charged[i[2]] ELSE lim[i[2]].day
Pay(k)   == AtLeastZero(Stake[k])
Weight   == [i \in Item |-> IF i[1] = "key" THEN Pay(i[2])
                            ELSE IF pc[i[2]] = "insert" THEN Pay(K(i[2])) ELSE 0]

HeldItems   == {i \in Item : Held(i)}
Spent(u, D) == {i \in Item : Held(i) /\ Owner(i) = u /\ DayOf(i) \in D}
DaysIn(w)   == {d \in Days : WeekOf(d) = w}
SpentOn(u, D) == SumFunctionOnSet(Weight, Spent(u, D))

RowOK(l) == /\ l.daily <= DailyLimit /\ l.weekly <= WeeklyLimit
            /\ l.day <= today /\ l.week = WeekOf(l.day)

\* m is l at a day not before l's, with at least the stake s added.
Advances(l, m, s) ==
    /\ l.day <= m.day
    /\ m.daily >= (IF m.day = l.day THEN l.daily ELSE 0) + s
    /\ m.weekly >= (IF m.week = l.week THEN l.weekly ELSE 0) + s

\* The limits kept by the rows and by the handlers.
Rows == /\ \A u \in Users : RowOK(limits[u])
        /\ \A p \in Processes : RowOK(lim[p])
        /\ \A u \in Users :
             ~limits[u].exists => limits[u].daily = 0 /\ limits[u].weekly = 0
        /\ \A p \in Processes : pc[p] = "charge" => lim[p].exists

\* One handler at a time checks the limits of a user whose totals have not lapsed.
Solo == /\ \A p \in Processes : pc[p] = "limit" \/ Checking(p) => p \in Sessions
        /\ \A p, q \in Processes :
             Checking(p) /\ Checking(q) /\ U(p) = U(q) /\ U(p) \notin lapsed => p = q

Added(p) == IF pc[p] = "charge" THEN Stake[K(p)] ELSE 0

\* What it has in hand follows from what the row still says.
Ready == \A p \in Processes :
    Checking(p) /\ U(p) \notin lapsed => Advances(limits[U(p)], lim[p], Added(p))

\* Nothing is charged on a day after the row's.
Dated == \A i \in Item :
    Held(i) /\ Owner(i) \notin lapsed => DayOf(i) <= limits[Owner(i)].day

Totals == \A u \in Users \ lapsed :
    /\ SpentOn(u, {limits[u].day}) <= limits[u].daily
    /\ SpentOn(u, DaysIn(limits[u].week)) <= limits[u].weekly

LimInv == Rows /\ Solo /\ Ready /\ Dated /\ Totals /\ IsFiniteSet(HeldItems)

-----------------------------------------------------------------------------
(* Days and weeks *)

\* A later day is not in an earlier week.
LEMMA WeeksPass == \A d, e \in Days : d <= e => WeekOf(d) <= WeekOf(e)
<1> SUFFICES ASSUME NEW d \in Days, NEW e \in Days, d <= e
             PROVE  WeekOf(d) <= WeekOf(e)
  OBVIOUS
<1>1. PICK w : w = DaysInWeek
  OBVIOUS
<1>2. d \in Nat /\ e \in Nat /\ w \in Nat /\ w > 0
  BY <1>1, DaysAreNat, LimitAssumption
<1>3. PICK a, b : a = d \div w /\ b = e \div w
  OBVIOUS
<1>4. a \in Nat /\ b \in Nat /\ w * a <= d /\ e < w * b + w
  BY <1>2, <1>3
<1>5. SUFFICES ASSUME a >= b + 1 PROVE FALSE
  BY <1>1, <1>3, <1>4 DEF WeekOf
<1>6. w * a >= w * (b + 1)
  BY <1>2, <1>4, <1>5
<1>7. w * (b + 1) = w * b + w /\ w * a \in Nat /\ w * b \in Nat
  BY <1>2, <1>4
<1> QED
  BY <1>2, <1>4, <1>6, <1>7

\* A row that says nothing is within the limits.
LEMMA NoLimitRow == today \in Days => RowOK(NoLimit) /\ RowOK(NewLimit)
<1> SUFFICES ASSUME today \in Days PROVE RowOK(NoLimit) /\ RowOK(NewLimit)
  OBVIOUS
<1>1. today \in Nat /\ DailyLimit \in Nat /\ WeeklyLimit \in Nat
  BY DaysAreNat, LimitAssumption
<1>2. WeekOf(0) = 0
  BY LimitAssumption DEF WeekOf
<1> QED
  BY <1>1, <1>2 DEF RowOK, NoLimit, NewLimit

-----------------------------------------------------------------------------
(* What users have been charged *)

\* What an order may weigh: its stake, unless that is negative.
LEMMA PayOK == \A k \in Keys : Pay(k) \in Nat /\ (Stake[k] >= 0 => Pay(k) = Stake[k])
<1> SUFFICES ASSUME NEW k \in Keys
             PROVE  Pay(k) \in Nat /\ (Stake[k] >= 0 => Pay(k) = Stake[k])
  OBVIOUS
<1>1. Stake[k] \in Int
  BY KeysAssumption
<1> QED
  BY <1>1 DEF Pay, AtLeastZero

\* What is charged has a stake, an owner and a day.
LEMMA ItemTypes ==
    ASSUME IndInv, NEW i \in Item
    PROVE  /\ Weight[i] \in Nat
           /\ Held(i) => DayOf(i) \in Days /\ Owner(i) \in Users
<1>1. CASE i[1] = "key" /\ i[2] \in Keys
  <2>1. Weight[i] = Pay(i[2]) /\ Pay(i[2]) \in Nat /\ UserOf[i[2]] \in Users
    BY <1>1, PayOK, KeysAssumption DEF Weight
  <2> QED
    BY <1>1, <2>1 DEF Held, DayOf, Owner, IndInv, TypeOK
<1>2. CASE i[1] # "key" /\ i[2] \in Processes
  <2>1. CASE pc[i[2]] = "insert"
    <3>1. req[i[2]] \in Keys
      BY <1>2, <2>1 DEF IndInv, TypeOK
    <3>2. Weight[i] = Pay(req[i[2]]) /\ Pay(req[i[2]]) \in Nat
      BY <1>2, <2>1, <3>1, PayOK DEF Weight, K
    <3>3. lim[i[2]].day \in Days /\ U(i[2]) \in Users
      BY <1>2, <3>1, KeysAssumption DEF IndInv, TypeOK, RGLimit, U
    <3> QED
      BY <1>2, <3>2, <3>3 DEF DayOf, Owner
  <2>2. CASE pc[i[2]] # "insert"
    BY <1>2, <2>2 DEF Weight, Held
  <2> QED
    BY <2>1, <2>2
<1> QED
  BY <1>1, <1>2 DEF Item

\* The stakes after a step.
LEMMA ItemTypesNext == ASSUME IndInv' PROVE \A i \in Item : Weight'[i] \in Nat
<1> SUFFICES ASSUME NEW i \in Item PROVE Weight'[i] \in Nat
  OBVIOUS
<1>1. CASE i[1] = "key" /\ i[2] \in Keys
  BY <1>1, PayOK DEF Weight
<1>2. CASE i[1] # "key" /\ i[2] \in Processes
  BY <1>2, PayOK DEF Weight, K, IndInv, TypeOK
<1> QED
  BY <1>1, <1>2 DEF Item

\* What a user has been charged adds up to a natural number.
LEMMA SpentWeighs ==
    ASSUME IndInv, IsFiniteSet(HeldItems), NEW u, NEW D
    PROVE  Weighs(Weight, Spent(u, D)) /\ SpentOn(u, D) \in Nat
<1>1. Spent(u, D) \subseteq HeldItems /\ Spent(u, D) \subseteq Item
  BY DEF Spent, HeldItems
<1>2. IsFiniteSet(Spent(u, D))
  BY <1>1, FS_Subset
<1>3. Weighs(Weight, Spent(u, D))
  BY <1>1, <1>2, ItemTypes DEF Weighs
<1> QED
  BY <1>3, SumType DEF SpentOn

\* Item i is charged as it was.
Same(i) == /\ Held(i) /\ Owner(i)' = Owner(i) /\ DayOf(i)' = DayOf(i)
           /\ Weight'[i] = Weight[i]

\* A step that charges nothing new.
LEMMA SpentLess ==
    ASSUME IndInv, IndInv', IsFiniteSet(HeldItems),
           \A i \in Item : Held(i)' => Same(i)
    PROVE  /\ IsFiniteSet(HeldItems')
           /\ \A u, D : SpentOn(u, D)' \in Nat /\ SpentOn(u, D)' <= SpentOn(u, D)
<1>1. IsFiniteSet(HeldItems')
  <2>1. HeldItems' \subseteq HeldItems
    BY DEF HeldItems, Same
  <2> QED
    BY <2>1, FS_Subset
<1>2. ASSUME NEW u, NEW D
      PROVE  SpentOn(u, D)' \in Nat /\ SpentOn(u, D)' <= SpentOn(u, D)
  <2>1. PICK v, w, S, T : /\ v = Weight' /\ w = Weight
                          /\ S = Spent(u, D) /\ T = Spent(u, D)'
    OBVIOUS
  <2>2. Weighs(v, T)
    <3>1. T \subseteq HeldItems' /\ T \subseteq Item
      BY <2>1 DEF Spent, HeldItems
    <3>2. IsFiniteSet(T)
      BY <1>1, <3>1, FS_Subset
    <3>3. \A i \in Item : Weight'[i] \in Nat
      BY ItemTypesNext
    <3> QED
      BY <2>1, <3>1, <3>2, <3>3 DEF Weighs
  <2>3. Weighs(w, S)
    BY <2>1, SpentWeighs
  <2>4. \A i \in T : i \in S /\ v[i] = w[i]
    BY <2>1 DEF Spent, Same
  <2>5. \A i \in T : v[i] = 0 \/ (i \in S /\ v[i] <= w[i])
    BY <2>2, <2>4 DEF Weighs
  <2>6. SumFunctionOnSet(v, T) <= SumFunctionOnSet(w, S)
    BY <2>2, <2>3, <2>5, SumGrows
  <2> QED
    BY <2>1, <2>2, <2>6, SumType DEF SpentOn
<1> QED
  BY <1>1, <1>2

\* Nothing of u is charged on the days D, which are all after the row's.
LEMMA NothingSpent ==
    ASSUME IndInv, LimInv, NEW u \in Users, u \notin lapsed, NEW D,
           \A d \in D \cap Days : ~(d <= limits[u].day)
    PROVE  SpentOn(u, D) = 0
<1>1. Spent(u, D) = {}
  BY ItemTypes DEF LimInv, Dated, Spent
<1> QED
  BY <1>1, SumNone DEF SpentOn

\* A row that advances by what a step charges covers it.
LEMMA TotalsOf ==
    ASSUME IndInv, IndInv', LimInv, NEW u \in Users, u \notin lapsed, NEW s \in Nat,
           \A D : SpentOn(u, D)' <= SpentOn(u, D) + s,
           \A D : SpentOn(u, D)' \in Nat,
           limits'[u].week = WeekOf(limits'[u].day),
           Advances(limits[u], limits'[u], s)
    PROVE  /\ SpentOn(u, {limits[u].day})' <= limits'[u].daily
           /\ SpentOn(u, DaysIn(limits[u].week))' <= limits'[u].weekly
<1>1. PICK l, m : l = limits[u] /\ m = limits'[u]
  OBVIOUS
<1>2. l \in RGLimit /\ m \in RGLimit
  BY <1>1 DEF IndInv, TypeOK
<1>3. /\ l.day \in Days /\ m.day \in Days /\ l.day \in Nat /\ m.day \in Nat
      /\ l.week \in Nat /\ m.week \in Nat /\ l.daily \in Int /\ m.daily \in Int
      /\ l.weekly \in Int /\ m.weekly \in Int
  BY <1>2, DaysAreNat DEF RGLimit
<1>4. l.week = WeekOf(l.day) /\ m.week = WeekOf(m.day)
  BY <1>1 DEF LimInv, Rows, RowOK
<1>5. /\ l.day <= m.day
      /\ m.daily >= (IF m.day = l.day THEN l.daily ELSE 0) + s
      /\ m.weekly >= (IF m.week = l.week THEN l.weekly ELSE 0) + s
  BY <1>1 DEF Advances
<1>6. SpentOn(u, {l.day}) <= l.daily /\ SpentOn(u, DaysIn(l.week)) <= l.weekly
  BY <1>1 DEF LimInv, Totals
<1>7. PICK D, E : D = {m.day} /\ E = DaysIn(m.week)
  OBVIOUS
<1>8. SpentOn(u, D) \in Nat /\ SpentOn(u, E) \in Nat
  BY SpentWeighs DEF LimInv
<1>9. SpentOn(u, D) <= (IF m.day = l.day THEN l.daily ELSE 0)
  <2>1. CASE m.day = l.day
    BY <1>6, <1>7, <2>1
  <2>2. CASE m.day # l.day
    <3>1. \A d \in D \cap Days : ~(d <= limits[u].day)
      BY <1>1, <1>3, <1>5, <1>7, <2>2
    <3>2. SpentOn(u, D) = 0
      BY <3>1, NothingSpent
    <3> QED
      BY <2>2, <3>2
  <2> QED
    BY <2>1, <2>2
<1>10. SpentOn(u, E) <= (IF m.week = l.week THEN l.weekly ELSE 0)
  <2>1. CASE m.week = l.week
    BY <1>6, <1>7, <2>1
  <2>2. CASE m.week # l.week
    <3>1. l.week < m.week
      BY <1>3, <1>4, <1>5, <2>2, WeeksPass
    <3>2. ASSUME NEW d \in E \cap Days PROVE ~(d <= limits[u].day)
      <4>1. WeekOf(d) = m.week /\ d \in Days
        BY <1>7, <3>2 DEF DaysIn
      <4>2. d <= l.day => WeekOf(d) <= l.week
        BY <1>3, <1>4, <4>1, WeeksPass
      <4> QED
        BY <1>1, <1>3, <3>1, <4>1, <4>2
    <3>3. SpentOn(u, E) = 0
      BY <3>2, NothingSpent
    <3> QED
      BY <2>2, <3>3
  <2> QED
    BY <2>1, <2>2
<1>11. SpentOn(u, D)' <= SpentOn(u, D) + s /\ SpentOn(u, E)' <= SpentOn(u, E) + s
  OBVIOUS
<1>12. SpentOn(u, D)' \in Nat /\ SpentOn(u, E)' \in Nat
  OBVIOUS
<1>13. SpentOn(u, D)' <= m.daily /\ SpentOn(u, E)' <= m.weekly
  <2>1. PICK a, b, c, d : /\ a = SpentOn(u, D) /\ b = SpentOn(u, E)
                          /\ c = SpentOn(u, D)' /\ d = SpentOn(u, E)'
    OBVIOUS
  <2>2. /\ a \in Nat /\ b \in Nat /\ c \in Nat /\ d \in Nat /\ c <= a + s /\ d <= b + s
        /\ a <= (IF m.day = l.day THEN l.daily ELSE 0)
        /\ b <= (IF m.week = l.week THEN l.weekly ELSE 0)
    BY <1>8, <1>9, <1>10, <1>11, <1>12, <2>1
  <2>3. c <= m.daily /\ d <= m.weekly
    BY <1>3, <1>5, <2>2
  <2> QED
    BY <2>1, <2>3
<1>14. /\ SpentOn(u, {limits[u].day})' = SpentOn(u, D)'
       /\ SpentOn(u, DaysIn(limits[u].week))' = SpentOn(u, E)'
  BY <1>1, <1>7 DEF SpentOn, Spent, DaysIn, WeekOf
<1> QED
  BY <1>1, <1>13, <1>14

\* A row advances itself by nothing.
LEMMA AdvancesSame == ASSUME NEW l \in RGLimit PROVE Advances(l, l, 0)
<1>1. l.day \in Nat /\ l.daily \in Int /\ l.weekly \in Int
  BY DaysAreNat DEF RGLimit
<1> QED
  BY <1>1 DEF Advances

\* A user whose row stands and who is not charged.
LEMMA TotalsKept ==
    ASSUME IndInv, IndInv', LimInv, NEW u \in Users, u \notin lapsed,
           limits'[u] = limits[u],
           \A D : SpentOn(u, D)' \in Nat /\ SpentOn(u, D)' <= SpentOn(u, D)
    PROVE  /\ SpentOn(u, {limits[u].day})' <= limits'[u].daily
           /\ SpentOn(u, DaysIn(limits[u].week))' <= limits'[u].weekly
<1>1. limits'[u].week = WeekOf(limits'[u].day)
  BY DEF LimInv, Rows, RowOK
<1>2. Advances(limits[u], limits'[u], 0)
  BY AdvancesSame DEF IndInv, TypeOK
<1>3. \A D : SpentOn(u, D) \in Nat
  BY SpentWeighs DEF LimInv
<1>4. ASSUME NEW D PROVE SpentOn(u, D)' <= SpentOn(u, D) + 0
  <2>1. PICK a, b : a = SpentOn(u, D) /\ b = SpentOn(u, D)'
    OBVIOUS
  <2>2. a \in Nat /\ b \in Nat /\ b <= a
    BY <1>3, <2>1
  <2>3. b <= a + 0
    BY <2>2
  <2> QED
    BY <2>1, <2>3
<1> QED
  BY <1>1, <1>2, <1>4, TotalsOf

\* A step that charges nothing and alters no row keeps the account.
LEMMA AccountKept ==
    ASSUME IndInv, IndInv', LimInv, UNCHANGED limits, lapsed \subseteq lapsed',
           \A i \in Item : Held(i)' => Same(i)
    PROVE  Dated' /\ Totals' /\ IsFiniteSet(HeldItems')
<1>1. /\ IsFiniteSet(HeldItems')
      /\ \A u, D : SpentOn(u, D)' \in Nat /\ SpentOn(u, D)' <= SpentOn(u, D)
  BY SpentLess DEF LimInv
<1>2. Dated'
  BY DEF LimInv, Dated, Same
<1>3. Totals'
  BY <1>1, TotalsKept DEF Totals
<1> QED
  BY <1>1, <1>2, <1>3

-----------------------------------------------------------------------------
(* The steps that charge nothing *)

\* Handler p stays where it is, or is out of CreateOrder's limit check.
Calm(p) ==
    \/ UNCHANGED <<pc[p], req[p], lim[p]>>
    \/ /\ pc'[p] \in {"idle", "limit", "read", "fill", "update", "cancelled"}
       /\ lim'[p] \in {lim[p], NoLimit}
       /\ pc'[p] = "limit" => p \in Sessions

\* A step in which every handler is calm, and no row alters, keeps the account.
LEMMA CalmStep ==
    ASSUME IndInv, IndInv', LimInv, UNCHANGED <<charged, limits, lapsed>>,
           today <= today', \A p \in Processes : Calm(p)
    PROVE  LimInv'
<1>1. ASSUME NEW l \in RGLimit, RowOK(l) PROVE RowOK(l)'
  <2>1. l.day \in Nat /\ today \in Nat /\ today' \in Nat
    BY DaysAreNat DEF IndInv, TypeOK, RGLimit
  <2> QED
    BY <1>1, <2>1 DEF RowOK, WeekOf
<1>2. RowOK(NoLimit)'
  <2>1. today \in Days /\ NoLimit \in RGLimit
    BY NoLimitOK DEF IndInv, TypeOK
  <2> QED
    BY <1>1, <2>1, NoLimitRow
<1>3. Rows'
  <2>1. \A u \in Users : RowOK(limits[u])'
    BY <1>1 DEF LimInv, Rows, IndInv, TypeOK
  <2>2. ASSUME NEW p \in Processes PROVE RowOK(lim[p])'
    <3>1. lim'[p] \in {lim[p], NoLimit} /\ RowOK(lim[p]) /\ lim[p] \in RGLimit
      BY DEF Calm, LimInv, Rows, IndInv, TypeOK
    <3>2. PICK l : l = lim'[p]
      OBVIOUS
    <3>3. RowOK(l)'
      <4>1. CASE l = lim[p]
        BY <1>1, <3>1, <4>1
      <4>2. CASE l = NoLimit
        BY <1>2, <4>2
      <4> QED
        BY <3>1, <3>2, <4>1, <4>2
    <3> QED
      BY <3>2, <3>3 DEF RowOK
  <2>3. \A p \in Processes : pc'[p] = "charge" => lim'[p].exists
    BY DEF LimInv, Rows, Calm
  <2> QED
    BY <2>1, <2>2, <2>3 DEF LimInv, Rows
<1>4. \A p \in Processes : Checking(p)' =>
         Checking(p) /\ pc'[p] = pc[p] /\ req'[p] = req[p] /\ lim'[p] = lim[p]
  BY DEF Calm, Checking
<1>5. Solo'
  <2>1. \A p \in Processes : pc'[p] = "limit" \/ Checking(p)' => p \in Sessions
    BY <1>4 DEF Calm, LimInv, Solo
  <2> QED
    BY <1>4, <2>1 DEF LimInv, Solo, U
<1>6. Ready'
  BY <1>4 DEF LimInv, Ready, Added, U, K
<1>7. ASSUME NEW i \in Item, Held(i)' PROVE Same(i)
  <2>1. CASE i[1] = "key"
    BY <1>7, <2>1 DEF Same, Held, Owner, DayOf, Weight
  <2>2. CASE i[1] # "key" /\ i[2] \in Processes
    <3>1. UNCHANGED <<pc[i[2]], req[i[2]], lim[i[2]]>> /\ pc[i[2]] = "insert"
      BY <1>7, <2>2 DEF Held, Calm
    <3> QED
      BY <2>2, <3>1 DEF Same, Held, Owner, DayOf, Weight, U, K
  <2> QED
    BY <2>1, <2>2 DEF Item
<1>8. Dated' /\ Totals' /\ IsFiniteSet(HeldItems')
  BY <1>7, AccountKept
<1> QED
  BY <1>3, <1>5, <1>6, <1>8 DEF LimInv

\* A step of handler p that leaves the other handlers alone.
LEMMA CalmOne ==
    ASSUME IndInv, IndInv', LimInv, UNCHANGED <<charged, limits, lapsed, today>>,
           NEW p \in Processes, Calm(p),
           \A q \in Processes : q # p => UNCHANGED <<pc[q], req[q], lim[q]>>
    PROVE  LimInv'
<1>1. \A q \in Processes : Calm(q)
  BY DEF Calm
<1>2. today <= today'
  BY DaysAreNat DEF IndInv, TypeOK
<1> QED
  BY <1>1, <1>2, CalmStep

\* A handler that returns, and charges nothing.
LEMMA CalmReturn ==
    ASSUME IndInv, IndInv', LimInv, UNCHANGED <<charged, limits, lapsed, today>>,
           NEW p \in Processes, Return(p)
    PROVE  LimInv'
<1>1. /\ pc'[p] = "idle" /\ lim'[p] = NoLimit
      /\ \A q \in Processes : q # p => UNCHANGED <<pc[q], req[q], lim[q]>>
  BY DEF IndInv, TypeOK, Return, Goto
<1> QED
  BY <1>1, CalmOne DEF Calm

\* A handler that goes on, outside the limit check.
LEMMA CalmGoto ==
    ASSUME IndInv, IndInv', LimInv, UNCHANGED <<charged, limits, lapsed, today, lim>>,
           NEW p \in Processes,
           NEW l \in {"limit", "read", "fill", "update", "cancelled"}, Goto(p, l),
           l = "limit" => p \in Sessions,
           req' = req \/ \E k : req' = [req EXCEPT ![p] = k]
    PROVE  LimInv'
<1>1. /\ pc'[p] = l /\ lim'[p] = lim[p]
      /\ \A q \in Processes : q # p => UNCHANGED <<pc[q], req[q], lim[q]>>
  BY DEF IndInv, TypeOK, Goto
<1> QED
  BY <1>1, CalmOne DEF Calm

\* The process ends: what was charged and not inserted is lost with it.
LEMMA CalmDie ==
    ASSUME IndInv, IndInv', LimInv, UNCHANGED <<charged, limits, lapsed, today>>, Die
    PROVE  LimInv'
<1>1. \A q \in Processes : Calm(q)
  BY DEF Die, Calm
<1>2. today <= today'
  BY DaysAreNat DEF IndInv, TypeOK
<1> QED
  BY <1>1, <1>2, CalmStep

\* A step of no handler, at midnight or before.
LEMMA CalmHandlers ==
    ASSUME IndInv, IndInv', LimInv, UNCHANGED <<charged, limits, lapsed, pc, req, lim>>,
           today <= today'
    PROVE  LimInv'
<1>1. \A q \in Processes : Calm(q)
  BY DEF Calm
<1> QED
  BY <1>1, CalmStep

\* A request is taken.
LEMMA RequestCalm ==
    ASSUME IndInv, IndInv', LimInv, NEW p \in Sessions, NEW k \in Keys,
           BeginCreate(p, k) \/ BeginGet(p, k) \/ \E u \in Users : BeginCancel(p, k, u)
    PROVE  LimInv'
<1>1. p \in Processes
  BY DEF Processes
<1>2. PICK l \in {"limit", "read", "update"} : Enter(p, k, l)
  BY DEF BeginCreate, BeginGet, BeginCancel
<1>3. Goto(p, l) /\ req' = [req EXCEPT ![p] = k]
      /\ UNCHANGED <<charged, limits, lapsed, today, lim>>
  BY <1>2 DEF Enter, tables, outside
<1> QED
  BY <1>1, <1>3, CalmGoto

\* The statements of reads and cancels.
LEMMA ReadsAndCancelsCalm ==
    ASSUME IndInv, IndInv', LimInv, NEW p \in Processes, GetStep(p) \/ CancelStep(p)
    PROVE  LimInv'
<1> USE DEF tables, outside
<1>1. CASE ReadOrder(p)
  <2>1. Goto(p, "fill") /\ UNCHANGED <<charged, limits, lapsed, today, lim, req>>
    BY <1>1 DEF ReadOrder
  <2> QED
    BY <2>1, CalmGoto
<1>2. CASE FillCache(p) \/ FinishCancel(p)
  <2>1. Return(p) /\ UNCHANGED <<charged, limits, lapsed, today>>
    BY <1>2 DEF FillCache, FinishCancel
  <2> QED
    BY <2>1, CalmReturn
<1>3. CASE UpdateStatus(p)
  <2>1. UNCHANGED <<charged, limits, lapsed, today>>
        /\ (Return(p) \/ (Goto(p, "cancelled") /\ UNCHANGED <<req, lim>>))
    BY <1>3 DEF UpdateStatus, OrderCancelled
  <2> QED
    BY <2>1, CalmReturn, CalmGoto
<1> QED
  BY <1>1, <1>2, <1>3 DEF GetStep, CancelStep

\* The consumer, the goroutines, the faults, midnight and the world outside.
LEMMA OutsideCalm ==
    ASSUME IndInv, IndInv', LimInv,
           \/ Consume
           \/ \E e \in Events : WriteMessage(e) \/ WriteFails(e)
           \/ \E m \in Markets : VoidMarket(m) \/ ListFails(m)
           \/ \E k \in Keys : CancelNextFails(k)
           \/ \E p \in Processes : FinishWithoutOrder(p)
           \/ Crash \/ NextDay \/ UNCHANGED vars
    PROVE  LimInv'
<1> USE DEF tables, handler, outside
<1>1. today \in Nat
  BY DaysAreNat DEF IndInv, TypeOK
<1>2. CASE \/ \E m \in Markets : HandleMarketVoided(m) \/ VoidMarket(m) \/ ListFails(m)
           \/ \E e \in Events : WriteMessage(e) \/ WriteFails(e)
           \/ \E k \in Keys : CancelNextFails(k)
           \/ UNCHANGED vars
  <2>1. UNCHANGED <<charged, limits, lapsed, pc, req, lim, today>>
    BY <1>2 DEF HandleMarketVoided, VoidMarket, ListFails, WriteMessage, WriteFails,
       CancelNextFails, vars
  <2> QED
    BY <1>1, <2>1, CalmHandlers
<1>3. CASE NextDay
  <2>1. UNCHANGED <<charged, limits, lapsed, pc, req, lim>> /\ today' = today + 1
    BY <1>3 DEF NextDay
  <2> QED
    BY <1>1, <2>1, CalmHandlers
<1>4. CASE Crash \/ \E p \in Processes : FinishWithoutOrder(p)
  <2>1. Die /\ UNCHANGED <<charged, limits, lapsed, today>>
    BY <1>4 DEF Crash, FinishWithoutOrder
  <2> QED
    BY <2>1, CalmDie
<1>5. ASSUME NEW k \in Keys, CancelNext(k) PROVE LimInv'
  <2>1. UNCHANGED <<charged, limits, lapsed, today, lim>> /\ Voider \in Processes
    BY <1>5 DEF CancelNext, Processes
  <2>2. CASE UNCHANGED <<pc, req>>
    BY <1>1, <2>1, <2>2, CalmHandlers
  <2>3. CASE Goto(Voider, "update") /\ req' = [req EXCEPT ![Voider] = k]
    BY <2>1, <2>3, CalmGoto
  <2> QED
    BY <1>5, <2>2, <2>3 DEF CancelNext
<1> QED
  BY <1>2, <1>3, <1>4, <1>5 DEF Consume

-----------------------------------------------------------------------------
(* The steps of the limit check *)

\* A step of a handler that does not come to or from its insert charges nothing.
LEMMA SameItems ==
    ASSUME UNCHANGED charged, NEW p \in Processes,
           pc[p] # "insert", pc'[p] # "insert",
           \A q \in Processes : q # p => UNCHANGED <<pc[q], req[q], lim[q]>>
    PROVE  \A i \in Item : Held(i)' => Same(i)
<1> SUFFICES ASSUME NEW i \in Item, Held(i)' PROVE Same(i)
  OBVIOUS
<1>1. CASE i[1] = "key"
  BY <1>1 DEF Same, Held, Owner, DayOf, Weight
<1>2. CASE i[1] # "key" /\ i[2] \in Processes
  <2>1. UNCHANGED <<pc[i[2]], req[i[2]], lim[i[2]]>> /\ pc[i[2]] = "insert"
    BY <1>2 DEF Held
  <2> QED
    BY <1>2, <2>1 DEF Same, Held, Owner, DayOf, Weight, U, K
<1> QED
  BY <1>1, <1>2 DEF Item

\* The handler reads the row, or starts a new one; a check that overlaps it is noted.
LEMMA ReadLimitLim ==
    ASSUME IndInv, IndInv', LimInv, NEW p \in Processes, ReadLimit(p)
    PROVE  LimInv'
<1> DEFINE u == U(p)
           l == IF limits[u].exists THEN limits[u] ELSE NewLimit
<1>1. /\ pc[p] = "limit" /\ p \in Sessions /\ u \in Users /\ today \in Days
      /\ limits[u] \in RGLimit /\ NewLimit \in RGLimit
  BY KeysAssumption, NoLimitOK DEF ReadLimit, IndInv, TypeOK, U, LimInv, Solo
<1>2. /\ pc'[p] \in {"newlimit", "check"} /\ lim'[p] = l
      /\ \A q \in Processes : q # p => UNCHANGED <<pc[q], req[q], lim[q]>>
      /\ UNCHANGED <<charged, limits, today, req>>
      /\ lapsed' = IF \E q \in Sessions \ {p} : Checking(q) /\ U(q) = u
                    THEN lapsed \cup {u} ELSE lapsed
  BY DEF ReadLimit, Goto, tables, IndInv, TypeOK
<1>3. RowOK(l) /\ Advances(limits[u], l, 0)
  <2>1. CASE limits[u].exists
    BY <1>1, <2>1, AdvancesSame DEF LimInv, Rows
  <2>2. CASE ~limits[u].exists
    <3>1. /\ RowOK(limits[u]) /\ limits[u].daily = 0 /\ limits[u].weekly = 0
          /\ limits[u].day \in Nat /\ today \in Nat
      BY <1>1, <2>2, DaysAreNat DEF LimInv, Rows, RGLimit
    <3>2. NewLimit.daily = 0 /\ NewLimit.weekly = 0 /\ NewLimit.day = today
      BY DEF NewLimit, NoLimit
    <3>3. Advances(limits[u], NewLimit, 0)
      BY <3>1, <3>2 DEF RowOK, Advances
    <3> QED
      BY <1>1, <2>2, <3>3, NoLimitRow
  <2> QED
    BY <2>1, <2>2
<1> HIDE DEF l
<1>4. Rows'
  <2>1. ASSUME NEW q \in Processes PROVE RowOK(lim'[q]) /\ (pc'[q] = "charge" => lim'[q].exists)
    BY <1>2, <1>3 DEF LimInv, Rows
  <2> QED
    BY <1>2, <2>1 DEF LimInv, Rows, RowOK, WeekOf
<1>5. \A q \in Processes : q # p => (Checking(q)' <=> Checking(q)) /\ U(q)' = U(q)
  BY <1>2 DEF Checking, U
<1>6. Checking(p)' /\ U(p)' = u /\ ~Checking(p)
  BY <1>1, <1>2 DEF Checking, U
<1>7. \A q \in Processes \ {p} : Checking(q) /\ U(q) = u => u \in lapsed'
  BY <1>2 DEF LimInv, Solo
<1>8. lapsed \subseteq lapsed'
  BY <1>2
<1>9. Solo'
  <2>1. \A q \in Processes : pc'[q] = "limit" \/ Checking(q)' => q \in Sessions
    BY <1>1, <1>2, <1>5 DEF LimInv, Solo
  <2>2. ASSUME NEW q \in Processes, NEW r \in Processes, Checking(q)', Checking(r)',
               U(q)' = U(r)', U(q)' \notin lapsed'
        PROVE  q = r
    <3>1. CASE q # p /\ r # p
      BY <1>5, <1>8, <2>2, <3>1 DEF LimInv, Solo
    <3>2. CASE q = p /\ r # p
      BY <1>5, <1>6, <1>7, <2>2, <3>2
    <3>3. CASE q # p /\ r = p
      BY <1>5, <1>6, <1>7, <2>2, <3>3
    <3> QED
      BY <3>1, <3>2, <3>3
  <2> QED
    BY <2>1, <2>2 DEF Solo
<1>10. Ready'
  <2> SUFFICES ASSUME NEW q \in Processes, Checking(q)', U(q)' \notin lapsed'
               PROVE  Advances(limits'[U(q)'], lim'[q], Added(q)')
    BY DEF Ready, Advances
  <2>1. CASE q = p
    <3>1. Added(q)' = 0
      BY <1>2, <2>1 DEF Added
    <3> QED
      BY <1>2, <1>3, <1>6, <2>1, <3>1
  <2>2. CASE q # p
    <3>1. Checking(q) /\ U(q) = U(q)' /\ U(q) \notin lapsed /\ Added(q)' = Added(q)
          /\ lim'[q] = lim[q]
      BY <1>2, <1>5, <1>8, <2>2 DEF Added, K
    <3> QED
      BY <1>2, <3>1 DEF LimInv, Ready
  <2> QED
    BY <2>1, <2>2
<1>11. Dated' /\ Totals' /\ IsFiniteSet(HeldItems')
  <2>1. \A i \in Item : Held(i)' => Same(i)
    BY <1>1, <1>2, SameItems
  <2> QED
    BY <1>2, <1>8, <2>1, AccountKept
<1> QED
  BY <1>4, <1>9, <1>10, <1>11 DEF LimInv

\* What a check may charge: the totals of the day and of the week, and the stake.
LEMMA ChargingAdvances ==
    ASSUME IndInv, LimInv, NEW p \in Processes, pc[p] = "check",
           Charging(p).daily <= DailyLimit, Charging(p).weekly <= WeeklyLimit
    PROVE  /\ Charging(p) \in RGLimit /\ Charging(p).exists /\ RowOK(Charging(p))
           /\ \A r \in RGLimit : RowOK(r) /\ Advances(r, lim[p], 0)
                                   => Advances(r, Charging(p), Stake[K(p)])
<1>1. PICK l, s, t, w : l = lim[p] /\ s = Stake[K(p)] /\ t = today /\ w = WeekOf(t)
  OBVIOUS
<1>2. /\ l.daily \in Int /\ l.weekly \in Int /\ l.day \in Days /\ l.week \in Nat
      /\ t \in Days /\ t \in Nat /\ l.day \in Nat /\ w \in Nat
      /\ l.day <= t /\ l.week = WeekOf(l.day) /\ l \in RGLimit
  BY <1>1, DaysAreNat, WeeksAreNat DEF IndInv, TypeOK, RGLimit, LimInv, Rows, RowOK
<1>3. s \in Int
  BY <1>1, KeysAssumption DEF IndInv, TypeOK, K
<1>4. l.week <= w
  BY <1>1, <1>2, WeeksPass
<1>5. PICK m : m = Charging(p)
  OBVIOUS
<1>6. m \in RGLimit
  BY <1>5, ChargingOK DEF IndInv
<1> DEFINE day    == IF l.day < t THEN t ELSE l.day
           week   == IF l.week < w THEN w ELSE l.week
           daily  == IF l.day < t THEN 0 ELSE l.daily
           weekly == IF l.week < w THEN 0 ELSE l.weekly
<1>7. day = t /\ week = w
  BY <1>2, <1>4
<1>8. Reset(l) = [l EXCEPT !.daily = daily, !.day = day, !.weekly = weekly, !.week = week]
  BY <1>1 DEF Reset
<1>9. m.exists /\ m.day = day /\ m.week = week /\ m.daily = daily + s /\ m.weekly = weekly + s
  <2> HIDE DEF day, week, daily, weekly
  <2>1. PICK r : r = Reset(l)
    OBVIOUS
  <2>2. r.daily = daily /\ r.weekly = weekly /\ r.day = day /\ r.week = week
    BY <1>2, <1>8, <2>1 DEF RGLimit
  <2>3. r \in RGLimit
    BY <1>1, <1>2, <2>1, ResetOK
  <2>4. m = [r EXCEPT !.exists = TRUE, !.daily = r.daily + s, !.weekly = r.weekly + s]
    BY <1>1, <1>5, <2>1 DEF Charging
  <2> QED
    BY <2>2, <2>3, <2>4 DEF RGLimit
<1>10. RowOK(m)
  BY <1>1, <1>2, <1>5, <1>7, <1>9 DEF RowOK
<1>11. ASSUME NEW r \in RGLimit, RowOK(r), Advances(r, l, 0) PROVE Advances(r, m, s)
  <2>1. /\ r.day \in Nat /\ r.week \in Nat /\ r.daily \in Int /\ r.weekly \in Int
        /\ r.day \in Days
    BY DaysAreNat DEF RGLimit
  <2>2. /\ r.day <= l.day /\ l.daily >= (IF l.day = r.day THEN r.daily ELSE 0) + 0
        /\ l.weekly >= (IF l.week = r.week THEN r.weekly ELSE 0) + 0
    BY <1>11 DEF Advances
  <2>3. r.week <= l.week
    BY <1>2, <1>11, <2>1, <2>2, WeeksPass DEF RowOK
  <2>4. daily >= (IF day = r.day THEN r.daily ELSE 0)
    BY <1>2, <2>1, <2>2
  <2>5. weekly >= (IF week = r.week THEN r.weekly ELSE 0)
    BY <1>2, <1>4, <2>1, <2>2, <2>3
  <2>6. day \in Nat /\ daily \in Int /\ weekly \in Int /\ r.day <= day
    BY <1>2, <2>1, <2>2
  <2> HIDE DEF day, week, daily, weekly
  <2> QED
    BY <1>3, <1>9, <2>1, <2>4, <2>5, <2>6 DEF Advances
<1> QED
  BY <1>1, <1>3, <1>5, <1>6, <1>9, <1>10, <1>11

\* The handler adds its stake to what it read, or refuses the order.
LEMMA CheckLimitLim ==
    ASSUME IndInv, IndInv', LimInv, NEW p \in Processes, CheckLimit(p)
    PROVE  LimInv'
<1>1. UNCHANGED <<charged, limits, lapsed, today>> /\ pc[p] = "check"
  BY DEF CheckLimit, tables, outside
<1>2. CASE Return(p)
  BY <1>1, <1>2, CalmReturn
<1>3. CASE /\ Charging(p).daily <= DailyLimit /\ Charging(p).weekly <= WeeklyLimit
           /\ lim' = [lim EXCEPT ![p] = Charging(p)] /\ Goto(p, "charge")
           /\ UNCHANGED req
  <2>1. /\ pc'[p] = "charge" /\ lim'[p] = Charging(p)
        /\ \A q \in Processes : q # p => UNCHANGED <<pc[q], req[q], lim[q]>>
    BY <1>3 DEF Goto, IndInv, TypeOK
  <2>2. /\ Charging(p).exists /\ RowOK(Charging(p))
        /\ \A r \in RGLimit : RowOK(r) /\ Advances(r, lim[p], 0)
                                => Advances(r, Charging(p), Stake[K(p)])
    BY <1>1, <1>3, ChargingAdvances
  <2>3. Rows'
    <3>1. ASSUME NEW q \in Processes PROVE RowOK(lim'[q]) /\ (pc'[q] = "charge" => lim'[q].exists)
      BY <2>1, <2>2 DEF LimInv, Rows
    <3> QED
      BY <1>1, <3>1 DEF LimInv, Rows, RowOK, WeekOf
  <2>4. \A q \in Processes : (Checking(q)' <=> Checking(q)) /\ U(q)' = U(q)
    BY <1>1, <1>3, <2>1 DEF Checking, U
  <2>5. Solo'
    <3>1. \A q \in Processes : pc'[q] = "limit" => pc[q] = "limit"
      BY <2>1
    <3> QED
      BY <1>1, <2>4, <3>1 DEF LimInv, Solo
  <2>6. Ready'
    <3> SUFFICES ASSUME NEW q \in Processes, Checking(q)', U(q)' \notin lapsed'
                 PROVE  Advances(limits'[U(q)'], lim'[q], Added(q)')
      BY DEF Ready, Advances
    <3>1. Checking(q) /\ U(q)' = U(q) /\ U(q) \notin lapsed /\ Advances(limits[U(q)], lim[q], Added(q))
      BY <1>1, <2>4 DEF LimInv, Ready
    <3>2. CASE q = p
      <4>1. Added(p) = 0 /\ Added(p)' = Stake[K(p)]
        BY <1>1, <1>3, <2>1 DEF Added, K
      <4>2. U(p) \in Users
        BY <1>1, KeysAssumption DEF IndInv, TypeOK, U
      <4>3. limits[U(p)] \in RGLimit /\ RowOK(limits[U(p)])
        BY <4>2 DEF IndInv, TypeOK, LimInv, Rows
      <4>4. Advances(limits[U(p)], Charging(p), Stake[K(p)])
        BY <2>2, <3>1, <3>2, <4>1, <4>3
      <4> QED
        BY <1>1, <2>1, <3>1, <3>2, <4>1, <4>4
    <3>3. CASE q # p
      <4>1. Added(q)' = Added(q) /\ lim'[q] = lim[q]
        BY <2>1, <3>3 DEF Added, K
      <4> QED
        BY <1>1, <3>1, <4>1
    <3> QED
      BY <3>2, <3>3
  <2>7. Dated' /\ Totals' /\ IsFiniteSet(HeldItems')
    <3>1. \A i \in Item : Held(i)' => Same(i)
      BY <1>1, <2>1, SameItems
    <3> QED
      BY <1>1, <3>1, AccountKept
  <2> QED
    BY <2>3, <2>5, <2>6, <2>7 DEF LimInv
<1> QED
  BY <1>2, <1>3 DEF CheckLimit

\* A step that charges x.
LEMMA SpentAdded ==
    ASSUME IndInv, IndInv', IsFiniteSet(HeldItems), NEW x \in Item,
           \A i \in Item : Held(i)' => Same(i) \/ i = x
    PROVE  /\ IsFiniteSet(HeldItems') /\ Weight'[x] \in Nat
           /\ \A u, D : /\ SpentOn(u, D)' \in Nat
                        /\ SpentOn(u, D)' <= SpentOn(u, D) + Weight'[x]
                        /\ Owner(x)' # u => SpentOn(u, D)' <= SpentOn(u, D)
<1>1. IsFiniteSet(HeldItems')
  <2>1. HeldItems' \subseteq HeldItems \cup {x}
    BY DEF HeldItems, Same
  <2>2. IsFiniteSet(HeldItems \cup {x})
    BY FS_AddElement
  <2> QED
    BY <2>1, <2>2, FS_Subset
<1>2. \A i \in Item : Weight'[i] \in Nat
  BY ItemTypesNext
<1>3. ASSUME NEW u, NEW D
      PROVE  /\ SpentOn(u, D)' \in Nat
             /\ SpentOn(u, D)' <= SpentOn(u, D) + Weight'[x]
             /\ Owner(x)' # u => SpentOn(u, D)' <= SpentOn(u, D)
  <2>1. PICK v, w, S, T, R : /\ v = Weight' /\ w = Weight /\ S = Spent(u, D)
                             /\ T = Spent(u, D)' /\ R = T \ {x}
    OBVIOUS
  <2>2. T \subseteq Item /\ R \subseteq T /\ \A i \in R : i \in S /\ v[i] = w[i]
    BY <2>1 DEF Spent, Same
  <2>3. Weighs(v, T) /\ Weighs(v, R)
    <3>1. T \subseteq HeldItems'
      BY <2>1 DEF Spent, HeldItems
    <3>2. IsFiniteSet(T) /\ IsFiniteSet(R)
      BY <1>1, <2>2, <3>1, FS_Subset
    <3> QED
      BY <1>2, <2>1, <2>2, <3>2 DEF Weighs
  <2>4. Weighs(w, S)
    BY <2>1, SpentWeighs
  <2>5. SumFunctionOnSet(v, R) <= SumFunctionOnSet(w, S)
    <3>1. \A i \in R : v[i] = 0 \/ (i \in S /\ v[i] <= w[i])
      BY <2>2, <2>3 DEF Weighs
    <3> QED
      BY <2>3, <2>4, <3>1, SumGrows
  <2>6. PICK a, b, c : /\ a = SumFunctionOnSet(v, R) /\ b = SumFunctionOnSet(w, S)
                       /\ c = SumFunctionOnSet(v, T)
    OBVIOUS
  <2>7. a \in Nat /\ b \in Nat /\ c \in Nat /\ a <= b /\ v[x] \in Nat
    BY <1>2, <2>1, <2>3, <2>4, <2>5, <2>6, SumType
  <2>8. x \in T => c = a + v[x]
    <3>1. ASSUME x \in T PROVE R \cup {x} = T /\ x \notin R
      BY <2>1, <3>1
    <3> QED
      BY <2>3, <2>6, <2>7, <3>1, SumAdd
  <2>9. x \notin T => c = a
    BY <2>1, <2>6
  <2>10. Owner(x)' # u => x \notin T
    BY <2>1 DEF Spent
  <2>11. c <= b + v[x] /\ (Owner(x)' # u => c <= b)
    BY <2>7, <2>8, <2>9, <2>10
  <2>12. SpentOn(u, D)' = c /\ SpentOn(u, D) = b /\ Weight'[x] = v[x]
    BY <2>1, <2>6 DEF SpentOn
  <2> QED
    BY <2>7, <2>11, <2>12
<1> QED
  BY <1>1, <1>2, <1>3

\* A step that charges x instead of y.
LEMMA SpentMoved ==
    ASSUME IndInv, IndInv', IsFiniteSet(HeldItems), NEW x \in Item, NEW y \in Item,
           \A i \in Item : Held(i)' => Same(i) \/ i = x,
           ~(Held(y)'), Held(y), Owner(x)' = Owner(y), DayOf(x)' = DayOf(y),
           Weight'[x] = Weight[y]
    PROVE  \A u, D : SpentOn(u, D)' <= SpentOn(u, D)
<1>1. IsFiniteSet(HeldItems')
  BY SpentAdded
<1>2. \A i \in Item : Weight'[i] \in Nat
  BY ItemTypesNext
<1> SUFFICES ASSUME NEW u, NEW D PROVE SpentOn(u, D)' <= SpentOn(u, D)
  OBVIOUS
<1>3. PICK v, w, S, T : /\ v = Weight' /\ w = Weight /\ S = Spent(u, D) /\ T = Spent(u, D)'
  OBVIOUS
<1>4. /\ T \subseteq Item /\ y \notin T
      /\ \A i \in T : i # x => i \in S /\ v[i] = w[i]
      /\ x \in T => y \in S /\ v[x] = w[y]
  BY <1>3 DEF Spent, Same
<1>5. Weighs(v, T)
  <2>1. T \subseteq HeldItems'
    BY <1>3 DEF Spent, HeldItems
  <2>2. IsFiniteSet(T)
    BY <1>1, <2>1, FS_Subset
  <2> QED
    BY <1>2, <1>3, <1>4, <2>2 DEF Weighs
<1>6. Weighs(w, S)
  BY <1>3, SpentWeighs
<1> DEFINE f == [i \in T |-> IF i = x THEN y ELSE i]
<1>7. /\ f \in [T -> S] /\ \A i, j \in T : f[i] = f[j] => i = j
      /\ \A i \in T : v[i] <= w[f[i]]
  BY <1>4, <1>5 DEF Weighs
<1> HIDE DEF f
<1>8. SumFunctionOnSet(v, T) <= SumFunctionOnSet(w, S)
  BY <1>5, <1>6, <1>7, SumMoved
<1> QED
  BY <1>3, <1>8 DEF SpentOn

\* Handler p writes the row of its user, which covers what it charges by that;
\* it goes on with what it had in hand, or ends without an answer.
LEMMA RowStep ==
    ASSUME IndInv, IndInv', LimInv, UNCHANGED <<charged, today>>, lapsed \subseteq lapsed',
           NEW p \in Processes, Checking(p), NEW m \in RGLimit, RowOK(m), m.exists,
           NEW s \in Int, limits' = [limits EXCEPT ![U(p)] = m],
           U(p) \notin lapsed' => s >= 0 /\ Advances(limits[U(p)], m, s),
           \A q \in Processes : q # p => UNCHANGED <<pc[q], req[q], lim[q]>>,
           \/ /\ pc'[p] = "check" /\ UNCHANGED <<req[p], lim[p]>>
              /\ U(p) \notin lapsed' => Advances(m, lim[p], 0)
           \/ /\ pc'[p] = "insert" /\ UNCHANGED <<req[p], lim[p]>>
              /\ lim[p].day = m.day /\ s = Stake[K(p)]
           \/ pc'[p] = "idle" /\ lim'[p] = NoLimit
    PROVE  LimInv'
<1> DEFINE u == U(p)
           x == <<"handler", p>>
<1>1. /\ u \in Users /\ limits'[u] = m /\ \A v \in Users : v # u => limits'[v] = limits[v]
      /\ \A v \in Users : limits[v] \in RGLimit
  BY KeysAssumption DEF Checking, IndInv, TypeOK, U
<1>2. Rows'
  <2>1. \A v \in Users : RowOK(limits'[v]) /\
          (~limits'[v].exists => limits'[v].daily = 0 /\ limits'[v].weekly = 0)
    BY <1>1 DEF LimInv, Rows
  <2>2. RowOK(NoLimit)
    BY NoLimitRow DEF IndInv, TypeOK
  <2>3. \A q \in Processes : RowOK(lim'[q]) /\ (pc'[q] = "charge" => lim'[q].exists)
    BY <2>2 DEF LimInv, Rows
  <2> QED
    BY <2>1, <2>3 DEF Rows, RowOK, WeekOf
<1>3. \A q \in Processes : Checking(q)' =>
          Checking(q) /\ UNCHANGED <<req[q], lim[q]>> /\ U(q)' = U(q)
  BY DEF Checking, U
<1>4. Solo'
  <2>1. \A q \in Processes : pc'[q] = "limit" => pc[q] = "limit"
    OBVIOUS
  <2> QED
    BY <1>3, <2>1 DEF LimInv, Solo
<1>5. Ready'
  <2> SUFFICES ASSUME NEW q \in Processes, Checking(q)', U(q)' \notin lapsed'
               PROVE  Advances(limits'[U(q)'], lim'[q], Added(q)')
    BY DEF Ready, Advances
  <2>1. CASE q = p
    <3>1. pc'[p] = "check" /\ lim'[p] = lim[p]
      BY <2>1 DEF Checking
    <3>2. Added(p)' = 0 /\ Advances(m, lim[p], 0)
      BY <1>3, <2>1, <3>1 DEF Added
    <3> QED
      BY <1>1, <1>3, <2>1, <3>1, <3>2
  <2>2. CASE q # p
    <3>1. Checking(q) /\ U(q) \notin lapsed /\ U(q)' = U(q) /\ U(q) # u
      BY <1>3, <2>2 DEF LimInv, Solo
    <3>2. U(q) \in Users /\ Added(q)' = Added(q) /\ lim'[q] = lim[q]
      BY <2>2, <3>1, KeysAssumption DEF Checking, IndInv, TypeOK, U, Added, K
    <3> QED
      BY <1>1, <3>1, <3>2 DEF LimInv, Ready
  <2> QED
    BY <2>1, <2>2
<1>6. /\ x \in Item /\ (pc'[p] = "insert" => Owner(x)' = u)
      /\ \A i \in Item : Held(i)' => Same(i) \/ (pc'[p] = "insert" /\ i = x)
  <2>1. x \in Item /\ (pc'[p] = "insert" => Owner(x)' = u)
    BY DEF Item, Owner, U
  <2>2. ASSUME NEW i \in Item, Held(i)', ~(pc'[p] = "insert" /\ i = x) PROVE Same(i)
    <3>1. CASE i[1] = "key"
      BY <2>2, <3>1 DEF Same, Held, Owner, DayOf, Weight
    <3>2. CASE i[1] # "key" /\ i[2] \in Processes /\ i = <<"handler", i[2]>>
      <4>1. i[2] # p /\ pc[i[2]] = "insert" /\ pc'[i[2]] = "insert"
        BY <2>2, <3>2 DEF Held
      <4> QED
        BY <3>2, <4>1 DEF Same, Held, Owner, DayOf, Weight, U, K
    <3> QED
      BY <3>1, <3>2 DEF Item
  <2> QED
    BY <2>1, <2>2
<1>7. Dated'
  <2> SUFFICES ASSUME NEW i \in Item, Held(i)', Owner(i)' \notin lapsed'
               PROVE  DayOf(i)' <= limits'[Owner(i)'].day
    BY DEF Dated
  <2>1. CASE i = x /\ pc'[p] = "insert"
    <3>1. DayOf(i)' = m.day /\ Owner(i)' = u /\ m.day \in Nat
      BY <1>6, <2>1, DaysAreNat DEF DayOf, RGLimit
    <3> QED
      BY <1>1, <3>1
  <2>2. CASE Same(i)
    <3>1. Held(i) /\ Owner(i)' = Owner(i) /\ DayOf(i)' = DayOf(i) /\ Owner(i) \in Users
          /\ DayOf(i) \in Days /\ DayOf(i) <= limits[Owner(i)].day
      BY <2>2, ItemTypes DEF Same, LimInv, Dated
    <3>2. CASE Owner(i) = u
      <4>1. limits[u].day <= m.day /\ limits[u].day \in Nat /\ m.day \in Nat /\ DayOf(i) \in Nat
        BY <1>1, <3>1, <3>2, DaysAreNat DEF Advances, RGLimit
      <4> QED
        BY <1>1, <3>1, <3>2, <4>1
    <3>3. CASE Owner(i) # u
      BY <1>1, <3>1, <3>3
    <3> QED
      BY <3>2, <3>3
  <2> QED
    BY <1>6, <2>1, <2>2
<1>8. /\ IsFiniteSet(HeldItems')
      /\ \A v, D : SpentOn(v, D)' \in Nat
      /\ \A v, D : v = u /\ v \notin lapsed' => SpentOn(v, D)' <= SpentOn(v, D) + s
      /\ \A v, D : v # u => SpentOn(v, D)' <= SpentOn(v, D)
  <2>1. CASE pc'[p] = "insert"
    <3>1. \A i \in Item : Held(i)' => Same(i) \/ i = x
      BY <1>6
    <3>2. K(p) \in Keys
      BY DEF Checking, IndInv, TypeOK, K
    <3>3. Weight'[x] = Pay(K(p)) /\ (s >= 0 => Pay(K(p)) = s)
      BY <1>6, <2>1, <3>2, PayOK DEF Weight, K
    <3>4. Owner(x)' = u
      BY <1>6, <2>1
    <3>5. PICK w : w = u
      OBVIOUS
    <3>6. w \notin lapsed' => s >= 0
      BY <3>5
    <3>7. /\ IsFiniteSet(HeldItems')
          /\ \A v, D : /\ SpentOn(v, D)' \in Nat
                       /\ SpentOn(v, D)' <= SpentOn(v, D) + Pay(K(p))
                       /\ w # v => SpentOn(v, D)' <= SpentOn(v, D)
      <4> HIDE DEF x, u
      <4> QED
        BY <1>6, <3>1, <3>3, <3>4, <3>5, SpentAdded DEF LimInv
    <3> HIDE DEF x, u
    <3> QED
      BY <3>3, <3>5, <3>6, <3>7
  <2>2. CASE pc'[p] # "insert"
    <3>1. \A i \in Item : Held(i)' => Same(i)
      BY <1>6, <2>2
    <3>2. /\ IsFiniteSet(HeldItems')
          /\ \A v, D : SpentOn(v, D)' \in Nat /\ SpentOn(v, D)' <= SpentOn(v, D)
      BY <3>1, SpentLess DEF LimInv
    <3>3. \A v, D : SpentOn(v, D) \in Nat
      BY SpentWeighs DEF LimInv
    <3>4. ASSUME s >= 0, NEW v, NEW D PROVE SpentOn(v, D)' <= SpentOn(v, D) + s
      <4>1. PICK a, b : a = SpentOn(v, D) /\ b = SpentOn(v, D)'
        OBVIOUS
      <4>2. a \in Nat /\ b \in Nat /\ b <= a
        BY <3>2, <3>3, <4>1
      <4>3. b <= a + s
        BY <3>4, <4>2
      <4> QED
        BY <4>1, <4>3
    <3> QED
      BY <3>2, <3>4
  <2> QED
    BY <2>1, <2>2
<1>9. Totals'
  <2> SUFFICES ASSUME NEW v \in Users, v \notin lapsed'
               PROVE  /\ SpentOn(v, {limits[v].day})' <= limits'[v].daily
                      /\ SpentOn(v, DaysIn(limits[v].week))' <= limits'[v].weekly
    BY DEF Totals
  <2>1. CASE v = u
    <3>1. /\ limits'[v].week = WeekOf(limits'[v].day) /\ Advances(limits[v], limits'[v], s)
          /\ s \in Nat /\ v \notin lapsed
      BY <1>1, <2>1 DEF RowOK
    <3>2. /\ \A D : SpentOn(v, D)' <= SpentOn(v, D) + s
          /\ \A D : SpentOn(v, D)' \in Nat
      BY <1>8, <2>1
    <3> HIDE DEF u
    <3> QED
      BY <3>1, <3>2, TotalsOf
  <2>2. CASE v # u
    BY <1>1, <1>8, <2>2, TotalsKept
  <2> QED
    BY <2>1, <2>2
<1> QED
  BY <1>2, <1>4, <1>5, <1>7, <1>8, <1>9 DEF LimInv

\* The new row is inserted, unless there is one; the answer may be lost.
LEMMA CreateLimitLim ==
    ASSUME IndInv, IndInv', LimInv, NEW p \in Processes, pc[p] = "newlimit",
           LimitCreated(p), today' = today,
           Return(p) \/ (Goto(p, "check") /\ UNCHANGED <<req, lim>>)
    PROVE  LimInv'
<1> DEFINE u == U(p)
           l == lim[p]
           m == IF limits[u].exists THEN limits[u] ELSE [l EXCEPT !.exists = TRUE]
<1>1. /\ limits' = [limits EXCEPT ![u] = m] /\ Checking(p) /\ UNCHANGED <<charged, lapsed, today>>
      /\ \A q \in Processes : q # p => UNCHANGED <<pc[q], req[q], lim[q]>>
      /\ \/ pc'[p] = "check" /\ UNCHANGED <<req[p], lim[p]>>
         \/ pc'[p] = "idle" /\ lim'[p] = NoLimit
  BY DEF LimitCreated, Goto, Return, IndInv, TypeOK, Checking
<1>2. u \in Users /\ l \in RGLimit /\ limits[u] \in RGLimit
  BY <1>1, KeysAssumption DEF IndInv, TypeOK, U
<1>3. RowOK(l) /\ RowOK(limits[u]) /\ Added(p) = 0
  BY <1>1, <1>2 DEF LimInv, Rows, Added
<1>4. u \notin lapsed => Advances(limits[u], l, 0)
  BY <1>1, <1>3 DEF LimInv, Ready
<1>5. PICK n : n = m
  OBVIOUS
<1>6. n \in RGLimit /\ RowOK(n) /\ n.exists
      /\ (u \notin lapsed => Advances(limits[u], n, 0) /\ Advances(n, l, 0))
  <2>1. CASE limits[u].exists
    <3>1. n = limits[u]
      BY <1>5, <2>1
    <3> QED
      BY <1>2, <1>3, <1>4, <2>1, <3>1, AdvancesSame
  <2>2. CASE ~limits[u].exists
    <3>1. n = [l EXCEPT !.exists = TRUE]
      BY <1>5, <2>2
    <3>2. n \in RGLimit /\ n.exists /\ n.day = l.day /\ n.week = l.week /\ n.daily = l.daily
          /\ n.weekly = l.weekly
      BY <1>2, <3>1 DEF RGLimit
    <3>3. RowOK(n) /\ (u \notin lapsed => Advances(limits[u], n, 0))
      BY <1>3, <1>4, <3>2 DEF RowOK, Advances
    <3>4. Advances(n, l, 0)
      BY <1>2, <3>2, AdvancesSame DEF Advances
    <3> QED
      BY <3>2, <3>3, <3>4
  <2> QED
    BY <2>1, <2>2
<1>7. limits' = [limits EXCEPT ![u] = n]
  BY <1>1, <1>5
<1>8. PICK s : s = 0
  OBVIOUS
<1>9. u \notin lapsed' => s >= 0 /\ Advances(limits[u], n, s)
  BY <1>1, <1>6, <1>8
<1>10. u \notin lapsed' => Advances(n, lim[p], 0)
  BY <1>1, <1>6
<1>11. /\ s \in Int /\ n \in RGLimit /\ RowOK(n) /\ n.exists
       /\ UNCHANGED <<charged, today>> /\ lapsed \subseteq lapsed' /\ Checking(p)
  BY <1>1, <1>6, <1>8
<1> HIDE DEF m
<1> QED
  BY <1>1, <1>7, <1>9, <1>10, <1>11, RowStep

\* The whole row is written back, and covers the stake it charges; the answer
\* may be lost, and the order with it.
LEMMA ChargeLimitLim ==
    ASSUME IndInv, IndInv', LimInv, NEW p \in Processes, pc[p] = "charge",
           LimitCharged(p), today' = today,
           Return(p) \/ (Goto(p, "insert") /\ UNCHANGED <<req, lim>>)
    PROVE  LimInv'
<1>1. /\ limits' = [limits EXCEPT ![U(p)] = lim[p]] /\ Checking(p)
      /\ UNCHANGED <<charged, today>> /\ lapsed \subseteq lapsed'
      /\ \A q \in Processes : q # p => UNCHANGED <<pc[q], req[q], lim[q]>>
      /\ \/ pc'[p] = "insert" /\ UNCHANGED <<req[p], lim[p]>>
         \/ pc'[p] = "idle" /\ lim'[p] = NoLimit
  BY DEF LimitCharged, Goto, Return, IndInv, TypeOK, Checking
<1>2. lim[p] \in RGLimit /\ lim[p].exists /\ RowOK(lim[p]) /\ Added(p) = Stake[K(p)]
  BY <1>1 DEF IndInv, TypeOK, LimInv, Rows, Added
<1>3. Stake[K(p)] \in Int
  BY KeysAssumption DEF IndInv, TypeOK, K
<1>4. U(p) \notin lapsed' => Stake[K(p)] >= 0 /\ Advances(limits[U(p)], lim[p], Stake[K(p)])
  BY <1>1, <1>2, <1>3 DEF LimInv, Ready, LimitCharged
<1>5. PICK m, s : m = lim[p] /\ s = Stake[K(p)]
  OBVIOUS
<1> QED
  BY <1>1, <1>2, <1>3, <1>4, <1>5, RowStep

\* The insert: what handler p held, its order holds.
LEMMA OrderInsertedLim ==
    ASSUME IndInv, IndInv', LimInv, NEW p \in Processes, pc[p] = "insert",
           OrderInserted(p), Return(p), today' = today
    PROVE  LimInv'
<1>0. PICK k, u, x, y : k = K(p) /\ u = U(p) /\ x = <<"key", k>> /\ y = <<"handler", p>>
  OBVIOUS
<1>1. /\ Return(p) /\ UNCHANGED <<limits, lapsed, today>>
      /\ pc[p] = "insert" /\ k \in Keys /\ u = UserOf[k] /\ u \in Users
  <2>1. k \in Keys
    BY <1>0 DEF IndInv, TypeOK, K
  <2>2. u = UserOf[k] /\ u \in Users
    BY <1>0, <2>1, KeysAssumption DEF K, U
  <2> QED
    BY <2>1, <2>2 DEF OrderInserted
<1>3. CASE OrderInserted(p)
  <2>1. /\ pc'[p] = "idle" /\ lim'[p] = NoLimit
        /\ \A q \in Processes : q # p => UNCHANGED <<pc[q], req[q], lim[q]>>
    BY <1>1 DEF Return, Goto, IndInv, TypeOK
  <2>2. /\ charged'[k] = lim[p].day
        /\ \A j \in Keys : j # k => charged'[j] = charged[j]
    BY <1>0, <1>1, <1>3 DEF OrderInserted, ChargedDay, IndInv, TypeOK
  <2>3. \A q \in Processes : Checking(q)' => Checking(q) /\ UNCHANGED <<pc[q], req[q], lim[q]>>
    BY <2>1 DEF Checking
  <2>4. Rows'
    <3>1. \A q \in Processes : RowOK(lim'[q]) /\ (pc'[q] = "charge" => lim'[q].exists)
      <4>1. RowOK(NoLimit)
        BY NoLimitRow DEF IndInv, TypeOK
      <4> QED
        BY <2>1, <4>1 DEF LimInv, Rows
    <3> QED
      BY <1>1, <3>1 DEF LimInv, Rows, RowOK, WeekOf
  <2>5. Solo'
    <3>1. \A q \in Processes : pc'[q] = "limit" => pc[q] = "limit"
      BY <2>1
    <3> QED
      BY <1>1, <2>3, <3>1 DEF LimInv, Solo, U
  <2>6. Ready'
    BY <1>1, <2>3 DEF LimInv, Ready, Added, U, K
  <2>7. /\ x \in Item /\ y \in Item
        /\ Owner(x)' = u /\ DayOf(x)' = lim[p].day /\ Weight'[x] = Pay(k)
        /\ Held(y) /\ ~(Held(y)') /\ Owner(y) = u /\ DayOf(y) = lim[p].day
        /\ Weight[y] = Pay(k)
    <3>1. x \in Item /\ x[1] = "key" /\ x[2] = k /\ y \in Item /\ y[1] # "key" /\ y[2] = p
      BY <1>0, <1>1 DEF Item
    <3>2. Owner(x)' = u /\ DayOf(x)' = lim[p].day
      BY <1>1, <2>2, <3>1 DEF Owner, DayOf
    <3>3. Held(y) /\ ~(Held(y)') /\ Owner(y) = u /\ DayOf(y) = lim[p].day
      BY <1>0, <1>1, <2>1, <3>1 DEF Held, Owner, DayOf
    <3>4. Weight'[x] = Pay(k)
      BY <3>1 DEF Weight
    <3>5. Weight[y] = Pay(k)
      BY <1>0, <1>1, <3>1 DEF Weight
    <3> QED
      BY <3>1, <3>2, <3>3, <3>4, <3>5
  <2>8. \A i \in Item : Held(i)' => Same(i) \/ i = x
    <3> SUFFICES ASSUME NEW i \in Item, Held(i)', i # x PROVE Same(i)
      OBVIOUS
    <3>1. CASE i[1] = "key" /\ i[2] \in Keys /\ i = <<"key", i[2]>>
      BY <1>0, <2>2, <3>1 DEF Same, Held, Owner, DayOf, Weight
    <3>2. CASE i[1] # "key" /\ i[2] \in Processes
      <4>1. UNCHANGED <<pc[i[2]], req[i[2]], lim[i[2]]>> /\ pc[i[2]] = "insert"
        BY <2>1, <3>2 DEF Held
      <4> QED
        BY <3>2, <4>1 DEF Same, Held, Owner, DayOf, Weight, U, K
    <3> QED
      BY <3>1, <3>2 DEF Item
  <2>9. IsFiniteSet(HeldItems') /\ \A v, D : SpentOn(v, D)' \in Nat
    BY <2>7, <2>8, SpentAdded DEF LimInv
  <2>10. \A v, D : SpentOn(v, D)' <= SpentOn(v, D)
    BY <2>7, <2>8, SpentMoved DEF LimInv
  <2>11. Totals'
    BY <1>1, <2>9, <2>10, TotalsKept DEF Totals
  <2>12. Dated'
    <3> SUFFICES ASSUME NEW i \in Item, Held(i)', Owner(i)' \notin lapsed
                 PROVE  DayOf(i)' <= limits[Owner(i)'].day
      BY <1>1 DEF Dated
    <3>1. CASE i = x
      BY <1>1, <2>7, <3>1 DEF LimInv, Dated
    <3>2. CASE Same(i)
      BY <3>2 DEF Same, LimInv, Dated
    <3> QED
      BY <2>8, <3>1, <3>2
  <2> QED
    BY <2>4, <2>5, <2>6, <2>9, <2>11, <2>12 DEF LimInv
<1> QED
  BY <1>3

\* The insert, unless the order is there or its row is refused.
LEMMA InsertOrderLim ==
    ASSUME IndInv, IndInv', LimInv, NEW p \in Processes, InsertOrder(p)
    PROVE  LimInv'
<1>1. pc[p] = "insert" /\ Return(p) /\ today' = today
  BY DEF InsertOrder
<1>2. CASE OrderInserted(p)
  BY <1>1, <1>2, OrderInsertedLim
<1>3. CASE UNCHANGED <<tables, lapsed>>
  BY <1>1, <1>3, CalmReturn DEF tables
<1> QED
  BY <1>2, <1>3 DEF InsertOrder

\* A statement fails, or takes effect while its answer is lost.
LEMMA StatementFailsLim ==
    ASSUME IndInv, IndInv', LimInv, NEW p \in Processes, StatementFails(p)
    PROVE  LimInv'
<1>1. Return(p) /\ today' = today
  BY DEF StatementFails
<1>2. CASE pc[p] = "newlimit" /\ LimitCreated(p)
  BY <1>1, <1>2, CreateLimitLim
<1>3. CASE pc[p] = "charge" /\ LimitCharged(p)
  BY <1>1, <1>3, ChargeLimitLim
<1>4. CASE pc[p] = "insert" /\ OrderInserted(p)
  BY <1>1, <1>4, OrderInsertedLim
<1>5. CASE OrderCancelled(p) \/ UNCHANGED <<tables, lapsed>>
  BY <1>1, <1>5, CalmReturn DEF OrderCancelled, tables
<1> QED
  BY <1>2, <1>3, <1>4, <1>5 DEF StatementFails, StatementOf

-----------------------------------------------------------------------------
(* The limits hold *)

\* Nothing is charged at first.
LEMMA InitLim == Init => LimInv
<1> SUFFICES ASSUME Init PROVE LimInv
  OBVIOUS
<1>1. today \in Days
  BY DaysAreNat DEF Init
<1>2. Rows
  BY <1>1, NoLimitRow DEF Init, Rows, NoLimit
<1>3. \A p \in Processes : pc[p] = "idle"
  BY DEF Init
<1>4. Solo /\ Ready
  BY <1>3 DEF Solo, Ready, Checking
<1>5. \A i \in Item : ~Held(i)
  BY <1>3 DEF Init, Item, Held
<1>6. HeldItems = {} /\ \A u, D : Spent(u, D) = {}
  BY <1>5 DEF HeldItems, Spent
<1>7. \A u, D : SpentOn(u, D) = 0
  BY <1>6, SumNone DEF SpentOn
<1>8. Totals
  BY <1>7 DEF Init, Totals, NoLimit
<1> QED
  BY <1>2, <1>4, <1>5, <1>6, <1>8, FS_EmptySet DEF LimInv, Dated

\* Every step keeps the account.
LEMMA NextLim == IndInv /\ LimInv /\ [Next]_vars => (IndInv /\ LimInv)'
<1> SUFFICES ASSUME IndInv, LimInv, [Next]_vars PROVE LimInv'
  BY NextOK
<1>1. IndInv'
  BY NextOK
<1>2. ASSUME NEW p \in Processes, CreateStep(p) PROVE LimInv'
  <2>1. CreateLimit(p) => /\ pc[p] = "newlimit" /\ LimitCreated(p) /\ today' = today
                         /\ Goto(p, "check") /\ UNCHANGED <<req, lim>>
    BY DEF CreateLimit
  <2>2. ChargeLimit(p) => /\ pc[p] = "charge" /\ LimitCharged(p) /\ today' = today
                         /\ Goto(p, "insert") /\ UNCHANGED <<req, lim>>
    BY DEF ChargeLimit
  <2> QED
    BY <1>1, <1>2, <2>1, <2>2, ReadLimitLim, CreateLimitLim, CheckLimitLim, ChargeLimitLim,
       InsertOrderLim DEF CreateStep
<1>3. ASSUME NEW p \in Processes, Handle(p) PROVE LimInv'
  BY <1>1, <1>2, <1>3, ReadsAndCancelsCalm DEF Handle
<1>4. ASSUME Failure PROVE LimInv'
  BY <1>1, <1>4, StatementFailsLim, OutsideCalm DEF Failure
<1> QED
  BY <1>1, <1>3, <1>4, RequestCalm, OutsideCalm DEF Next

\* The orders a report counts are among what has been charged.
LEMMA StakesCharged ==
    ASSUME IndInv, LimInv, NEW u \in Users, NEW S, NEW D,
           S \subseteq {k \in Keys : UserOf[k] = u /\ charged[k] # -1 /\ charged[k] \in D}
    PROVE  /\ SumFunctionOnSet(Stake, S) \in Nat
           /\ SumFunctionOnSet(Stake, S) <= SpentOn(u, D)
<1> DEFINE f == [k \in S |-> <<"key", k>>]
<1>1. \A k \in S : f[k] \in Item /\ f[k] \in Spent(u, D) /\ Weight[f[k]] = Stake[k]
  <2>1. ASSUME NEW k \in S PROVE Pay(k) = Stake[k]
    <3>1. k \in Keys /\ Stake[k] > 0
      BY <2>1 DEF IndInv, TypeOK
    <3> QED
      BY <3>1, PayOK, KeysAssumption
  <2> QED
    BY <2>1 DEF Item, Spent, Held, Owner, DayOf, Weight
<1>2. f \in [S -> Spent(u, D)] /\ \A j, k \in S : f[j] = f[k] => j = k
  BY <1>1
<1> HIDE DEF f
<1>3. Weighs(Weight, Spent(u, D))
  BY SpentWeighs DEF LimInv
<1>4. IsFiniteSet(S)
  <2>1. f \in Injection(S, Spent(u, D))
    BY <1>2 DEF Injection, IsInjective
  <2> QED
    BY <1>3, <2>1, FS_Injection DEF Weighs
<1>5. Weighs(Stake, S) /\ \A k \in S : Stake[k] <= Weight[f[k]]
  <2>1. \A k \in S : k \in Keys /\ Stake[k] > 0 /\ Stake[k] \in Nat
    BY KeysAssumption DEF IndInv, TypeOK
  <2> QED
    BY <1>1, <1>4, <2>1 DEF Weighs
<1> QED
  BY <1>2, <1>3, <1>5, SumMoved, SumType DEF SpentOn

\* The account bounds what a report may promise.
LEMMA LimInvReports == IndInv /\ LimInv => ReportedLimitsHold
<1> SUFFICES ASSUME IndInv, LimInv, NEW u \in Users, u \notin lapsed
             PROVE  /\ StakedOn(u, today) + CheckRGLimit(u).daily <= DailyLimit
                    /\ StakedInWeek(u, WeekOf(today)) + CheckRGLimit(u).weekly <= WeeklyLimit
  BY DEF ReportedLimitsHold
<1>1. PICK l, w, a, b : /\ l = limits[u] /\ w = WeekOf(today)
                        /\ a = StakedOn(u, today) /\ b = StakedInWeek(u, w)
  OBVIOUS
<1>2. /\ l \in RGLimit /\ RowOK(l) /\ today \in Days /\ today \in Nat /\ w \in Nat
      /\ DailyLimit \in Nat /\ WeeklyLimit \in Nat
  BY <1>1, DaysAreNat, WeeksAreNat, LimitAssumption DEF IndInv, TypeOK, LimInv, Rows
<1>3. /\ l.day \in Nat /\ l.day \in Days /\ l.week \in Nat /\ l.daily \in Int /\ l.weekly \in Int
      /\ l.day <= today /\ l.week = WeekOf(l.day) /\ l.week <= w
      /\ l.daily <= DailyLimit /\ l.weekly <= WeeklyLimit
  BY <1>1, <1>2, DaysAreNat, WeeksPass DEF RGLimit, RowOK
<1>4. a \in Nat /\ a <= SpentOn(u, {today})
  <2> DEFINE S == {k \in Keys : UserOf[k] = u /\ charged[k] = today}
  <2>1. a = SumFunctionOnSet(Stake, S)
    BY <1>1 DEF StakedOn, MapThenSumSet, MapThenFoldSet, SumFunctionOnSet, FoldFunctionOnSet
  <2>2. S \subseteq {k \in Keys : UserOf[k] = u /\ charged[k] # -1 /\ charged[k] \in {today}}
    BY <1>2
  <2> QED
    BY <2>1, <2>2, StakesCharged
<1>5. b \in Nat /\ b <= SpentOn(u, DaysIn(w))
  <2> DEFINE S == {k \in Keys : UserOf[k] = u /\ charged[k] # -1 /\ WeekOf(charged[k]) = w}
  <2>1. b = SumFunctionOnSet(Stake, S)
    BY <1>1 DEF StakedInWeek, MapThenSumSet, MapThenFoldSet, SumFunctionOnSet, FoldFunctionOnSet
  <2>2. S \subseteq {k \in Keys : UserOf[k] = u /\ charged[k] # -1 /\ charged[k] \in DaysIn(w)}
    BY DEF DaysIn, IndInv, TypeOK
  <2> QED
    BY <2>1, <2>2, StakesCharged
<1>6. a <= Reset(l).daily /\ Reset(l).daily \in Nat /\ Reset(l).daily <= DailyLimit
  <2>1. CASE l.day = today
    <3>1. SpentOn(u, {today}) <= l.daily
      BY <1>1, <2>1 DEF LimInv, Totals
    <3>2. SpentOn(u, {today}) \in Nat
      BY SpentWeighs DEF LimInv
    <3>3. Reset(l).daily = l.daily
      BY <1>2, <1>3, <2>1 DEF Reset, RGLimit
    <3> QED
      BY <1>2, <1>3, <1>4, <3>1, <3>2, <3>3
  <2>2. CASE l.day # today
    <3>1. \A d \in {today} \cap Days : ~(d <= limits[u].day)
      BY <1>1, <1>2, <1>3, <2>2
    <3>2. SpentOn(u, {today}) = 0
      BY <3>1, NothingSpent
    <3>3. Reset(l).daily = 0
      BY <1>2, <1>3, <2>2 DEF Reset, RGLimit
    <3> QED
      BY <1>2, <1>4, <3>2, <3>3
  <2> QED
    BY <2>1, <2>2
<1>7. b <= Reset(l).weekly /\ Reset(l).weekly \in Nat /\ Reset(l).weekly <= WeeklyLimit
  <2>1. CASE l.week = w
    <3>1. SpentOn(u, DaysIn(w)) <= l.weekly
      BY <1>1, <2>1 DEF LimInv, Totals
    <3>2. SpentOn(u, DaysIn(w)) \in Nat
      BY SpentWeighs DEF LimInv
    <3>3. Reset(l).weekly = l.weekly
      BY <1>1, <1>2, <1>3, <2>1 DEF Reset, RGLimit
    <3> QED
      BY <1>2, <1>3, <1>5, <3>1, <3>2, <3>3
  <2>2. CASE l.week # w
    <3>1. ASSUME NEW d \in DaysIn(w) \cap Days PROVE ~(d <= limits[u].day)
      <4>1. WeekOf(d) = w /\ d \in Days
        BY <3>1 DEF DaysIn
      <4>2. d <= l.day => w <= l.week
        BY <1>3, <4>1, WeeksPass
      <4> QED
        BY <1>1, <1>2, <1>3, <2>2, <4>2
    <3>2. SpentOn(u, DaysIn(w)) = 0
      BY <3>1, NothingSpent
    <3>3. Reset(l).weekly = 0
      BY <1>1, <1>2, <1>3, <2>2 DEF Reset, RGLimit
    <3> QED
      BY <1>2, <1>5, <3>2, <3>3
  <2> QED
    BY <2>1, <2>2
<1>8. PICK m, n : m = Reset(l).daily /\ n = Reset(l).weekly
  OBVIOUS
<1>9. /\ CheckRGLimit(u).daily = AtLeastZero(DailyLimit - m)
      /\ CheckRGLimit(u).weekly = AtLeastZero(WeeklyLimit - n)
  BY <1>1, <1>8 DEF CheckRGLimit, RemainingDaily, RemainingWeekly
<1>10. /\ a + AtLeastZero(DailyLimit - m) <= DailyLimit
       /\ b + AtLeastZero(WeeklyLimit - n) <= WeeklyLimit
  <2>1. /\ a \in Nat /\ b \in Nat /\ m \in Nat /\ n \in Nat
        /\ a <= m /\ m <= DailyLimit /\ b <= n /\ n <= WeeklyLimit
    BY <1>4, <1>5, <1>6, <1>7, <1>8
  <2> QED
    BY <1>2, <2>1 DEF AtLeastZero
<1> QED
  BY <1>1, <1>9, <1>10

\* The account holds of every behaviour.
LEMMA LimInvHolds == Spec => [](IndInv /\ LimInv)
<1>1. Init => IndInv /\ LimInv
  BY InitOK, InitLim
<1> QED
  BY <1>1, NextLim, PTL DEF Spec

\* What a user is told may still be staked today and this week never exceeds what
\* the limits leave beside the orders placed, as long as no two limit checks of the
\* user overlapped and no request of the user with a negative price was let past
\* them: CheckAndUpdate holds no lock, and nothing checks the price before it.
THEOREM LimitsHold == Spec => []ReportedLimitsHold
  BY LimInvHolds, LimInvReports, PTL
=============================================================================
