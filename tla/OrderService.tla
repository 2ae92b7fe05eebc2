---------------------------- MODULE OrderService ----------------------------
(***************************************************************************)
(* order-service: placing, reading and cancelling orders, the daily and    *)
(* weekly betting limits, and the consumer that cancels the pending orders *)
(* of a voided market.  Requests run concurrently; each statement on the   *)
(* database or the cache is a step.  An order is named by its idempotency  *)
(* key, which the orders table holds UNIQUE, and a client that repeats a   *)
(* key repeats the order.  Events are published by detached goroutines.    *)
(* No one checks the price of a request before the limits: it may be zero  *)
(* or negative, and only the row of the order has to have a positive one.  *)
(*                                                                         *)
(* The service is modelled as its packages define it, with the wallet and  *)
(* market clients they declare and the consumer calling the service;       *)
(* cmd/server/main.go has stubs for the three, and does not build.         *)
(***************************************************************************)
EXTENDS Integers, FiniteSets, FiniteSetsExt

CONSTANTS Users, Markets,
          Keys,         \* idempotency keys: the orders clients place
          Sessions,     \* request handlers that may run at once
          UserOf, MarketOf, Stake,   \* of each key
          DailyLimit, WeeklyLimit,   \* RGDailyLimitCoins, RGWeeklyLimitCoins
          DaysInWeek,
          Midnights,    \* bound: days a behaviour starts on, or sees the end of
          MaxRequests,  \* bound: requests that are sent
          MaxFaults     \* bound: failed statements, lost events, crashes

ASSUME KeysAssumption ==
    /\ UserOf \in [Keys -> Users] /\ MarketOf \in [Keys -> Markets]
    /\ Stake \in [Keys -> Int]
    /\ "none" \notin Keys /\ "voider" \notin Sessions

ASSUME LimitAssumption ==
    /\ DailyLimit \in Nat /\ WeeklyLimit \in Nat /\ DaysInWeek \in Nat \ {0}
    /\ Midnights \subseteq Nat /\ MaxRequests \in Nat /\ MaxFaults \in Nat

VARIABLES
    orders,   \* status of the row of each key, "none" while there is no row
    limits,   \* the rg_limits row of each user
    cache,    \* orders of which Redis holds a copy
    market,   \* status the market service reports
    voids,    \* market.voided messages not read yet
    pc, req,  \* where a handler is, and the key it works on
    seen,     \* the order status a cancel has read
    lim,      \* the RGLimit a handler works on
    work,     \* orders the consumer has listed and not come to
    running,  \* detached goroutines: events still to be written
    topic,    \* events the brokers hold
    today,
    charged,  \* history: day whose total each order was added to, -1 if none
    started,  \* history: how often each event's goroutine was started
    lapsed,   \* history: users whose totals have lost a stake: two of their limit
              \* checks overlapped, or a negative stake was added
    sent, faults   \* counters of the bounds

tables  == <<orders, limits, charged>>
handler == <<pc, req, seen, lim>>
events  == <<running, topic, started>>
outside == <<market, voids, today, lapsed, faults>>
vars == <<tables, cache, handler, work, events, outside, sent>>

-----------------------------------------------------------------------------
Statuses == {"pending", "matched", "settled", "cancelled", "failed"}

ValidStatusTransitions ==
    {<<"pending", "matched">>, <<"pending", "cancelled">>, <<"pending", "failed">>,
     <<"matched", "settled">>, <<"matched", "failed">>}

\* The consumer calls CancelOrder as the handlers do.
Voider    == "voider"
Processes == Sessions \cup {Voider}
Placed    == {"placed"} \X Keys
Events    == {"placed", "cancelled"} \X Keys
Days      == {0} \cup Midnights \cup {d + 1 : d \in Midnights}

K(p) == req[p]
U(p) == UserOf[req[p]]

\* mondayMidnight, on a server whose clock is UTC: the week a day falls in.
WeekOf(day) == day \div DaysInWeek

\* A row of rg_limits: totals, and the day and week they were last reset in.
NoLimit == [exists |-> FALSE, daily |-> 0, weekly |-> 0, day |-> 0, week |-> 0]
RGLimit == [exists : BOOLEAN, daily : Int, weekly : Int, day : Days, week : Nat]

NewLimit == [NoLimit EXCEPT !.day = today, !.week = WeekOf(today)]

\* Mutant: midnight also starts the week again.
ResetWeekAtMidnight(l) ==
    IF l.day < today
    THEN [l EXCEPT !.daily = 0, !.weekly = 0, !.day = today, !.week = WeekOf(today)]
    ELSE l

\* Mutant: a reset is dated on the midnight to come.
ResetAhead(l) ==
    IF l.day < today THEN [l EXCEPT !.daily = 0, !.day = today + 1] ELSE l

\* The totals a new day, or a new week, starts from.
Reset(l) == [l EXCEPT
    !.daily  = IF l.day < today THEN 0 ELSE @,
    !.day    = IF l.day < today THEN today ELSE @,
    !.weekly = IF l.week < WeekOf(today) THEN 0 ELSE @,
    !.week   = IF l.week < WeekOf(today) THEN WeekOf(today) ELSE @]

AtLeastZero(n) == IF n < 0 THEN 0 ELSE n

\* GetLimits: what is left of the two limits, as a client is told.
RemainingDaily(u)  == AtLeastZero(DailyLimit - Reset(limits[u]).daily)
RemainingWeekly(u) == AtLeastZero(WeeklyLimit - Reset(limits[u]).weekly)

CheckRGLimit(u) == [daily |-> RemainingDaily(u), weekly |-> RemainingWeekly(u)]

\* What GetOrderByIdempotencyKey will find.
Exists(k) == orders[k] # "none"

Init ==
    /\ orders = [k \in Keys |-> "none"] /\ charged = [k \in Keys |-> -1]
    /\ limits = [u \in Users |-> NoLimit]
    /\ cache = {}
    /\ market = [m \in Markets |-> "active"] /\ voids = {}
    /\ pc = [p \in Processes |-> "idle"] /\ req = [p \in Processes |-> "none"]
    /\ seen = [p \in Processes |-> "none"]
    /\ lim = [p \in Processes |-> NoLimit]
    /\ work = {} /\ running = {} /\ topic = {}
    /\ started = [e \in Events |-> 0]
    /\ today \in Midnights /\ lapsed = {} /\ sent = 0 /\ faults = 0

Goto(p, l) == pc' = [pc EXCEPT ![p] = l]
Fault      == faults < MaxFaults /\ faults' = faults + 1

\* The handler answers and its locals go out of scope.
Return(p) ==
    /\ Goto(p, "idle")
    /\ req' = [req EXCEPT ![p] = "none"]
    /\ seen' = [seen EXCEPT ![p] = "none"]
    /\ lim' = [lim EXCEPT ![p] = NoLimit]

\* A goroutine that is to write event e is started.
Publish(e) ==
    /\ running' = running \cup {e}
    /\ started' = [started EXCEPT ![e] = @ + 1]
    /\ UNCHANGED topic

\* A handler takes a request.
Enter(p, k, l) ==
    /\ p # Voider /\ pc[p] = "idle"
    /\ sent < MaxRequests /\ sent' = sent + 1
    /\ Goto(p, l)
    /\ req' = [req EXCEPT ![p] = k]
    /\ UNCHANGED <<tables, cache, lim, work, events, outside>>

-----------------------------------------------------------------------------
(* CreateOrder *)

\* CreateOrder as far as its limit check, for a request that the rate limit,
\* the eligibility, outcome and balance checks let pass and whose market is
\* active; one that is refused leaves nothing behind.
BeginCreate(p, k) ==
    /\ market[MarketOf[k]] = "active"
    /\ Enter(p, k, "limit")
    /\ UNCHANGED seen

Checking(q) == pc[q] \in {"newlimit", "check", "charge"}

ReadLimit(p) ==
    /\ pc[p] = "limit"
    /\ lim' = [lim EXCEPT ![p] =
                  IF limits[U(p)].exists THEN limits[U(p)] ELSE NewLimit]
    /\ Goto(p, IF limits[U(p)].exists THEN "check" ELSE "newlimit")
    /\ lapsed' = IF \E q \in Sessions \ {p} : Checking(q) /\ U(q) = U(p)
                  THEN lapsed \cup {U(p)} ELSE lapsed
    /\ UNCHANGED <<tables, cache, req, seen, work, events,
                   market, voids, today, faults, sent>>

\* INSERT ... ON CONFLICT (user_id) DO NOTHING; the row it returns is not used.
LimitCreated(p) ==
    /\ limits' = [limits EXCEPT ![U(p)] =
                     IF @.exists THEN @ ELSE [lim[p] EXCEPT !.exists = TRUE]]
    /\ UNCHANGED <<orders, charged, lapsed>>

CreateLimit(p) ==
    /\ pc[p] = "newlimit"
    /\ LimitCreated(p)
    /\ Goto(p, "check")
    /\ UNCHANGED <<cache, req, seen, lim, work, events, market, voids, today, faults, sent>>

Charging(p) == LET l == Reset(lim[p])
               IN  [l EXCEPT !.exists = TRUE, !.daily = @ + Stake[K(p)],
                             !.weekly = @ + Stake[K(p)]]

CheckLimit(p) ==
    /\ pc[p] = "check"
    /\ IF /\ Charging(p).daily <= DailyLimit
          /\ Charging(p).weekly <= WeeklyLimit
       THEN /\ lim' = [lim EXCEPT ![p] = Charging(p)]
            /\ Goto(p, "charge")
            /\ UNCHANGED <<req, seen>>
       ELSE Return(p)
    /\ UNCHANGED <<tables, cache, work, events, outside, sent>>

\* The whole row is written back.
LimitCharged(p) ==
    /\ limits' = [limits EXCEPT ![U(p)] = lim[p]]
    /\ lapsed' = IF Stake[K(p)] < 0 THEN lapsed \cup {U(p)} ELSE lapsed
    /\ UNCHANGED <<orders, charged>>

ChargeLimit(p) ==
    /\ pc[p] = "charge"
    /\ LimitCharged(p)
    /\ Goto(p, "insert")
    /\ UNCHANGED <<cache, req, seen, lim, work, events, market, voids, today, faults, sent>>

\* The day the handler took for today when it checked the limits.
ChargedDay(p) == lim[p].day

\* INSERT ... ON CONFLICT (idempotency_key) DO NOTHING, of a positive price.
OrderInserted(p) ==
    /\ ~Exists(K(p)) /\ Stake[K(p)] > 0
    /\ orders' = [orders EXCEPT ![K(p)] = "pending"]
    /\ charged' = [charged EXCEPT ![K(p)] = ChargedDay(p)]
    /\ UNCHANGED <<limits, lapsed>>

\* Mutant: an idempotency hit is announced like a new order.
InsertAnnounced(p) ==
    /\ pc[p] = "insert"
    /\ OrderInserted(p) \/ (Exists(K(p)) /\ UNCHANGED <<tables, lapsed>>)
    /\ Publish(<<"placed", K(p)>>)
    /\ Return(p)
    /\ UNCHANGED <<cache, work, market, voids, today, faults, sent>>

\* A hit returns the existing order, whatever became of it, and publishes
\* nothing; the row of a price that is not positive is refused.
InsertOrder(p) ==
    /\ pc[p] = "insert"
    /\ \/ OrderInserted(p) /\ Publish(<<"placed", K(p)>>)
       \/ /\ Exists(K(p)) \/ Stake[K(p)] <= 0
          /\ UNCHANGED <<tables, lapsed, events>>
    /\ Return(p)
    /\ UNCHANGED <<cache, work, market, voids, today, faults, sent>>

-----------------------------------------------------------------------------
(* GetOrder *)

\* The cache is asked first, but returns decoded JSON, which is never the *Order
\* that GetOrder asserts it to be: every lookup ends as a miss.
BeginGet(p, k) ==
    /\ Exists(k)
    /\ Enter(p, k, "read")
    /\ UNCHANGED seen

\* The row is read, which will be the answer.
ReadOrder(p) ==
    /\ pc[p] = "read"
    /\ Goto(p, "fill")
    /\ UNCHANGED <<tables, cache, req, seen, lim, work, events, outside, sent>>

\* The cache is written; an error of Redis is logged and changes nothing.
CacheBecomes(copies) ==
    \/ cache' = copies /\ UNCHANGED faults
    \/ Fault /\ UNCHANGED cache

FillCache(p) ==
    /\ pc[p] = "fill"
    /\ CacheBecomes(cache \cup {K(p)})
    /\ Return(p)
    /\ UNCHANGED <<tables, work, events, market, voids, today, lapsed, sent>>

-----------------------------------------------------------------------------
(* CancelOrder *)

\* Only a status that may still become cancelled.
Cancellable(k) == <<orders[k], "cancelled">> \in ValidStatusTransitions

\* CancelOrder as far as its read of the order, which the caller has to own.
BeginCancel(p, k, u) ==
    /\ u = UserOf[k] /\ Cancellable(k)
    /\ Enter(p, k, "update")
    /\ seen' = [seen EXCEPT ![p] = orders[k]]

\* Mutant: the status read is not compared with the row's.
UpdateUnconditionally(p) ==
    /\ pc[p] = "update"
    /\ orders' = [orders EXCEPT ![K(p)] = "cancelled"]
    /\ Goto(p, "cancelled")
    /\ UNCHANGED <<charged, limits, cache, req, seen, lim, work,
                   events, outside, sent>>

\* UPDATE ... WHERE id = $2 AND status = $3.
OrderCancelled(p) ==
    /\ orders[K(p)] = seen[p]
    /\ orders' = [orders EXCEPT ![K(p)] = "cancelled"]
    /\ UNCHANGED <<limits, charged, lapsed>>

UpdateStatus(p) ==
    /\ pc[p] = "update"
    /\ \/ /\ OrderCancelled(p)
          /\ Goto(p, "cancelled")
          /\ UNCHANGED <<req, seen, lim>>
       \/ /\ orders[K(p)] # seen[p]
          /\ Return(p) /\ UNCHANGED <<tables, lapsed>>
    /\ UNCHANGED <<cache, work, events, market, voids, today, faults, sent>>

\* The order is read again, its cached copy deleted, its event handed over.
FinishCancel(p) ==
    /\ pc[p] = "cancelled"
    /\ CacheBecomes(cache \ {K(p)})
    /\ Publish(<<"cancelled", K(p)>>)
    /\ Return(p)
    /\ UNCHANGED <<tables, work, market, voids, today, lapsed, sent>>

\* The process dies with every handler, goroutine and listing it holds.
Die ==
    /\ pc' = [p \in Processes |-> "idle"] /\ req' = [p \in Processes |-> "none"]
    /\ seen' = [p \in Processes |-> "none"]
    /\ lim' = [p \in Processes |-> NoLimit]
    /\ work' = {} /\ running' = {}
    /\ UNCHANGED <<topic, started>>

\* The error of the second read is ignored: the goroutine dereferences a nil
\* order, and a panic there ends the process.
FinishWithoutOrder(p) ==
    /\ pc[p] = "cancelled"
    /\ Fault
    /\ cache' = cache \ {K(p)}
    /\ Die
    /\ UNCHANGED <<tables, market, voids, today, lapsed, sent>>

-----------------------------------------------------------------------------
(* The consumer of market.voided *)

\* Mutant: orders the engine has already matched are listed.
ListMatchedOrders(m) == {k \in Keys : orders[k] = "matched" /\ MarketOf[k] = m}

ListPendingOrders(m) == {k \in Keys : orders[k] = "pending" /\ MarketOf[k] = m}

\* ReadMessage commits the message before it is handled.
HandleMarketVoided(m) ==
    /\ pc[Voider] = "idle" /\ work = {}
    /\ m \in voids
    /\ voids' = voids \ {m}
    /\ work' = ListPendingOrders(m)
    /\ UNCHANGED <<tables, cache, handler, events, market, today, lapsed, faults, sent>>

\* The listing fails: the error is logged and the message is gone.
ListFails(m) ==
    /\ pc[Voider] = "idle" /\ work = {}
    /\ m \in voids
    /\ Fault
    /\ voids' = voids \ {m}
    /\ UNCHANGED <<tables, cache, handler, work, events, market, today, lapsed, sent>>

\* The listed orders are cancelled one after the other, here in any order.
CancelNext(k) ==
    /\ pc[Voider] = "idle"
    /\ k \in work
    /\ work' = work \ {k}
    /\ IF Cancellable(k)
       THEN /\ Goto(Voider, "update")
            /\ req' = [req EXCEPT ![Voider] = k]
            /\ seen' = [seen EXCEPT ![Voider] = orders[k]]
       ELSE UNCHANGED <<pc, req, seen>>
    /\ UNCHANGED <<tables, cache, lim, events, outside, sent>>

\* CancelOrder fails on its first statement and the error is logged.
CancelNextFails(k) ==
    /\ pc[Voider] = "idle"
    /\ k \in work
    /\ Fault
    /\ work' = work \ {k}
    /\ UNCHANGED <<tables, cache, handler, events, market, voids, today, lapsed, sent>>

-----------------------------------------------------------------------------
(* Publishing, faults and the world outside *)

WriteMessage(e) ==
    /\ e \in running
    /\ running' = running \ {e}
    /\ topic' = topic \cup {e}
    /\ UNCHANGED <<tables, cache, handler, work, started, outside, sent>>

\* The brokers do not answer: the failure is logged and the event is gone.
WriteFails(e) ==
    /\ e \in running
    /\ Fault
    /\ running' = running \ {e}
    /\ UNCHANGED <<tables, cache, handler, work, topic, started,
                   market, voids, today, lapsed, sent>>

\* What p's statement does to the database.
StatementOf(p) ==
    \/ pc[p] = "newlimit" /\ LimitCreated(p)
    \/ pc[p] = "charge" /\ LimitCharged(p)
    \/ pc[p] = "insert" /\ OrderInserted(p)
    \/ pc[p] = "update" /\ OrderCancelled(p)

\* A statement fails, or takes effect while its answer is lost; the handler
\* answers with the error and announces nothing, the consumer logs it.
StatementFails(p) ==
    /\ pc[p] \in {"limit", "newlimit", "charge", "insert", "read", "update"}
    /\ Fault
    /\ StatementOf(p) \/ UNCHANGED <<tables, lapsed>>
    /\ Return(p)
    /\ UNCHANGED <<cache, work, events, market, voids, today, sent>>

Crash ==
    /\ Fault
    /\ Die
    /\ UNCHANGED <<tables, cache, market, voids, today, lapsed, sent>>

\* The market service voids a market and says so.
VoidMarket(m) ==
    /\ market[m] = "active"
    /\ market' = [market EXCEPT ![m] = "voided"]
    /\ voids' = voids \cup {m}
    /\ UNCHANGED <<tables, cache, handler, work, events, today, lapsed, faults, sent>>

NextDay ==
    /\ today \in Midnights
    /\ today' = today + 1
    /\ UNCHANGED <<tables, cache, handler, work, events, market, voids, lapsed, faults, sent>>

-----------------------------------------------------------------------------
CreateStep(p) == \/ ReadLimit(p) \/ CreateLimit(p) \/ CheckLimit(p)
                 \/ ChargeLimit(p) \/ InsertOrder(p)
GetStep(p)    == ReadOrder(p) \/ FillCache(p)
CancelStep(p) == UpdateStatus(p) \/ FinishCancel(p)
Handle(p) == CreateStep(p) \/ GetStep(p) \/ CancelStep(p)
Consume == \/ \E m \in Markets : HandleMarketVoided(m)
           \/ \E k \in Keys : CancelNext(k)

Failure == \/ \E p \in Processes : FinishWithoutOrder(p) \/ StatementFails(p)
           \/ \E m \in Markets : ListFails(m)
           \/ \E k \in Keys : CancelNextFails(k)
           \/ \E e \in Events : WriteFails(e)
           \/ Crash

Next ==
    \/ \E p \in Sessions, k \in Keys :
           BeginCreate(p, k) \/ BeginGet(p, k) \/ \E u \in Users : BeginCancel(p, k, u)
    \/ \E p \in Processes : Handle(p)
    \/ Consume
    \/ \E e \in Events : WriteMessage(e)
    \/ Failure
    \/ \E m \in Markets : VoidMarket(m)
    \/ NextDay

\* The process goes on with what it has begun: requests are finitely many, so
\* this is as weak as a fairness can be that lets each of them end.
Fairness == WF_vars(\/ \E p \in Processes : Handle(p)
                    \/ \E e \in Events : WriteMessage(e)
                    \/ Consume)

Spec == Init /\ [][Next]_vars /\ Fairness

-----------------------------------------------------------------------------
\* Every variable keeps its type.
TypeOK ==
    /\ orders \in [Keys -> Statuses \cup {"none"}]
    /\ charged \in [Keys -> Days \cup {-1}]
    /\ \A k \in Keys : charged[k] # -1 => Stake[k] > 0
    /\ limits \in [Users -> RGLimit]
    /\ cache \subseteq Keys
    /\ market \in [Markets -> {"active", "voided"}] /\ voids \subseteq Markets
    /\ pc \in [Processes -> {"idle", "limit", "newlimit", "check", "charge",
                             "insert", "read", "fill", "update", "cancelled"}]
    /\ req \in [Processes -> Keys \cup {"none"}]
    /\ \A p \in Processes : pc[p] # "idle" => req[p] \in Keys
    /\ seen \in [Processes -> Statuses \cup {"none"}]
    /\ lim \in [Processes -> RGLimit]
    /\ work \subseteq Keys
    /\ running \subseteq Events /\ topic \subseteq Events
    /\ started \in [Events -> Nat]
    /\ today \in Days /\ lapsed \subseteq Users
    /\ sent \in 0..MaxRequests /\ faults \in 0..MaxFaults

\* However often an order is sent, and however a client's cancel races the
\* cancel of its voided market, the order is announced once as placed and at
\* most once as cancelled: the unique key and the compare-and-set decide.
AnnouncedOnce == \A e \in Events : started[e] <= 1

StakedOn(u, day) ==
    MapThenSumSet(LAMBDA k : Stake[k], {k \in Keys : UserOf[k] = u /\ charged[k] = day})
StakedInWeek(u, w) ==
    MapThenSumSet(LAMBDA k : Stake[k],
        {k \in Keys : UserOf[k] = u /\ charged[k] # -1 /\ WeekOf(charged[k]) = w})

\* What CheckRGLimit reports as left, with what the user's orders of the day and
\* of the week already stake, is within the limits: over midnights, failed or
\* unanswered statements and repeated requests.  It is not so, and the limits are
\* not kept, for a user two of whose checks overlapped, which loses a stake, or
\* whose totals a request with a negative price has lowered.
ReportedLimitsHold == \A u \in Users \ lapsed :
    /\ StakedOn(u, today) + CheckRGLimit(u).daily <= DailyLimit
    /\ StakedInWeek(u, WeekOf(today)) + CheckRGLimit(u).weekly <= WeeklyLimit

\* Every order that is pending when its market's void is announced ends
\* cancelled, also when its owner cancels it meanwhile, unless something failed.
\* (An order of a price that is not positive is never pending.)
VoidedAreCancelled ==
    \A k \in {l \in Keys : Stake[l] > 0} : (orders[k] = "pending" /\ MarketOf[k] \in voids)
                      ~> (orders[k] = "cancelled" \/ faults > 0)
=============================================================================
