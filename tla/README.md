# PredictX: TLA+ models and proofs

PredictX is a prediction market: users place orders on the outcomes of a market, a
matching engine turns them into trades, a resolution service decides the outcome, and a
settlement service divides the pool among the winners through a wallet service.  The
services run apart, share no database, and talk over gRPC and Kafka topics.

## The system

| Part (under `src/services/`) | State | Operations | Hard parts |
|---|---|---|---|
| order-service (Go) | orders, bet limits and daily totals in PostgreSQL; order and limit caches in Redis | CreateOrder, GetOrder, CancelOrder, void consumer, limits | read-modify-write of limits, cancel against void, idempotent retry, detached publish, stale cache |
| matching-engine (Rust) | per market: order book, AMM quantities, sequence number in a task's memory; task map; RocksDB log; trades table | submit order, void, snapshot | price-time priority, book then AMM, detached stores and publishes, restart without replay |
| settlement-service (Go) | positions, settlements, entries in PostgreSQL | RecordPosition, SettleMarket, RefundMarket | three concurrent consumers, partial failure of payouts, resumption, refund against settlement |
| wallet-service (Go, SQL) | wallets, transactions, ledger in PostgreSQL; balance cache in Redis; deposit and exclusion settings | Deposit, Spend, Refund, Payout, DailyReward, GetBalance, responsible gambling | concurrent sessions, idempotency keys, row locks, cache races, lost updates of settings |
| market-service (Go) | markets in PostgreSQL, cache in Redis | create, status changes, resolve, void | status machine, events not retried |
| resolution-service (Python) | resolutions, reports, judges, appeals, insurance fund | oracle proposal, confirmation pass, community, judge and appeal tiers | passes over stale lists, crash between commit and event, overwriting decisions, overlapping reports and panel decisions |
| websocket-gateway (Elixir) | sockets only | fan-out | none that decides anything |
| mobile app (`src/apps/mobile`) | client stores | user interface | out of scope |

How they interact:

    order-service --orders.placed--> matching-engine --trades.matched--> settlement-service
    market-service --market.voided--> order-service, matching-engine, settlement-service
    resolution-service --markets.resolved--> market-service, settlement-service
    order-service --CheckBalance--> wallet-service <--Credit-- settlement-service

What makes each part correct:

- settlement: a payout is what the persisted entry says and is given once; the pool is
  not exceeded; a completed settlement never changes; the profit and loss a user is told is
  the one decided; a handler returns.
- wallet: no balance is negative; the ledger explains the balance; a key moves money
  once; success means applied; sessions do not deadlock; the cache converges.
- matching: price-time priority; no crossed book between orders; all shares accounted
  for between the book and the AMM; trades ordered by sequence number.
- responsible gambling: nobody is granted a deposit or an order who was protected all the
  while; protection is lost to an entitled request only (this one fails, see below: it is
  also lost to a write of an old row).
- order: an order is announced at most once whatever is repeated or races; what the limits
  report as left is left, to a user whose checks do not overlap and who names no negative
  price; a void cancels what is pending.
- market manager: one task at a time writes a market's book; orders are lost only around a
  void, a panic or a restart; what is visible was logged; calls return.
- market: a row moves along the status machine and is announced as it moved; a result that
  finds its market pending is applied unless a fault hits it or a PATCH ends the market
  between its read and its update.
- resolution: an event tells what a decision committed; reports past the threshold dispute,
  by at most one report late for each concurrent request; an appeal is compensated at most
  once for each request that decides it at a time.

## Modules

| Module | What it is |
|---|---|
| `Settlement` | settlement-service for one market |
| `PayoutPromise` | what a settlement promises, abstractly |
| `MCSettlement` | the instance of `Settlement` that TLC checks |
| `SettlementProofs` | theorems about `Settlement` |
| `Wallet` | wallet-service: balances, ledger, cache |
| `LedgerPromise` | what the wallet promises, abstractly |
| `MCWallet` | the instance of `Wallet` that TLC checks |
| `WalletProofs` | theorems about `Wallet` |
| `Matching` | one market's task in the matching engine: book, AMM, process_order |
| `MCMatching` | the instance of `Matching` that TLC checks |
| `MatchingProofs` | theorems about `Matching` |
| `OrderService`, `MCOrderService` | order-service, and its instance |
| `MarketManager`, `MCMarketManager` | the matching engine around the book: consumers, task map, log, trade store, topic; and its instance |
| `MarketLifecycle`, `MCMarketLifecycle` | market-service, and its instance |
| `Resolution`, `MCResolution` | resolution-service for one market, and its instance |
| `ResponsibleGambling`, `MCResponsibleGambling` | wallet-service: exclusion settings and deposit limits, and its instance |
| `OrderServiceProofs`, `MarketManagerProofs`, `MarketLifecycleProofs`, `ResolutionProofs`, `ResponsibleGamblingProofs` | theorems about these modules |

Definitions whose comment starts with "Mutant:" are plausible bugs of the definition that
follows them.  No specification uses them; substituting one for its original makes a
property fail, which shows that the property depends on that piece of code.

### Settlement

State: the three tables (`position`, `settlement`, `entry`), what the wallet has credited
under the three families of idempotency keys (`paidOut`, `refunded`, `insurance`), and
the program counter and locals of each consumer's handler.  Each database or wallet call
is one action: `CheckExisting`, `LoadPositions`, `Tally`, `CreateSettlement`,
`LockPositions`, `CreateEntries`, `ListPendingEntries`, `SkipEntry`, `CreditEntry`,
`MarkEntry`, `DistributeFailed`, `CompleteSettlement` and `MarkPositionsSettled` are
SettleMarket; `LoadRefundable`, `RefundPosition` and `MarkPositionsRefunded` are
RefundMarket; `ConsumeOrderMatched` is the whole handler of trades.matched and
`PostPosition` the same upsert over HTTP, which refuses a stake of zero.  `GetUserPnL`, which
only reads, is an operator on the state: it works the result out again from the positions.  The goroutines of
distributePayout are the choice of the user in `CreditEntry` and `MarkEntry`; the
semaphore only bounds how many run at once and is left out.

Failure: a wallet call may fail before or after the wallet applied it; an update whose
error the code ignores may not happen; a handler may stop at any point (`Abort`), an error
return and a crash alike.  ReadMessage commits the offset before the handler runs, so a
stopped handler is not run again for its message, but another message may come.

Markets share no row, so one market is modelled.  Keys that contain a settlement or market
id are therefore keyed by user only, as in the code's format strings.  The stub of the
wallet client and fraud alerts are not modelled: the wallet is the interface the client
declares, with the deduplication `Wallet` is shown to have.

Behaviours the model has and the properties do not forbid, because no document does:

- A handler that stops between CreateSettlement and CreateSettlementEntries leaves a
  settlement without entries; the next message completes it with nobody paid.
- Of a user's positions on two outcomes only the first listed gets an entry: the
  key of an entry names the user only.
- A trade recorded between the listing and the lock of positions is in no pool.
- A resumption takes the pending entries only, as the comment on SettleMarket says: an entry
  marked failed stays unpaid though the settlement completes.
- A user whose market is voided while it settles can get both a refund and a payout.

### Wallet

State: the tables (`exists`, `frozen`, `balance`, `txns`, `ledger`), the Redis `cache`, and
for each worker (a goroutine serving one request) its point, request and balance.  A write
is the session of ApplyTransaction: `EnsureWallet`, `ReadWallet`, `InsertTxn`,
`ApplyDoubleEntry`, `Commit`, `Invalidate`.  PostgreSQL's locks are the predicates
`KeyHeld` (the unique index makes a second insert of a key wait for the first) and
`RowHeld` (FOR UPDATE); what a session wrote becomes visible at `Commit`.  Between the
apply and the commit nothing is visible, so the two statements of the stored procedure are
one action.  GetBalance is `ReadCache`, `LoadBalance`, `FillCache`, `Reply`; a gRPC write
goes on to it, and `CheckBalance` is its read of the table, which leaves the cache alone.  A
Redis error is ignored, as in the code.  `Abort` ends a request anywhere
and rolls an open session back; after `Commit` it is a lost answer.  `Freeze` (an operator
clears is_active) and `Expire` (the TTL) are external.

The six requests are `Deposit`, `Spend`, `Refund`, `Payout` and `DailyReward`, which differ
in sign, type and in what is asked before, and the read.  What a deposit asks of the
exclusion settings is in `ResponsibleGambling`.  Not modelled: fraud alerts, the
payments.completed event.

### Matching

State: `book` (a queue of resting orders per side and price), `seq`, the AMM's `shares`, and
process_order's locals.  `AddOrder`, `ExecuteMatch`, `StopMatching`, `FillFromAmm` and
`RestRemainder` are the steps of process_order, which runs without interruption in the
market's task; `VoidMarket` is the void command.  The LMSR arithmetic is floating point:
`Spot` and `Average` are constants of the module, and `MCMatching` tabulates the rounded
values of the default liquidity for quantities in lots of 100 shares: of `fill_order` as it is,
which adds the greatest quantity to a logarithm without dividing it by the liquidity, so that
most purchases average the 99 they are clamped to.  An order may state a price above 99
(`MaxPrice`), as into_order does not look; a quantity is positive, by the orders table's CHECK.  `placed` and
`dropped` are history variables.

A cancel command exists in the task but nothing in `src/` sends it, so it is not an action.
A level of the BTreeMap exists when its queue is not empty: every modelled operation prunes
the levels it empties.

What the code does and the model follows: a match pairs any YES order with any NO order of
the market, whatever outcome the NO order names; the AMM sells to a NO order shares of the
order's outcome at the YES price; the average price of an AMM fill may exceed the limit
(only the spot price is compared); after an AMM fill all the user's orders on the outcome
leave the book.

### OrderService

State: the tables (`orders` by idempotency key, `limits`), the Redis `cache`, the program
counter and locals of each request handler and of the void consumer, the detached goroutines
that still have an event to write (`running`) and what the brokers hold (`topic`).
CreateOrder is `BeginCreate`, `ReadLimit`, `CreateLimit`, `CheckLimit`, `ChargeLimit` and
`InsertOrder`; GetOrder `BeginGet`, `ReadOrder` and `FillCache`; CancelOrder `BeginCancel`,
`UpdateStatus` and `FinishCancel`.  The consumer of market.voided is `HandleMarketVoided` and
`CancelNext`, which runs the same CancelOrder as process `Voider`.  Midnight passes between
any two statements.

Failure: a statement may fail, before or after it took effect (`StatementFails`, `ListFails`,
`CancelNextFails`), an event may not reach the brokers (`WriteFails`), the process may stop
(`Crash`), and the second read of a cancelled order may fail, after which a goroutine
dereferences a nil order and the process ends (`FinishWithoutOrder`).  A Redis error is ignored.

`main.go` passes stubs for the wallet and market clients and a nil service to the consumer,
and does not compile; the service is modelled as its packages define it and its tests build
it.  The consumer's default topic is markets.voided, the market service's market.voided: the
model has them configured to agree.  Checks that refuse a request before any write (rate limit,
eligibility, outcome, market, balance) are the precondition of `BeginCreate`.  No check looks
at the price, so a stake is any integer.

What the code does and the model follows: limits are charged before the insert, so a
repeated or failed request is charged again; two checks of one user that overlap lose a
charge, and a request of a negative price lowers the totals before the table refuses its row
(both are `lapsed`); the cache never hits, since the decoded value has another type than the
one asserted, so GetOrder always answers with the row and no read can be stale.

### MarketManager

State: the manager's `map` of one market, each successive task's `state`, channel (`queue`),
`book` and sequence number, the two Kafka consumers with the offsets they have read, done and
committed, a caller of get_snapshot, the write-ahead log, the detached inserts and publishes,
the trades table and the topic.  `SubmitOrder` and `SendOrder` are submit_order before and at
its await, `ReceiveVoid` and `SendVoid` void_market, which holds its DashMap reference across
the await (`MapBorrowed`); `Rest`, `MatchClob`, `FillAmm`, `Panic`, `LogTrade`, `TakeSnapshot`,
`TakeVoid` and `Exit` are the task.  `Matching` has process_order; here an order is one share
with the three results it can have, so that the sequence numbers advance as they do there.

Failure: an append, an insert or a publication may fail; an outcome the AMM does not have
panics the task, which leaves its closed channel in the map; `Restart` drops everything in
memory and goes on from a committed offset, without replaying the log.

What the code does and the model follows: a market voided with orders behind the void loses
them; the next order starts a task whose numbers begin again at 1, so its trades overwrite
log entries and violate the table's unique index; a second void that waits for room in the
channel of a task that is leaving the map deadlocks with it (`VoidedTwice`).  A DashMap
reference locks a shard of the map, so in the code the callers of other markets in the shard
wait as well; the model has one market and shows the wait of its own callers.

### MarketLifecycle

State: of each market the statuses its row went through (`history`), the cache entry, what
each request handler and the consumer are at, the announcements of detached goroutines, the
messages on markets.resolved.  `BeginUpdate`, `UpdateStatus`, `Invalidate` and, for a market
opened, `AnnounceActive` with its second read are the status change of the API and of the
consumer (`ReadMessage`), `BeginGet`, `CachedMarket`, `ReadMarket` and `FillCache` GetMarket,
which PATCH also answers with; `CreateMarket`, `ListResolvable` and `Publish` the rest.  `Close`
and `PublishResult` stand for the clock and the resolution service.

Failure: a statement or Redis call may fail, an update may take effect and its answer be lost,
a publication may be lost, the process may stop; the offset is committed before a message is
handled.

What the code does and the model follows: nothing moves an active market past its close time
to pending_resolution except a PATCH, so a result that arrives before it is refused and
gone.  A VOID result that meets a PATCH to resolved between its read and its update finds no row
to update: the market stays resolved, is never announced as voided, and the result is gone
(`preempted`).  The comment on VoidMarket says "regardless of current status"
(market_service.go:177); the code voids what may still be voided (:189), as its status table
says.  A cache entry may be older than the row for as long as its time to live: a read may
fill it late, its deletion may fail, and the process may stop before it.

### Resolution

State: the resolutions of one market (`row`), committed `reports`, appeals and fund payouts,
what each API request or confirmation pass is at, and the topic.  A step is a transaction, or
what runs between two: `CheckMarket`, `TriggerResolution`, `InsertProposal`; `ListProposed`,
`ConfirmProposal`; `BeginReport`, `InsertReport`, `CommitReport`; `SubmitAppeal`, `EndReview`,
`DecidePanel`, `ReadResolution`, `RejectAppeal`, `UpholdAppeal`; `EmitResolved` after each
decision.  A panel's decision is written, and the appeal's row locked, when the resolution is
read, and committed later.  What models and oracles answer is chosen freely.

Judges are not modelled: `submit_judge_decision` compares `datetime.utcnow()` with a column
that has a time zone (judges.py:76), which raises TypeError on every vote, so no verdict is
ever reached and assignments and their deadlines lead nowhere.

Failure: a publication may fail, a worker or the API may stop between commit and event
(`Crash`); both silence a decision for good, as no pass picks it up.

What the code does and the model follows:

- Decisions update the row by id whatever has become of it, so a proposal disputed after a pass
  listed it is confirmed, and told, all the same; the module's own doc says that reports pause
  settlement (community.py:4-6, :89).  `EnoughReportsDispute` says that the dispute is written,
  not that it lasts.
- Two panel decisions that both read an appeal as escalated are both committed: two upheld
  ones flip an outcome and pay twice, and a rejection may follow an upheld appeal.
- Overlapping reports do not count each other, and no constraint keeps two overlapping reports
  of one user apart.
- An appeal names a market that nothing compares with its resolution's (`Misnamed`): the event
  of an upheld one then goes to the market that was named.

### ResponsibleGambling

State: the two settings rows of each user, what each handler is at, the row it is about to
write, and the clock.  A change is `ReadToChange` (GetExclusionSettings and what StartCoolOff,
CancelCoolOff, SelfExclude or CancelSelfExclusion make of it in memory) and
`UpdateExclusionSettings`, which writes every column.  A check is `BeginCheck`,
`CheckExclusion`, `CheckLimit` (of a deposit) and `Grant`.  `GetDepositSettings` and
`UpdateDepositSettings` are one statement each.  `AssignCountry` is outside.

What the code does and the model follows: a concurrent change of the other setting is written
back with its old value, so a cool-off or a self-exclusion can be lost to a change that read
the row before (the run `rg_exclusion_reversed`); CancelSelfExclusion ends an exclusion for a
number of days whenever it is asked to, also before they are over; the deposits of a day are
recorded nowhere, so a limit bounds one deposit.

## Runs

| Run | Result | Instance |
|---|---|---|
| `settlement` | holds, 710,652 distinct states | 2 users, 2 outcomes, stakes 100 and 201, 2 trades, 2 messages, 1 abort |
| `settlement_failed_refunds` | violated | 1 trade, 2 messages, no abort |
| `wallet` | holds, 425,945 distinct states | 2 workers, 2 wallets, 3 keys, 6 requests, 3 sends, 1 abort |
| `wallet_answered_balance` | violated | the same without aborts |
| `matching` | holds, 586,752 distinct states | 3 users, 2 outcomes, 8 orders, 6 submitted, 4 lots per outcome |
| `matching_sequence_numbers` | violated | 3 submitted |
| `order_service` | holds, 1,011,632 distinct states | 2 handlers and the consumer, 3 orders of one user, 3 requests, 1 midnight, 1 fault |
| `market_manager` | holds, 388,961 distinct states | 3 messages, 2 voids, 3 tasks, channel of 1, 1 restart, 1 snapshot |
| `market_lifecycle` | holds, 3,790,798 distinct states | 1 market, 2 handlers and the consumer, 4 requests, 2 results, 1 fault |
| `resolution` | holds, 1,216,232 distinct states | 2 reporters, 2 appeals, 2 resolutions, 2 handlers, 1 pass, 3 requests, 1 fault |
| `responsible_gambling` | holds, 1,017,979 distinct states | 1 user, 2 handlers, 4 requests, 4 instants, 1 fault |
| `rg_exclusion_reversed` | violated | the same |

`settlement` checks the type invariant and `CreditedAsDecided`, `PoolConserved`,
`RefundWithinStake`, `PnLAsDecided`, `CompletedIsFinal`, `KeepsPromise` (refinement of `PayoutPromise`) and
`HandlerReturns`.  Two messages are enough for a settlement and its resumption, for two
settlements with different winners, and for a settlement racing a refund.  Two trades
give two winners who share a pool that does not divide (100 and 201 over a pool less fee),
a winner and a loser, and one user on both outcomes.  One abort cuts either handler
anywhere.

`wallet` checks the type invariant and `LedgerChained`, `AppliedOnce`,
`AcknowledgedIsApplied`, `EveryRequestReturns`, `CacheConverges` and `KeepsPromise`
(refinement of `LedgerPromise`).  Two workers are enough for each race (every lock has one
holder and one waiter); the requests hold a deposit, two spends it covers one at a
time, and a payout to another wallet under the deposit's key; three sends let a
request be sent twice next to another.

`matching` checks the type invariant and `Uncrossed`, `RemainderRests`, `SharesAccounted`,
`ClobTradesOrdered` and `PriceTimePriority`.  The orders have two at the same price and one
better, asks that cross some of them on the same and on the other outcome, one that takes
several bids in part, and ones that fall to the AMM.

`order_service` checks `AnnouncedOnce`, `ReportedLimitsHold` and `VoidedAreCancelled` beside
the type invariant.  Two handlers give each race of a create, a cancel, a repeated request and
a read, with the consumer as a third.  Of the three orders two take the daily limit but for one
unit, and both fit the week's, so each limit both allows and refuses; the third has a negative
price.  A behaviour passes one midnight, in the middle of a week, which must start the day's
total again and leave the week's; the midnight that ends a week is in the theorem only.

`market_manager` checks `SingleWriter`, `OrdersAccounted`, `VisibleIsLogged` and
`EveryCallReturns`.  The channel of one makes senders wait; two voids, three tasks and a
restart give a second life of the market before and after the process's own.

`market_lifecycle` checks `ChangesAsAnnounced` and `PendingResultsApply`.  Four requests take
a market through creation, activation and pending resolution with one to spare for a race
against the result.

`resolution` checks `EventsFollowTable`, `EnoughReportsDispute` and `PayoutPerDecision`.
Proposals and the pass cost no request, so three requests are two overlapping reports, an appeal
with two panel decisions on it, or a report beside an appeal, with a pass beside them.

`responsible_gambling` checks `GrantsRespectProtection` and `ProtectionLostOnlyUnseen`.  A
user's rows are independent of others', so one user is enough; cool-offs end within the
clock's range or beyond it.  `ProtectionLostOnlyUnseen` says in which way, and in no other, the
property that `rg_exclusion_reversed` refutes fails.

Deadlock is not checked in the passing runs because the bounds on messages, sends and
orders end every behaviour; `HandlerReturns`, `EveryRequestReturns`, `EveryCallReturns` and `VoidedAreCancelled` say
instead that work that was begun does not stay undone.  `matching` has no liveness property: process_order is a
loop over a finite book.

### Disagreements found

- `settlement_failed_refunds`: a comment says failed refunds stay open for retry; the update
  moves them to refunded with the others.
- `wallet_answered_balance`: "Fetch updated balance" reads the cache, which a concurrent
  read may have filled with the old balance.
- `matching_sequence_numbers`: the trades table declares a per-market sequence number with a
  unique index; an AMM trade takes the next number without advancing it, and a later CLOB
  trade can share it.
- `rg_exclusion_reversed`: RG_IMPLEMENTATION_SUMMARY.md:274 says that a permanent exclusion
  cannot be reversed; a cool-off started from a row read before the exclusion writes the whole
  row back and erases it.

Disagreements that are seen in the code without a run: a dispute does not halt a confirmation
that has listed the proposal (Resolution), VoidMarket does not void a market whatever its status
(MarketLifecycle), and a limit check is no limit to who names a negative price (OrderService).

### Bounds

`MaxTrades`, `MaxMessages`, `MaxAborts` (Settlement), `MaxSends`, `MaxAborts` (Wallet),
`MaxOrders`, `MaxShares` (Matching), `Midnights`, `MaxRequests`, `MaxFaults` (OrderService),
`Voids`, `MaxTasks`, `MaxRestarts`, `MaxSnapshots` (MarketManager), `MaxRequests`,
`MaxResults`, `MaxFaults` (MarketLifecycle), `Proposable`, `MaxRows`, `MaxRequests`,
`MaxFaults` (Resolution), `LastTime`, `MaxRequests`, `MaxFaults` (ResponsibleGambling).  `MaxPrice`
(Matching) is no bound of the model but the range of an order's price.  Each is a guard on the
action it bounds and nothing else, and the theorems hold for every value of them.

### Fairness

`Settlement!FairSpec` has weak fairness of each consumer's handler: the Go scheduler runs a
goroutine that can run, and each call returns, with an answer or an error.  Nothing is
assumed of messages, trades, aborts or the fee goroutine.  `Wallet!FairSpec` has weak
fairness of each worker (a statement returns once the lock it waits for is free) and
of the TTL.  Nothing is assumed of requests.  `OrderService!Fairness` says that the process
goes on with some of what it has begun, a handler, a goroutine or the consumer: requests are
finitely many, so no stronger assumption is needed.  `MarketManager!Fairness` has weak
fairness of each consumer, of the waiting caller and of each task, which tokio polls when they
can go on; the channel's capacity and the map's references are guards of their actions, so a
deadlock in the code is one in the model.  The other modules state no fairness and no
liveness: what they promise is safety, and a lost message is never retried there.

## Proofs

All theorems hold for every value of the constants under the named assumptions, which type the
constants and nothing more: `SettlementAssumption` (users and outcomes are finitely many, over
which stakes are summed), `WalletAssumption`, `OrdersAssumption`, `AmmAssumption` and
`BoundAssumption` (Matching), `KeysAssumption` and `LimitAssumption` (OrderService),
`LogAssumption` and `BoundAssumption` (MarketManager), `BoundAssumption` and `ActorAssumption`
(MarketLifecycle), `BoundsAssumption` (ResponsibleGambling), `BoundAssumption`,
`ActorAssumption` and `ProposalAssumption` (Resolution).  `KeysAssumption` lets a stake be any
integer, `OrdersAssumption` a price be any natural number up to `MaxPrice` and a quantity be
positive, which the orders table's CHECK gives.  TLC evaluates each of them on its
instance. Every proof module has the same layout: the inductive invariant (`IndInv`, or `Inv`)
and why each part is needed, the lemmas on its steps, the lemma that combines them, the
theorems.

`SettlementProofs`: `IndInv` is `TypeOK`, `Stage` (what the tables
hold at each point of SettleMarket), `Tallied` (the recorded pool is at least each listed
winner's stake, hence a payout is at most the net pool) and `Answered` (a payout the
wallet confirmed is that of a winning entry).  `CreditedAsDecided` alone is not inductive:
marking an entry paid needs `Answered`, and building entries needs that none existed,
which `Stage` gives.  The argument rests on markets.resolved having a single consumer.
`TypeCorrect`, `PayoutsAsDecided` and `PayoutsWithinNet` follow; `CompletedFinal` is an action
property from the same invariant; `PromiseKept` maps each step to a step of `PayoutPromise` or
a stutter.

`PoolKept` and `RefundsWithin` are about sums, which TLA+ folds over a set in an order of its
choice.  A sum is therefore taken as a count: `SumFunction(f)` is the cardinality of the pairs
of a point of `f` and one of its units, so that sums are added, split and compared by the
library's facts on finite sets.  `PoolInv` says that the winning stake, while it is being added
up and once it is recorded, is the sum of the listed stakes on the winner (`Counted`), and that
the fee and what the entries owe fit in the pool (`Shared`).  Each user's entry comes of one
listed winning position of that user, so the shares, each rounded down, sum to no more than the
net pool; a wallet credit is then at most what the entry owes, or nothing.  `RefundInv` says
that what a user got back is at most the stake of one of the user's positions, and stakes only
grow.

`WalletProofs`: the inductive invariant adds `Sessions` to the properties: an open key and
an open wallet row have one holder, an open key is not committed, and the balance computed
under the row lock is still right at commit.  Without the last the ledger could not be
shown to chain.  `TypeCorrect`, `LedgerExplainsBalance`, `KeyMovesOnce`,
`SuccessIsApplied` and `PromiseKept` follow.

`ResponsibleGamblingProofs`: `RowsOK` and `HandlersOK` are types; `ChangesOK` says that a row
about to be written differs from the row its handler read in the columns of its own setting
only, and ends no protection the handler may not end; `HistoryOK` and `ChecksOK` relate what a
handler has found to what was in force since its request began.  `TypeCorrect`,
`GrantsProtected` and `ProtectionKept` follow.

`OrderServiceProofs`: `AnnouncedOnce` is not inductive, since a handler past its insert has the
announcement still before it.  `Placements` and `Cancels` count what was announced with what
is due: no order is announced before its insert, and at most one process that won the
compare-and-set has a cancellation to announce.  `Updates` says that only an order read as
pending is changed.

`LimitsHold` compares a row of the limits, of which the code resets a total when its date is
old, with the sum of the stakes that were charged.  `LimInv` says that the totals of a row cover
the stakes charged on its day and in its week (`Totals`), also the stake a handler has charged
and not inserted, and that none is charged on a day after the row's (`Dated`), so that a new day
or week starts from nothing; that the row a handler has read or is about to write covers what
the row in the table does, and its own stake (`Ready`); and that one handler at a time checks
the limits of a user (`Solo`).  Of a user whose checks overlapped, or who was charged a negative
stake (`lapsed`), it says nothing, as the code keeps nothing.

`MarketManagerProofs`: `ConsumersOK` relates the message a consumer is sending to its offsets;
`TasksOK` that only the task spawned last lives, and that it is the one in the map, which gives
`OneWriter`.  `TradesOK` bounds the numbers of a task's trades by its book's, and places a trade
still to be logged after all that were made, so that `LogOK`, what a log entry may have been
replaced by, is preserved when one is overwritten.  `LoggedBeforeVisible` follows.

`OrdersKept` counts messages, since the topic may hold an order several times.  `Taken` says of
each order that the copies tasks have taken, with those that wait in a channel or in the
consumer's hand, are at most its messages read since the last start and all its messages for
each restart; a restart reads at most all of them again.  `Channels` lets the count look at the
channel of the task in the map only: a task that is gone left no command in its own.  `Kept`
says that until a void, a panic or a restart no task stops, and each delivered order waits or
was taken.

`MarketLifecycleProofs`: a row's history only grows, and an update appends only to the status
it compared (`Walked`); `ActorsOK` and `EventsOK` say which version each handler and
announcement speaks of, `ResultsOK` that a result that found its market pending is being applied
to a market that still is, or the row has taken the status the result stands for, or a PATCH has
ended it.  `TypeCorrect`, `ChangesAnnounced` and `ResultsApplied` follow.

`ResolutionProofs`: a resolution's log only grows.  `RowsOK` makes the outcome of a row that of
its last decision; `ActorsOK` says that an outcome a pass listed is in the log (`Listed`), and
that what is about to be told is the decision just made or, in a confirmation, an earlier one
(`Follows`); `TopicOK` and `ToldOK` are the two halves of `EventsFollowTable`.  The last two
theorems count sessions.  `ReportsDispute`: as long as a resolution is not disputed, its reports
and the sessions that are about to commit one that counted too few (`Uncounted`) stay within
what the threshold and the number of sessions allow, since a session that is not among them
would count the rest.  `PayoutsOnce`: what an appeal was paid and the sessions that may still
uphold it (`Upholding`) are at most the sessions, and once it is decided no more join them.

`MatchingProofs` proves all six properties of `matching`.  `Inv` is `TypeOK`, `BookOK` (a queue
holds orders of its price, oldest first, numbered up to `seq`), `CurOK` (the order in hand is
one that was submitted) and `Numbers` (a match's trade has a number below `seq`), with
`ClobTradesOrdered` and `Uncrossed`; `TypeCorrect`, `LeftUncrossed`, `LoggedInOrder` and
`BestPriceFirst` follow. `RemainderRests` is not inductive: a match could fill two other orders.
`RestsOK` adds that the order in hand is the last of its queue and the only one of its side that
can cross, since the book was uncrossed before it came; so every match is one of its own, and
`RemainderIsOnBook` follows.  `NoShareLost` needs `Apart`, that no number is on both sides of
the book, so that a user's shares are the sum of those on each side; `AccountStep` then follows
a share from the book to the log.  The sums are taken apart by `TotalAdd` and `TotalUnion`: an
induction over a finite set is the search for a smallest counterexample (`SmallestSet`), which
the provers can do.

Sums and counts appear in three modules, with the lemmas each needs of them: `MatchingProofs` sums
shares over a book, `SettlementProofs` and `OrderServiceProofs` stakes over positions and
orders.  The latter two begin with the same few facts on `MapThenSumSet` as a count.

Only model-checked: liveness (`HandlerReturns`, `EveryRequestReturns`, `CacheConverges`,
`EveryCallReturns`, `VoidedAreCancelled`), which needs fairness and ENABLED, out of the
prover's reach; and `PnLAsDecided`, whose proof needs that equal sums of growing stakes have
equal terms.  Every other invariant, every action property and both refinements that a passing
run checks are theorems.

## Plan

Done: the modules above, in the order of the data's way through the services, their runs, and
the theorems listed.  Left:

1. A composition of lifecycle, resolution and settlement over the topics with at-least-once
   delivery, and its refinement of `PayoutPromise`.
2. The safety half of the liveness properties as invariants: that a waiting session or sender
   waits for one that can go on, so that no set of them waits in a circle.

## Not modelled

- The websocket gateway and the mobile app: they keep no state another part reads, and no
  decision depends on them.
- Fraud detection and the wallet's payments.completed event: detached, advisory, read by
  no other part.
- HTTP and gRPC plumbing, generated code, metrics, logging, configuration.
- order-service's `main.go`: it passes stubs and does not compile against its packages.  The
  rate limiter and the checks that refuse a request without leaving a trace are a
  precondition.
- settlement-service's stub of the wallet client: the interface is modelled.
- resolution-service's judges: a vote raises before it is stored (see Resolution).
- The insurance fund's amounts and loss records, and how oracles and models reach an
  outcome: the outcome is an input.
- The LMSR arithmetic: prices are constants, tabulated for the instance.
- List and history queries, which change nothing.
