----------------------------- MODULE Settlement -----------------------------
(***************************************************************************)
(* settlement-service for one market: positions, the settlement record and *)
(* its entries, the wallet credits it requests, and the three Kafka        *)
(* consumers of the service.  Markets share no row, so one is enough.      *)
(*                                                                         *)
(* consumeOrderMatched runs RecordPosition, as does a caller of the HTTP   *)
(* API; consumeMarketsResolved runs SettleMarket, or RefundMarket for an   *)
(* outcome VOID; consumeMarketVoided runs RefundMarket.  Each consumer     *)
(* handles one message at a time, the three run concurrently, and every    *)
(* database or wallet call of a handler is a step.  ReadMessage commits    *)
(* the offset before the handler runs, so a handler that stops half-way    *)
(* (Abort) is not run again for its message; another message for the       *)
(* market may come at any time.                                            *)
(***************************************************************************)
EXTENDS Integers, FiniteSets, Functions

CONSTANTS Users,      \* wallet owners
          Outcomes,   \* outcome indices of the market
          Stakes,     \* stakes (price * quantity) a matched trade may carry
          MaxTrades,  \* bound: trades recorded in a behaviour
          MaxMessages, \* bound: messages that resolve or void the market
          MaxAborts   \* bound: handlers cut short by an error or a crash

ASSUME SettlementAssumption ==
    /\ IsFiniteSet(Users) /\ IsFiniteSet(Outcomes)
    /\ Stakes \subseteq Nat
    /\ "none" \notin Outcomes
    /\ MaxTrades \in Nat
    /\ MaxMessages \in Nat
    /\ MaxAborts \in Nat

Resolved  == "markets.resolved"
Voided    == "market.voided"
Consumers == {Resolved, Voided}

Positions == Users \X Outcomes            \* the natural key, one market
Nothing   == [p \in {} |-> 0]             \* the empty listing of positions
NoEntry   == [status |-> "none", isWinner |-> FALSE, payout |-> 0]
NoSettlement ==
    [status |-> "none", winner |-> "none", total |-> 0, winning |-> 0, net |-> 0]

VARIABLES
    position,    \* table positions: status and stake by natural key
    settlement,  \* table settlements: the row of the market
    entry,       \* table settlement_entries, by the user in the idempotency key
    paidOut,     \* wallet: amount credited under "sett:<settlement>:user:<u>"
    refunded,    \* wallet: amount credited under "refund:<market>:user:<u>"
    insurance,   \* wallet: amount credited under "insurance:<settlement>"
    feeTask,     \* the goroutine collectInsuranceFee is running
    pc,          \* where each consumer's handler stands
    listed,      \* each consumer's listing of positions (those still to refund)
    want,        \* winning outcome in the message being settled
    untallied, total, winning,   \* the loop that totals the pool
    todo,        \* entries listed as pending and not yet dealt with
    answer,      \* what the wallet answered to the payout of an entry
    failed,      \* a payout of this attempt failed
    trades, messages, aborts     \* counters of the bounds

tables  == <<position, settlement, entry>>
wallet  == <<paidOut, refunded, insurance>>
tallies == <<untallied, total, winning>>
payouts == <<todo, answer, failed>>
locals  == <<listed, want, tallies, payouts>>
bounds  == <<trades, messages, aborts>>
vars    == <<tables, wallet, feeTask, pc, listed, want, tallies, payouts, bounds>>

-----------------------------------------------------------------------------
(* Pure helpers of domain/position.go.                                     *)

InsuranceFeeBps == 50

\* Mutant: basis points taken for a fraction.
FeeUnscaled(pool) == pool * InsuranceFeeBps

ComputeInsuranceFee(pool) == (pool * InsuranceFeeBps) \div 10000

\* Mutant: the share is rounded up.
PayoutRoundedUp(stake, winningStake, net) ==
    IF winningStake = 0 THEN 0
    ELSE (stake * net + winningStake - 1) \div winningStake

ComputePayout(stake, winningStake, net) ==
    IF winningStake = 0 THEN 0 ELSE (stake * net) \div winningStake

\* The entry SettleMarket builds for a position listed with this stake.
EntryOf(p, stake) ==
    LET isWinner == p[2] = settlement.winner
    IN  [status   |-> "pending",
         isWinner |-> isWinner,
         payout   |-> IF isWinner
                      THEN ComputePayout(stake, settlement.winning, settlement.net)
                      ELSE 0]

Existing == {p \in Positions : position[p].status # "none"}
Listing  == [p \in Existing |-> position[p].stake]

\* What a position has brought its owner, out of a pool.
Gain(p, pool) ==
    IF p[2] = settlement.winner
    THEN ComputePayout(position[p].stake, settlement.winning, pool) - position[p].stake
    ELSE -position[p].stake

HeldBy(u) == {p \in Existing : p[1] = u}

\* Mutant: the insurance fee is forgotten.
PnLBeforeFee(u) == SumFunction([p \in HeldBy(u) |-> Gain(p, settlement.total)])

\* The profit and loss a client is told of, once the settlement is completed: it
\* is worked out again from the positions, and no entry is read.
GetUserPnL(u) == SumFunction([p \in HeldBy(u) |-> Gain(p, settlement.net)])

\* UpdatePositionStatusByMarket: compare-and-set on every row of the market.
MovePositions(new, expected) ==
    position' = [p \in Positions |->
                   IF position[p].status = expected
                   THEN [position[p] EXCEPT !.status = new]
                   ELSE position[p]]

Goto(c, l) == pc' = [pc EXCEPT ![c] = l]

\* The handler of c returns and its locals go out of scope.
Return(c) ==
    /\ Goto(c, "idle")
    /\ listed' = [listed EXCEPT ![c] = Nothing]
    /\ IF c = Resolved
       THEN /\ want' = "none"
            /\ untallied' = {} /\ total' = 0 /\ winning' = 0
            /\ todo' = {} /\ answer' = [u \in Users |-> "none"] /\ failed' = FALSE
       ELSE UNCHANGED <<want, tallies, payouts>>

-----------------------------------------------------------------------------
Init ==
    /\ position   = [p \in Positions |-> [status |-> "none", stake |-> 0]]
    /\ settlement = NoSettlement
    /\ entry      = [u \in Users |-> NoEntry]
    /\ paidOut    = [u \in Users |-> 0]
    /\ refunded   = [u \in Users |-> 0]
    /\ insurance  = 0
    /\ feeTask    = FALSE
    /\ pc         = [c \in Consumers |-> "idle"]
    /\ listed     = [c \in Consumers |-> Nothing]
    /\ want       = "none"
    /\ untallied  = {} /\ total = 0 /\ winning = 0
    /\ todo       = {}
    /\ answer     = [u \in Users |-> "none"]
    /\ failed     = FALSE
    /\ trades     = 0 /\ messages = 0 /\ aborts = 0

\* UpsertPosition: the row is created open, or its stake grows whatever its
\* status is.
UpsertPosition(p, stake) ==
    position' = [position EXCEPT ![p] =
                   [status |-> IF @.status = "none" THEN "open" ELSE @.status,
                    stake  |-> @.stake + stake]]

RecordPosition(p, stake) ==
    /\ trades < MaxTrades
    /\ trades' = trades + 1
    /\ UpsertPosition(p, stake)
    /\ UNCHANGED <<settlement, entry, wallet, feeTask, pc, listed, want, tallies,
                   payouts, messages, aborts>>

\* A trade arrives on trades.matched.  A message that comes twice is recorded
\* twice: nothing in the row names the trade.
ConsumeOrderMatched == \E p \in Positions, s \in Stakes : RecordPosition(p, s)

\* A caller of the HTTP API records a stake, which must be positive.
PostPosition == \E p \in Positions, s \in Stakes : s > 0 /\ RecordPosition(p, s)

-----------------------------------------------------------------------------
(* SettleMarket, on the consumer of markets.resolved.                      *)

ReceiveResolved(o) ==
    /\ pc[Resolved] = "idle"
    /\ messages < MaxMessages
    /\ messages' = messages + 1
    /\ want' = o
    /\ Goto(Resolved, "check")
    /\ UNCHANGED <<tables, wallet, feeTask, listed, tallies, payouts, trades, aborts>>

\* Mutant: the early return on a completed settlement is missing.
CheckAlwaysResumes ==
    /\ pc[Resolved] = "check"
    /\ Goto(Resolved, IF settlement.status = "none" THEN "load" ELSE "distribute")
    /\ UNCHANGED <<tables, wallet, feeTask, locals, bounds>>

CheckExisting ==
    /\ pc[Resolved] = "check"
    /\ \/ settlement.status = "completed" /\ Return(Resolved)
       \/ /\ settlement.status = "none" /\ Goto(Resolved, "load")
          /\ UNCHANGED locals
       \/ /\ settlement.status \in {"processing", "failed"}
          /\ Goto(Resolved, "distribute")
          /\ UNCHANGED locals
    /\ UNCHANGED <<tables, wallet, feeTask, bounds>>

\* Every position of the market is listed, whatever its status.
LoadPositions ==
    /\ pc[Resolved] = "load"
    /\ \/ Existing = {} /\ Return(Resolved)
       \/ /\ Existing # {}
          /\ listed' = [listed EXCEPT ![Resolved] = Listing]
          /\ untallied' = Existing
          /\ Goto(Resolved, "tally")
          /\ UNCHANGED <<want, total, winning, payouts>>
    /\ UNCHANGED <<tables, wallet, feeTask, bounds>>

\* One turn of the loop that totals the pool.  It is local, so one order of
\* the positions is enough.
Tally ==
    /\ pc[Resolved] = "tally"
    /\ untallied # {}
    /\ LET p     == CHOOSE q \in untallied : TRUE
           stake == listed[Resolved][p]
       IN  /\ untallied' = untallied \ {p}
           /\ total' = total + stake
           /\ winning' = IF p[2] = want THEN winning + stake ELSE winning
    /\ UNCHANGED <<tables, wallet, feeTask, pc, listed, want, payouts, bounds>>

\* CreateSettlement; this consumer is the only writer of the unique row.
CreateSettlement ==
    /\ pc[Resolved] = "tally"
    /\ untallied = {}
    /\ settlement' = [status |-> "processing", winner |-> want, total |-> total,
                      winning |-> winning, net |-> total - ComputeInsuranceFee(total)]
    /\ want' = "none" /\ total' = 0 /\ winning' = 0      \* not read again
    /\ Goto(Resolved, "lock")
    /\ UNCHANGED <<position, entry, wallet, feeTask, listed, untallied, payouts, bounds>>

LockPositions ==
    /\ pc[Resolved] = "lock"
    /\ MovePositions("settling", "open")
    /\ Goto(Resolved, "entries")
    /\ UNCHANGED <<settlement, entry, wallet, feeTask, locals, bounds>>

\* One entry per position is built and inserted ON CONFLICT (idempotency_key)
\* DO NOTHING; the key names the user only, so the first listed position of a
\* user wins.  Positions are listed by creation time, which is any order here.
CreateEntries ==
    /\ pc[Resolved] = "entries"
    /\ LET holders == {p[1] : p \in DOMAIN listed[Resolved]}
       IN  \E first \in [holders -> DOMAIN listed[Resolved]] :
             /\ \A u \in holders : first[u][1] = u
             /\ entry' = [u \in Users |->
                            IF u \in holders /\ entry[u] = NoEntry
                            THEN EntryOf(first[u], listed[Resolved][first[u]])
                            ELSE entry[u]]
    /\ feeTask' = (ComputeInsuranceFee(settlement.total) > 0)
    /\ listed' = [listed EXCEPT ![Resolved] = Nothing]    \* not read again
    /\ Goto(Resolved, "distribute")
    /\ UNCHANGED <<position, settlement, wallet, want, tallies, payouts, bounds>>

\* The goroutine of collectInsuranceFee: one wallet call, whose error is logged.
CollectInsuranceFee ==
    /\ feeTask
    /\ feeTask' = FALSE
    /\ insurance' \in {insurance, ComputeInsuranceFee(settlement.total)}
    /\ UNCHANGED <<tables, paidOut, refunded, pc, listed, want, tallies, payouts, bounds>>

\* distributePayout lists the entries with status pending.
ListPendingEntries ==
    /\ pc[Resolved] = "distribute"
    /\ todo' = {u \in Users : entry[u].status = "pending"}
    /\ Goto(Resolved, "pay")
    /\ UNCHANGED <<tables, wallet, feeTask, listed, want, tallies, answer, failed, bounds>>

Payable(u) == entry[u].isWinner /\ entry[u].payout > 0

\* An error of UpdateEntryStatus is ignored, here and in MarkEntry.
SkipEntry(u) ==
    /\ pc[Resolved] = "pay"
    /\ u \in todo
    /\ ~Payable(u)
    /\ entry' \in {entry, [entry EXCEPT ![u].status = "skipped"]}
    /\ todo' = todo \ {u}
    /\ UNCHANGED <<position, settlement, wallet, feeTask, pc, listed, want, tallies,
                   answer, failed, bounds>>

\* Mutant: the wallet does not recognise the idempotency key.
CreditAgain(credited, u, amount) == [credited EXCEPT ![u] = @ + amount]

\* wallet.Credit deduplicates on the idempotency key (ApplyTransaction).
CreditOnce(credited, u, amount) ==
    [credited EXCEPT ![u] = IF @ = 0 THEN amount ELSE @]

CreditEntry(u) ==
    /\ pc[Resolved] = "pay"
    /\ u \in todo
    /\ Payable(u)
    /\ answer[u] = "none"
    /\ \/ /\ paidOut' = CreditOnce(paidOut, u, entry[u].payout)
          /\ answer' \in {[answer EXCEPT ![u] = "ok"], [answer EXCEPT ![u] = "error"]}
       \/ /\ answer' = [answer EXCEPT ![u] = "error"]    \* refused or never arrived
          /\ UNCHANGED paidOut
    /\ UNCHANGED <<tables, refunded, insurance, feeTask, pc, listed, want, tallies, todo,
                   failed, bounds>>

\* Mutant: the goroutine of a failed credit never reports that it is done.
MarkOnlySuccess(u) ==
    /\ pc[Resolved] = "pay"
    /\ u \in todo
    /\ answer[u] = "ok"
    /\ entry' = [entry EXCEPT ![u].status = "paid"]
    /\ answer' = [answer EXCEPT ![u] = "none"]
    /\ todo' = todo \ {u}
    /\ UNCHANGED <<position, settlement, wallet, feeTask, pc, listed, want, tallies,
                   failed, bounds>>

\* Mutant: an entry is marked paid whatever the wallet answered.
MarkAlwaysPaid(u) ==
    /\ pc[Resolved] = "pay"
    /\ u \in todo
    /\ answer[u] # "none"
    /\ entry' = [entry EXCEPT ![u].status = "paid"]
    /\ answer' = [answer EXCEPT ![u] = "none"]
    /\ todo' = todo \ {u}
    /\ UNCHANGED <<position, settlement, wallet, feeTask, pc, listed, want, tallies,
                   failed, bounds>>

MarkEntry(u) ==
    /\ pc[Resolved] = "pay"
    /\ u \in todo
    /\ answer[u] # "none"
    /\ entry' \in {entry,
                   [entry EXCEPT ![u].status = IF answer[u] = "ok" THEN "paid" ELSE "failed"]}
    /\ failed' = (failed \/ answer[u] = "error")
    /\ answer' = [answer EXCEPT ![u] = "none"]
    /\ todo' = todo \ {u}
    /\ UNCHANGED <<position, settlement, wallet, feeTask, pc, listed, want, tallies, bounds>>

\* distributePayout returns an error: the entries could not be listed, or a
\* payout failed.  An error of the update is ignored.
DistributeFailed ==
    /\ \/ /\ pc[Resolved] = "distribute"
          /\ aborts < MaxAborts /\ aborts' = aborts + 1
          /\ UNCHANGED <<trades, messages>>
       \/ /\ pc[Resolved] = "pay" /\ todo = {} /\ failed
          /\ UNCHANGED bounds
    /\ settlement' \in {settlement, [settlement EXCEPT !.status = "failed"]}
    /\ Return(Resolved)
    /\ UNCHANGED <<position, entry, wallet, feeTask>>

CompleteSettlement ==
    /\ pc[Resolved] = "pay"
    /\ todo = {} /\ ~failed
    /\ settlement' = [settlement EXCEPT !.status = "completed"]
    /\ Goto(Resolved, "close")
    /\ UNCHANGED <<position, entry, wallet, feeTask, locals, bounds>>

\* An error of the update is logged, and ignored.
MarkPositionsSettled ==
    /\ pc[Resolved] = "close"
    /\ MovePositions("settled", "settling") \/ UNCHANGED position
    /\ Return(Resolved)
    /\ UNCHANGED <<settlement, entry, wallet, feeTask, bounds>>

-----------------------------------------------------------------------------
(* RefundMarket, on either consumer (an outcome VOID, or market.voided).   *)

ReceiveRefund(c) ==
    /\ pc[c] = "idle"
    /\ messages < MaxMessages
    /\ messages' = messages + 1
    /\ Goto(c, "refund_load")
    /\ UNCHANGED <<tables, wallet, feeTask, locals, trades, aborts>>

\* Only positions that are open in the listing are refunded.
Refundable == {p \in Existing : position[p].status = "open"}

LoadRefundable(c) ==
    /\ pc[c] = "refund_load"
    /\ \/ Existing = {} /\ Return(c)
       \/ /\ Existing # {}
          /\ listed' = [listed EXCEPT ![c] = [p \in Refundable |-> position[p].stake]]
          /\ Goto(c, "refund")
          /\ UNCHANGED <<want, tallies, payouts>>
    /\ UNCHANGED <<tables, wallet, feeTask, bounds>>

\* Credit with key "refund:<market>:user:<u>".  The wallet refuses an amount of
\* zero; an error is only counted and the position is not told apart later.
RefundPosition(c, p) ==
    /\ pc[c] = "refund"
    /\ p \in DOMAIN listed[c]
    /\ refunded' \in {refunded, CreditOnce(refunded, p[1], listed[c][p])}
    /\ listed' = [listed EXCEPT ![c] = Restrict(@, DOMAIN @ \ {p})]
    /\ UNCHANGED <<tables, paidOut, insurance, feeTask, pc, want, tallies, payouts, bounds>>

\* An error of the update is ignored.
MarkPositionsRefunded(c) ==
    /\ pc[c] = "refund"
    /\ DOMAIN listed[c] = {}
    /\ MovePositions("refunded", "open") \/ UNCHANGED position
    /\ Return(c)
    /\ UNCHANGED <<settlement, entry, wallet, feeTask, bounds>>

-----------------------------------------------------------------------------
\* A database call of the handler fails and it returns, or the process stops.
Abort(c) ==
    /\ pc[c] # "idle"
    /\ aborts < MaxAborts
    /\ aborts' = aborts + 1
    /\ Return(c)
    /\ feeTask' \in {FALSE, feeTask}
    /\ UNCHANGED <<tables, wallet, trades, messages>>

Settle ==
    \/ CheckExisting \/ LoadPositions \/ Tally \/ CreateSettlement \/ LockPositions
    \/ CreateEntries \/ ListPendingEntries
    \/ \E u \in Users : SkipEntry(u) \/ CreditEntry(u) \/ MarkEntry(u)
    \/ DistributeFailed \/ CompleteSettlement \/ MarkPositionsSettled

Refund(c) ==
    \/ LoadRefundable(c)
    \/ \E p \in Positions : RefundPosition(c, p)
    \/ MarkPositionsRefunded(c)

Next ==
    \/ ConsumeOrderMatched \/ PostPosition
    \/ \E o \in Outcomes : ReceiveResolved(o)
    \/ Settle
    \/ CollectInsuranceFee
    \/ \E c \in Consumers : ReceiveRefund(c) \/ Refund(c) \/ Abort(c)

Spec == Init /\ [][Next]_vars

\* The Go scheduler runs a goroutine that can run, and each call returns.
FairSpec == Spec /\ WF_vars(Settle) /\ \A c \in Consumers : WF_vars(Refund(c))

-----------------------------------------------------------------------------
PC == {"idle", "check", "load", "tally", "lock", "entries", "distribute", "pay",
       "close", "refund_load", "refund"}

TablesOK ==
    /\ position \in [Positions -> [status : {"none", "open", "settling", "settled",
                                             "refunded"}, stake : Nat]]
    /\ settlement \in [status : {"none", "processing", "failed", "completed"},
                       winner : Outcomes \cup {"none"},
                       total : Nat, winning : Nat, net : Nat]
    /\ entry \in [Users -> [status : {"none", "pending", "paid", "failed", "skipped"},
                            isWinner : BOOLEAN, payout : Nat]]

WalletOK ==
    /\ paidOut \in [Users -> Nat] /\ refunded \in [Users -> Nat] /\ insurance \in Nat
    /\ feeTask \in BOOLEAN
    /\ trades \in Nat /\ messages \in Nat /\ aborts \in Nat

ListedOK ==
    \A c \in Consumers : /\ DOMAIN listed[c] \subseteq Positions
                         /\ listed[c] \in [DOMAIN listed[c] -> Nat]

HandlersOK ==
    /\ pc \in [Consumers -> PC] /\ pc[Voided] \in {"idle", "refund_load", "refund"}
    /\ DOMAIN listed = Consumers /\ ListedOK
    /\ want \in Outcomes \cup {"none"}
    /\ untallied \subseteq Positions /\ total \in Nat /\ winning \in Nat
    /\ todo \subseteq Users
    /\ answer \in [Users -> {"none", "ok", "error"}]
    /\ failed \in BOOLEAN

\* Every variable has its type.
TypeOK == TablesOK /\ WalletOK /\ HandlersOK

\* The wallet never credits a payout the persisted entry does not state, and an
\* entry marked paid was credited in full: across failed calls, late answers,
\* handlers cut short and resumed settlements (distributePayout).
CreditedAsDecided ==
    \A u \in Users :
        /\ paidOut[u] # 0 => entry[u].isWinner /\ paidOut[u] = entry[u].payout
        /\ entry[u].status = "paid" => entry[u].isWinner /\ paidOut[u] = entry[u].payout

\* Payouts and the insurance fee together never exceed the pool the settlement
\* recorded (ComputePayout, ComputeInsuranceFee and the snapshot of stakes).
PoolConserved == SumFunction(paidOut) + insurance <= settlement.total

\* Refunds give a user back at most what the user staked, even when both
\* consumers refund the market at once (RefundMarket's key per user).
RefundWithinStake ==
    \A u \in Users :
        refunded[u] <= SumFunction([o \in Outcomes |-> position[<<u, o>>].stake])

\* Once a settlement is completed, no later message for the market, whatever
\* outcome it names, changes the settlement, an entry or a payout.
CompletedIsFinal ==
    [][settlement.status = "completed" => UNCHANGED <<settlement, entry, paidOut>>]_vars

\* A user with one position, for which there is an entry, is told the profit and
\* loss which that entry decided, as long as no trade was recorded after the pool
\* was listed: GetUserPnL does not read the entries (GetUserPnL, CreateEntries).
PnLAsDecided ==
    settlement.status = "completed"
    /\ SumFunction([p \in Positions |-> position[p].stake]) = settlement.total =>
        \A p \in Existing :
            entry[p[1]].status # "none" /\ HeldBy(p[1]) = {p} =>
                GetUserPnL(p[1]) = entry[p[1]].payout - position[p].stake

\* A handler that starts always returns: its fan-out of wallet calls drains.
HandlerReturns == \A c \in Consumers : pc[c] # "idle" ~> pc[c] = "idle"

\* SettleMarket keeps the promise of PayoutPromise.
Promise == INSTANCE PayoutPromise WITH
    winner <- settlement.winner,
    owed   <- [u \in Users |-> entry[u].payout],
    given  <- paidOut,
    closed <- settlement.status = "completed"
KeepsPromise == Promise!Spec

\* Violated.  "failed ones stay open for retry" (service/settlement_service.go:326):
\* a position marked refunded belongs to a user the wallet has refunded.
RefundedWasCredited ==
    \A p \in Positions : position[p].status = "refunded" => refunded[p[1]] > 0
=============================================================================
