SPECIFICATION FairSpec
CONSTANTS
    ann = ann
    bob = bob
    yes = yes
    no = no
    Users <- MCUsers
    Outcomes <- MCOutcomes
    Stakes <- MCStakes
    MaxTrades = 2
    MaxMessages = 2
    MaxAborts = 1
INVARIANTS TypeOK CreditedAsDecided PoolConserved RefundWithinStake PnLAsDecided
PROPERTIES CompletedIsFinal KeepsPromise HandlerReturns
CHECK_DEADLOCK FALSE
