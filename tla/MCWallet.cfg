SPECIFICATION FairSpec
CONSTANTS
    p1 = p1
    p2 = p2
    ann = ann
    bob = bob
    k1 = k1
    k2 = k2
    k3 = k3
    None = None
    Workers <- MCWorkers
    Wallets <- MCWallets
    Keys <- MCKeys
    Requests <- MCRequests
    MaxSends = 3
    MaxAborts = 1
INVARIANTS TypeOK LedgerChained AppliedOnce AcknowledgedIsApplied
PROPERTIES EveryRequestReturns CacheConverges KeepsPromise
CHECK_DEADLOCK FALSE
