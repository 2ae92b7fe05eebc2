SPECIFICATION Spec
CONSTANTS
    ann = ann
    bob = bob
    mkt = mkt
    k1 = k1
    k2 = k2
    k3 = k3
    Users = {ann, bob}
    Markets = {mkt}
    Keys = {k1, k2, k3}
    Sessions = {s1, s2}
    s1 = s1
    s2 = s2
    UserOf <- MCUserOf
    MarketOf <- MCMarketOf
    Stake <- MCStake
    DailyLimit = 3
    WeeklyLimit = 5
    DaysInWeek = 2
    Midnights = {0}
    MaxRequests = 3
    MaxFaults = 1
INVARIANTS TypeOK AnnouncedOnce ReportedLimitsHold
PROPERTY VoidedAreCancelled
CHECK_DEADLOCK FALSE
