SPECIFICATION Spec
CONSTANTS
    ann = ann
    bob = bob
    cat = cat
    Users <- MCUsers
    Outcomes <- MCOutcomes
    Orders <- MCOrders
    MaxPrice = 200
    Spot <- MCSpot
    Average <- MCAverage
    MaxOrders = 6
    MaxShares = 4
INVARIANTS TypeOK Uncrossed RemainderRests SharesAccounted ClobTradesOrdered
PROPERTY PriceTimePriority
CHECK_DEADLOCK FALSE
