SPECIFICATION Spec
CONSTANTS
    ann = ann
    bob = bob
    cat = cat
    Users <- MCUsers
    Outcomes <- MCOutcomes
    Orders <- MCOrders
    MaxPrice = 200
    Spot <- MCSpot
    Average <- MCAverage
    MaxOrders = 3
    MaxShares = 4
INVARIANT DistinctSeqNos
CHECK_DEADLOCK FALSE
