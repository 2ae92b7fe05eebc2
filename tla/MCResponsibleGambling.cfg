SPECIFICATION Spec
CONSTANTS
    ann = ann
    s1 = s1
    s2 = s2
    Users = {ann}
    Sessions = {s1, s2}
    Durations <- MCDurations
    Amounts <- MCAmounts
    DefaultLimit = 1
    LastTime = 3
    MaxRequests = 4
    MaxFaults = 1
SYMMETRY SessionSymmetry
INVARIANTS
    TypeOK
    
PROPERTY ProtectionLostOnlyUnseen
CHECK_DEADLOCK FALSE
