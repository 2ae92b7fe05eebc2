SPECIFICATION Spec
CONSTANTS
    mkt = mkt
    s1 = s1
    s2 = s2
    Markets = {mkt}
    Sessions = {s1, s2}
    MaxRequests = 4
    MaxResults = 2
    MaxFaults = 1
SYMMETRY Symmetry
INVARIANTS TypeOK ChangesAsAnnounced PendingResultsApply
CHECK_DEADLOCK FALSE
