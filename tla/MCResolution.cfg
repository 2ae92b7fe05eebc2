SPECIFICATION Spec
CONSTANTS
    u1 = u1
    u2 = u2
    a1 = a1
    a2 = a2
    Appellant <- MCAppellant
    s1 = s1
    s2 = s2
    p1 = p1
    Users = {u1, u2}
    Appeals = {a1, a2}
    Misnamed = {a2}
    Sessions = {s1, s2}
    Passes = {p1}
    Proposable = {"YES", "VOID"}
    Threshold = 2
    MaxRows = 2
    MaxRequests = 3
    MaxFaults = 1
SYMMETRY Symmetry
INVARIANTS TypeOK EventsFollowTable EnoughReportsDispute PayoutPerDecision
CHECK_DEADLOCK FALSE
