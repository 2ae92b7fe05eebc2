SPECIFICATION Spec
CONSTANTS
    a = a
    b = b
    x = x
    Orders = {a, b, x}
    OrderLog <- MCOrderLog
    Malformed = {x}
    BadOutcome = {b}
    Voids = 2
    Capacity = 1
    MaxTasks = 3
    MaxRestarts = 1
    MaxSnapshots = 1
INVARIANTS TypeOK SingleWriter OrdersAccounted VisibleIsLogged
PROPERTY EveryCallReturns
CHECK_DEADLOCK FALSE
