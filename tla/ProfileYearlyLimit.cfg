\* One worker, which never dies.
SPECIFICATION Spec
CONSTANTS
    u = u
    Users <- MCUsers
    Workers = {w1}
    Limit <- MCLimit
    Year = 3
    Retention = 2
    MaxRequests = 5
    MaxDeaths = 0
    LastDay = 4
CHECK_DEADLOCK FALSE
INVARIANTS
    YearlyLimit
