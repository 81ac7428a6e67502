\* Two workers, one user, every kind of update, and workers that die.
SPECIFICATION Spec
CONSTANTS
    u = u
    Users <- MCUsers
    Workers = {w1, w2}
    Limit <- MCLimit
    Year = 2
    Retention = 1
    MaxRequests = 4
    MaxDeaths = 1
    LastDay = 3
CHECK_DEADLOCK FALSE
SYMMETRY Symmetry
INVARIANTS
    TrailComplete
    ChangesBounded
    BlockedDeserved
