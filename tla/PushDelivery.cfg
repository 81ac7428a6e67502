SPECIFICATION FairSpec
CONSTANTS
    Installations = {i1, i2}
    Tokens = {t1, t2}
    Sessions = {u1, u2}
    Users = {u1, u2}
    Owner <- MCOwner
    Requests <- MCRequests
    i1 = i1
    i2 = i2
    t1 = t1
    t2 = t2
    u1 = u1
    u2 = u2
    Regs = {r1, r2}
    Jobs = {j1, j2}
    Nothing = Nothing
    Attempts = 3
    SendTries = 2
    ReceiptTries = 2
    Generations = 1
    MaxEvents = 4
CHECK_DEADLOCK FALSE
INVARIANTS TypeOK HolderOnly NoneRefused
PROPERTIES DisablesOnlyDead SentOnce Settles
