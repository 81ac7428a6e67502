\* Peer requests executed one at a time, under fairness.
SPECIFICATION FairPeerSpec
CONSTANTS
    f = f
    a = a
    b = b
    c = c
    Users <- MCWiderUsers
    Registrants <- MCTwoRegistrants
    Incomplete = {}
    Edited = {}
    Workers = {w1}
    MinVerifiers = 2
    MaxGiven = 2
    MinDiff = 2
    MaxRows = 5
CHECK_DEADLOCK FALSE
INVARIANTS
    TypeOK
    ThresholdExact
    NoDuplicateActive
    NoMutual
PROPERTIES
    QuotaAtGrant
    ImplementsRegister
    SettlesOnThreshold
