\* Every request and the admin panel, two requests at a time.
SPECIFICATION Spec
CONSTANTS
    f = f
    a = a
    b = b
    c = c
    Users <- MCUsers
    Registrants <- MCRegistrants
    Incomplete <- MCIncomplete
    Edited = {a}
    Workers = {w1, w2}
    MinVerifiers = 1
    MaxGiven = 1
    MinDiff <- MCLooseMinDiff
    MaxRows = 3
CHECK_DEADLOCK FALSE
SYMMETRY Symmetry
INVARIANTS
    TrustRooted
    OverrunBounded
PROPERTIES
    AuditTrail
