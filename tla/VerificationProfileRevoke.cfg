\* One worker, with profile updates.
SPECIFICATION MemberSpec
CONSTANTS
    f = f
    a = a
    b = b
    c = c
    Users <- MCUsers
    Registrants <- MCRegistrants
    Incomplete = {}
    Edited = {}
    Workers = {w1}
    MinVerifiers = 1
    MaxGiven = 2
    MinDiff = 1
    MaxRows = 2
CHECK_DEADLOCK FALSE
SYMMETRY Symmetry
INVARIANTS
    VerifiedMeetsThreshold
