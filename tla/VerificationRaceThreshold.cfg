\* Two workers.
SPECIFICATION PeerSpec
CONSTANTS
    f = f
    a = a
    b = b
    c = c
    Users <- MCUsers
    Registrants <- MCTwoRegistrants
    Incomplete = {}
    Edited = {}
    Workers = {w1, w2}
    MinVerifiers = 1
    MaxGiven = 2
    MinDiff = 1
    MaxRows = 2
CHECK_DEADLOCK FALSE
SYMMETRY Symmetry
INVARIANTS
    ThresholdSuffices
