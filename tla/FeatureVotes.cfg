\* Two members, two workers, a reader and an administrator.
SPECIFICATION FairSpec
CONSTANTS
    NoClick = NoClick
    Members = {m, n}
    Workers = {w1, w2}
    Admins = {a}
    Readers = {r}
    Reasons = {why}
CHECK_DEADLOCK FALSE
PROPERTIES
    ReasonFollows
    ImplementsBoard
    CountSettles
