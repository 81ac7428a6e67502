SPECIFICATION Spec
CONSTANTS
    poll = poll
    list = list
    Polls <- MCPolls
    LegacyPolls <- MCPolls
    Members = {m1, m2}
    Matching = {m1}
    Listed = {m2}
    Audiences <- MCAudiences
    Workers = {w1, w2}
    Choices = {c1, c2}
    Replacements = 1
    Payloads <- MCPayloads
    Patches <- MCPatches
    NoAudience = NoAudience
    Unsent = Unsent
    LastDay = 1
SYMMETRY Alike
INVARIANTS TypeOK BallotsCurrent OneBallotEach Exclusive
PROPERTIES LegacyKept ImplementsBox
