SPECIFICATION FairSpec
CONSTANTS
    Users <- MCUsers
    Malformed <- MCMalformed
    Workers = {w1}
    Sweepers = {q1}
    AppleUsers = {3}
    Tokens = {t1}
    Writes <- MCWrites
    GraceDays = 1
    ChunkSize = 1
    None = None
    LastDay = 2
    MaxQueued = 1
    MaxFaults = 1
INVARIANTS ErasedServedGrace SweepComplete OrphansBounded
PROPERTIES NoGrantForgotten ExpiredAreErased
