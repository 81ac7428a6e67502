SPECIFICATION FairSpec
CONSTANTS
    Users <- MCUsers
    Fickle = {2}
    Jobs = {j1, j2}
    NoJob = NoJob
    BatchSize = 2
    Tries = 2
    MaxFaults = 2
INVARIANTS ChainComplete
PROPERTIES ToldOnce EventuallyMarked
