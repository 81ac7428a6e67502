\* A poll, its creator or another account, two users of seven profiles.
SPECIFICATION Spec
CONSTANTS
    u = u
    v = v
    gender = gender
    country = country
    x = x
    y = y
    Users <- MCUsers
    Guest = Guest
    Criteria <- MCCriteria
    Values <- MCValues
    Nothing = Nothing
    Unsent = Unsent
    Year = 2
    DefaultMin = 1
    DefaultMax = 4
    Demographics <- MCDemographics
    Profiles <- MCProfiles
    Horizon = 3
INVARIANTS
    ListsTheVisible
    HidesTheRest
    FlagIsGate
PROPERTIES
    EditsShutNobodyOut
