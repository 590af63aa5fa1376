SPECIFICATION FairSpec
CONSTANTS
    r1 = r1
    r2 = r2
    Requests = {r1, r2}
    SubCount = 2
    Total = 2
    Amounts = {1, 2}
    Resets = TRUE
    Settings <- BothKinds
    MaxClock = 1
INVARIANTS
    UsageExplained
    WithinTotal
PROPERTIES
    NothingUndone
    ResetHappens
CHECK_DEADLOCK FALSE
