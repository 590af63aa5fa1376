SPECIFICATION RealtimeFairSpec
CONSTANTS
    Amounts = {1, 2}
    Hold = 1
    Quotas = {4}
    MaxMessages = 3
INVARIANTS
    SettlementCovers
    NothingFree
PROPERTIES
    RefusedEnds
CHECK_DEADLOCK FALSE
