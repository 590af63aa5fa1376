SPECIFICATION FairSpec
CONSTANTS
    r1 = r1
    r2 = r2
    Requests = {r1}
    Profiles <- SingleProfiles
    Targets = {1, 3}
    Actuals = {0, 1, 4}
    InitialUserQuota = 4
    InitialTokenQuota = 4
    TokenUnlimited = FALSE
    SubTotal = 3
    TrustQuota = 3
    MaxFaults = 3
    MaxAttempts = 3
INVARIANTS
    WalletHoldKnown
    NeverOverRefunded
PROPERTIES
    SettledIsFinal
    RefundCompletes
