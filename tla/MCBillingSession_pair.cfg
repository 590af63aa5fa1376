SPECIFICATION Spec
CONSTANTS
    r1 = r1
    r2 = r2
    Requests = {r1, r2}
    Profiles <- FallbackProfiles
    Targets = {1, 3}
    Actuals = {1, 3}
    InitialUserQuota = 4
    InitialTokenQuota = 4
    TokenUnlimited = FALSE
    SubTotal = 3
    TrustQuota = 0
    MaxFaults = 0
    MaxAttempts = 3
SYMMETRY Symmetry
INVARIANTS
    SettledExactly
    HoldAccounted
    SubWithinTotal
    SubscriptionConserved
PROPERTIES
    ImplementsCharge
