SPECIFICATION Spec
CONSTANTS
    r1 = r1
    r2 = r2
    Requests = {r1}
    Profiles <- SubProfiles
    Targets = {}
    Actuals = {1}
    InitialUserQuota = 4
    InitialTokenQuota = 4
    TokenUnlimited = FALSE
    SubTotal = 3
    TrustQuota = 0
    MaxFaults = 1
    MaxAttempts = 3
INVARIANTS
    SubscriptionRefundedOnce
