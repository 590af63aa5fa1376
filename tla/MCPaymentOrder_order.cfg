SPECIFICATION FairSpec
CONSTANTS
    h1 = h1
    h2 = h2
    h3 = h3
    n1 = n1
    n2 = n2
    NoHandler = NoHandler
    Handlers = {h1, h2, h3}
    Nodes = {n1, n2}
    Placements <- OneOrTwo
    Kinds = {"epay", "stripe", "waffo", "subscription"}
    Failures = TRUE
    Crashes = TRUE
INVARIANTS
    LockOrderSound
    CreditedOnce
    PaidIsCredited
PROPERTIES
    DeliveriesEnd
CHECK_DEADLOCK FALSE
