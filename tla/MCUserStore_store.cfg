SPECIFICATION FairSpec
CONSTANTS
    c1 = c1
    c2 = c2
    f1 = f1
    w1 = w1
    Changes = {c1, c2}
    Deltas <- SpendAndReturn
    Fills = {f1}
    Writers = {w1}
    Kinds = {"profile", "disable", "transfer"}
    Overrides = {5}
    Failures = TRUE
    Crashes = TRUE
    InitialQuota = 2
    AffMoved = 2
INVARIANTS
    Conserved
    CopyExplained
PROPERTIES
    BatchLands
CHECK_DEADLOCK FALSE
