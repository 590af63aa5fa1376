SPECIFICATION FormFairSpec
CONSTANTS
    a = a
    slash = slash
    f = f
    g = g
    NoField = NoField
    Fields = {f, g}
    Values = {a, slash}
    Trim <- TrimSlash
    Failures = TRUE
    Refusable = {f}
    Others = {g}
INVARIANTS
    WritesOnlyTyped
    StaleHasCause
    ShownIsSaved
CHECK_DEADLOCK FALSE
PROPERTIES
    FormConverges
