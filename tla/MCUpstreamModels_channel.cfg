SPECIFICATION FairSpec
CONSTANTS
    m1 = m1
    m2 = m2
    j1 = j1
    j2 = j2
    Models = {m1, m2}
    Mappings <- OneAlias
    Jobs = {j1, j2}
    MaxStarts = 3
    MaxEdits = 1
INVARIANTS
    PendingNotIgnored
    ServedMatches
PROPERTIES
    ChangesAsked
    CacheConverges
