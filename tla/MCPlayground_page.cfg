SPECIFICATION FairSpec
CONSTANTS
    MaxSends = 2
    MaxChunks = 2
    Truncation = TRUE
INVARIANTS
    AnswersAreOwn
    StreamsTracked
PROPERTIES
    EndedStaysEnded
    AnswersEnd
CHECK_DEADLOCK FALSE
