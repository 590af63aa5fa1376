SPECIFICATION FairSpec
CONSTANTS
    t1 = t1
    t2 = t2
    p1 = p1
    p2 = p2
    f1 = f1
    video = video
    suno = suno
    gemini = gemini
    Channels = {video, suno, gemini}
    SunoChannels = {suno}
    RealtimeChannels = {gemini}
    Quota <- TwoEach
    Tasks = {t1, t2}
    Pollers = {p1, p2}
    Fetchers = {f1}
    Settings <- Deployments
    Legacy = {t2}
    Actuals = {0, 1, 3}
    ActiveStatuses = {"NOT_START", "IN_PROGRESS"}
    MaxFaults = 1
    MaxCrashes = 1
INVARIANTS
    OutcomeCharged
    NeverOverRefunded
PROPERTIES
    EndedStaysEnded
    FoundFailureRefunded
    TaskEnds
