SPECIFICATION FairSpec
CONSTANTS
    w1 = w1
    w2 = w2
    p1 = p1
    p2 = p2
    Workers = {w1, w2}
    Procs = {p1, p2}
    Scenes <- SomeScenes
    MaxAttempts = 2
    MaxMishaps = 1
CHECK_DEADLOCK FALSE
INVARIANTS
    CorrelatedOnce
    ThreatContained
    DroppedOnlyWhenExhausted
    OptOutHolds
    MandatoryTls
    LinksResolve
PROPERTY QueueDrains
