SPECIFICATION FairSpec
CONSTANTS
    s1 = s1
    s2 = s2
    s3 = s3
    p1 = p1
    p2 = p2
    t1 = t1
    t2 = t2
    Nobody = Nobody
    Ghost = Ghost
    Scenes <- SomeScenes
    CandidateLimit = 3
    DeadLocksExcuse = TRUE
CHECK_DEADLOCK FALSE
INVARIANT TurnsAreTaken
PROPERTY EveryRowTaken
