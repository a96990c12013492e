SPECIFICATION Spec
CONSTANTS
    p1 = p1
    p2 = p2
    Procs = {p1, p2}
    Links <- SomeLinks
    Names = {"x", "outbound"}
    Scenes <- SomeScenes
    MaxMishaps = 1
CHECK_DEADLOCK FALSE
SYMMETRY Symmetric
INVARIANTS
    TrustIsProved
    StoppedStays
    ReferencesStayHome
PROPERTY WithinServer
