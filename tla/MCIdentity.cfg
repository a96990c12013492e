SPECIFICATION Spec
CONSTANTS
    u1 = u1
    u2 = u2
    p1 = p1
    p2 = p2
    Users = {u1, u2}
    NoPassword = 0
    Passwords = {1, 2}
    NewPasswords = {2}
    Procs = {p1, p2}
    Scenes <- SomeScenes
    Provider = "social"
    People <- SomePeople
    Allowed = {u1, u2}
    Responses <- SomeResponses
    AutoProvision = TRUE
    MaxAttempts = 2
    MaxRequests = 3
    MaxMishaps = 1
CHECK_DEADLOCK FALSE
SYMMETRY Symmetric
INVARIANTS
    OneTimeUsedOnce
    SignedOutStaysOut
    LockoutHolds
PROPERTIES
    ProvenSecret
