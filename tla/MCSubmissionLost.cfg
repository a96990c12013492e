SPECIFICATION Spec
CONSTANTS
    s1 = s1
    s2 = s2
    k1 = k1
    c1 = c1
    c2 = c2
    a1 = a1
    NoKey = NoKey
    Unlimited = Unlimited
    Clients = {c1}
    Scenes <- LostScenes
    Window = 2
    Kept = 3
    MonthDays = 3
CHECK_DEADLOCK FALSE
INVARIANT AcceptedIsStored
