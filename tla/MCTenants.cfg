SPECIFICATION Spec
CONSTANTS
    u1 = u1
    u2 = u2
    u3 = u3
    l1 = l1
    l2 = l2
    d1 = d1
    p1 = p1
    p2 = p2
    Permalinks = {l1, l2}
    Users = {u1, u2, u3}
    DomainOf <- InDomain
    Domains = {d1}
    Admins = {}
    Factored = {u1}
    Disabled = {}
    People <- SomePeople
    Grants = {2, 4}
    Secrets = {2}
    Procs = {p1, p2}
    Scenes <- SomeScenes
    MaxMishaps = 1
CHECK_DEADLOCK FALSE
SYMMETRY Symmetric
INVARIANTS
    OwnerRemains
    SsoInsideTenant
    LastWordHolds
PROPERTY WithinScope
