SPECIFICATION FairSpec
CONSTANTS
    h1 = h1
    h2 = h2
    r1 = r1
    Addresses = {1, 2}
    Hosts = {h1, h2}
    Requesters = {r1}
    Kinds = {"edit", "schedule", "clear", "send", "cancel"}
    FirstStatuses = {"draft", "scheduled", "sending"}
    Faults = {"claim", "list", "store", "tag", "progress", "final"}
    BatchSize = 1
    MaxRequests = 2
    MaxExpansions = 2
    MaxChanges = 1
    MaxTroubles = 1
CHECK_DEADLOCK FALSE
INVARIANTS
    SentOnceUnlessRaced
PROPERTIES
    SendingEnds
