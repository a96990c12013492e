SPECIFICATION FairSpec
CONSTANTS
    NumHooks = 1
    Urls = {u1, u2}
    Receiver = Receiver
    Workers = {w1, w2}
    NoWorker = NoWorker
    MaxAttempts = 2
    Overrun = FALSE
    MaxEvents = 2
    MaxChanges = 1
    MaxCrashes = 1
CHECK_DEADLOCK FALSE
INVARIANTS
    RemovedIsAccounted
    OneDeliverer
PROPERTIES
    OutboxesDrain
