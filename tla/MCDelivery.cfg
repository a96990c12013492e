SPECIFICATION FairSpec
CONSTANTS
    Messages = {m1}
    Workers = {w1, w2}
    RowIds = {r1, r2, r3}
    NoMessage = NoMessage
    NoWorker = NoWorker
    NoRow = NoRow
    MaxAttempts = 3
    Overrun = FALSE
    MaxCrashes = 2
    MaxRetries = 2
INVARIANTS
    NoStrandedMessage
    OutboxAgrees
PROPERTIES
    BouncedIsFinal
    NoSendAfterSettled
    ImplementsLifecycle
    EventuallySettled
