SPECIFICATION Spec
CONSTANTS
    s1 = s1
    s2 = s2
    k1 = k1
    k2 = k2
    x = x
    y = y
    p = p
    q = q
    r = r
    t = t
    u = u
    v = v
    o = o
    Org = o
    None = None
    NullSender = NullSender
    Servers = {s1, s2}
    Credentials = {k1, k2}
    ServerOf <- OneServerEach
    Senders = {x, y}
    Addresses <- AllAddresses
    Contents <- AllContents
    IpCredential = k1
    TlsEnabled = TRUE
    AuthRequiresTls = TRUE
    Smtps = FALSE
    ProxyProtocol = TRUE
    MaxRecipients = 2
    MaxTransactions = 2
    MaxSuspensions = 2
CHECK_DEADLOCK FALSE
INVARIANTS
    EnvelopeAgrees
    StampsAreTrue
    StoredIsEntitled
