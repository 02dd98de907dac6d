SPECIFICATION Spec
CONSTANTS
    Conns = {c1, c2, c3}
    NoConn = NoConn
    Downloads = {d1, d2}
    Uris = {"a", "post"}
    HostOf <- MCHostOf
    NoHost = NoHost
    SiteOf <- MCSiteOf
    Posts = {"post"}
    Quits = {"siteA"}
    Cancel = 2
    MaxPri = 2
    MaxTries = 2
    LimitSet <- TwoLimits
    MaxKeepalive = 1
SYMMETRY Symmetric
INVARIANTS
    QueueConsistent
    OwnersCounted
    Limits
    ShutdownClean
PROPERTIES
    WorkConserving
    PostSentOnce
