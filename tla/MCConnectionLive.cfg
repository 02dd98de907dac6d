SPECIFICATION LiveSpec
CONSTANTS
    Conns = {c1, c2, c3}
    NoConn = NoConn
    Downloads = {d1, d2}
    Uris = {"a", "a2", "f"}
    HostOf <- MCHostOf
    NoHost = NoHost
    SiteOf <- MCSiteOf
    Posts = {}
    Quits = {}
    Cancel = 2
    MaxPri = 1
    MaxTries = 2
    LimitSet <- OneLimit
    MaxKeepalive = 1
    MaxRequests = 3
    MaxAfresh = 1
PROPERTY
    EveryDownloadEnds
