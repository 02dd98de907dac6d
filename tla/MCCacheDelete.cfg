SPECIFICATION Spec
CONSTANTS
    Uris = {u, v}
    Options = {wide, narrow}
    Conns = {s, t}
    MaxEntries = 2
    MaxDocuments = 2
    MaxViews = 1
    Sizes = {0, 2}
    CacheSize = 3
    GcPercent = 90
    FormatSize = 0
SYMMETRY Names
VIEW Places
CHECK_DEADLOCK FALSE
INVARIANT
    NeverBroken
