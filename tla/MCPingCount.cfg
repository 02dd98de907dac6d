\* Counting: rcvd_tbl and icmp_seq are small enough to wrap around.
SPECIFICATION Spec
CONSTANTS
    Options <- CountOptions
    IntMax = 4
    SeqSize = 2
    MaxDupChk = 2
    TicksPerSec = 1
    Interval = 1
    SendSlack = 0
    CatchUp = 0
    LastFactor = 2
    TMinInit = 99
    MaxStall = 0
    MaxArrivals = 3
    QueueLimit = 2
INVARIANTS
    TypeOK
    NoOvercount
    LossExact
    SendBudget
    LastRcvdExact
