\* Scheduling and round trip times: a process that may be late by more
\* than an interval.
SPECIFICATION FairSpec
CONSTANTS
    Options <- TimedOptions
    IntMax = 3
    SeqSize = 4
    MaxDupChk = 2
    TicksPerSec = 1
    Interval = 1
    SendSlack = 0
    CatchUp = 1
    LastFactor = 1
    TMinInit = 99
    MaxStall = 2
    MaxArrivals = 2
    QueueLimit = 1
INVARIANTS
    StatsBounds
    ScheduleWindow
    RateLimit
PROPERTIES
    Termination
