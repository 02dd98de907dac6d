SPECIFICATION FairSpec
CONSTANTS
    MaxFd = 1
    Kinds = {1, 2}
    Halves = {b}
    Timers = {s, t}
    MaxDelay = 2
    MaxSig = 1
    MaxOps = 2
CHECK_DEADLOCK FALSE
INVARIANTS
    SleepsWithNothingToDo
    WMaxExact
    NoStaleReady
    AllServed
PROPERTY
    SignalHandled
