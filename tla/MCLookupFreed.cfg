SPECIFICATION Spec
CONSTANTS
    Socks = {a, b}
    MaxFd = 3
    MaxAddrs = 3
    MaxTries = 3
CHECK_DEADLOCK FALSE
INVARIANT
    TimeoutFindsSocket
