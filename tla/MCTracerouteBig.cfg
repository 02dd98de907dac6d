\* A packetlen argument larger than the interface's MTU.
SPECIFICATION Spec
CONSTANTS
    Options <- BigOptions
    Mtus <- Table
    NextMtus = {0, 3, 5, 7}
    Port = 2
    SeqSize = 4
    WaitTime = 1
    TicksPerSec = 1
    MsTicks = 1
    MinPacket = 2
    HeaderLen = 2
    IfMtu = 5
PROPERTIES
    AlwaysShrinks
