\* Hops, probes, MTU discovery, time and termination under unending foreign
\* traffic; keys are 2 bits wide and wrap.  poll() counts in units of two
\* ticks, the test that ends a wait under traffic in units of three.
SPECIFICATION FairSpec
CONSTANTS
    Options <- HopOptions
    Mtus <- Table
    NextMtus = {0, 2, 5}
    Port = 2
    SeqSize = 4
    WaitTime = 1
    TicksPerSec = 3
    MsTicks = 2
    MinPacket = 2
    HeaderLen = 2
    IfMtu = 7
INVARIANTS
    TypeOK
    Attribution
    PortNotZero
    TraceComplete
    StopsAtDestination
    HopComplete
PROPERTIES
    SearchAdvances
    StarAfterWait
    Termination
