CONSTANTS
    a = a
    b = b
    c = c
    e1 = e1
    e2 = e2
    e3 = e3
    Models = {a, b, c}
    Ports = {8000, 8001, 30000}
    ShimPort <- OneByHand
    EnginePort <- DefaultEngine
    Engines = {e1, e2, e3}
    MaxFaults = 1
    MaxKills = 1
    None = None
SPECIFICATION FairSpec
INVARIANTS HostInv NoOrphans ReadyIsWaitedFor
PROPERTIES StopEnds ComesUp
