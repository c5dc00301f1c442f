CONSTANTS
    a = a
    b = b
    e1 = e1
    e2 = e2
    Models = {a, b}
    Ports = {8000, 30000}
    ShimPort <- DefaultShim
    EnginePort <- DefaultEngine
    Engines = {e1, e2}
    MaxFaults = 0
    MaxKills = 1
    None = None
    Target = a
    UnitPort <- NoneStated
    DefaultPort = 8000
    MaxSlow = 1
    MaxInstalls = 1
SPECIFICATION FairSessionSpec
INVARIANTS GivesUpForCause
PROPERTIES LaunchedOnOwnEngine SessionEnds
