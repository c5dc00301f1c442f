CONSTANTS
    p1 = p1
    p2 = p2
    Pushers = {p1, p2}
    NFiles = 2
    LFS = {1, 2}
    Leftovers = {"absent", "short"}
    Objects = {"absent", "wrong"}
    Downloads = {"wrong", "short"}
    MaxFaults = 2
    MaxRot = 1
    NoManifest = NoManifest
SPECIFICATION Spec
SYMMETRY Symmetry
INVARIANTS TypeOK NoFalseAlarm
PROPERTIES ImplementsFrozenStore
