CONSTANTS
    s1 = s1
    s2 = s2
    o1 = o1
    o2 = o2
    Servers = {s1, s2}
    Operators = {o1}
    NFiles = 2
    LFS = {1}
    OnDisk = {"good", "wrong", "absent"}
    MaxFaults = 2
    NoManifest = NoManifest
    Nobody = Nobody
SPECIFICATION FairSpec
INVARIANTS TypeOK ServedHashed
PROPERTIES FreezeServable ServesOnceFrozen
