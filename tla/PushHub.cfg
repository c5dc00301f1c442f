CONSTANTS
    p1 = p1
    Pushers = {p1}
    NFiles = 2
    LFS = {2}
    Leftovers = {"good", "wrong", "short", "absent"}
    Objects = {"absent", "wrong", "good", "short"}
    Downloads = {"wrong", "short"}
    MaxFaults = 2
    MaxRot = 1
    Hubs <- HubSet
    MaxPages = 2
    MaxMisses = 1
    NoManifest = NoManifest
SPECIFICATION FairHubSpec
INVARIANTS ListedWhole HashedFilesMirrored
PROPERTIES PushLeavesItsManifest MirroredInTheEnd
