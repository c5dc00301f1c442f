CONSTANTS
    p1 = p1
    p2 = p2
    p3 = p3
    target = target
    draft = draft
    Nobody = Nobody
    Pods = {p1, p2}
    Artifacts = {target, draft}
    NFiles = 2
    Needs <- TwoPods
    Leftovers = {"good", "wrong", "short", "absent"}
    Objects = {"good"}
    FlakyReads = TRUE
    MaxFaults = 2
SPECIFICATION FairSpec
INVARIANTS TypeOK Serialized
PROPERTIES EveryPodServes
