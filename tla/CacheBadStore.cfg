CONSTANTS
    p1 = p1
    p2 = p2
    p3 = p3
    target = target
    draft = draft
    Nobody = Nobody
    Pods = {p1, p2, p3}
    Artifacts = {target, draft}
    NFiles = 2
    Needs <- ThreePods
    Leftovers = {"absent"}
    Objects = {"good", "wrong", "absent"}
    FlakyReads = FALSE
    MaxFaults = 1
SPECIFICATION Spec
INVARIANTS ServedIntact
PROPERTIES VerifiedNotRefetched ImplementsSharedArtifact
