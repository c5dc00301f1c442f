CONSTANTS
    Manifests <- AllManifests
    Hosts <- GB10Hosts
    HostFloor = 80
    Unknown = Unknown
    Empty = Empty
    NaN = NaN
    NotANumber = NotANumber
    DSPARK = DSPARK
    DFLASH = DFLASH
    DraftPath = DraftPath
    Wishes <- Installs
    MaxFailures = 2
    NoFile = NoFile
    Torn = Torn
SPECIFICATION HostSpec
INVARIANTS Ceiling OneDraftSource FollowingAdvice ValidManifestStarts AdmittedFits UnitStarts InstalledStarts
