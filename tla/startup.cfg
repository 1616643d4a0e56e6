SPECIFICATION FairSpec
CONSTANTS
    p1 = p1
    p2 = p2
    Procs = {p1, p2}
    ManifestNames <- Overlapping
    CachePaths <- OneCachePath
    ExistingDirs <- UsedHome
    MaxAborts = 2
INVARIANT
    ReadyHasData
PROPERTY
    EventuallyReady
