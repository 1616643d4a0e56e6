SPECIFICATION Spec
CONSTANTS
    p1 = p1
    p2 = p2
    Procs = {p1, p2}
    ManifestNames <- Nested
    CachePaths <- OneCachePath
    ExistingDirs <- NewHome
    MaxAborts = 2
INVARIANT
    DefaultCacheCreated
