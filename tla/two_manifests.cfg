SPECIFICATION Spec
CONSTANTS
    p1 = p1
    p2 = p2
    i1 = i1
    i2 = i2
    i3 = i3
    i4 = i4
    NoTtl = NoTtl
    BadHeader = BadHeader
    NoEntry = NoEntry
    NoInode = NoInode
    NoData = NoData
    MaxU32 = 3
    NBlocks = 2
    VersionIds = {"v1"}
    Procs = {p1}
    Requests <- TwoManifests
    Controls <- BriefControls
    Inodes = {i1, i2}
    MaxInstant = 2
    Faults = {}
    PluginNames = {"a"}
    Resources = {"ra", "rb"}
INVARIANT
    NoForeignBytes
