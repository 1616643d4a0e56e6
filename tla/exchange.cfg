SPECIFICATION Spec
CONSTANTS
    Sent <- MCSent
    Arrivals <- MCArrivals
    Appended <- MCAppended
    CookiePairs <- MCCookiePairs
    FullLengths <- MCFullLengths
    CwdDirs <- MCCwdDirs
    MaxHops = 2
    MaxCookies = 2
    MaxItems = 1
CHECK_DEADLOCK FALSE
INVARIANTS
    TypeOK
    MeaningKept
    ReadAsTested
    ServedIsAskedFor
    RevalidationMatches
    SavedInDirectory
PROPERTY NoDrift
