SPECIFICATION Spec
CONSTANTS
    MaxVersions = 3
    NameOf <- Names
    TextOf <- Texts
    Specs <- AllSpecs
    NoResponse = NoResponse
INVARIANTS
    FoundIsNewest
    QuietIsExact
    ListingIsAligned
