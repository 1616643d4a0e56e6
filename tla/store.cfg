SPECIFICATION Spec
CONSTANTS
    BasicAuth = BasicAuth
    TextAuth = TextAuth
    Disposition = Disposition
    NoValue = NoValue
    NoLines = NoLines
    Panics = Panics
    Spellings <- MCSpellings
    LowerCase <- MCLowerCase
    Literal <- MCLiteral
    Types <- MCTypes
    HeaderName <- MCHeaderName
    Values <- MCValues
    Lines <- MCLines
    Given <- MCGiven
    Unsendable <- MCUnsendable
    NotText <- MCNotText
    Parse <- MCParse
    Format <- MCFormat
    NoHttpNames <- MCNoHttpNames
    MaxLines <- MCMaxLines
    MaxEntries <- MCMaxEntries
CHECK_DEADLOCK FALSE
INVARIANTS
    TypeOK
    NamesUnique
    CopiesAgree
    PanicNeedsCause
PROPERTY StepsAreMapSteps
