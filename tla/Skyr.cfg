SPECIFICATION Spec
CONSTANTS
    ByteSize = 4
    MaxParameters = 2
    Urls <- MCUrls
    References <- MCReferences
    Protocols <- MCProtocols
    Names <- MCNames
    HostTexts <- MCHostTexts
    Ports <- MCPorts
    Paths <- MCPaths
    Queries <- MCQueries
    Fragments <- MCFragments
    ParameterTexts <- MCParameterTexts
INVARIANTS
    PositionInInput
    RecordsAreValid
    SetterConfined
    HrefReadsBack
    AddressesAreExact
PROPERTIES
    SearchReadsBack
    ParsesEnd
