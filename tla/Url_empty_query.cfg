SPECIFICATION MCSpec
CONSTANTS
    Calls <- DotPathCalls
    Parsed <- EmptyQuery
    Capacity = 12
    MaxDecoded = 14
INVARIANTS
    ParamCountIsExact
