SPECIFICATION SpecEdit
CONSTANTS
    Calls <- EditCalls
    Parsed <- Edited
    Capacity = 7
    MaxDecoded = 15
INVARIANTS
    ReparsesToItself
    CachesAreExact
    SegmentEditsSplice
    ParamEditsSplice
    KeysAreErasedAndSet
    NormalFormIsReached
    ResolveFollowsRFC
