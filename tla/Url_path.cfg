SPECIFICATION MCSpec
CONSTANTS
    Calls <- PathCalls
    Parsed <- Full
    Capacity = 13
    MaxDecoded = 15
INVARIANTS
    CheckInvariants
    ReparsesToItself
    CachesAreExact
    
    ModifiersKeepPromises
PROPERTY
    ImplementsComponents
