SPECIFICATION MCSpec
CONSTANTS
    Calls <- AuthorityCalls
    Parsed <- Simple
    Capacity = 11
    MaxDecoded = 13
INVARIANTS
    ReparsesToItself
    
    ModifiersKeepPromises
