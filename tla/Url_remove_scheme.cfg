SPECIFICATION MCSpec
CONSTANTS
    Calls <- RemoveSchemeCalls
    Parsed <- ManyColons
    Capacity = 16
    MaxDecoded = 18
INVARIANTS
    CheckInvariants
