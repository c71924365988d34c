SPECIFICATION MCSpec
CONSTANTS
    Calls <- DotPathCalls
    Parsed <- None
    Capacity = 12
    MaxDecoded = 14
INVARIANTS
    FirstSegmentEnds
