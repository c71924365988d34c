CONSTANTS
    Threads = {t1, t2}
    Ptrs = {p1, p2}
    Nodes = {n1, n2}
    Null = Null
    SelfAssign = FALSE
SPECIFICATION FairSpec
PROPERTIES
    CallsReturn
    ImplementsSharedInstances
