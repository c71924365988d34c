CONSTANTS
    Threads = {t1}
    Ptrs = {p1, p2}
    Nodes = {n1, n2}
    Null = Null
    SelfAssign = TRUE
SPECIFICATION Spec
INVARIANTS
    AcquireExclusive
