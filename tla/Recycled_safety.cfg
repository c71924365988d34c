CONSTANTS
    Threads = {t1, t2}
    Ptrs = {p1, p2, p3}
    Nodes = {n1, n2, n3, n4}
    Null = Null
    SelfAssign = FALSE
SPECIFICATION Spec
SYMMETRY Symmetric
INVARIANTS
    TypeOK
    MutualExclusion
    RefsCountOwners
    AcquireExclusive
    FreeListUnowned
    NothingLost
    PoolBounded
