CONSTANTS
    u1 = u1
    u2 = u2
    u3 = u3
    u4 = u4
    Uids = {u1, u2, u3, u4}
    Records = {x1, x2, x3, x4}
    NULL = NULL
    ListHead = ListHead
    HashFunctions <- MCHashFunctions
    InitialBuckets = 1
    Threshold = 1
SYMMETRY Symmetry
SPECIFICATION ContainersSpec
CHECK_DEADLOCK FALSE
INVARIANTS
    ContainersTypeOK
    HashConsistent
    ChainsBounded
    ListConsistent
    LoopsVisitAll
PROPERTIES
    ImplementsStore
