SPECIFICATION Spec
CONSTANTS
    Calls = {a1, a2, a3}
    Keys = {k1, k2, k3}
    a1 = a1
    a2 = a2
    a3 = a3
    k1 = k1
    k2 = k2
    k3 = k3
    MaxSize = 2
    MaxRetries = 1
    MaxDeltas = 1
    MaxHints = 1
    MayAbandon = TRUE
SYMMETRY EngineSymmetry
INVARIANTS
    TypeOK
    AnswersWhole
    RequestBound
    CacheBound
PROPERTIES
    LiveEvictedLast
CHECK_DEADLOCK FALSE
