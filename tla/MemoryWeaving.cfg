SPECIFICATION WeaveSpec
CONSTANTS
    Entries = {e1, e2, e3}
    Clients = {k1, k2, k3, k4}
    e1 = e1
    e2 = e2
    e3 = e3
    k1 = k1
    k2 = k2
    k3 = k3
    k4 = k4
    Ops = {"insert", "patch", "delete", "consolidate", "promote"}
    DecayTicks = 1
    DbMayFail = TRUE
    MayAbandon = TRUE
    Weavers = {w1}
    w1 = w1
    MaxMemoryTokens = 2
    TopK = 2
    TopRaw = 1
    CutAbove = 0
    RawAbove = 0
    IncludeRaw = TRUE
SYMMETRY WeaveSymmetry
VIEW LiveView
INVARIANTS
    TypeOK
    EmbeddingCovers
    WovenOnce
    WovenFits
PROPERTIES
    VerifiedNeverFades
