SPECIFICATION Spec
CONSTANTS
    Conns = {c1}
    Sessions = {s1}
    Turns = {t1, t2}
    c1 = c1
    s1 = s1
    t1 = t1
    t2 = t2
    MaxIterations = 2
    HistoryLimit = 2
    MaxDeltas = 1
    ModelCalls <- OneCall
    MaxLines = 3
    Polite = TRUE
    DbMayFail = FALSE
    InferenceMayFail = FALSE
    MayDisconnect = FALSE
    MayPanic = FALSE
    MayCrash = FALSE
SYMMETRY ChatSymmetry
PROPERTIES
    ModelSeesResults
CHECK_DEADLOCK FALSE
