SPECIFICATION FairSpec
CONSTANTS
    Conns = {c1}
    Sessions = {s1}
    Turns = {t1, t2}
    c1 = c1
    s1 = s1
    t1 = t1
    t2 = t2
    MaxIterations = 1
    HistoryLimit = 2
    MaxDeltas = 1
    ModelCalls <- ThreeCalls
    MaxLines = 3
    Polite = FALSE
    DbMayFail = TRUE
    InferenceMayFail = TRUE
    MayDisconnect = TRUE
    MayPanic = TRUE
    MayCrash = TRUE
PROPERTIES
    EveryMessageAnswered
CHECK_DEADLOCK FALSE
