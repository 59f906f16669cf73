SPECIFICATION Spec
CONSTANTS
    Conns = {c1, c2}
    Sessions = {s1}
    Turns = {t1, t2}
    c1 = c1
    c2 = c2
    s1 = s1
    t1 = t1
    t2 = t2
    MaxIterations = 2
    HistoryLimit = 2
    MaxDeltas = 1
    ModelCalls <- OneCall
    MaxLines = 6
    Polite = FALSE
    DbMayFail = TRUE
    InferenceMayFail = TRUE
    MayDisconnect = TRUE
    MayPanic = TRUE
    MayCrash = TRUE
SYMMETRY ChatSymmetry
INVARIANTS
    TypeOK
    CutRunsPrefix
PROPERTIES
    ModelSeesRequest
    StopEnds
    AnswersPromised
CHECK_DEADLOCK FALSE
