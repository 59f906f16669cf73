SPECIFICATION Spec
CONSTANTS
    Cycles = {c1, c2}
    Requests = {r1, r2, r3}
    c1 = c1
    c2 = c2
    r1 = r1
    r2 = r2
    r3 = r3
    Ops = {"start", "run", "retry", "advance"}
    MaxRetries = 3
    MaxFailed = 1
    FailedWindow = 10
    RunIterations = 6
    Inference = {"answers", "fails", "nan"}
    MaxInFlight = 1
    DbMayFail = FALSE
    MayAbandon = FALSE
SYMMETRY RequestSymmetry
VIEW EndedView
INVARIANTS
    EventsAgreeAtRest
    SettledAfterTwoRuns
PROPERTIES
    TerminalLeftByRetryOnly
CHECK_DEADLOCK FALSE
