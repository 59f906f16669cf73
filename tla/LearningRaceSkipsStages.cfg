SPECIFICATION Spec
CONSTANTS
    Cycles = {c1}
    Requests = {r1, r2, r3}
    c1 = c1
    r1 = r1
    r2 = r2
    r3 = r3
    Ops = {"start", "run"}
    MaxRetries = 1
    MaxFailed = 5
    FailedWindow = 10
    RunIterations = 6
    Inference = {"answers", "fails"}
    MaxInFlight = 2
    DbMayFail = FALSE
    MayAbandon = FALSE
SYMMETRY RequestSymmetry
INVARIANTS
    TestGate
CHECK_DEADLOCK FALSE
