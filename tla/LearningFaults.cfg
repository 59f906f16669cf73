SPECIFICATION Spec
CONSTANTS
    Cycles = {c1}
    Requests = {r1, r2, r3, r4}
    c1 = c1
    r1 = r1
    r2 = r2
    r3 = r3
    r4 = r4
    Ops = {"start", "run", "retry"}
    MaxRetries = 2
    MaxFailed = 5
    FailedWindow = 10
    RunIterations = 6
    Inference = {"answers", "fails"}
    MaxInFlight = 1
    DbMayFail = TRUE
    MayAbandon = TRUE
SYMMETRY RequestSymmetry
VIEW LiveView
INVARIANTS
    TypeOK
    FailureExplained
    StagesEarned
    RetryBudget
    KnowledgeEarned
PROPERTIES
    EventsTrue
    LifecycleSpec
CHECK_DEADLOCK FALSE
