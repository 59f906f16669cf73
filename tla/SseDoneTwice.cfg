SPECIFICATION Spec
CONSTANTS
    Requests = {r1}
    r1 = r1
    Unlucky = {}
    Sizes = {2}
    MaxFound = 1
    HistoryLimit = 2
    MaxDeltas = 2
    MaxLines = 2
    Window = 6
INVARIANTS
    DoneOnce
CHECK_DEADLOCK FALSE
