SPECIFICATION Spec
CONSTANTS
    Requests = {r1, r2}
    r1 = r1
    r2 = r2
    Unlucky = {r2}
    Sizes = {2}
    MaxFound = 2
    HistoryLimit = 2
    MaxDeltas = 2
    MaxLines = 2
    Window = 6
VIEW EndedForgotten
INVARIANTS
    TypeOK
    StoredIsShown
    ContextFits
PROPERTIES
    AnswersPromised
CHECK_DEADLOCK FALSE
