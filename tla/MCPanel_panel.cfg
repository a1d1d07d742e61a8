SPECIFICATION Spec
CONSTANTS
    Editors = {"e1", "e2"}
    Polls = {"p1"}
    MaxWrites = 3
    Requests = {"r1", "r2"}
    MaxRequests = 4
    LifeTroubles = 2
    Ids = {"p", "q"}
    MaxEdits = 4
    MaxTroubles = 1
INVARIANTS
    EditsSurvive
    CopiesAgree
    OneLoop
    RoutesHold
CHECK_DEADLOCK FALSE
