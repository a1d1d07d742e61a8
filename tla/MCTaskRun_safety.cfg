SPECIFICATION Spec
CONSTANTS
    v1 = v1
    d1 = d1
    m1 = m1
    Task = {d1}
    Video = {}
    Slot = {d1}
    SlotTime <- OneDynamic
    Copy = {1, 2}
    Backoff = {0, 1}
    MaxAttempts = 2
    LeaseTime = 1
    LeaseOverdue = 1
    GraceWindow = 1
    MaxNow = 5
    MaxCrashes = 2
    MaxRequests = 2
INVARIANTS
    StartBudget
    AttemptsCapped
PROPERTIES
    SettledStays
    KeepsPromise
CHECK_DEADLOCK FALSE
