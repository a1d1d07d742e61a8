SPECIFICATION FairSpec
CONSTANTS
    v1 = v1
    d1 = d1
    m1 = m1
    Task = {v1, m1}
    Video = {v1, m1}
    Slot = {v1}
    SlotTime <- OneVideo
    Copy = {1, 2}
    Backoff = {0}
    MaxAttempts = 2
    LeaseTime = 1
    LeaseOverdue = 1
    GraceWindow = 1
    MaxNow = 3
    MaxCrashes = 1
    MaxRequests = 0
INVARIANTS
    SlotVideoHasOneExecutor
PROPERTIES
    OrphansAreRecovered
    RetriesAreTaken
CHECK_DEADLOCK FALSE
