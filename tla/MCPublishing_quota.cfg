SPECIFICATION PublishingSpec
CONSTANTS
    Parts = {"drafts", "post"}
    p1 = p1
    p2 = p2
    Task = {p1, p2}
    Copy = {1, 2}
    Backoff = {0}
    MaxAttempts = 2
    LeaseTime = 0
    LeaseOverdue = 1
    GraceWindow = 1
    Expiry = 0
    StuckTime = 0
    MaxNow = 1
    MaxCrashes = 1
    MaxRequests = 0
    MaxReopened = 1
    MaxRevision = 1
    MaxCommands = 2
    MayLackParts = FALSE
    StoreFails = TRUE
    WeekCrashes = 2
    WeekRequests = 2
    Minute = 0
    Day = 9
    PerMinute = 1
    PerDay = 2
    GlobalQuota = 2
    Dynamics = {"d1"}
    Others = {"r1", "r2"}
    PostNow = 1
    MaxTroubles = 2
    MaxUnlimited = 1
SYMMETRY TaskSymmetry
INVARIANTS
    PostedOnce
    QuotaIsExact
    PauseStopsUnchecked
    
CHECK_DEADLOCK FALSE
