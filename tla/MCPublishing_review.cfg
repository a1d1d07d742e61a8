SPECIFICATION FairPublishing
CONSTANTS
    Parts = {"drafts", "week"}
    p1 = p1
    p2 = p2
    Task = {p1}
    Copy = {1, 2}
    Backoff = {0}
    MaxAttempts = 2
    LeaseTime = 1
    LeaseOverdue = 1
    GraceWindow = 1
    Expiry = 1
    StuckTime = 1
    MaxNow = 3
    MaxCrashes = 1
    MaxRequests = 1
    MaxReopened = 1
    MaxRevision = 2
    MaxCommands = 2
    MayLackParts = TRUE
    StoreFails = TRUE
    WeekCrashes = 2
    WeekRequests = 2
    Minute = 0
    Day = 9
    PerMinute = 1
    PerDay = 2
    GlobalQuota = 2
    Dynamics = {"d1"}
    Others = {"r1", "r2"}
    PostNow = 1
    MaxTroubles = 2
    MaxUnlimited = 1
INVARIANTS
    OnlyApproved
    WeekIsHonest
PROPERTIES
    KeepsGate
    NothingWaitsForEver
CHECK_DEADLOCK FALSE
