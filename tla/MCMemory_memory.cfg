SPECIFICATION Spec
CONSTANTS
    Types = {"summarize_event", "embed_event"}
    MaxAttempts = 2
    RetryWait = 0
    UnblockGrace = 0
    Concurrency = 1
    LeaseTime = 1
    MaxNow = 2
    MaxDrains = 1
    MaxTroubles = 1
    Events = {"e1", "e2"}
    Searches = {"s1", "s2"}
    CacheLimit = 3
    ScanLimit = 3
    Notes = {"o1", "o2"}
    Nights = {"n1", "n2"}
    MaxLinks = 3
    MaxCrashes = 1
    Files = {1, 2, 3}
    Dbs = {1, 3}
    Brain = 1
    Creators = {"a"}
    DiskTroubles = 3
INVARIANTS
    DeletedIsGone
    LossIsSeen
    RestoreIsSafe
PROPERTIES
    DeletionTakesConclusions
CHECK_DEADLOCK FALSE
