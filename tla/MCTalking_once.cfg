SPECIFICATION FairTalking
CONSTANTS
    v1 = v1
    t1 = t1
    t2 = t2
    none = none
    Video = {v1}
    NoVideo = none
    MaxAttempts = 2
    ClaimLease = 1
    PublishLease = 1
    Backoff = {0, 1}
    MaxNow = 3
    MaxCrashes = 1
    MaxManual = 1
    MaxActions = 2
    Text = {t1, t2}
    NoText = none
    StuckTime = 1
    StoreFails = TRUE
    MaxRevision = 2
    MaxPosts = 3
    MaxLapses = 1
    DeferWait = 1
    StuckAfter = 0
    MaxMessages = 2
    Window = 4
    Batch = 1
    PmBackoff = {0}
    PmNow = 1
INVARIANTS
    CommentedOnce
    RepliedOnce
    AnsweredOnce
    AckedIsRecorded
PROPERTIES
    LateCallsRequeueNothing
    TableRefusesNothing
    NothingStaysStuck
CHECK_DEADLOCK FALSE
