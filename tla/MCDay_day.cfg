SPECIFICATION DaySpec
CONSTANTS
    t1 = t1
    t2 = t2
    Tasks = {t1, t2}
    Videos = {"v", "w"}
    Named = {"v"}
    Actions = {"coin"}
    MaxPerVideo = 1
    MaxPerDay = 1
    MaxAttempts = 2
    MaxCandidates = 3
    MaxDownloads = 2
    MaxTroubles = 1
    Texts = {"x"}
    Wanted = {"plan", "detail", "diary"}
    Calls = {"plan", "diary", "explore", "creative"}
    MaxDays = 1
    MaxAsks = 1
    Target = 1
    Runners = {"daily", "manual"}
    Episodes = {1}
    Acts = {"like", "comment"}
    Says = {"x", "y"}
    SeriesTroubles = 2
SYMMETRY TaskSymmetry
INVARIANTS
    BudgetsHold
    FileStays
    FileGoes
    KeptIsArchived
    OpenIsKnown
    ActedOnce
CHECK_DEADLOCK FALSE
