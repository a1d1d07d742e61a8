SPECIFICATION TurnsSpec
CONSTANTS
    Watches = {"watch"}
    Tests = {"test"}
    Frames = 1
    Caps = {1, 2}
    FirstCap = 1
    MaxReloads = 1
    Keys = {"k1", "k2"}
    Chats = {"c1"}
    Streams = {"s1"}
    PerKey = 1
    Cooldown = 1
    MaxLadder = 1
    MaxNow = 1
    MaxEdits = 2
    VideoSlots = {20, 22, 24, 26, 40}
    DefaultEnergy = 70
    DreamCost = 2
    MaxSpent = 8
INVARIANTS
    SlotsAreCounted
    EvidenceIsWhole
    DirectoryGoes
PROPERTIES
    EveryTurnComes
CHECK_DEADLOCK FALSE
