SPECIFICATION Spec
CONSTANTS
    Watches = {"watch"}
    Tests = {"test"}
    Frames = 1
    Caps = {1, 2}
    MaxReloads = 1
PROPERTIES
    ReloadInterruptsNobody
CHECK_DEADLOCK FALSE
