SPECIFICATION Spec
CONSTANTS
    Runners = {"daily"}
    Episodes = {1}
    Acts = {"comment"}
    Texts = {"x", "y"}
    MaxTroubles = 2
PROPERTIES
    EpisodesSettle
CHECK_DEADLOCK FALSE
