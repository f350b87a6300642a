SPECIFICATION FairSpec
CONSTANTS
    OwnSuffix = "own"
    Suffixes = {"ecu1", "own"}
    AllowedEcus = {"ecu1"}
    MaxBacklog = 1
    Levels = {"INFO"}
    MaxRequests = 1
PROPERTIES
    ReadyMeansServing
CHECK_DEADLOCK FALSE
