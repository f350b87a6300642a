SPECIFICATION FairSpec
CONSTANTS
    OwnSuffix = "own"
    Suffixes = {"ecu1", "own"}
    AllowedEcus = {"ecu1"}
    MaxBacklog = 1
    Levels = {"TRACE", "INFO"}
    MaxRequests = 1
PROPERTIES
    EveryLevelIsHandled
CHECK_DEADLOCK FALSE
