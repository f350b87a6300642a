SPECIFICATION FairSpec
CONSTANTS
    OwnSuffix = "own"
    Suffixes = {"ecu1", "own"}
    AllowedEcus = {"ecu1"}
    MaxBacklog = 1
    Levels = {"TRACE", "INFO"}
    MaxRequests = 2
INVARIANTS
    TypeOK
    AnswerIsTruthful
    QueuedInOrderSent
PROPERTIES
    KeepsContract
    EveryRequestEnds
CHECK_DEADLOCK FALSE
