SPECIFICATION DelaySpec
CONSTANTS
    OwnSuffix = "own"
    Suffixes = {"ecu1", "ecu2", "own"}
    AllowedEcus = {"ecu1"}
    MaxBacklog = 2
    MaxLogsPerMerge = 3
    MaxLogsPerPut = 2
    PutMaxRetry = 1
    CreateMaxRetry = 2
    PutFactor = 1
    PutMax = 1
    CreateFactor = 1
    CreateMax = 1
    UploadServerLogs = TRUE
    LoggingLevel = "DEBUG"
    Days = {"d1", "d2"}
    MaxAccepted = 4
INVARIANTS
    TypeOK
    StoredInOrder
    RoutedToOwnStream
    Accounted
    PutWithinLimit
    OldestFirst
    KnownEcusOnly
    CallsBounded
    SleepBounded
PROPERTIES
    KeepsContract
