SPECIFICATION FairSpec
CONSTANTS
    OwnSuffix = "own"
    Suffixes = {"ecu1", "own"}
    AllowedEcus = {"ecu1"}
    MaxBacklog = 2
    MaxLogsPerMerge = 2
    MaxLogsPerPut = 3
    PutMaxRetry = 1
    CreateMaxRetry = 1
    UploadServerLogs = TRUE
    LoggingLevel = "ERROR"
    Days = {"d1", "d2"}
    MaxAccepted = 3
PROPERTIES
    IsLossyFifo
    EverySettles
    UploaderReturns
