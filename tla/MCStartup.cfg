SPECIFICATION FairStart
CONSTANTS
    Timeout = 1
    MandatoryRefresh = 3
    AdvisoryRefresh = 4
    Lifetime = 5
    Chunks = 2
    MaxRefresh = 3
    Word = {"edge", "Core", "p", "q", "1", "2"}
    MaxThingName = 6
    Vehicles <- MCVehicles
    Files <- MCFiles
INVARIANTS
    TypeOK
    CredentialsFromOneAnswer
    StartTypeOK
    ServesOwnVehicle
    WellFormedServes
    MonitorsWhatItUses
PROPERTIES
    SignedWhileValid
    EveryCallEnds
CHECK_DEADLOCK FALSE
