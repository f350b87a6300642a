SPECIFICATION FairSpec
CONSTANTS
    Editable = {"profile", "ecu_info", "greengrass_v2"}
    RestartPolicy = "always"
    MaxEdits = 2
    MaxTime = 2
PROPERTIES
    EveryWriteIsSeen
CHECK_DEADLOCK TRUE
