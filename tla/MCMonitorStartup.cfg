SPECIFICATION FairSpec
CONSTANTS
    Editable = {"ecu_info", "greengrass_v2"}
    RestartPolicy = "always"
    MaxEdits = 2
    MaxTime = 2
PROPERTIES
    ChangeBeforeFirstPassKills
CHECK_DEADLOCK TRUE
