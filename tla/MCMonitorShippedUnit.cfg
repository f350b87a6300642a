SPECIFICATION FairSpec
CONSTANTS
    Editable = {"ecu_info", "greengrass_v2"}
    RestartPolicy = "on-failure"
    MaxEdits = 2
    MaxTime = 2
PROPERTIES
    ChangeIsServed
CHECK_DEADLOCK FALSE
