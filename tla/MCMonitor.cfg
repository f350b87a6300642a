SPECIFICATION FairSpec
CONSTANTS
    Editable = {"ecu_info", "greengrass_v2"}
    RestartPolicy = "always"
    MaxEdits = 2
    MaxTime = 2
INVARIANTS
    TypeOK
    KilledForAReason
PROPERTIES
    ChangeIsServed
CHECK_DEADLOCK TRUE
