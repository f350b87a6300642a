SPECIFICATION Spec
CONSTANTS
    Levels = {0}
    PbLevels = {0, 1}
    MapKeys = {"k"}
    SecondInNs = 2
    Steps <- MCSteps
    Received <- MCReceived
    Given <- MCGiven
    Extensions <- MCExtensions
    Seconds = {0, 1}
    References = {d1, d2, d3}
    Containers = {1, 2, 3, 4, 5, 6}
    MaxElements = 2
INVARIANTS
    TypeOK
    ContainersNotShared
    NewSharesNothing
    MadeIsFaithful
PROPERTIES
    ChangesAreIsolated
    RefusedChangesNothing
    NoNanosecondLost
SYMMETRY MCSymmetry
