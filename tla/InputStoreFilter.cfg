SPECIFICATION Spec
CONSTANTS
    Clients = {1, 2}
    MaxOffset = 2
    IgnoredSizes = {1}
    MaxFiles = 1
    MaxObjects = 2
    MaxEvents = 1
    MaxFaults = 0
    CloseRemoved = TRUE
    Races = {"filter"}
INVARIANT NoLineSkipped
CHECK_DEADLOCK FALSE
