SPECIFICATION FairSpec
CONSTANTS
    Clients = {1, 2}
    MaxOffset = 2
    IgnoredSizes = {1}
    MaxFiles = 2
    MaxObjects = 3
    MaxEvents = 2
    MaxFaults = 1
    CloseRemoved = TRUE
    Races = {}
 
INVARIANTS TypeOK   NoSurplusACK
CHECK_DEADLOCK FALSE
