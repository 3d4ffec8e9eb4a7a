SPECIFICATION FairSpec
CONSTANTS
    HeaderSize = 1
    MaxSegmentSize = 3
    MaxBufferSize = 0
    WriteAheadLimit = 2
    ReadAheadLimit = 2
    FrameSizes = {2}
    Producers = 1
    GetSizes = {2}
    Consumers = 1
    MaxFrames = 5
    MaxSessions = 1
    MayClose = TRUE
    Faults = {"remove"}
    MaxFaults = 1
CHECK_DEADLOCK FALSE
PROPERTIES CloseReturns StoredDelivered
