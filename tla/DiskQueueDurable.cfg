SPECIFICATION Spec
CONSTANTS
    HeaderSize = 1
    MaxSegmentSize = 3
    MaxBufferSize = 8
    WriteAheadLimit = 2
    ReadAheadLimit = 2
    FrameSizes = {2}
    Producers = 1
    GetSizes = {1, 2}
    Consumers = 2
    MaxFrames = 4
    MaxSessions = 3
    MayClose = TRUE
    Faults = {"crash", "torn", "remove"}
    MaxFaults = 2
CHECK_DEADLOCK FALSE
INVARIANTS TypeOK  SegmentsSorted
PROPERTY DeliversInOrder
