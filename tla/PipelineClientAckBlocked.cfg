SPECIFICATION FairSpec
CONSTANTS
    MaxEvents = 3
    MayFilter = FALSE
    MayRefuse = FALSE
    MayTimeout = FALSE
    WaitOnPipelineClose = FALSE
CHECK_DEADLOCK FALSE
PROPERTY AckLoopReturns
