SPECIFICATION PipelineSpec
CONSTANTS
    MaxEvents = 2
    MayFilter = TRUE
    MayRefuse = FALSE
    MayTimeout = TRUE
    WaitOnPipelineClose = TRUE
    MaxOutputs = 2
    CLSWorkers = {w1, w2}
    WriteQueueSize = 1
    MaxTries = 2
    Guaranteed = TRUE
    SlowPublish = FALSE
    MaxErrors = 2
CHECK_DEADLOCK FALSE
INVARIANTS PipelineTypeOK BatchKept  
PROPERTIES  QueueDrains PipelineCloseReturns ClientCloseReturns
