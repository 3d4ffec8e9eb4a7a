SPECIFICATION Spec
CONSTANTS
    w1 = w1
    w2 = w2
    Workers = {w1, w2}
    NoBatch = NoBatch
    MaxBatches = 1
    Size = 4
    Guaranteed = {1}
    TimeToLive = 2
    Replies = {"ack", "drop", "retry", "retryEvents", "splitRetry"}
    MaxReloads = 0
    MayClose = TRUE
CHECK_DEADLOCK FALSE
SYMMETRY WorkerSymmetry
INVARIANTS TypeOK DoneOnce  EventsPartitioned
