SPECIFICATION FairSpec
CONSTANTS
    w1 = w1
    w2 = w2
    Workers = {w1}
    NoBatch = NoBatch
    MaxBatches = 2
    Size = 3
    Guaranteed = {1}
    TimeToLive = 3
    Replies = {"ack", "retry", "retryEvents", "cancelled"}
    MaxReloads = 1
    MayClose = FALSE
INVARIANT GuaranteedSent
PROPERTY EventuallyDone
