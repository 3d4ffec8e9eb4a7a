SPECIFICATION Spec
CONSTANTS
    k1 = k1
    v1 = v1
    Keys = {k1}
    Values = {v1}
    NoValue = NoValue
    Torn = Torn
    TxMod = 8
    MaxAge = 4
    LogLimit = 2
    Faults = {"crash", "outage", "tmp", "open", "write", "sync", "truncate", "remove"}
    MaxFaults = 2
INVARIANTS TypeOK CheckpointNewest ActiveIsNewest
PROPERTY Durability
