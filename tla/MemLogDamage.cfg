SPECIFICATION FairSpec
CONSTANTS
    k1 = k1
    v1 = v1
    Keys = {k1}
    Values = {v1}
    NoValue = NoValue
    Torn = Torn
    TxMod = 8
    MaxAge = 4
    LogLimit = 2
    Faults = {"tmp", "open", "write", "truncate", "read", "corrupt"}
    MaxFaults = 2
INVARIANT DamageHeals
PROPERTY CatchesUp
