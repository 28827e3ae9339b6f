SPECIFICATION FairSpec
CONSTANTS
    Key = {k1, k2, k3, k4, k5}
    NoKey = NoKey
    NumConfigIDs = 4
    TTL = 1
    SettleDelay = 1
    GracePeriod = 1
    Interval = 3
    SyncReload = TRUE
    MaxDisturbances = 1
PROPERTIES
    RecoversUnlessExhausted
    GraceKeysDeleted
