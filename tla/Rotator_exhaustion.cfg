SPECIFICATION FairSpec
CONSTANTS
    Key = {k1, k2, k3, k4}
    NoKey = NoKey
    NumConfigIDs = 3
    TTL = 1
    SettleDelay = 1
    GracePeriod = 1
    Interval = 1
    SyncReload = TRUE
    MaxDisturbances = 0
PROPERTIES
    Recovers
