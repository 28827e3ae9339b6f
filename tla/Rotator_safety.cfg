SPECIFICATION Spec
CONSTANTS
    Key = {k1, k2, k3, k4, k5, k6}
    NoKey = NoKey
    NumConfigIDs = 5
    TTL = 2
    SettleDelay = 1
    GracePeriod = 2
    Interval = 2
    SyncReload = FALSE
    MaxDisturbances = 3
SYMMETRY KeySymmetry
INVARIANTS
    TypeOK
    KeydirCoversCaches
    OverlapListIsServable
    PreviousReadable
    GraceNotAdvertised
    ServerHoldsCachedKeys
    LagIsBounded
PROPERTIES
    DeletionIsSafe
    LifecycleForward
    PromiseKept
