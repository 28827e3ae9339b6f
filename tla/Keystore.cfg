SPECIFICATION Spec
CONSTANTS
    NoMeta = NoMeta
    ConfigID = {1, 2}
    GracePeriod = 1
    MaxAdds = 3
    MaxFaults = 2
    MaxTime = 2
INVARIANTS
    TypeOK
    AckedDurable
    LiveEntryHasFile
    OkIsDurable
    OrphanCostsAFault
    CurrentIsNewest
