SPECIFICATION FairSpec
CONSTANTS
    Compiled <- MCCompiled
    Raw <- MCRaw
    Silent = {"route53"}
    MaxRequests = 3
INVARIANTS
    PublishesAtRecord
    ExitStatusTells
PROPERTIES
    OnlyTheCallUnderWay
    ShutdownEnds
    OthersKeepRotating
