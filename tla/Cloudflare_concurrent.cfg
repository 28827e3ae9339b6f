SPECIFICATION MCSpec
CONSTANTS
    Writer = {w1, w2}
    List = {a, b}
    NoList = NoList
    Nothing = Nothing
    MaxRecords = 4
SYMMETRY WriterSymmetry
INVARIANTS
    TypeOK
    EchNeverMissing
PROPERTIES
    PutReplaces
