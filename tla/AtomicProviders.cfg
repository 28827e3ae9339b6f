SPECIFICATION MCSpec
CONSTANTS
    Writer = {w1, w2}
    List = {a, b}
    NoList = NoList
    Nothing = Nothing
    Rest = {x, y}
SYMMETRY MCSymmetry
PROPERTIES
    PutReplaces
    EditsSurvive
    DeleteIsSure
