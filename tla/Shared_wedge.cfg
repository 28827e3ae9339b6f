SPECIFICATION Spec
CONSTANTS
    Key = {k1, k2, k3, k4, k5, k6}
    NoKey = NoKey
    Rotators = {daemon}
    Generators = {cli}
    TTL = 2
    SettleDelay = 1
    GracePeriod = 2
    MaxCommands = 5
SYMMETRY KeySymmetry
INVARIANTS
    RotationsCanRead
