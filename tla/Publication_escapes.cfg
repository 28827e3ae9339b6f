SPECIFICATION MCSpec
CONSTANTS
    Id = {"k", "l"}
    NoId = "none"
    Zones <- Escaped
PROPERTIES
    OthersPreserved
