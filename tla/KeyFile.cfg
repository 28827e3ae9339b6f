SPECIFICATION Spec
CONSTANTS
    MaxLength = 330
    PublicNames <- MCPublicNames
    Forms <- MCForms
    MaxKeys = 3
INVARIANTS
    ServedKeyIsHeld
PROPERTIES
    ServesWhatWasMade
    RefusalHasCause
CHECK_DEADLOCK FALSE
