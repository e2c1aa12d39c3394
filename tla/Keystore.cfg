SPECIFICATION Spec
CONSTANTS
    NoKeystore = NoKeystore
    NoAnchor = NoAnchor
    NoSecret = NoSecret
    NoJob = NoJob
    MaxEpoch = 9
    MaxFresh = 4
    MaxKeys = 2
    MaxFaults = 1
    Damages <- MCDamages
    MaxDamage = 1
    MaxMoves = 1
CHECK_DEADLOCK FALSE
INVARIANTS
    StillGetsIn
PROPERTIES
    RevokedStaysRevoked
    NeverDowngraded
