SPECIFICATION Spec
CONSTANTS
    NoKeystore = NoKeystore
    NoAnchor = NoAnchor
    NoSecret = NoSecret
    NoJob = NoJob
    MaxEpoch = 9
    MaxFresh = 5
    MaxKeys = 2
    MaxFaults = 2
    Damages = {}
    MaxDamage = 0
    MaxMoves = 1
CHECK_DEADLOCK FALSE
INVARIANTS
    RecoveredStaysOpen
