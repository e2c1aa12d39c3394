SPECIFICATION FairSpec
CONSTANTS
    v1 = v1
    Vault = {v1}
    Keystore = Keystore
    Contacts = Contacts
    Registry = Registry
    FaultSets <- MCFaultSets
INVARIANTS
    CompleteIfAlone
    NothingLost
    Resumable
PROPERTIES
    AnchorsFollowMoves
    EventuallyMigrated
CHECK_DEADLOCK FALSE
