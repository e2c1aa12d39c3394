SPECIFICATION ContainerSpec
CONSTANTS
    Ids = {"alice", "bob", "bob2"}
    KemKey <- MCKemKey
    PqIds = {"alice", "bob2"}
    Vaults <- MCVaults
    Audiences <- MCAudiences
    Options <- MCOptions
    Additions <- MCAdditions
    Deceptive = {"z"}
    MaxChunk = 3
    MaxRecipients = 2
    MaxEntries = 6
    MaxWrites = 2
    MaxDamage = 1
INVARIANTS
    Faithful
    HonestOpens
    DamageRefused
CHECK_DEADLOCK FALSE
