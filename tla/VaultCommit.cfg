SPECIFICATION Spec
CONSTANTS
    s1 = s1
    s2 = s2
    f = f
    g = g
    b1 = b1
    b2 = b2
    b3 = b3
    alice = alice
    vault = vault
    Session = {s1, s2}
    Path = {f, g}
    Blob = {b1, b2}
    NoBlob = NoBlob
    Identity = {alice}
    Self = alice
    Object = {vault}
    Vault = vault
    Suite = {1}
    SuiteId = 1
    Payload <- MCTree
    MaxEpoch = 3
    MaxBatchOps = 2
    FaultSets <- MCFaultSets
    NoAnchor = NoAnchor
    None = None
SYMMETRY MCSymmetry
INVARIANTS
    TypeOK
    NoDanglingUnlessAnchorFails
    SurvivesPowerLoss
    CurrentReaderReadable
    NoOrphans
    AckedKept
