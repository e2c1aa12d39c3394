SPECIFICATION Spec
CONSTANTS
    v1 = v1
    v2 = v2
    v3 = v3
    Vault = {v1, v2, v3}
    FaultSets <- MCFaultSets
    None = None
SYMMETRY MCSymmetry
INVARIANTS
    ListedHasData
    DeletedNeverListed
    UnlockListsAll
    ToldIsKeptUnlessBothFail
