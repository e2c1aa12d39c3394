SPECIFICATION FairSpec
CONSTANTS
    a = a
    b = b
    t1 = t1
    t2 = t2
    Vaults = {"v1"}
    Files = {"f"}
    Texts = {a, b}
    Temps = {t1, t2}
    MaxRev = 2
    FaultSets <- MCFaultSets
    None = None
INVARIANTS
    PlaintextOwned
    CleanExit
    NeverStoresShredded
    EditsStayHome
    BrowserCurrent
PROPERTIES
    CloseCompletes
CHECK_DEADLOCK FALSE
