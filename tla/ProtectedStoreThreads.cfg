SPECIFICATION Spec
CONSTANTS
    ui = ui
    job = job
    ks = ks
    contacts = contacts
    alice = alice
    p1 = p1
    p2 = p2
    Thread = {ui, job}
    JobThread = job
    Identity = {alice}
    Self = alice
    Object = {ks, contacts}
    Keystore = ks
    Exposed = {}
    Suite <- MCSuite
    Payload = {p1, p2}
    MaxEpoch = 2
    NoAnchor = NoAnchor
    NoFile = NoFile
    Free = Free
SYMMETRY PayloadSymmetry
INVARIANTS
    TypeOK
    AckedIsAnchored
    UntamperedLoadable
PROPERTIES
    AnchorOnlyAdvances
