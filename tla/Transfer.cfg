SPECIFICATION Spec
CONSTANTS
    c1 = c1
    c2 = c2
    home = home
    None = None
    Conns = {c1, c2}
    Callers <- MCCallers
    Address <- MCAddress
    Size <- MCSize
    MAX_TRANSFER_SIZE = 2
    MAX_CONCURRENT_HANDSHAKES = 1
    MAX_HELLOS_PER_SECRET = 2
    FAILURE_THRESHOLD = 1
    Flaky = {c1}
    MaxFaults = 1
INVARIANTS
    StopMeansStop
PROPERTIES
    Delivers
    TransfersEnd
CHECK_DEADLOCK FALSE
