SPECIFICATION Spec
SYMMETRY Symmetry
CONSTANTS
    Bases = {"a", "A", "z", ".trash", "t"}
    Spellings <- MCSpellings
    Decoded <- MCDecoded
    Documents = {d1, d2, d3}
    MaxCopies = 1
    Dotted = {"A", ".trash"}
    Deceptive = {"z"}
    Lower <- MCLower
    MaxDepth = 6
    MaxLen = 3
    MaxEntries = 4
    MaxMarked = 1
    MaxSelected = 2
    Destinations <- MCDestinations
INVARIANTS
    Reachable
    TrashRestorable
    ExtractionLosesNothing
PROPERTIES
    LiveNeverLost
