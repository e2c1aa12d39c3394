SPECIFICATION Spec
SYMMETRY Symmetry
CONSTANTS
    Bases = {"a"}
    Spellings <- MCPlain
    Decoded <- MCDecoded
    Documents = {d1, d2, d3}
    MaxCopies = 1
    Dotted = {}
    Deceptive = {}
    Lower <- MCLower
    MaxDepth = 3
    MaxLen = 5
    MaxEntries = 5
    MaxMarked = 1
    MaxSelected = 2
    Destinations <- MCDestinations
INVARIANTS
    Reopens
