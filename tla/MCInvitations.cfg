SPECIFICATION Spec
CONSTANTS
    c1 = c1
    c2 = c2
    c3 = c3
    i1 = i1
    i2 = i2
    NoClient = NoClient
    NoInv = NoInv
    Client = {c1, c2, c3}
    Inv = {i1, i2}
    Cap = 1
    Droppers = {}
    Quarantine = TRUE
SYMMETRY Symmetry
INVARIANTS
    RefExact
    OneCloser
    ListsAgree
    ClosedLeaves
PROPERTIES
    RatedBeforeRelease
