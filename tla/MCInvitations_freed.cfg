SPECIFICATION Spec
CONSTANTS
    c1 = c1
    c2 = c2
    i1 = i1
    i2 = i2
    NoClient = NoClient
    NoInv = NoInv
    Client = {c1, c2}
    Inv = {i1, i2}
    Cap = 2
    Droppers = {}
    Quarantine = FALSE
SYMMETRY Symmetry
INVARIANTS
    NoUseAfterFree
