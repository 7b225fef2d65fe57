SPECIFICATION AllSpec
CONSTANTS
    h1 = h1
    h2 = h2
    i1 = i1
    i2 = i2
    w1 = w1
    w2 = w2
    w3 = w3
    Hosts = {h1, h2}
    Inputs = {i1, i2}
    MaxCrashes = 2
    SyncsParents = TRUE
SYMMETRY Symmetry
INVARIANTS
    AbsenceProves
    GivenOnce
    FilesAreKept
    ContractIsKept
