SPECIFICATION Spec
CONSTANTS
    Callers = {c1}
    Autos = {a1}
    Inputs = {i1, i2}
    MaxOps = 1
    Settings = {{"usage", "auth", "uncertain"}, {"usage", "unknown"}, {"billing", "prompting", "uncertain"},
                {"own", "autonomous", "uncertain"}, {"own", "usage"}}
SYMMETRY Symmetry
INVARIANTS
    TurnsAreTrue
    OneInputAtATime
PROPERTIES
    NothingLeftRunning
    AuthBlockStays
