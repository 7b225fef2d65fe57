SPECIFICATION AllSpec
CONSTANTS
    Callers = {i1, i2, i3}
    i1 = i1
    i2 = i2
    i3 = i3
    j1 = j1
    j2 = j2
    MaxTurns = 2
    ClearRounds = 1
    Settings <- ThreeSettings
SYMMETRY CallerSymmetry
INVARIANTS
    InterruptIsTrue
    OneInterruptPerTurn
    StreamIsHonest
    KeysAreSafe
PROPERTIES
    EscOutsideSubmit
    StreamOutcomeStands
CHECK_DEADLOCK FALSE
