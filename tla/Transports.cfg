SPECIFICATION AllSpec
CONSTANTS
    h1 = h1
    h2 = h2
    Hosts = {h1, h2}
    Ids = {"a", "n", "m"}
    Requests <- OpenRequests
    Has <- Capabilities
SYMMETRY Symmetry
INVARIANTS
    OneHost
    LockIsLetGo
    CodexIsTrue
CHECK_DEADLOCK FALSE
