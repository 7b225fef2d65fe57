SPECIFICATION AllSpec
CONSTANTS
    Producers = {p1, p2, p3}
    LimitEvents = 2
    LimitBytes = 3
    Sizes = {1, 2, 4}
    MaxPushes = 4
    NoEvent = NoEvent
INVARIANTS
    Accounting
    WithinBounds
    RunIsTold
    FramesArrive
    OpeningIsSafe
PROPERTIES
    StreamSpec
    SettledStands
