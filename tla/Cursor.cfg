SPECIFICATION AllSpec
CONSTANTS
    MaxRecord = 3
    MaxLive = 2
    MaxCrashes = 1
    Bounds <- SomeBounds
INVARIANTS
    CheckpointCovers
    DeliveredInOrder
    RecordsAgree
    RunsAreHosted
CHECK_DEADLOCK FALSE
