SPECIFICATION Spec
CONSTANTS
    MaxRecord = 2
    MaxLive = 1
    MaxCrashes = 0
    Bounds = {4}
INVARIANT DrainedMeansDone
CHECK_DEADLOCK FALSE
