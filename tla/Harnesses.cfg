SPECIFICATION AllSpec
CONSTANTS
    InputIds = {"i", "o"}
    Own = {"o"}
    Grain = 2
    Slack = 2
    MaxTime = 5
INVARIANTS
    MissIsTrue
    HarnessesAreTrue
