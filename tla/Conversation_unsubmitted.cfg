SPECIFICATION Spec
CONSTANTS
    Senders = {"a"}
    MaxTurns = 2
    MaxEvents = 1
    MaxEntries = 1
    Settings = {{"a", "claude", "holds", "patient"}}
INVARIANT EndsOnlySubmitted
