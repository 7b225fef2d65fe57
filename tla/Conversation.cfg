\* Two callers of Send, and announcements that wait for room; a harness other than
\* claude, without keep-alive, that meets walls and is taken to wait for input while
\* it works; turns held on a Blocked and decided from the harness's record.
SPECIFICATION Spec
CONSTANTS
    Senders = {"a", "b"}
    MaxTurns = 2
    MaxEvents = 1
    MaxEntries = 1
    Settings = {{"a", "b", "claude", "holds", "slow"},
                {"a", "waiting", "walls", "patient"},
                {"a", "records", "blocked", "claude", "holds", "patient"}}
INVARIANTS
    TurnsEndOnce
    TypesAlone
    SuccessIsReplied
