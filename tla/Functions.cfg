SPECIFICATION Spec
CONSTANT MaxInput <- MCMaxInput
INVARIANTS
    LaunchIsAsAsked
    OutputIsRead
    FilesAreRead
    DialogsAreAnswered
CHECK_DEADLOCK FALSE
