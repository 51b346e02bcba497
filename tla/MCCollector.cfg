SPECIFICATION FairSpec
CONSTANTS
    NumTasks = 3
    Limits = {1, 3}
INVARIANTS
    Drained
    ErrorsReported
    CancelKept
    SiblingsUntouched
PROPERTIES
    ExitEnds
    Served
CHECK_DEADLOCK FALSE
