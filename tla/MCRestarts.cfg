CONSTANTS
    Slots = {x}
    Names = {n1}
    Clients = {c1, c2}
    Watchers = {w1}
    None = None
    MaxRestarts = 1
    MaxCrashes = 2
    HoldsResult = FALSE
    RestartLimit = 2
    RestartWindow = 3
    LastTime = 9
SPECIFICATION MCSpec
INVARIANTS RateKept RefusedOnlyIfFull CancelMeansStopped NoForgottenWatcher HandledInOrder DiscardedOnlyIfStopped NothingLeft
PROPERTIES ExitCompletes
CHECK_DEADLOCK FALSE
