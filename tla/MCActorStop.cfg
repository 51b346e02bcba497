CONSTANTS
    Slots = {x}
    Names = {n1}
    Clients = {c1}
    Watchers = {w1}
    None = None
    MaxRestarts = 1
    MaxCrashes = 1
    HoldsResult = FALSE
SPECIFICATION Spec
PROPERTIES StopIsFinal
CHECK_DEADLOCK FALSE
