CONSTANTS
    NumSpecs = 3
    Settings <- TransientOnly
    MaxExits = 2
    MaxMsgs = 0
    MaxActors = 9
SPECIFICATION Spec
INVARIANTS OneChildEach
ACTION_CONSTRAINT BackoffsAreLonger
CHECK_DEADLOCK FALSE
