CONSTANTS
    NumSpecs = 1
    Settings <- PermanentOnly
    MaxExits = 1
    MaxMsgs = 1
    MaxActors = 4
SPECIFICATION Spec
PROPERTIES NoLateStart
CHECK_DEADLOCK FALSE
