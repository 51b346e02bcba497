CONSTANTS
    NumSpecs = 2
    Settings <- TameSettings
    MaxExits = 2
    MaxMsgs = 1
    MaxActors = 6
SPECIFICATION FairSpec
INVARIANTS OneRunning AllManaged MailKept
PROPERTIES Recovers CrashedAreReplaced
CHECK_DEADLOCK FALSE
