CONSTANTS
    Senders = {s1, s2}
    Kinds = {a, b}
    AnyKind = AnyKind
    Matches = {a, b}
    Policies = {"block", "drop_oldest", "raise"}
    MaxSize = 2
    MaxMsgs = 4
    MaxExpiries = 1
SPECIFICATION FairSpec
INVARIANTS NoStrandedSender NoStarvedGet
PROPERTIES ImplementsMailbox RoomIsTaken MessagesLeave
