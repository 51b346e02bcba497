CONSTANTS
    Senders = {s1, s2}
    Kinds = {a, b}
    AnyKind = AnyKind
    Matches = {b}
    Policies = {"block"}
    MaxSize = 1
    MaxMsgs = 4
    MaxExpiries = 1
SPECIFICATION ActorSpec
INVARIANTS NoStrandedSender
