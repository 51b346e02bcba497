SPECIFICATION FairSpec
CONSTANTS
    Callers = {c1, c2, c3}
    FailureThreshold = 2
    RecoveryTimeout = 2
    HalfOpenMaxCalls = 2
INVARIANTS
    CountsMatchState
    SlotsAreOwed
PROPERTIES
    NoEarlyProbe
    OpenEnds
    ProbingEnds
