CONSTANTS
    Funcs = {"f", "g", "e"}
    Values <- Calls
    Types = {"a", "b"}
    TypeOf <- KindOf
    Matches <- Accepts
    Plain = {"f", "g"}
    Distance <- Far
    Priorities = {0, 1}
    Modes = {FALSE, TRUE}
    Fallbacks = {"g"}
    Advice <- Advisors
    Contexts = {"c"}
    Nobody = Nobody
    Ambiguous = Ambiguous
    MaxHandlers = 2
    MaxAdvisors = 1
    Arounds = 2
    Befores = 1
    Afters = 2
    Args = {"x", "y"}
    MaxCalls = 4
SPECIFICATION MCSpec
INVARIANTS TypeOK CacheCoherent RunsFirstMatching RightArgs TraceNested TraceOrdered
PROPERTIES ImplementsTable
CHECK_DEADLOCK FALSE
