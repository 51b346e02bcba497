CONSTANTS
    k1 = k1
    k2 = k2
    k3 = k3
    k4 = k4
    k5 = k5
    v1 = v1
    v2 = v2
    Keys = {k1, k2, k3, k4, k5}
    Hash <- KeyHash
    Branch = 4
    HashLevels = 2
    Threshold = 2
    None = None
    Empty = Empty
    KeyError = KeyError
    Pairs <- MCPairs
    Batches <- MCBatches
    NoBuilder = NoBuilder
    MaxEdits = 2
    MaxDepth = 4
    Width = 2
    Changed = Changed
    NoTransient = NoTransient
    MaxLength = 12
    MaxChanges = 1
SPECIFICATION Spec
INVARIANTS TrieCoherent DiffExact
PROPERTIES ImplementsDictionary ImplementsSequence
