SPECIFICATION Spec
CONSTANTS
    NoCall = NoCall
    k1 = k1
    k2 = k2
    k3 = k3
    Calls = {c1, c2}
    Key = {k1, k2, k3}
    CallArgs <- MCCallArgs
    SeedKeys <- MCSeedKeys
    MaxRunning = 2
INVARIANTS
    ChunkedMergeIsOneMerge
    RerunCompletesMerge
SYMMETRY Symmetry
