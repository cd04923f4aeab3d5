SPECIFICATION Spec
CONSTANTS
    NoCall = NoCall
    k1 = k1
    k2 = k2
    Calls = {c1, c2}
    Key = {k1, k2}
    CallArgs <- MCCallArgs
    SeedKeys <- MCSeedKeys
    MaxRunning = 1
INVARIANT GuardAbortsCleanly
