SPECIFICATION FairSpec
CONSTANTS
    v1 = v1
    v2 = v2
    v3 = v3
    Dropped = Dropped
    Null = Null
    Node = {n1, n2}
    Tables <- MCTables
    Contents <- MCContents
    Value = {v1, v2, v3}
    BatchSize = 2
    MaxEmpty = 1
    MaxVersions = 2
    MaxStatements = 2
INVARIANTS
    TypeOK
    PassShowsVersion
    PassesAgree
    LeaksOnlyByFailure
PROPERTIES
    ImplementsScan
    IterateReturns
