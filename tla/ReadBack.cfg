SPECIFICATION Spec
CONSTANTS
    Max64 = 127
    Second = 10
    Milli = 5
    Micro = 4
    Epoch = 20
    PgFirst <- MCPgFirst
    PgLast = 122
    Clean <- MCClean
    NameMax = 6
    MaxDepth = 3
    NaN = NaN
    Day = 6
    DayFirst <- MCDayFirst
    DayLast = 30
    PgDayFirst <- MCPgDayFirst
    FirstYear <- MCFirstYear
    LastYear = 13
    YearFirst <- MCYearFirst
    YearDays = 3
    LeapDay = 1
    ReadAsBytes = {"bytea", "text"}
    Reprinted <- MCReprinted
    ChronoFirst <- MCChronoFirst
    ChronoLast = 113
    TableName <- MCTableName
    Datasets <- MCDatasets
    Declarations <- MCDeclarations
    Queries <- MCQueries
    MaxTables = 3
INVARIANTS
    TypeOK
    ImportsScan
    ValidatedNeverMismatches
    ShownIsTrue
    NothingHidden
    RoundTrip
    HelperAgreesWithSelect
