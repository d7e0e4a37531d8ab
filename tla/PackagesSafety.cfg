CONSTANTS
    NULL = NULL
    i1 = i1
    i2 = i2
    h1 = h1
    MaxNodes = 4
    Idents <- MCIdents
    RemQueries <- MCRemQueries
    SearchQueries <- MCSearchQueries
    CountLimit = 4
    Handlers = {h1}
SPECIFICATION FairSpec
INVARIANTS
    TypeOK
    ListShape
    CountOK
    ReportIsComplete
    SearchMissesNothing
PROPERTIES
    ImplementsPackageList
    SearchesEnd
CHECK_DEADLOCK FALSE
