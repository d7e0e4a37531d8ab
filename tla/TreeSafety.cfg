SPECIFICATION FairSpec
CONSTANTS
    MaxChunks = 5
    CountLimit = 5
    c1 = c1
    c2 = c2
    Contents = {c1, c2}
    Handlers = {h1, h2}
    MaxWrites = 1
    KeyGarbage <- Filled
    PackageFiles <- MCPackageFiles
    NoHash = NoHash
    Torn = Torn
    UnknownHash = UnknownHash
INVARIANTS
    TypeOK
    TreeSettles
    CompleteMeansCorrect
    MinCompletedIsMinimal
    HashesOfSubtree
    FirstChunkFound
PROPERTY
    UpdatesEnd
CHECK_DEADLOCK FALSE
