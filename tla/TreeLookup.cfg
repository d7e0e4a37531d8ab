SPECIFICATION Spec
CONSTANTS
    MaxChunks = 4
    CountLimit = 8
    c1 = c1
    c2 = c2
    Contents = {c1, c2}
    Handlers = {h1}
    MaxWrites = 0
    KeyGarbage <- Anything
    PackageFiles <- MCPackageFiles
    NoHash = NoHash
    Torn = Torn
    UnknownHash = UnknownHash
INVARIANT ChunkFoundByOffset
CHECK_DEADLOCK FALSE
