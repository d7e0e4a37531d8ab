SPECIFICATION FairSpec
CONSTANTS
    PeersValues <- MCPeersValues
    PortValues <- MCPortValues
    PeersGarbage <- MCPeersGarbage
    PortGarbage <- MCPortGarbage
    MaxSignals = 2
INVARIANTS TypeOK ConfigHonoured FreedOnce JoinedBeforeFreed
PROPERTIES ShutdownEnds
CHECK_DEADLOCK FALSE
