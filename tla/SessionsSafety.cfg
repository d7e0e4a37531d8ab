CONSTANTS
    d1 = d1
    d2 = d2
    e1 = e1
    e2 = e2
    w1 = w1
    x1 = x1
    NULL = NULL
    NPeers = 2
    MaxPeers = 2
    DialAddrs <- MCOneDial
    PeerAddrs <- MCOnePort
    WideAddrs <- MCOneWide
    PortCut <- MCCutFree
    PortReuse = FALSE
    Commands = {"CONNECT", "DISCONNECT", "PEERS", "QUIT"}
    Chatter = {}
    MaxInbox = 1
    MaxReqs = 1
SPECIFICATION Spec
INVARIANTS
    TypeOK
    CountOK
    ListedIsLive
    OneListing
    WalksAreSafe
    FarewellQueuedLast
PROPERTIES
    FarewellIsLast
    ImplementsRegistry
