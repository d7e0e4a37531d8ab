CONSTANTS
    d1 = d1
    d2 = d2
    e1 = e1
    e2 = e2
    w1 = w1
    x1 = x1
    NULL = NULL
    NPeers = 2
    MaxPeers = 2
    DialAddrs <- MCNoDial
    PeerAddrs <- MCOnePort
    WideAddrs <- MCNoWide
    PortCut <- MCNoCut
    PortReuse = TRUE
    Commands = {"DISCONNECT", "PEERS"}
    Chatter = {"POG"}
    MaxInbox = 1
    MaxReqs = 1
SPECIFICATION FairSpec
INVARIANTS
    CountOK
PROPERTIES
    FarewellsEnd
    CommandsReturn
