CONSTANTS
    d1 = d1
    d2 = d2
    e1 = e1
    e2 = e2
    w1 = w1
    x1 = x1
    NULL = NULL
    NPeers = 2
    MaxPeers = 1
    DialAddrs <- MCOneDial
    PeerAddrs <- MCOnePort
    WideAddrs <- MCNoWide
    PortCut <- MCNoCut
    PortReuse = FALSE
    Commands = {"CONNECT"}
    Chatter = {}
    MaxInbox = 1
    MaxReqs = 1
SPECIFICATION Spec
INVARIANT MaxPeersRespected
