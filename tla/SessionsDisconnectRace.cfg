CONSTANTS
    d1 = d1
    d2 = d2
    e1 = e1
    e2 = e2
    w1 = w1
    x1 = x1
    NULL = NULL
    NPeers = 1
    MaxPeers = 1
    DialAddrs <- MCOneDial
    PeerAddrs <- MCNoPort
    WideAddrs <- MCNoWide
    PortCut <- MCNoCut
    PortReuse = FALSE
    Commands = {"CONNECT", "DISCONNECT"}
    Chatter = {}
    MaxInbox = 1
    MaxReqs = 1
SPECIFICATION Spec
INVARIANT DisconnectIsSafe
