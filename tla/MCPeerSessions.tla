--------------------------- MODULE MCPeerSessions ---------------------------
(* Small instances of PeerSessions for TLC. *)
EXTENDS PeerSessions

CONSTANTS d1, d2,       \* addresses the user dials
          e1, e2,       \* addresses that connect to this process
          w1,           \* an address typed with a port above 65535
          x1            \* nobody's address

MCNoDial     == {}
MCOneDial    == {d1}
MCTwoDials   == {d1, d2}
MCNoPort     == {}
MCOnePort    == {e1}
MCTwoPorts   == {e1, e2}
MCNoWide     == {}
MCOneWide    == {w1}
MCNoCut      == <<>>
\* What it becomes: an address of nobody, or one of a remote end.  With the
\* second NoAliases is false, and so is what rests on it.
MCCutFree    == [a \in MCOneWide |-> x1]
MCCutTaken   == [a \in MCOneWide |-> e1]
=============================================================================
