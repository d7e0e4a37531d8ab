------------------------------ MODULE MCProcess ------------------------------
(* Instances of Process for TLC. *)
EXTENDS Process

MCPeersValues  == {0, 2048, 2049}
MCPortValues   == {1023, 65535, 65536}
MCPeersGarbage == {0}
MCPortGarbage  == {0, 3 * 65536 + 80}

=============================================================================
