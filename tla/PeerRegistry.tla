---------------------------- MODULE PeerRegistry ----------------------------
(***************************************************************************)
(* What the list of peers promises, without slots, locks or threads.       *)
(*                                                                         *)
(* A connection object is created once, lives for a while and is freed     *)
(* once.  While it lives it may be a member of the registry, and there are *)
(* never more members than the configured maximum.  A member is found by   *)
(* the commands that queue requests for it, so a connection leaves the     *)
(* registry BEFORE it is freed and never comes back.                       *)
(***************************************************************************)
EXTENDS Naturals, FiniteSets

CONSTANTS Peers,     \* the connection objects a run may create
          MaxPeers   \* config->max_peers, a positive number

VARIABLES members,   \* connections a command can find
          alive,     \* connections whose object is allocated
          freed      \* connections whose object has been freed

regVars == <<members, alive, freed>>

RegistryInit ==
    /\ members = {}
    /\ alive = {}
    /\ freed = {}

\* A connection is made, by a command or by the listening socket.
Create(p) ==
    /\ p \notin alive \cup freed
    /\ alive' = alive \cup {p}
    /\ UNCHANGED <<members, freed>>

\* It enters the registry if there is room.
Enter(p) ==
    /\ p \in alive \ members
    /\ Cardinality(members) < MaxPeers
    /\ members' = members \cup {p}
    /\ UNCHANGED <<alive, freed>>

\* It leaves the registry: disconnected here, there, or at shutdown.
Leave(p) ==
    /\ p \in members
    /\ members' = members \ {p}
    /\ UNCHANGED <<alive, freed>>

\* Only a connection that nobody can find any more is freed.
Free(p) ==
    /\ p \in alive \ members
    /\ alive' = alive \ {p}
    /\ freed' = freed \cup {p}
    /\ UNCHANGED members

RegistryNext ==
    \E p \in Peers : Create(p) \/ Enter(p) \/ Leave(p) \/ Free(p)

RegistrySpec == RegistryInit /\ [][RegistryNext]_regVars
=============================================================================
