------------------------- MODULE PeerSessions_proofs -------------------------
(***************************************************************************)
(* Proofs about PeerSessions, for any number of connections, any maximum   *)
(* of peers, any addresses and any commands: types, count, list, queues;   *)
(* that a DSN is the last packet of its connection; and that the list of   *)
(* peers is what PeerRegistry says, a set that connections enter once,     *)
(* while there is room, and leave before they are freed.                   *)
(***************************************************************************)
EXTENDS PeerSessions, FiniteSetTheorems, TLAPS

-----------------------------------------------------------------------------
(* The inductive invariants *)

\* What a thread's locals hold where it uses them, and who holds the lock.
LocalsOK ==
    /\ cli_pc \in {"add", "spawn", "remove", "enqueue"} => cli_peer \in Peers
    /\ cli_pc = "dial" => cli_addr \in Typed
    /\ cli_pc = "remove" => cli_addr \in Addrs
    /\ srv_pc \in {"add", "spawn"} => srv_peer \in Peers

\* npeers_cur is never below the number of occupied slots, so it never wraps.
CountInv ==
    /\ npeers_cur >= Cardinality(Occupied)
    /\ ~ShuttingDown => npeers_cur = Cardinality(Occupied)

TypeInv == TypeOK /\ LocalsOK /\ CountInv

LockInv ==
    /\ peers_lock => cli_pc \in {"ping", "cancel"}
    /\ peers_mem = "freed" => cli_pc \in {"join", "exit"}

\* A queue without a DSN; a queue in which nothing follows a DSN.
NoDsn(s)   == \A k \in 1..Len(s) : s[k] # "DSN"
DsnLast(s) == \A k \in 1..Len(s) : s[k] = "DSN" => k = Len(s)

\* The addresses of connections while no wide port is cut to one of them.
InUse == DialAddrs \cup PeerAddrs

\* A connection between its creation and its entry into the list is known to
\* its creator only.
Newborn(p) == thread[p] = "created" /\ reqs_q[p] = <<>> /\ ~Listed(p)

CreatedInv ==
    /\ \A p \in Peers : thread[p] = "unused" => reqs_q[p] = <<>>
    /\ \A p \in Peers : thread[p] # "unused" => addr[p] \in InUse
    /\ cli_pc = "add" => Newborn(cli_peer)
    /\ cli_pc \in {"add", "spawn"} =>
          thread[cli_peer] = "created" /\ addr[cli_peer] \in DialAddrs
    /\ cli_pc = "add" => addr[cli_peer] = cli_addr
    /\ srv_pc = "add" => Newborn(srv_peer)
    /\ srv_pc \in {"add", "spawn"} =>
          thread[srv_peer] = "created" /\ addr[srv_peer] \in PeerAddrs

\* Between the critical sections of DISCONNECT the pointer it found may go
\* stale, but it names a connection that was listed and has no DSN queued; and
\* once it is removed from the list it stays removed.
DisconnectInv ==
    /\ cli_pc \in {"remove", "enqueue"} =>
          /\ thread[cli_peer] # "unused"
          /\ addr[cli_peer] = cli_addr
          /\ NoDsn(reqs_q[cli_peer])
          /\ srv_pc = "add" => srv_peer # cli_peer
    /\ cli_pc = "enqueue" => ~Listed(cli_peer)

\* An address is dialled once at a time and accepted once at a time.
AddressInv ==
    /\ cli_pc \in {"dial", "add"} => SlotsOf(cli_addr) = {}
    /\ \A p, q \in Peers :
          /\ thread[p] # "unused" /\ thread[q] # "unused"
          /\ addr[p] = addr[q] /\ addr[p] \in PeerAddrs
          => p = q \/ Freed(p) \/ Freed(q)

FarewellInv ==
    \A p \in Peers : /\ DsnLast(reqs_q[p])
                     /\ Listed(p) => NoDsn(reqs_q[p])

\* The invariant of the list and the queues, inductive together with TypeInv.
ListInv ==
    /\ LockInv
    /\ CreatedInv
    /\ DisconnectInv
    /\ AddressInv
    /\ ListedIsLive
    /\ OneListing
    /\ FarewellInv
    /\ WalksAreSafe

-----------------------------------------------------------------------------
(* The list of peers *)

\* The first slot of a non-empty set of slots is one of them, and the least.
LEMMA FirstSlot ==
    ASSUME NEW S \in SUBSET Slots, S # {}
    PROVE  First(S) \in S /\ \A j \in S : First(S) <= j
<1>1. S \subseteq Nat
    BY SessionsAssumption DEF Slots
<1> DEFINE R == OpToRel(<, Nat)
<1>2. \A m, n \in Nat : <<m, n>> \in R <=> m < n
    BY DEF OpToRel
<1>3. IsWellFoundedOn(R, Nat)
    BY NatLessThanWellFounded
<1> HIDE DEF R
<1>4. \E i \in S : \A j \in S : ~(<<j, i>> \in R)
    BY <1>1, <1>3, WFMin
<1>5. PICK i \in S : \A j \in S : ~(<<j, i>> \in R)
    BY <1>4
<1>6. \A j \in S : ~(j < i)
    BY <1>1, <1>2, <1>5
<1>7. \A j \in S : i <= j
    BY <1>1, <1>6
<1> QED
    BY <1>7 DEF First

\* Occupied slots can be counted, and there are at most MaxPeers of them.
LEMMA OccupiedFinite ==
    /\ IsFiniteSet(Occupied)
    /\ Cardinality(Occupied) \in 0..MaxPeers
<1>1. IsFiniteSet(Slots) /\ Cardinality(Slots) = MaxPeers
    BY FS_Interval, SessionsAssumption DEF Slots
<1>2. Occupied \in SUBSET Slots
    BY DEF Occupied
<1>3. IsFiniteSet(Occupied) /\ Cardinality(Occupied) <= MaxPeers
    BY <1>1, <1>2, FS_Subset
<1> QED
    BY <1>3, FS_CardinalityType, SessionsAssumption

\* peers_add keeps the list and its count together.
LEMMA AddKeepsCount ==
    ASSUME TypeOK, CountInv, NEW p \in Peers, peers_add(p)
    PROVE  /\ list' \in [Slots -> Peers \cup {NULL}]
           /\ npeers_cur' \in 0..MaxPeers
           /\ npeers_cur' >= Cardinality(Occupied')
           /\ npeers_cur = Cardinality(Occupied)
                 => npeers_cur' = Cardinality(Occupied')
<1>1. CASE npeers_cur < MaxPeers /\ FreeSlots # {}
    <2> DEFINE i == First(FreeSlots)
    <2>1. i \in Slots /\ i \notin Occupied
        BY <1>1, FirstSlot DEF FreeSlots
    <2>2. list' = [list EXCEPT ![i] = p] /\ npeers_cur' = npeers_cur + 1
        BY <1>1 DEF peers_add
    <2>3. p # NULL
        BY SessionsAssumption DEF Peers
    <2>4. Occupied' = Occupied \cup {i}
        BY <2>1, <2>2, <2>3 DEF Occupied, TypeOK
    <2>5. Cardinality(Occupied') = Cardinality(Occupied) + 1
        BY <2>1, <2>4, OccupiedFinite, FS_AddElement
    <2> QED
        BY <1>1, <2>1, <2>2, <2>5, OccupiedFinite, SessionsAssumption
           DEF TypeOK, CountInv
<1>2. CASE ~(npeers_cur < MaxPeers /\ FreeSlots # {})
    <2>1. UNCHANGED listVars
        BY <1>2 DEF peers_add
    <2> QED
        BY <2>1 DEF TypeOK, CountInv, listVars, Occupied
<1> QED
    BY <1>1, <1>2

\* So does peers_remove; npeers_cur does not wrap below zero.
LEMMA RemoveKeepsCount ==
    ASSUME TypeOK, CountInv, NEW a, peers_remove(a)
    PROVE  /\ list' \in [Slots -> Peers \cup {NULL}]
           /\ npeers_cur' \in 0..MaxPeers
           /\ npeers_cur' >= Cardinality(Occupied')
           /\ npeers_cur = Cardinality(Occupied)
                 => npeers_cur' = Cardinality(Occupied')
<1>1. CASE SlotsOf(a) # {}
    <2> DEFINE i == First(SlotsOf(a))
    <2>1. i \in Occupied /\ i \in Slots
        BY <1>1, FirstSlot DEF SlotsOf, Occupied
    <2>2. list' = [list EXCEPT ![i] = NULL] /\ npeers_cur' = npeers_cur - 1
        BY <1>1 DEF peers_remove
    <2>3. Occupied' = Occupied \ {i}
        BY <2>1, <2>2 DEF Occupied, TypeOK
    <2>4. Cardinality(Occupied') = Cardinality(Occupied) - 1
        BY <2>1, <2>3, OccupiedFinite, FS_RemoveElement
    <2>5. Cardinality(Occupied) > 0
        BY <2>1, OccupiedFinite, FS_EmptySet
    <2> QED
        BY <2>1, <2>2, <2>4, <2>5, OccupiedFinite, SessionsAssumption
           DEF TypeOK, CountInv
<1>2. CASE SlotsOf(a) = {}
    <2>1. UNCHANGED listVars
        BY <1>2 DEF peers_remove
    <2> QED
        BY <2>1 DEF TypeOK, CountInv, listVars, Occupied
<1> QED
    BY <1>1, <1>2
-----------------------------------------------------------------------------
(* Type correctness and the count of the list *)

LEMMA TypeInit == Init => TypeInv
<1> SUFFICES ASSUME Init PROVE TypeInv
    OBVIOUS
<1>1. Occupied = {}
    BY DEF Init, Occupied
<1>2. Cardinality(Occupied) = 0
    BY <1>1, FS_EmptySet
<1>3. /\ [p \in Peers |-> <<>>] \in [Peers -> Seq(Requests)]
      /\ [p \in Peers |-> <<>>] \in [Peers -> Seq(Packets)]
    OBVIOUS
<1>4. 1 \in 1..(MaxPeers + 1) /\ 0 \in 0..MaxPeers
    BY SessionsAssumption
<1>5. TypeOK
    BY <1>3, <1>4 DEF Init, TypeOK, ThreadPcs, ConnStates
<1>6. LocalsOK /\ CountInv
    BY <1>2 DEF Init, LocalsOK, CountInv
<1> QED
    BY <1>5, <1>6 DEF TypeInv

\* Steps that leave the list alone preserve the count.
LEMMA SameListSameCount ==
    ASSUME CountInv, UNCHANGED listVars, ShuttingDown => ShuttingDown'
    PROVE  CountInv'
BY DEF CountInv, listVars, Occupied

LEMMA CommandType ==
    ASSUME TypeInv, CliCommand
    PROVE  TypeInv'
<1> USE DEF TypeInv, CliAt, Types, CliTo
<1>1. ASSUME NEW a \in Typed, CliConnect(a)
      PROVE  TypeInv'
    <2>1. CountInv'
        BY <1>1, SameListSameCount DEF CliConnect, ShuttingDown
    <2> QED
        BY <1>1, <2>1
           DEF CliConnect, TypeOK, LocalsOK, Addrs, Typed, listVars, srvVars,
               peerVars
<1>2. ASSUME NEW a \in Addrs, CliDisconnect(a)
      PROVE  TypeInv'
    <2>1. CountInv'
        BY <1>2, SameListSameCount DEF CliDisconnect, ShuttingDown
    <2>2. peers_find(a) \in Peers
        <3>1. SlotsOf(uint16(a)) \in SUBSET Slots /\ SlotsOf(uint16(a)) # {}
            BY <1>2 DEF SlotsOf, Occupied, CliDisconnect, peers_find
        <3>2. First(SlotsOf(uint16(a))) \in Slots
            BY <3>1, FirstSlot
        <3> QED
            BY <1>2, <3>2 DEF CliDisconnect, peers_find, TypeOK
    <2> QED
        BY <1>2, <2>1, <2>2
           DEF CliDisconnect, TypeOK, LocalsOK, listVars, srvVars, peerVars
<1>3. ASSUME NEW a \in Addrs, CliFindFaults(a)
      PROVE  TypeInv'
    <2>1. CountInv'
        BY <1>3, SameListSameCount DEF CliFindFaults, cliVars, ShuttingDown
    <2> QED
        BY <1>3, <2>1
           DEF CliFindFaults, TypeOK, LocalsOK, Endings, listVars, cliVars,
               srvVars, peerVars
<1>4. CASE CliPeers
    <2>1. CountInv'
        BY <1>4, SameListSameCount DEF CliPeers, ShuttingDown
    <2> QED
        BY <1>4, <2>1, SessionsAssumption
           DEF CliPeers, TypeOK, LocalsOK, listVars, srvVars, peerVars
<1>5. CASE CliQuit
    <2>1. CountInv'
        BY <1>5, SameListSameCount DEF CliQuit, ShuttingDown
    <2> QED
        BY <1>5, <2>1, SessionsAssumption
           DEF CliQuit, TypeOK, LocalsOK, listVars, srvVars, peerVars
<1>6. CASE UNCHANGED vars
    <2>1. CountInv'
        BY <1>6, SameListSameCount DEF vars, listVars, ShuttingDown
    <2> QED
        BY <1>6, <2>1 DEF vars, TypeOK, LocalsOK
<1> QED
    BY <1>1, <1>2, <1>3, <1>4, <1>5, <1>6
       DEF CliCommand, CliRefused, CliNoPeers

\* Queues of requests and of packets keep their type.
LEMMA QueueTypes ==
    ASSUME TypeOK, NEW p \in Peers
    PROVE  /\ \A r \in Requests : Append(reqs_q[p], r) \in Seq(Requests)
           /\ \A m \in Packets : Append(inbox[p], m) \in Seq(Packets)
           /\ reqs_q[p] # <<>> => /\ Head(reqs_q[p]) \in Requests
                                  /\ Tail(reqs_q[p]) \in Seq(Requests)
           /\ inbox[p] # <<>> => /\ Head(inbox[p]) \in Packets
                                 /\ Tail(inbox[p]) \in Seq(Packets)
<1>1. reqs_q[p] \in Seq(Requests) /\ inbox[p] \in Seq(Packets)
    BY DEF TypeOK
<1> QED
    BY <1>1

LEMMA EnqueueType ==
    ASSUME TypeOK, NEW p \in Peers, NEW r \in Requests, reqs_enqueue(p, r)
    PROVE  reqs_q' \in [Peers -> Seq(Requests)]
BY QueueTypes DEF TypeOK, reqs_enqueue

\* The shutdown empties a slot without counting it.
LEMMA CancelKeepsCount ==
    ASSUME TypeOK, CountInv, NEW i \in Slots, list' = [list EXCEPT ![i] = NULL]
    PROVE  /\ Cardinality(Occupied') \in Nat
           /\ Cardinality(Occupied') <= Cardinality(Occupied)
<1>1. Occupied' \in SUBSET Occupied
    BY DEF Occupied, TypeOK
<1> QED
    BY <1>1, OccupiedFinite, FS_Subset, FS_CardinalityType

LEMMA CliInternalType ==
    ASSUME TypeInv, CliInternal
    PROVE  TypeInv'
<1> USE DEF TypeInv, CliAt, CliTo, CliReturns
<1>0. 1 \in 1..(MaxPeers + 1)
    BY SessionsAssumption
<1>1. CASE CliDialFails
    <2>1. CountInv'
        BY <1>1, SameListSameCount DEF CliDialFails, ShuttingDown
    <2> QED
        BY <1>1, <2>1, SessionsAssumption
           DEF CliDialFails, TypeOK, LocalsOK, listVars, srvVars, peerVars
<1>2. ASSUME NEW p \in Peers, CliDial(p)
      PROVE  TypeInv'
    <2>1. CountInv'
        BY <1>2, SameListSameCount DEF CliDial, ShuttingDown
    <2> QED
        BY <1>2, <2>1
           DEF CliDial, peer_create, TypeOK, LocalsOK, Addrs, Typed, ThreadPcs,
               ConnStates, Up, listVars, srvVars
<1>3. CASE CliAdd
    <2>1. cli_peer \in Peers /\ peers_add(cli_peer)
        BY <1>3 DEF CliAdd, LocalsOK
    <2>2. CountInv'
        BY <1>3, <2>1, AddKeepsCount DEF CliAdd, CountInv, ShuttingDown
    <2> QED
        BY <1>3, <2>1, <2>2, AddKeepsCount
           DEF CliAdd, TypeOK, LocalsOK, srvVars, peerVars
<1>4. CASE CliSpawn
    <2>1. CountInv'
        BY <1>4, SameListSameCount DEF CliSpawn, ShuttingDown
    <2> QED
        BY <1>4, <2>1, SessionsAssumption
           DEF CliSpawn, peer_create_thread, TypeOK, LocalsOK, ThreadPcs,
               HandlerPcs, listVars, srvVars
<1>5. CASE CliRemove
    <2>1. cli_addr \in Addrs /\ peers_remove(cli_addr)
        BY <1>5 DEF CliRemove, LocalsOK
    <2>2. CountInv'
        BY <1>5, <2>1, RemoveKeepsCount DEF CliRemove, CountInv, ShuttingDown
    <2> QED
        BY <1>5, <2>1, <2>2, RemoveKeepsCount
           DEF CliRemove, TypeOK, LocalsOK, srvVars, peerVars
<1>6. CASE CliRemoveFaults
    <2>1. CountInv'
        BY <1>6, SameListSameCount DEF CliRemoveFaults, cliVars, ShuttingDown
    <2> QED
        BY <1>6, <2>1
           DEF CliRemoveFaults, TypeOK, LocalsOK, Endings, listVars, cliVars,
               srvVars, peerVars
<1>7. CASE CliEnqueue
    <2>1. CountInv'
        BY <1>7, SameListSameCount DEF CliEnqueue, ShuttingDown
    <2>2. reqs_q' \in [Peers -> Seq(Requests)]
        BY <1>7, EnqueueType DEF CliEnqueue, Requests, TypeOK, LocalsOK
    <2> QED
        BY <1>7, <2>1, <2>2, SessionsAssumption
           DEF CliEnqueue, TypeOK, LocalsOK, listVars, srvVars
<1>8. CASE CliEnqueueFaults
    <2>1. CountInv'
        BY <1>8, SameListSameCount DEF CliEnqueueFaults, cliVars, ShuttingDown
    <2> QED
        BY <1>8, <2>1
           DEF CliEnqueueFaults, TypeOK, LocalsOK, Endings, listVars, cliVars,
               srvVars, peerVars
<1>9. CASE CliPing
    <2>1. CountInv'
        BY <1>9, SameListSameCount DEF CliPing, ShuttingDown
    <2>2. reqs_q' \in [Peers -> Seq(Requests)]
        BY <1>9, EnqueueType DEF CliPing, Requests, TypeOK
    <2>3. cli_slot' \in 1..(MaxPeers + 1)
        BY <1>9, SessionsAssumption DEF CliPing, Slots
    <2> QED
        BY <1>9, <2>1, <2>2, <2>3
           DEF CliPing, TypeOK, LocalsOK, listVars, srvVars
<1>10. CASE CliPinged
    <2>1. CountInv'
        BY <1>10, SameListSameCount DEF CliPinged, ShuttingDown
    <2> QED
        BY <1>10, <2>1, <1>0
           DEF CliPinged, TypeOK, LocalsOK, listVars, srvVars, peerVars
<1>11. CASE CliWalkFaults
    <2>1. CountInv'
        BY <1>11, SameListSameCount DEF CliWalkFaults, cliVars, ShuttingDown
    <2> QED
        BY <1>11, <2>1
           DEF CliWalkFaults, TypeOK, LocalsOK, Endings, listVars, cliVars,
               srvVars, peerVars
<1>12. CASE CliCancel
    <2>1. CountInv'
        <3>1. /\ Cardinality(Occupied') \in Nat
              /\ Cardinality(Occupied') <= Cardinality(Occupied)
            BY <1>12, CancelKeepsCount DEF CliCancel
        <3>2. npeers_cur' = npeers_cur /\ ShuttingDown'
            BY <1>12 DEF CliCancel, ShuttingDown
        <3>3. npeers_cur \in Nat /\ npeers_cur >= Cardinality(Occupied)
            BY SessionsAssumption DEF TypeOK, CountInv
        <3>4. npeers_cur' >= Cardinality(Occupied')
            BY <3>1, <3>2, <3>3, OccupiedFinite
        <3> QED
            BY <3>2, <3>4 DEF CountInv
    <2>2. reqs_q' \in [Peers -> Seq(Requests)]
        BY <1>12, EnqueueType DEF CliCancel, Requests, TypeOK
    <2>3. cli_slot' \in 1..(MaxPeers + 1)
        BY <1>12, SessionsAssumption DEF CliCancel, Slots
    <2> QED
        BY <1>12, <2>1, <2>2, <2>3 DEF CliCancel, TypeOK, LocalsOK, srvVars
<1>13. CASE CliCancelled
    <2>1. CountInv'
        BY <1>13, SameListSameCount DEF CliCancelled, ShuttingDown
    <2> QED
        BY <1>13, <2>1, <1>0
           DEF CliCancelled, TypeOK, LocalsOK, listVars, srvVars, peerVars
<1>14. CASE CliFree
    <2>1. CountInv'
        BY <1>14, SameListSameCount DEF CliFree, ShuttingDown
    <2> QED
        BY <1>14, <2>1
           DEF CliFree, TypeOK, LocalsOK, listVars, srvVars, peerVars
<1>15. CASE CliJoin
    <2>1. CountInv'
        BY <1>15, SameListSameCount DEF CliJoin, ShuttingDown
    <2> QED
        BY <1>15, <2>1 DEF CliJoin, TypeOK, LocalsOK, listVars, peerVars
<1>16. CASE CliExit
    <2>1. CountInv'
        BY <1>16, SameListSameCount DEF CliExit, cliVars, ShuttingDown
    <2> QED
        BY <1>16, <2>1
           DEF CliExit, TypeOK, LocalsOK, Endings, listVars, cliVars, srvVars,
               peerVars
<1> QED
    BY <1>1, <1>2, <1>3, <1>4, <1>5, <1>6, <1>7, <1>8, <1>9, <1>10, <1>11,
       <1>12, <1>13, <1>14, <1>15, <1>16 DEF CliInternal

LEMMA ServerType ==
    ASSUME TypeInv, \/ Server
                    \/ \E p \in Peers, a \in PeerAddrs : ServerAccept(p, a)
    PROVE  TypeInv'
<1> USE DEF TypeInv
<1>1. ASSUME NEW p \in Peers, NEW a \in PeerAddrs, ServerAccept(p, a)
      PROVE  TypeInv'
    <2>1. CountInv'
        BY <1>1, SameListSameCount DEF ServerAccept, cliVars, ShuttingDown
    <2> QED
        BY <1>1, <2>1
           DEF ServerAccept, peer_create, TypeOK, LocalsOK, Addrs, ThreadPcs,
               ConnStates, Up, listVars, cliVars
<1>2. CASE ServerAdd
    <2>1. srv_peer \in Peers /\ peers_add(srv_peer)
        BY <1>2 DEF ServerAdd, LocalsOK
    <2>2. CountInv'
        BY <1>2, <2>1, AddKeepsCount DEF ServerAdd, CountInv, cliVars, ShuttingDown
    <2> QED
        BY <1>2, <2>1, <2>2, AddKeepsCount
           DEF ServerAdd, TypeOK, LocalsOK, cliVars, peerVars
<1>3. CASE ServerAddFaults
    <2>1. CountInv'
        BY <1>3, SameListSameCount DEF ServerAddFaults, cliVars, ShuttingDown
    <2> QED
        BY <1>3, <2>1
           DEF ServerAddFaults, TypeOK, LocalsOK, Endings, listVars,
               cliVars, srvVars, peerVars
<1>4. CASE ServerSpawn
    <2>1. CountInv'
        BY <1>4, SameListSameCount DEF ServerSpawn, cliVars, ShuttingDown
    <2> QED
        BY <1>4, <2>1
           DEF ServerSpawn, peer_create_thread, TypeOK, LocalsOK, ThreadPcs,
               HandlerPcs, listVars, cliVars
<1> QED
    BY <1>1, <1>2, <1>3, <1>4 DEF Server

\* try_send and the moves of a handler keep their types.
LEMMA SendType ==
    ASSUME TypeOK, NEW p \in Peers, NEW packet \in Packets, try_send(p, packet)
    PROVE  /\ conn' \in [Peers -> ConnStates]
           /\ goodbye' \in [Peers -> BOOLEAN]
           /\ proc' \in {"running"} \cup Endings
<1>1. goodbye' \in [Peers -> BOOLEAN]
    BY DEF TypeOK, try_send
<1>2. conn' \in [Peers -> ConnStates]
    BY DEF TypeOK, try_send, ConnStates
<1>3. proc' \in {"running"} \cup Endings
    BY DEF TypeOK, try_send, Endings
<1> QED
    BY <1>1, <1>2, <1>3

\* A handler that only moves, answers or drops a packet leaves the rest alone.
LEMMA HandlerFrame ==
    ASSUME TypeInv, handlerUnchanged,
           proc' \in {"running"} \cup Endings,
           thread' \in [Peers -> ThreadPcs],
           reqs_q' \in [Peers -> Seq(Requests)],
           conn' \in [Peers -> ConnStates],
           inbox' \in [Peers -> Seq(Packets)],
           goodbye' \in [Peers -> BOOLEAN]
    PROVE  TypeInv'
<1>1. CountInv'
    BY SameListSameCount DEF handlerUnchanged, cliVars, ShuttingDown, TypeInv
<1>2. TypeOK'
    BY DEF handlerUnchanged, TypeInv, TypeOK, listVars, cliVars, srvVars
<1>3. LocalsOK'
    BY DEF handlerUnchanged, TypeInv, LocalsOK, cliVars, srvVars
<1> QED
    BY <1>1, <1>2, <1>3 DEF TypeInv

LEMMA HandlerType ==
    ASSUME TypeInv, NEW p \in Peers, Handler(p)
    PROVE  TypeInv'
<1> USE DEF HandlerAt, HandlerTo
<1>0. /\ TypeOK
      /\ \A pc \in ThreadPcs :
            [thread EXCEPT ![p] = pc] \in [Peers -> ThreadPcs]
    BY DEF TypeInv, TypeOK
<1>1. CASE PeerHello(p)
    <2>1. thread' \in [Peers -> ThreadPcs]
        BY <1>0, <1>1 DEF PeerHello, ThreadPcs, HandlerPcs
    <2> QED
        BY <1>0, <1>1, <2>1, SendType, HandlerFrame DEF PeerHello, TypeOK, Packets
<1>2. CASE PeerAwaitAck(p)
    <2>1. thread' \in [Peers -> ThreadPcs]
        BY <1>0, <1>2 DEF PeerAwaitAck, ThreadPcs, HandlerPcs
    <2>2. inbox' \in [Peers -> Seq(Packets)]
        BY <1>0, <1>2, QueueTypes DEF PeerAwaitAck, TypeOK
    <2> QED
        BY <1>0, <1>2, <2>1, <2>2, HandlerFrame DEF PeerAwaitAck, TypeOK
<1>3. CASE PeerNoRequest(p)
    <2>1. thread' \in [Peers -> ThreadPcs]
        BY <1>0, <1>3 DEF PeerNoRequest, ThreadPcs, HandlerPcs
    <2> QED
        BY <1>0, <1>3, <2>1, HandlerFrame DEF PeerNoRequest, TypeOK
<1>4. CASE PeerRequest(p)
    <2>1. thread' \in [Peers -> ThreadPcs]
        BY <1>0, <1>4 DEF PeerRequest, ThreadPcs, HandlerPcs
    <2>2. Head(reqs_q[p]) \in Packets /\ reqs_q' \in [Peers -> Seq(Requests)]
        BY <1>0, <1>4, QueueTypes DEF PeerRequest, TypeOK, Requests, Packets
    <2> QED
        BY <1>0, <1>4, <2>1, <2>2, SendType, HandlerFrame
           DEF PeerRequest, TypeOK
<1>5. CASE PeerNoPacket(p)
    <2>1. thread' \in [Peers -> ThreadPcs]
        BY <1>0, <1>5 DEF PeerNoPacket, ThreadPcs, HandlerPcs
    <2> QED
        BY <1>0, <1>5, <2>1, HandlerFrame DEF PeerNoPacket, TypeOK
<1>6. CASE PeerAnswer(p)
    <2>1. thread' \in [Peers -> ThreadPcs]
        BY <1>0, <1>6 DEF PeerAnswer, ThreadPcs, HandlerPcs
    <2>2. inbox' \in [Peers -> Seq(Packets)]
        BY <1>0, <1>6, QueueTypes DEF PeerAnswer, TypeOK
    <2>3. Answer[Head(inbox[p])] \in Packets
        BY <1>6 DEF PeerAnswer, Answer, Packets
    <2> QED
        BY <1>0, <1>6, <2>1, <2>2, <2>3, SendType, HandlerFrame
           DEF PeerAnswer, TypeOK
<1>7. CASE PeerIgnore(p)
    <2>1. thread' \in [Peers -> ThreadPcs]
        BY <1>0, <1>7 DEF PeerIgnore, ThreadPcs, HandlerPcs
    <2>2. inbox' \in [Peers -> Seq(Packets)]
        BY <1>0, <1>7, QueueTypes DEF PeerIgnore, TypeOK
    <2> QED
        BY <1>0, <1>7, <2>1, <2>2, HandlerFrame DEF PeerIgnore, TypeOK
<1>8. CASE PeerReadsDsn(p)
    <2>1. thread' \in [Peers -> ThreadPcs]
        BY <1>0, <1>8 DEF PeerReadsDsn, ThreadPcs, HandlerPcs
    <2>2. inbox' \in [Peers -> Seq(Packets)]
        BY <1>0, <1>8, QueueTypes DEF PeerReadsDsn, TypeOK
    <2> QED
        BY <1>0, <1>8, <2>1, <2>2, HandlerFrame DEF PeerReadsDsn, TypeOK
<1>9. CASE PeerRemove(p)
    <2>1. thread' \in [Peers -> ThreadPcs]
        BY <1>0, <1>9 DEF PeerRemove, ThreadPcs, HandlerPcs
    <2>2. CountInv /\ peers_remove(addr[p]) /\ UNCHANGED cliVars
        BY <1>9 DEF PeerRemove, TypeInv
    <2>3. CountInv'
        BY <1>0, <2>2, RemoveKeepsCount DEF CountInv, cliVars, ShuttingDown
    <2>4. TypeOK'
        BY <1>0, <1>9, <2>1, <2>2, RemoveKeepsCount
           DEF PeerRemove, TypeOK, cliVars, srvVars
    <2>5. LocalsOK'
        BY <1>9 DEF PeerRemove, TypeInv, LocalsOK, cliVars, srvVars
    <2> QED
        BY <2>3, <2>4, <2>5 DEF TypeInv
<1>10. CASE PeerRemoveFaults(p)
    <2>1. proc' \in {"running"} \cup Endings
        BY <1>10 DEF PeerRemoveFaults, Endings
    <2>2. handlerUnchanged /\ UNCHANGED peerVars
        BY <1>10 DEF PeerRemoveFaults, handlerUnchanged, peerVars
    <2> QED
        BY <1>0, <2>1, <2>2, HandlerFrame DEF peerVars, TypeOK
<1>11. CASE PeerDestroy(p)
    <2>1. thread' \in [Peers -> ThreadPcs]
        BY <1>0, <1>11 DEF PeerDestroy, ThreadPcs, HandlerPcs
    <2>2. reqs_q' \in [Peers -> Seq(Requests)]
        BY <1>0, <1>11 DEF PeerDestroy, TypeOK
    <2> QED
        BY <1>0, <1>11, <2>1, <2>2, HandlerFrame DEF PeerDestroy, TypeOK
<1>12. CASE PeerClearQueue(p)
    <2>1. thread' \in [Peers -> ThreadPcs]
        BY <1>0, <1>12 DEF PeerClearQueue, ThreadPcs, HandlerPcs
    <2> QED
        BY <1>0, <1>12, <2>1, HandlerFrame DEF PeerClearQueue, TypeOK
<1>13. CASE PeerCleanup(p)
    <2>1. thread' \in [Peers -> ThreadPcs]
        BY <1>0, <1>13 DEF PeerCleanup, ThreadPcs
    <2>2. /\ inbox' \in [Peers -> Seq(Packets)]
          /\ conn' \in [Peers -> ConnStates]
        BY <1>0, <1>13 DEF PeerCleanup, TypeOK, ConnStates
    <2> QED
        BY <1>0, <1>13, <2>1, <2>2, HandlerFrame DEF PeerCleanup, TypeOK
<1> QED
    BY <1>1, <1>2, <1>3, <1>4, <1>5, <1>6, <1>7, <1>8, <1>9, <1>10, <1>11,
       <1>12, <1>13 DEF Handler

LEMMA RemoteType ==
    ASSUME TypeInv, NEW p \in Peers, Remote(p)
    PROVE  TypeInv'
<1>1. CountInv'
    <2>1. UNCHANGED listVars /\ UNCHANGED cliVars
        BY DEF Remote, RemoteGone, RemoteSends, envUnchanged
    <2> QED
        BY <2>1, SameListSameCount DEF cliVars, ShuttingDown, TypeInv
<1>2. CASE RemoteGone(p)
    BY <1>1, <1>2
       DEF RemoteGone, envUnchanged, TypeInv, TypeOK, LocalsOK, ConnStates,
           listVars, cliVars, srvVars
<1>3. ASSUME NEW m \in Packets, RemoteSends(p, m)
      PROVE  TypeInv'
    <2>1. inbox' \in [Peers -> Seq(Packets)]
        BY <1>3, QueueTypes DEF RemoteSends, TypeInv, TypeOK
    <2>2. conn' \in [Peers -> ConnStates]
        BY <1>3 DEF RemoteSends, TypeInv, TypeOK, ConnStates, Up
    <2> QED
        BY <1>1, <1>3, <2>1, <2>2
           DEF RemoteSends, envUnchanged, TypeInv, TypeOK, LocalsOK, listVars,
               cliVars, srvVars
<1> QED
    BY <1>2, <1>3 DEF Remote

LEMMA TypeStep == TypeInv /\ [Next]_vars => TypeInv'
<1> SUFFICES ASSUME TypeInv, [Next]_vars PROVE TypeInv'
    OBVIOUS
<1>1. CASE UNCHANGED vars
    <2>1. CountInv'
        BY <1>1, SameListSameCount DEF TypeInv, vars, listVars, ShuttingDown
    <2> QED
        BY <1>1, <2>1 DEF vars, TypeInv, TypeOK, LocalsOK
<1> QED
    BY <1>1, CommandType, CliInternalType, ServerType, HandlerType, RemoteType
       DEF Next, Ended

\* Type correctness, for every value of the constants.
THEOREM TypeCorrect == Spec => []TypeOK
<1>1. TypeInv => TypeOK
    BY DEF TypeInv
<1> QED
    BY <1>1, TypeInit, TypeStep, PTL DEF Spec

\* npeers_cur is the number of occupied slots, until the shutdown: even when
\* remote ends reuse ports and the list is full.
THEOREM CountCorrect == Spec => []CountOK
<1>1. TypeInv => CountOK
    BY DEF TypeInv, CountInv, CountOK
<1> QED
    BY <1>1, TypeInit, TypeStep, PTL DEF Spec

-----------------------------------------------------------------------------
(* Queues with a DSN in them *)

LEMMA DsnFacts ==
    ASSUME NEW s \in Seq(Requests)
    PROVE  /\ NoDsn(<<>>) /\ DsnLast(<<>>)
           /\ NoDsn(s) => DsnLast(s)
           /\ NoDsn(s) => NoDsn(Append(s, "PNG")) /\ DsnLast(Append(s, "DSN"))
           /\ s # <<>> /\ NoDsn(s) => NoDsn(Tail(s)) /\ Head(s) # "DSN"
           /\ s # <<>> /\ DsnLast(s) => DsnLast(Tail(s))
<1>1. NoDsn(<<>>) /\ DsnLast(<<>>)
    BY DEF NoDsn, DsnLast
<1>2. NoDsn(s) => DsnLast(s)
    BY DEF NoDsn, DsnLast
<1>3. ASSUME NoDsn(s)
      PROVE  NoDsn(Append(s, "PNG"))
    BY <1>3 DEF NoDsn
<1>4. ASSUME NoDsn(s)
      PROVE  DsnLast(Append(s, "DSN"))
    BY <1>4 DEF NoDsn, DsnLast
<1>5. ASSUME s # <<>>, NoDsn(s)
      PROVE  NoDsn(Tail(s)) /\ Head(s) # "DSN"
    BY <1>5 DEF NoDsn
<1>6. ASSUME s # <<>>, DsnLast(s)
      PROVE  DsnLast(Tail(s))
    BY <1>6 DEF DsnLast
<1> QED
    BY <1>1, <1>2, <1>3, <1>4, <1>5, <1>6

\* What peers_add does to the slots.
LEMMA AddEffect ==
    ASSUME TypeOK, NEW p \in Peers, peers_add(p)
    PROVE  \/ list' = list
           \/ \E i \in Slots : /\ list[i] = NULL
                               /\ list' = [list EXCEPT ![i] = p]
<1>1. CASE npeers_cur < MaxPeers /\ FreeSlots # {}
    <2>1. FreeSlots \in SUBSET Slots /\ First(FreeSlots) \in FreeSlots
        BY <1>1, FirstSlot DEF FreeSlots
    <2>2. First(FreeSlots) \in Slots /\ list[First(FreeSlots)] = NULL
        BY <2>1 DEF FreeSlots, Occupied
    <2> QED
        BY <1>1, <2>2 DEF peers_add
<1>2. CASE ~(npeers_cur < MaxPeers /\ FreeSlots # {})
    BY <1>2 DEF peers_add, listVars
<1> QED
    BY <1>1, <1>2

\* peers_remove stops at the first match; with one slot per address there is
\* no other.
LEMMA RemoveEffect ==
    ASSUME TypeOK, OneListing, NEW a, peers_remove(a)
    PROVE  \A i \in Slots :
              list'[i] = IF list[i] # NULL /\ addr[list[i]] = a
                         THEN NULL ELSE list[i]
<1>1. CASE SlotsOf(a) # {}
    <2> DEFINE f == First(SlotsOf(a))
    <2>1. f \in SlotsOf(a)
        BY <1>1, FirstSlot DEF SlotsOf, Occupied
    <2>2. \A i \in SlotsOf(a) : i = f
        BY <2>1 DEF SlotsOf, OneListing
    <2>3. list' = [list EXCEPT ![f] = NULL]
        BY <1>1 DEF peers_remove
    <2> QED
        BY <2>1, <2>2, <2>3 DEF SlotsOf, Occupied, TypeOK
<1>2. CASE SlotsOf(a) = {}
    BY <1>2 DEF peers_remove, SlotsOf, Occupied, listVars
<1> QED
    BY <1>1, <1>2

-----------------------------------------------------------------------------
(* The list and the queues *)

LEMMA ListInit == Init => ListInv
<1> SUFFICES ASSUME Init PROVE ListInv
    OBVIOUS
<1>1. Occupied = {} /\ \A p \in Peers : ~Listed(p)
    BY SessionsAssumption DEF Init, Occupied, Listed, Peers
<1>2. FarewellInv
    <2>1. <<>> \in Seq(Requests)
        OBVIOUS
    <2>2. \A p \in Peers : reqs_q[p] = <<>>
        BY DEF Init
    <2>3. NoDsn(<<>>) /\ DsnLast(<<>>)
        BY <2>1, DsnFacts
    <2> QED
        BY <1>1, <2>2, <2>3 DEF FarewellInv
<1> QED
    BY <1>1, <1>2
       DEF Init, ListInv, LockInv, CreatedInv, DisconnectInv, AddressInv,
           ListedIsLive, OneListing, WalksAreSafe, SlotsOf

\* No freed peer is ever met in the list, so no step ends in "uaf_list".
LEMMA NoScanFault ==
    ASSUME ListedIsLive, NEW a
    PROVE  ~ScanFaults(a)
BY DEF ListedIsLive, ScanFaults, Freed, Serving

\* A handler that keeps serving, or whose connection is not listed, preserves
\* the invariant whatever it does to its own queue but add to it.
LEMMA HandlerKeepsList ==
    ASSUME TypeInv, ListInv, NEW p \in Peers,
           UNCHANGED <<list, peers_lock, peers_mem, cliVars, srvVars, addr>>,
           thread[p] \in HandlerPcs,
           NEW pc \in HandlerPcs \cup {"done"},
           thread' = [thread EXCEPT ![p] = pc],
           pc \in Serving \/ ~Listed(p),
           NEW s \in Seq(Requests), reqs_q' = [reqs_q EXCEPT ![p] = s],
           DsnLast(s), NoDsn(reqs_q[p]) => NoDsn(s),
           proc' # "uaf_list"
    PROVE  ListInv'
<1> USE DEF cliVars, srvVars
<1>1. LockInv'
    BY DEF ListInv, LockInv
<1>2. /\ \A q \in Peers : q # p => thread'[q] = thread[q] /\ reqs_q'[q] = reqs_q[q]
      /\ thread'[p] = pc /\ reqs_q'[p] = s
      /\ \A q \in Peers : Listed(q)' <=> Listed(q)
      /\ Occupied' = Occupied
    BY DEF TypeInv, TypeOK, Listed, Occupied
<1>3. CreatedInv'
    BY <1>2 DEF ListInv, CreatedInv, Newborn, HandlerPcs, TypeInv, LocalsOK
<1>4. DisconnectInv'
    BY <1>2 DEF ListInv, DisconnectInv, HandlerPcs, TypeInv, LocalsOK
<1>5. AddressInv'
    BY <1>2 DEF ListInv, AddressInv, Freed, SlotsOf, HandlerPcs
<1>6. ListedIsLive' /\ OneListing'
    BY <1>2 DEF ListInv, ListedIsLive, OneListing, Listed, Occupied, TypeInv, TypeOK
<1>7. FarewellInv'
    <2>1. \A q \in Peers : DsnLast(reqs_q[q]) /\ (Listed(q) => NoDsn(reqs_q[q]))
        BY DEF ListInv, FarewellInv
    <2>2. \A q \in Peers : /\ DsnLast(reqs_q'[q])
                           /\ Listed(q) => NoDsn(reqs_q'[q])
        BY <1>2, <2>1
    <2> QED
        BY <1>2, <2>2 DEF FarewellInv
<1> QED
    BY <1>1, <1>3, <1>4, <1>5, <1>6, <1>7 DEF ListInv, WalksAreSafe

\* Steps that change nothing the invariant reads preserve it.
LEMMA SameListInv ==
    ASSUME ListInv,
           UNCHANGED <<list, peers_lock, peers_mem, cliVars, srvVars, thread,
                       addr, reqs_q>>,
           proc' # "uaf_list"
    PROVE  ListInv'
<1> USE DEF cliVars, srvVars, ListInv
<1>1. LockInv' /\ WalksAreSafe'
    BY DEF LockInv, WalksAreSafe
<1>2. CreatedInv'
    BY DEF CreatedInv, Newborn, Listed
<1>3. DisconnectInv'
    BY DEF DisconnectInv, Listed
<1>4. AddressInv'
    BY DEF AddressInv, Freed, SlotsOf, Occupied
<1>5. ListedIsLive' /\ OneListing' /\ FarewellInv'
    BY DEF ListedIsLive, OneListing, Occupied, FarewellInv, Listed
<1> QED
    BY <1>1, <1>2, <1>3, <1>4, <1>5

\* A step that only takes connections off the list preserves what does not
\* depend on the place of the command loop.
LEMMA FewerListed ==
    ASSUME TypeInv, ListInv,
           list' \in [Slots -> Peers \cup {NULL}],
           \A i \in Slots : list'[i] = NULL \/ list'[i] = list[i],
           UNCHANGED <<addr, srvVars>>
    PROVE  /\ \A q \in Peers : Listed(q)' => Listed(q)
           /\ \A i \in Occupied' : i \in Occupied /\ list'[i] = list[i]
           /\ OneListing'
           /\ \A a : SlotsOf(a) = {} => SlotsOf(a)' = {}
<1>1. \A i \in Occupied' : i \in Occupied /\ list'[i] = list[i]
    BY DEF Occupied
<1>2. \A q \in Peers : Listed(q)' => Listed(q)
    BY SessionsAssumption DEF Listed, Peers
<1>3. OneListing'
    BY <1>1 DEF ListInv, OneListing
<1>4. \A a : SlotsOf(a) = {} => SlotsOf(a)' = {}
    BY <1>1 DEF SlotsOf
<1> QED
    BY <1>1, <1>2, <1>3, <1>4

\* The handler that has read a DSN takes its own connection off the list: with
\* one slot per address, there is nothing else it could hit but a connection
\* dialled to the same address since.
LEMMA HandlerRemoves ==
    ASSUME TypeInv, ListInv, NEW p \in Peers, PeerRemove(p)
    PROVE  ListInv'
<1> USE DEF HandlerAt, HandlerTo, cliVars, srvVars
<1>1. \A i \in Slots :
          list'[i] = IF list[i] # NULL /\ addr[list[i]] = addr[p]
                     THEN NULL ELSE list[i]
    BY RemoveEffect DEF PeerRemove, TypeInv, ListInv
<1>2. list' \in [Slots -> Peers \cup {NULL}]
    BY RemoveKeepsCount DEF PeerRemove, TypeInv
<1>3. /\ \A q \in Peers : Listed(q)' => Listed(q)
      /\ \A i \in Occupied' : i \in Occupied /\ list'[i] = list[i]
      /\ OneListing'
      /\ \A a : SlotsOf(a) = {} => SlotsOf(a)' = {}
    BY <1>1, <1>2, FewerListed DEF PeerRemove
<1>4. ~Listed(p)'
    BY <1>1, SessionsAssumption DEF Listed, Peers
<1>5. /\ thread[p] = "remove" /\ thread'[p] = "destroy"
      /\ \A q \in Peers : q # p => thread'[q] = thread[q]
      /\ UNCHANGED <<proc, peers_lock, peers_mem, cliVars, srvVars, addr, reqs_q>>
    BY DEF PeerRemove, TypeInv, TypeOK
<1>6. LockInv' /\ WalksAreSafe'
    BY <1>5 DEF ListInv, LockInv, WalksAreSafe
<1>7. CreatedInv'
    BY <1>3, <1>5 DEF ListInv, CreatedInv, Newborn, TypeInv, LocalsOK
<1>8. DisconnectInv'
    BY <1>3, <1>5 DEF ListInv, DisconnectInv, TypeInv, LocalsOK
<1>9. AddressInv'
    BY <1>3, <1>5 DEF ListInv, AddressInv, Freed
<1>10. ListedIsLive'
    <2> SUFFICES ASSUME NEW i \in Occupied' PROVE thread'[list'[i]] \in Serving
        BY DEF ListedIsLive
    <2>1. i \in Occupied /\ list'[i] = list[i] /\ thread[list[i]] \in Serving
        BY <1>3 DEF ListInv, ListedIsLive
    <2>2. list'[i] \in Peers /\ list'[i] # p
        BY <1>2, <1>4 DEF Occupied, Listed
    <2> QED
        BY <1>5, <2>1, <2>2
<1>11. FarewellInv'
    BY <1>3, <1>5 DEF ListInv, FarewellInv
<1> QED
    BY <1>3, <1>6, <1>7, <1>8, <1>9, <1>10, <1>11 DEF ListInv

\* Each step of a handler.
LEMMA HandlerList ==
    ASSUME TypeInv, ListInv, NEW p \in Peers, Handler(p)
    PROVE  ListInv'
<1> USE DEF HandlerAt, HandlerTo, handlerUnchanged
<1>1. /\ reqs_q[p] \in Seq(Requests)
      /\ reqs_q = [reqs_q EXCEPT ![p] = reqs_q[p]]
      /\ DsnLast(reqs_q[p]) /\ (Listed(p) => NoDsn(reqs_q[p]))
      /\ proc # "uaf_list"
    BY DEF TypeInv, TypeOK, ListInv, FarewellInv, WalksAreSafe
<1>2. Listed(p) => thread[p] \in Serving
    BY SessionsAssumption DEF ListInv, ListedIsLive, Listed, Occupied, Peers
<1>3. ASSUME NEW m, try_send(p, m), proc = "running"
      PROVE  proc' # "uaf_list"
    BY <1>3 DEF try_send
<1>4. CASE PeerHello(p)
    BY <1>1, <1>3, <1>4, HandlerKeepsList
       DEF PeerHello, HandlerPcs, Serving, listVars
<1>5. CASE PeerAwaitAck(p)
    BY <1>1, <1>5, HandlerKeepsList
       DEF PeerAwaitAck, HandlerPcs, Serving, listVars
<1>6. CASE PeerNoRequest(p)
    BY <1>1, <1>6, HandlerKeepsList
       DEF PeerNoRequest, HandlerPcs, Serving, listVars
<1>7. CASE PeerRequest(p)
    <2> DEFINE s  == Tail(reqs_q[p])
               pc == IF Head(reqs_q[p]) = "DSN" THEN "destroy" ELSE "recv"
    <2>1. /\ s \in Seq(Requests) /\ DsnLast(s)
          /\ NoDsn(reqs_q[p]) => NoDsn(s) /\ Head(reqs_q[p]) # "DSN"
        BY <1>1, <1>7, DsnFacts DEF PeerRequest
    <2>2. pc \in HandlerPcs /\ (pc \in Serving \/ ~Listed(p))
        BY <1>1, <2>1 DEF HandlerPcs, Serving
    <2>3. /\ reqs_q' = [reqs_q EXCEPT ![p] = s]
          /\ thread' = [thread EXCEPT ![p] = pc]
          /\ UNCHANGED <<list, peers_lock, peers_mem, cliVars, srvVars, addr>>
          /\ thread[p] \in HandlerPcs
          /\ proc' # "uaf_list"
        BY <1>3, <1>7 DEF PeerRequest, HandlerPcs, listVars
    <2> HIDE DEF s, pc
    <2> QED
        BY <2>1, <2>2, <2>3, HandlerKeepsList
<1>8. CASE PeerNoPacket(p)
    BY <1>1, <1>8, HandlerKeepsList
       DEF PeerNoPacket, HandlerPcs, Serving, listVars
<1>9. CASE PeerAnswer(p)
    BY <1>1, <1>3, <1>9, HandlerKeepsList
       DEF PeerAnswer, HandlerPcs, Serving, listVars
<1>10. CASE PeerIgnore(p)
    BY <1>1, <1>10, HandlerKeepsList
       DEF PeerIgnore, HandlerPcs, Serving, listVars
<1>11. CASE PeerReadsDsn(p)
    BY <1>1, <1>11, HandlerKeepsList
       DEF PeerReadsDsn, HandlerPcs, Serving, listVars
<1>12. CASE PeerRemove(p)
    BY <1>12, HandlerRemoves
<1>13. CASE PeerRemoveFaults(p)
    <2>1. peers_mem = "freed" /\ proc' = "uaf_peers"
        BY <1>13, NoScanFault DEF PeerRemoveFaults, ListInv
    <2> QED
        BY <1>13, <2>1, SameListInv DEF PeerRemoveFaults, listVars, peerVars
<1>14. CASE PeerDestroy(p)
    <2>1. <<>> \in Seq(Requests) /\ DsnLast(<<>>) /\ NoDsn(<<>>)
        BY <1>1, DsnFacts
    <2>2. ~Listed(p)
        BY <1>2, <1>14 DEF PeerDestroy, Serving
    <2> QED
        BY <1>1, <1>14, <2>1, <2>2, HandlerKeepsList
           DEF PeerDestroy, HandlerPcs, listVars
<1>15. CASE PeerClearQueue(p)
    BY <1>1, <1>2, <1>15, HandlerKeepsList
       DEF PeerClearQueue, HandlerPcs, Serving, listVars
<1>16. CASE PeerCleanup(p)
    BY <1>1, <1>2, <1>16, HandlerKeepsList
       DEF PeerCleanup, HandlerPcs, Serving, listVars
<1> QED
    BY <1>4, <1>5, <1>6, <1>7, <1>8, <1>9, <1>10, <1>11, <1>12, <1>13, <1>14,
       <1>15, <1>16 DEF Handler

\* A connection enters the list, or the list is full, when its creator knows
\* that nothing is listed under its address.
LEMMA AddList ==
    ASSUME TypeInv, ListInv, NEW p \in Peers, peers_add(p), Newborn(p),
           \A i \in Occupied : addr[list[i]] # addr[p],
           UNCHANGED <<thread, addr, reqs_q>>
    PROVE  /\ \A q \in Peers : q # p => (Listed(q)' <=> Listed(q))
           /\ \A i \in Occupied' : list'[i] = p \/ (i \in Occupied /\ list'[i] = list[i])
           /\ ListedIsLive' /\ OneListing' /\ FarewellInv'
<1>1. p # NULL /\ thread[p] = "created" /\ reqs_q[p] = <<>>
    BY SessionsAssumption DEF Peers, Newborn
<1>2. CASE list' = list
    BY <1>2 DEF ListInv, Listed, Occupied, ListedIsLive, OneListing, FarewellInv
<1>3. CASE \E i \in Slots : /\ list[i] = NULL
                            /\ list' = [list EXCEPT ![i] = p]
    <2>1. PICK i \in Slots : list[i] = NULL /\ list' = [list EXCEPT ![i] = p]
        BY <1>3
    <2>2. list \in [Slots -> Peers \cup {NULL}] /\ NULL \notin Peers
        BY SessionsAssumption DEF TypeInv, TypeOK, Peers
    <2>3. list'[i] = p /\ \A j \in Slots : j # i => list'[j] = list[j]
        BY <2>1, <2>2
    <2>4. Occupied' = Occupied \cup {i}
        BY <1>1, <2>1, <2>3 DEF Occupied
    <2>5. \A q \in Peers : q # p => (Listed(q)' <=> Listed(q))
        BY <2>1, <2>2, <2>3 DEF Listed
    <2>6. ListedIsLive'
        BY <1>1, <2>1, <2>3, <2>4 DEF ListInv, ListedIsLive, Serving, Occupied
    <2>7. OneListing'
        BY <2>1, <2>3, <2>4 DEF ListInv, OneListing, Occupied
    <2>8. NoDsn(<<>>)
        BY DEF NoDsn
    <2>9. FarewellInv'
        BY <1>1, <2>5, <2>8 DEF ListInv, FarewellInv
    <2> QED
        BY <2>3, <2>4, <2>5, <2>6, <2>7, <2>9 DEF Occupied
<1> QED
    BY <1>2, <1>3, AddEffect DEF TypeInv

\* A connection that is being created is in nobody's hands but its creator's.
LEMMA CreateEffect ==
    ASSUME TypeInv, ListInv, NEW p \in Peers, NEW a \in InUse,
           peer_create(p, a), UNCHANGED list
    PROVE  /\ thread[p] = "unused" /\ thread'[p] = "created" /\ addr'[p] = a
           /\ \A q \in Peers :
                 q # p => thread'[q] = thread[q] /\ addr'[q] = addr[q]
           /\ Newborn(p)'
           /\ UNCHANGED reqs_q
           /\ \A b : SlotsOf(b)' = SlotsOf(b)
           /\ ListedIsLive' /\ OneListing' /\ FarewellInv'
<1>1. /\ thread[p] = "unused" /\ thread'[p] = "created" /\ addr'[p] = a
      /\ \A q \in Peers :
            q # p => thread'[q] = thread[q] /\ addr'[q] = addr[q]
      /\ UNCHANGED reqs_q
    BY DEF peer_create, TypeInv, TypeOK
<1>2. ASSUME NEW i \in Occupied
      PROVE  list[i] \in Peers /\ thread[list[i]] \in Serving /\ list[i] # p
    BY <1>1 DEF Occupied, TypeInv, TypeOK, ListInv, ListedIsLive, Serving
<1>3. Occupied' = Occupied
    BY DEF Occupied
<1>4. \A q \in Peers : Listed(q)' <=> Listed(q)
    BY DEF Listed
<1>5. ~Listed(p)
    BY <1>2, SessionsAssumption DEF Listed, Occupied, Peers
<1>6. Newborn(p)'
    BY <1>1, <1>4, <1>5 DEF ListInv, CreatedInv, Newborn
<1>7. \A b : SlotsOf(b)' = SlotsOf(b)
    BY <1>1, <1>2, <1>3 DEF SlotsOf
<1>8. ListedIsLive' /\ OneListing'
    BY <1>1, <1>2, <1>3 DEF ListInv, ListedIsLive, OneListing
<1>9. FarewellInv'
    BY <1>1, <1>4 DEF ListInv, FarewellInv
<1> QED
    BY <1>1, <1>6, <1>7, <1>8, <1>9

\* Starting a handler for a connection that was created.
LEMMA SpawnEffect ==
    ASSUME TypeInv, ListInv, NEW p \in Peers, thread[p] = "created",
           peer_create_thread(p), UNCHANGED list
    PROVE  /\ thread'[p] = "hello"
           /\ \A q \in Peers : q # p => thread'[q] = thread[q]
           /\ \A q \in Peers : Listed(q)' <=> Listed(q)
           /\ \A b : SlotsOf(b)' = SlotsOf(b)
           /\ UNCHANGED <<addr, reqs_q>>
           /\ ListedIsLive' /\ OneListing' /\ FarewellInv'
<1>1. /\ thread'[p] = "hello"
      /\ \A q \in Peers : q # p => thread'[q] = thread[q]
      /\ UNCHANGED <<addr, reqs_q>>
    BY DEF peer_create_thread, TypeInv, TypeOK
<1>2. Occupied' = Occupied /\ \A i \in Occupied : list[i] \in Peers
    BY DEF Occupied, TypeInv, TypeOK
<1>3. \A q \in Peers : Listed(q)' <=> Listed(q)
    BY DEF Listed
<1>4. \A b : SlotsOf(b)' = SlotsOf(b)
    BY <1>1, <1>2 DEF SlotsOf
<1>5. ListedIsLive' /\ OneListing'
    BY <1>1, <1>2 DEF ListInv, ListedIsLive, OneListing, Serving
<1>6. FarewellInv'
    BY <1>1, <1>3 DEF ListInv, FarewellInv
<1> QED
    BY <1>1, <1>3, <1>4, <1>5, <1>6

LEMMA ServerList ==
    ASSUME ~PortReuse, TypeInv, ListInv,
           \/ Server
           \/ \E p \in Peers, a \in PeerAddrs : ServerAccept(p, a)
    PROVE  ListInv'
<1>1. ASSUME NEW p \in Peers, NEW a \in PeerAddrs, ServerAccept(p, a)
      PROVE  ListInv'
    <2>1. /\ srv_pc = "accept" /\ srv_pc' = "add" /\ srv_peer' = p
          /\ peer_create(p, a) /\ a \in InUse
          /\ \A q \in Peers : addr[q] = a => Freed(q)
          /\ UNCHANGED <<proc, list, peers_lock, peers_mem, cliVars>>
        BY <1>1 DEF ServerAccept, listVars, InUse
    <2>2. /\ thread[p] = "unused" /\ thread'[p] = "created" /\ addr'[p] = a
          /\ \A q \in Peers :
                q # p => thread'[q] = thread[q] /\ addr'[q] = addr[q]
          /\ Newborn(p)'
          /\ UNCHANGED reqs_q
          /\ \A b : SlotsOf(b)' = SlotsOf(b)
          /\ ListedIsLive' /\ OneListing' /\ FarewellInv'
        BY <2>1, CreateEffect
    <2>3. LockInv' /\ WalksAreSafe'
        BY <2>1 DEF ListInv, LockInv, WalksAreSafe, cliVars
    <2>4. CreatedInv'
        BY <2>1, <2>2
           DEF ListInv, CreatedInv, Newborn, Listed, cliVars, TypeInv, LocalsOK
    <2>5. DisconnectInv'
        BY <2>1, <2>2
           DEF ListInv, DisconnectInv, Listed, cliVars, TypeInv, LocalsOK
    <2>6. AddressInv'
        BY <2>1, <2>2 DEF ListInv, AddressInv, Freed, cliVars
    <2> QED
        BY <2>2, <2>3, <2>4, <2>5, <2>6 DEF ListInv
<1>2. CASE ServerAdd
    <2>1. /\ srv_pc = "add" /\ srv_pc' = "spawn" /\ peers_add(srv_peer)
          /\ srv_peer \in Peers /\ Newborn(srv_peer)
          /\ addr[srv_peer] \in PeerAddrs /\ thread[srv_peer] = "created"
          /\ UNCHANGED <<proc, peers_lock, peers_mem, cliVars, srv_peer, peerVars>>
        BY <1>2 DEF ServerAdd, TypeInv, LocalsOK, ListInv, CreatedInv
    <2>2. ASSUME NEW i \in Occupied
          PROVE  addr[list[i]] # addr[srv_peer]
        <3>1. list[i] \in Peers /\ thread[list[i]] \in Serving /\ Listed(list[i])
            BY DEF Occupied, TypeInv, TypeOK, ListInv, ListedIsLive, Listed
        <3>2. list[i] # srv_peer
            BY <2>1, <3>1 DEF Newborn
        <3> QED
            BY <2>1, <3>1, <3>2 DEF ListInv, AddressInv, Serving, Freed
    <2>3. /\ \A q \in Peers : q # srv_peer => (Listed(q)' <=> Listed(q))
          /\ \A i \in Occupied' : list'[i] = srv_peer
                                   \/ (i \in Occupied /\ list'[i] = list[i])
          /\ ListedIsLive' /\ OneListing' /\ FarewellInv'
        BY <2>1, <2>2, AddList DEF peerVars
    <2>4. LockInv' /\ WalksAreSafe'
        BY <2>1 DEF ListInv, LockInv, WalksAreSafe, cliVars
    <2>5. cli_pc \in {"add", "spawn"} => cli_peer # srv_peer
        BY <2>1, SessionsAssumption DEF ListInv, CreatedInv
    <2>6. CreatedInv'
        BY <2>1, <2>3, <2>5
           DEF ListInv, CreatedInv, Newborn, cliVars, peerVars, TypeInv, LocalsOK
    <2>7. DisconnectInv'
        BY <2>1, <2>3
           DEF ListInv, DisconnectInv, cliVars, peerVars, TypeInv, LocalsOK
    <2>8. AddressInv'
        <3>1. ASSUME cli_pc \in {"dial", "add"}
              PROVE  SlotsOf(cli_addr)' = {}
            <4>1. cli_addr \in Typed /\ SlotsOf(cli_addr) = {}
                BY <3>1
                   DEF ListInv, CreatedInv, AddressInv, TypeInv, LocalsOK, Typed
            <4>2. addr[srv_peer] # cli_addr
                BY <2>1, <4>1, SessionsAssumption DEF Typed
            <4> QED
                BY <2>1, <2>3, <4>1, <4>2 DEF SlotsOf, cliVars, peerVars
        <3> QED
            BY <2>1, <3>1 DEF ListInv, AddressInv, cliVars, peerVars, Freed
    <2> QED
        BY <2>3, <2>4, <2>6, <2>7, <2>8 DEF ListInv
<1>3. CASE ServerAddFaults
    BY <1>3, SameListInv DEF ServerAddFaults, listVars, peerVars
<1>4. CASE ServerSpawn
    <2>1. /\ srv_pc = "spawn" /\ srv_pc' = "accept"
          /\ srv_peer \in Peers /\ thread[srv_peer] = "created"
          /\ addr[srv_peer] \in PeerAddrs
          /\ peer_create_thread(srv_peer)
          /\ UNCHANGED <<proc, list, peers_lock, peers_mem, cliVars>>
        BY <1>4 DEF ServerSpawn, listVars, TypeInv, LocalsOK, ListInv, CreatedInv
    <2>2. /\ thread'[srv_peer] = "hello"
          /\ \A q \in Peers : q # srv_peer => thread'[q] = thread[q]
          /\ \A q \in Peers : Listed(q)' <=> Listed(q)
          /\ \A b : SlotsOf(b)' = SlotsOf(b)
          /\ UNCHANGED <<addr, reqs_q>>
          /\ ListedIsLive' /\ OneListing' /\ FarewellInv'
        BY <2>1, SpawnEffect
    <2>3. LockInv' /\ WalksAreSafe'
        BY <2>1 DEF ListInv, LockInv, WalksAreSafe, cliVars
    <2>4. cli_pc \in {"add", "spawn"} => cli_peer # srv_peer
        BY <2>1, SessionsAssumption DEF ListInv, CreatedInv
    <2>5. CreatedInv'
        BY <2>1, <2>2, <2>4
           DEF ListInv, CreatedInv, Newborn, cliVars, TypeInv, LocalsOK
    <2>6. DisconnectInv'
        BY <2>1, <2>2 DEF ListInv, DisconnectInv, cliVars, TypeInv, LocalsOK
    <2>7. AddressInv'
        BY <2>1, <2>2 DEF ListInv, AddressInv, Freed, cliVars
    <2> QED
        BY <2>2, <2>3, <2>5, <2>6, <2>7 DEF ListInv
<1> QED
    BY <1>1, <1>2, <1>3, <1>4 DEF Server

\* What a search of the list finds.
LEMMA FindEffect ==
    ASSUME TypeInv, ListInv, NEW a
    PROVE  /\ peers_find(a) = NULL => SlotsOf(uint16(a)) = {}
           /\ peers_find(a) # NULL =>
                 /\ peers_find(a) \in Peers
                 /\ Listed(peers_find(a))
                 /\ addr[peers_find(a)] = uint16(a)
                 /\ thread[peers_find(a)] \in Serving
<1> DEFINE b == uint16(a)
<1>1. peers_find(a) = IF SlotsOf(b) = {} THEN NULL ELSE list[First(SlotsOf(b))]
    BY DEF peers_find
<1> HIDE DEF b
<1>2. CASE SlotsOf(b) = {}
    BY <1>1, <1>2 DEF b
<1>3. CASE SlotsOf(b) # {}
    <2> DEFINE f == First(SlotsOf(b))
    <2>1. f \in SlotsOf(b) /\ peers_find(a) = list[f]
        BY <1>1, <1>3, FirstSlot DEF SlotsOf, Occupied
    <2>2. f \in Slots /\ f \in Occupied /\ list[f] # NULL /\ addr[list[f]] = b
        BY <2>1 DEF SlotsOf, Occupied
    <2>3. list[f] \in Peers /\ thread[list[f]] \in Serving /\ Listed(list[f])
        BY <2>2 DEF TypeInv, TypeOK, ListInv, ListedIsLive, Listed
    <2> HIDE DEF f
    <2> QED
        BY <2>1, <2>2, <2>3 DEF b
<1> QED
    BY <1>2, <1>3

\* Without aliases no wide address is anybody's, and its search finds nothing.
LEMMA WideUnknown ==
    ASSUME NoAliases, TypeInv, ListInv, NEW a \in WideAddrs
    PROVE  SlotsOf(a) = {} /\ peers_find(a) = NULL
<1>1. \A i \in Occupied : addr[list[i]] \in InUse
    BY DEF TypeInv, TypeOK, ListInv, CreatedInv, ListedIsLive, Occupied, Serving
<1>2. a \notin InUse /\ uint16(a) \notin InUse
    BY SessionsAssumption DEF InUse, NoAliases, uint16
<1>3. SlotsOf(a) = {} /\ SlotsOf(uint16(a)) = {}
    BY <1>1, <1>2 DEF SlotsOf
<1> QED
    BY <1>3 DEF peers_find

\* Moves of the command loop to where it holds no connection.
LEMMA CliMoves ==
    ASSUME TypeInv, ListInv,
           UNCHANGED <<list, thread, addr, reqs_q, srv_peer>>,
           srv_pc' \in {srv_pc, "done"},
           cli_pc' \in {"idle", "ping", "cancel", "free", "join", "exit"},
           peers_lock' => cli_pc' \in {"ping", "cancel"},
           peers_mem' = "freed" => cli_pc' \in {"join", "exit"},
           proc' # "uaf_list"
    PROVE  ListInv'
<1> USE DEF ListInv
<1>1. LockInv' /\ WalksAreSafe'
    BY DEF LockInv, WalksAreSafe
<1>2. CreatedInv' /\ DisconnectInv'
    BY DEF CreatedInv, DisconnectInv, Newborn, Listed
<1>3. AddressInv'
    BY DEF AddressInv, Freed
<1>4. ListedIsLive' /\ OneListing' /\ FarewellInv'
    BY DEF ListedIsLive, OneListing, Occupied, FarewellInv, Listed
<1> QED
    BY <1>1, <1>2, <1>3, <1>4

LEMMA CommandList ==
    ASSUME NoAliases, TypeInv, ListInv, CliCommand
    PROVE  ListInv'
<1> USE DEF CliAt, Types, CliTo
<1>0. LockInv /\ proc # "uaf_list"
    BY DEF ListInv, WalksAreSafe
<1>1. ASSUME NEW a \in Typed, CliConnect(a)
      PROVE  ListInv'
    <2>1. SlotsOf(a) = {}
        BY <1>1, FindEffect, WideUnknown DEF CliConnect, uint16
    <2>2. /\ cli_pc = "idle" /\ cli_pc' = "dial" /\ cli_addr' = a
          /\ UNCHANGED <<proc, list, peers_lock, peers_mem, srv_pc, srv_peer,
                         thread, addr, reqs_q>>
        BY <1>1 DEF CliConnect, listVars, srvVars, peerVars
    <2>3. CreatedInv' /\ DisconnectInv'
        BY <2>2 DEF ListInv, CreatedInv, DisconnectInv, Newborn, Listed
    <2>4. AddressInv'
        BY <2>1, <2>2 DEF ListInv, AddressInv, Freed, SlotsOf, Occupied
    <2>5. ListedIsLive' /\ OneListing' /\ FarewellInv'
        BY <2>2 DEF ListInv, ListedIsLive, OneListing, Occupied, FarewellInv, Listed
    <2> QED
        BY <1>0, <2>2, <2>3, <2>4, <2>5 DEF ListInv, LockInv, WalksAreSafe
<1>2. ASSUME NEW a \in Addrs, CliDisconnect(a)
      PROVE  ListInv'
    <2> DEFINE q == peers_find(a)
    <2>1. /\ q \in Peers /\ Listed(q) /\ addr[q] = a /\ thread[q] \in Serving
        BY <1>2, FindEffect, WideUnknown DEF CliDisconnect, uint16
    <2>2. /\ cli_pc = "idle" /\ cli_pc' = "remove"
          /\ cli_addr' = a /\ cli_peer' = q
          /\ UNCHANGED <<proc, list, peers_lock, peers_mem, srv_pc, srv_peer,
                         thread, addr, reqs_q>>
        BY <1>2 DEF CliDisconnect, listVars, srvVars, peerVars
    <2> HIDE DEF q
    <2>3. CreatedInv'
        BY <2>2 DEF ListInv, CreatedInv, Newborn, Listed
    <2>4. DisconnectInv'
        BY <2>1, <2>2
           DEF ListInv, CreatedInv, DisconnectInv, FarewellInv, Newborn, Serving
    <2>5. AddressInv'
        BY <2>2 DEF ListInv, AddressInv, Freed
    <2>6. ListedIsLive' /\ OneListing' /\ FarewellInv'
        BY <2>2 DEF ListInv, ListedIsLive, OneListing, Occupied, FarewellInv, Listed
    <2> QED
        BY <1>0, <2>2, <2>3, <2>4, <2>5, <2>6 DEF ListInv, LockInv, WalksAreSafe
<1>3. ASSUME NEW a \in Addrs, CliFindFaults(a)
      PROVE  ListInv'
    BY <1>3, NoScanFault DEF CliFindFaults, ListInv
<1>4. CASE CliPeers
    BY <1>0, <1>4, CliMoves DEF CliPeers, LockInv, listVars, srvVars, peerVars
<1>5. CASE CliQuit
    BY <1>0, <1>5, CliMoves DEF CliQuit, LockInv, listVars, srvVars, peerVars
<1>6. CASE UNCHANGED vars
    BY <1>0, <1>6, SameListInv DEF vars, cliVars, srvVars
<1> QED
    BY <1>1, <1>2, <1>3, <1>4, <1>5, <1>6
       DEF CliCommand, CliRefused, CliNoPeers

\* The connections that CONNECT makes.
LEMMA ConnectList ==
    ASSUME NoAliases, TypeInv, ListInv,
           CliAdd \/ CliSpawn \/ \E p \in Peers : CliDial(p)
    PROVE  ListInv'
<1> USE DEF CliAt, CliTo, CliReturns
<1>0. LockInv /\ proc # "uaf_list"
    BY DEF ListInv, WalksAreSafe
<1>1. ASSUME NEW p \in Peers, CliDial(p)
      PROVE  ListInv'
    <2>1. /\ cli_pc = "dial" /\ cli_pc' = "add" /\ cli_peer' = p
          /\ peer_create(p, cli_addr)
          /\ cli_addr \in DialAddrs /\ cli_addr \in InUse
          /\ UNCHANGED <<proc, list, peers_lock, peers_mem, cli_addr,
                         srv_pc, srv_peer>>
        BY <1>1 DEF CliDial, listVars, srvVars, TypeInv, LocalsOK, Typed, InUse,
                    NoAliases, uint16
    <2>2. /\ thread[p] = "unused" /\ thread'[p] = "created" /\ addr'[p] = cli_addr
          /\ \A q \in Peers :
                q # p => thread'[q] = thread[q] /\ addr'[q] = addr[q]
          /\ Newborn(p)'
          /\ UNCHANGED reqs_q
          /\ \A b : SlotsOf(b)' = SlotsOf(b)
          /\ ListedIsLive' /\ OneListing' /\ FarewellInv'
        BY <2>1, CreateEffect
    <2>3. LockInv' /\ WalksAreSafe'
        BY <1>0, <2>1 DEF LockInv, WalksAreSafe
    <2>4. CreatedInv'
        BY <2>1, <2>2 DEF ListInv, CreatedInv, Newborn, Listed, TypeInv, LocalsOK
    <2>5. DisconnectInv'
        BY <2>1 DEF DisconnectInv
    <2>6. AddressInv'
        BY <2>1, <2>2, SessionsAssumption DEF ListInv, AddressInv, Freed
    <2> QED
        BY <2>2, <2>3, <2>4, <2>5, <2>6 DEF ListInv
<1>2. CASE CliAdd
    <2>1. /\ cli_pc = "add" /\ cli_pc' = "spawn" /\ peers_add(cli_peer)
          /\ cli_peer \in Peers /\ Newborn(cli_peer)
          /\ addr[cli_peer] \in DialAddrs /\ addr[cli_peer] = cli_addr
          /\ thread[cli_peer] = "created" /\ SlotsOf(cli_addr) = {}
          /\ UNCHANGED <<proc, peers_lock, peers_mem, cli_addr, cli_peer,
                         srv_pc, srv_peer, thread, addr, reqs_q>>
        BY <1>2 DEF CliAdd, srvVars, peerVars, TypeInv, LocalsOK, ListInv,
                    CreatedInv, AddressInv
    <2>2. \A i \in Occupied : addr[list[i]] # addr[cli_peer]
        BY <2>1 DEF SlotsOf
    <2>3. /\ \A q \in Peers : q # cli_peer => (Listed(q)' <=> Listed(q))
          /\ ListedIsLive' /\ OneListing' /\ FarewellInv'
        BY <2>1, <2>2, AddList
    <2>4. LockInv' /\ WalksAreSafe'
        BY <1>0, <2>1 DEF LockInv, WalksAreSafe
    <2>5. srv_pc \in {"add", "spawn"} => cli_peer # srv_peer
        BY <2>1, SessionsAssumption DEF ListInv, CreatedInv
    <2>6. CreatedInv'
        BY <2>1, <2>3, <2>5 DEF ListInv, CreatedInv, Newborn, TypeInv, LocalsOK
    <2>7. DisconnectInv'
        BY <2>1 DEF DisconnectInv
    <2>8. AddressInv'
        BY <2>1 DEF ListInv, AddressInv, Freed
    <2> QED
        BY <2>3, <2>4, <2>6, <2>7, <2>8 DEF ListInv
<1>3. CASE CliSpawn
    <2>1. /\ cli_pc = "spawn" /\ cli_pc' = "idle"
          /\ cli_peer \in Peers /\ thread[cli_peer] = "created"
          /\ addr[cli_peer] \in DialAddrs
          /\ peer_create_thread(cli_peer)
          /\ UNCHANGED <<proc, list, peers_lock, peers_mem, srv_pc, srv_peer>>
        BY <1>3 DEF CliSpawn, listVars, srvVars, TypeInv, LocalsOK, ListInv,
                    CreatedInv
    <2>2. /\ thread'[cli_peer] = "hello"
          /\ \A q \in Peers : q # cli_peer => thread'[q] = thread[q]
          /\ \A q \in Peers : Listed(q)' <=> Listed(q)
          /\ UNCHANGED <<addr, reqs_q>>
          /\ ListedIsLive' /\ OneListing' /\ FarewellInv'
        BY <2>1, SpawnEffect
    <2>3. LockInv' /\ WalksAreSafe'
        BY <1>0, <2>1 DEF LockInv, WalksAreSafe
    <2>4. srv_pc \in {"add", "spawn"} => cli_peer # srv_peer
        BY <2>1, SessionsAssumption DEF ListInv, CreatedInv
    <2>5. CreatedInv'
        BY <2>1, <2>2, <2>4 DEF ListInv, CreatedInv, Newborn, TypeInv, LocalsOK
    <2>6. DisconnectInv' /\ AddressInv'
        BY <2>1, <2>2 DEF ListInv, DisconnectInv, AddressInv, Freed
    <2> QED
        BY <2>2, <2>3, <2>5, <2>6 DEF ListInv
<1> QED
    BY <1>1, <1>2, <1>3

\* The two steps of DISCONNECT that change something.
LEMMA DisconnectList ==
    ASSUME TypeInv, ListInv, CliRemove \/ CliEnqueue
    PROVE  ListInv'
<1> USE DEF CliAt, CliTo, CliReturns
<1>0. LockInv /\ proc # "uaf_list"
    BY DEF ListInv, WalksAreSafe
<1>1. CASE CliRemove
    <2>1. /\ cli_pc = "remove" /\ cli_pc' = "enqueue" /\ peers_remove(cli_addr)
          /\ cli_peer \in Peers /\ addr[cli_peer] = cli_addr
          /\ UNCHANGED <<proc, peers_lock, peers_mem, cli_addr, cli_peer,
                         srv_pc, srv_peer, thread, addr, reqs_q>>
        BY <1>1 DEF CliRemove, srvVars, peerVars, TypeInv, LocalsOK, ListInv,
                    DisconnectInv
    <2>2. \A i \in Slots :
              list'[i] = IF list[i] # NULL /\ addr[list[i]] = cli_addr
                         THEN NULL ELSE list[i]
        BY <2>1, RemoveEffect DEF TypeInv, ListInv
    <2>3. list' \in [Slots -> Peers \cup {NULL}]
        BY <2>1, RemoveKeepsCount DEF TypeInv
    <2>4. /\ \A q \in Peers : Listed(q)' => Listed(q)
          /\ \A i \in Occupied' : i \in Occupied /\ list'[i] = list[i]
          /\ OneListing'
        BY <2>1, <2>2, <2>3, FewerListed DEF srvVars
    <2>5. ~Listed(cli_peer)'
        BY <2>1, <2>2, SessionsAssumption DEF Listed, Peers
    <2>6. LockInv' /\ WalksAreSafe'
        BY <1>0, <2>1 DEF LockInv, WalksAreSafe
    <2>7. CreatedInv'
        BY <2>1, <2>4 DEF ListInv, CreatedInv, Newborn, TypeInv, LocalsOK
    <2>8. DisconnectInv'
        BY <2>1, <2>5 DEF ListInv, DisconnectInv
    <2>9. AddressInv'
        BY <2>1 DEF ListInv, AddressInv, Freed
    <2>10. ListedIsLive' /\ FarewellInv'
        BY <2>1, <2>4 DEF ListInv, ListedIsLive, FarewellInv
    <2> QED
        BY <2>4, <2>6, <2>7, <2>8, <2>9, <2>10 DEF ListInv
<1>2. CASE CliEnqueue
    <2>1. /\ cli_pc = "enqueue" /\ cli_pc' = "idle"
          /\ cli_peer \in Peers /\ thread[cli_peer] # "unused"
          /\ NoDsn(reqs_q[cli_peer]) /\ ~Listed(cli_peer)
          /\ srv_pc = "add" => srv_peer # cli_peer
          /\ reqs_q[cli_peer] \in Seq(Requests)
          /\ UNCHANGED <<proc, list, peers_lock, peers_mem, srv_pc, srv_peer,
                         thread, addr>>
        BY <1>2 DEF CliEnqueue, listVars, srvVars, TypeInv, TypeOK, LocalsOK,
                    ListInv, DisconnectInv
    <2>2. /\ DsnLast(reqs_q'[cli_peer])
          /\ \A q \in Peers : q # cli_peer => reqs_q'[q] = reqs_q[q]
        BY <1>2, <2>1, DsnFacts DEF CliEnqueue, reqs_enqueue, TypeInv, TypeOK
    <2>3. \A q \in Peers : Listed(q)' <=> Listed(q)
        BY <2>1 DEF Listed
    <2>4. LockInv' /\ WalksAreSafe'
        BY <1>0, <2>1 DEF LockInv, WalksAreSafe
    <2>5. CreatedInv'
        BY <2>1, <2>2, <2>3 DEF ListInv, CreatedInv, Newborn, TypeInv, LocalsOK
    <2>6. DisconnectInv' /\ AddressInv'
        BY <2>1 DEF ListInv, DisconnectInv, AddressInv, Freed
    <2>7. ListedIsLive' /\ OneListing'
        BY <2>1 DEF ListInv, ListedIsLive, OneListing, Occupied
    <2>8. FarewellInv'
        BY <2>1, <2>2, <2>3 DEF ListInv, FarewellInv
    <2> QED
        BY <2>4, <2>5, <2>6, <2>7, <2>8 DEF ListInv
<1> QED
    BY <1>1, <1>2

\* PEERS and the shutdown visit a slot.
LEMMA WalkList ==
    ASSUME TypeInv, ListInv, CliPing \/ CliCancel
    PROVE  ListInv'
<1> USE DEF CliAt
<1> SUFFICES ASSUME NEW q, q = list[cli_slot] PROVE ListInv'
    OBVIOUS
<1>0. LockInv /\ proc # "uaf_list"
    BY DEF ListInv, WalksAreSafe
<1>1. /\ cli_pc \in {"ping", "cancel"} /\ cli_slot \in Slots
      /\ UNCHANGED <<proc, peers_lock, peers_mem, cli_pc, cli_addr, cli_peer,
                     srv_pc, srv_peer, thread, addr>>
    BY DEF CliPing, CliCancel, srvVars
<1>2. q # NULL => /\ q \in Peers /\ Listed(q) /\ thread[q] \in Serving
                  /\ reqs_q[q] \in Seq(Requests) /\ NoDsn(reqs_q[q])
                  /\ srv_pc = "add" => srv_peer # q
    BY <1>1 DEF TypeInv, TypeOK, ListInv, ListedIsLive, Listed, Occupied,
                FarewellInv, CreatedInv, Newborn
<1>3. LockInv' /\ WalksAreSafe' /\ DisconnectInv' /\ AddressInv'
    BY <1>0, <1>1
       DEF ListInv, LockInv, WalksAreSafe, DisconnectInv, AddressInv, Freed
<1>4. CASE CliPing
    <2>1. UNCHANGED list
        BY <1>4 DEF CliPing, listVars
    <2>2. \A p \in Peers : p # q => reqs_q'[p] = reqs_q[p]
        BY <1>2, <1>4 DEF CliPing, reqs_enqueue, TypeInv, TypeOK
    <2>3. q # NULL => NoDsn(reqs_q'[q]) /\ DsnLast(reqs_q'[q])
        <3>1. SUFFICES ASSUME q # NULL
                       PROVE  NoDsn(reqs_q'[q]) /\ DsnLast(reqs_q'[q])
            OBVIOUS
        <3>2. reqs_q'[q] \in {reqs_q[q], Append(reqs_q[q], "PNG")}
            BY <1>2, <1>4, <3>1 DEF CliPing, reqs_enqueue, TypeInv, TypeOK
        <3>3. NoDsn(Append(reqs_q[q], "PNG")) /\ NoDsn(reqs_q[q])
            BY <1>2, <3>1, DsnFacts
        <3>4. \A s : NoDsn(s) => DsnLast(s)
            BY DEF NoDsn, DsnLast
        <3> QED
            BY <3>2, <3>3, <3>4
    <2>4. \A p \in Peers : Listed(p)' <=> Listed(p)
        BY <2>1 DEF Listed
    <2>5. CreatedInv'
        BY <1>1, <1>2, <2>2, <2>4, SessionsAssumption
           DEF ListInv, CreatedInv, Newborn, TypeInv, LocalsOK, Serving, Peers
    <2>6. ListedIsLive' /\ OneListing'
        BY <1>1, <2>1 DEF ListInv, ListedIsLive, OneListing, Occupied
    <2>7. FarewellInv'
        BY <1>2, <2>2, <2>3, <2>4, SessionsAssumption
           DEF ListInv, FarewellInv, Peers
    <2> QED
        BY <1>3, <2>5, <2>6, <2>7 DEF ListInv
<1>5. CASE CliCancel
    <2>1. list' = [list EXCEPT ![cli_slot] = NULL]
        BY <1>5 DEF CliCancel
    <2>2. \A p \in Peers : p # q => reqs_q'[p] = reqs_q[p]
        BY <1>2, <1>5 DEF CliCancel, reqs_enqueue, TypeInv, TypeOK
    <2>3. q # NULL => DsnLast(reqs_q'[q])
        <3>1. SUFFICES ASSUME q # NULL PROVE DsnLast(reqs_q'[q])
            OBVIOUS
        <3>2. reqs_q'[q] \in {reqs_q[q], Append(reqs_q[q], "DSN")}
            BY <1>2, <1>5, <3>1 DEF CliCancel, reqs_enqueue, TypeInv, TypeOK
        <3> QED
            BY <1>2, <3>1, <3>2, DsnFacts
    <2>4. /\ list' \in [Slots -> Peers \cup {NULL}]
          /\ \A i \in Slots : list'[i] = NULL \/ list'[i] = list[i]
        BY <1>1, <2>1 DEF TypeInv, TypeOK
    <2>5. /\ \A p \in Peers : Listed(p)' => Listed(p)
          /\ \A i \in Occupied' : i \in Occupied /\ list'[i] = list[i]
          /\ OneListing'
        BY <1>1, <2>4, FewerListed DEF srvVars
    <2>6. q # NULL => ~Listed(q)'
        BY <1>1, <1>2, <2>1, SessionsAssumption
           DEF TypeInv, TypeOK, ListInv, OneListing, Listed, Occupied, Peers
    <2>7. CreatedInv'
        BY <1>1, <1>2, <2>2, <2>5, SessionsAssumption
           DEF ListInv, CreatedInv, Newborn, TypeInv, LocalsOK, Serving, Peers
    <2>8. ListedIsLive'
        BY <1>1, <2>5 DEF ListInv, ListedIsLive
    <2>9. FarewellInv'
        BY <1>2, <2>2, <2>3, <2>5, <2>6, SessionsAssumption
           DEF ListInv, FarewellInv, Peers
    <2> QED
        BY <1>3, <2>5, <2>7, <2>8, <2>9 DEF ListInv
<1> QED
    BY <1>4, <1>5

LEMMA CliInternalList ==
    ASSUME NoAliases, TypeInv, ListInv, CliInternal
    PROVE  ListInv'
<1> USE DEF CliAt, CliTo, CliReturns
<1>0. LockInv /\ proc # "uaf_list"
    BY DEF ListInv, WalksAreSafe
<1>1. CASE CliAdd \/ CliSpawn \/ \E p \in Peers : CliDial(p)
    BY <1>1, ConnectList
<1>2. CASE CliRemove \/ CliEnqueue
    BY <1>2, DisconnectList
<1>3. CASE CliPing \/ CliCancel
    BY <1>3, WalkList
<1>4. CASE CliDialFails
    BY <1>0, <1>4, CliMoves DEF CliDialFails, LockInv, listVars, srvVars, peerVars
<1>5. CASE CliRemoveFaults
    BY <1>5, NoScanFault DEF CliRemoveFaults, ListInv
<1>6. CASE CliEnqueueFaults
    BY <1>6, SameListInv DEF CliEnqueueFaults, listVars, peerVars
<1>7. CASE CliPinged
    BY <1>0, <1>7, CliMoves DEF CliPinged, LockInv, listVars, srvVars, peerVars
<1>8. CASE CliWalkFaults
    <2>1. thread[list[cli_slot]] \in Serving
        BY <1>8 DEF CliWalkFaults, ListInv, ListedIsLive, Occupied
    <2> QED
        BY <1>8, <2>1 DEF CliWalkFaults, QueueDangling, Freed, Serving
<1>9. CASE CliCancelled
    BY <1>0, <1>9, CliMoves DEF CliCancelled, LockInv, listVars, srvVars, peerVars
<1>10. CASE CliFree
    BY <1>0, <1>10, CliMoves DEF CliFree, LockInv, listVars, srvVars, peerVars
<1>11. CASE CliJoin
    BY <1>0, <1>11, CliMoves DEF CliJoin, LockInv, listVars, peerVars
<1>12. CASE CliExit
    BY <1>12, SameListInv DEF CliExit, listVars, peerVars
<1> QED
    BY <1>1, <1>2, <1>3, <1>4, <1>5, <1>6, <1>7, <1>8, <1>9, <1>10, <1>11,
       <1>12 DEF CliInternal

LEMMA ListStep ==
    ~PortReuse /\ NoAliases /\ TypeInv /\ ListInv /\ [Next]_vars => ListInv'
<1> SUFFICES ASSUME ~PortReuse, NoAliases, TypeInv, ListInv, [Next]_vars PROVE ListInv'
    OBVIOUS
<1>1. ASSUME NEW p \in Peers, Remote(p)
      PROVE  ListInv'
    BY <1>1, SameListInv
       DEF Remote, RemoteGone, RemoteSends, envUnchanged, listVars, ListInv,
           WalksAreSafe
<1>2. CASE UNCHANGED vars
    BY <1>2, SameListInv DEF vars, cliVars, srvVars, ListInv, WalksAreSafe
<1> QED
    BY <1>1, <1>2, CommandList, CliInternalList, ServerList, HandlerList
       DEF Next, Ended

LEMMA ListAlways == ~PortReuse /\ NoAliases => (Spec => [](TypeInv /\ ListInv))
<1> SUFFICES ASSUME ~PortReuse, NoAliases PROVE Spec => [](TypeInv /\ ListInv)
    OBVIOUS
<1>1. (TypeInv /\ ListInv) /\ [Next]_vars => (TypeInv /\ ListInv)'
    BY TypeStep, ListStep
<1> QED
    BY <1>1, TypeInit, ListInit, PTL DEF Spec

\* Whatever the users at both ends and the scheduler do, a listed peer has a
\* handler that will still serve its queue.  It takes that no remote end comes
\* back from the port of a connection that is still open at this end, and that
\* no port typed with more than 16 bits is, once it is cut, anybody's:
\* DISCONNECT would unlist nobody otherwise.
THEOREM ListedPeersLive == ~PortReuse /\ NoAliases => (Spec => []ListedIsLive)
<1>1. TypeInv /\ ListInv => ListedIsLive
    BY DEF ListInv
<1> QED
    BY <1>1, ListAlways, PTL

\* On the same two conditions, no address is ever listed twice.
THEOREM ListedOnce == ~PortReuse /\ NoAliases => (Spec => []OneListing)
<1>1. TypeInv /\ ListInv => OneListing
    BY DEF ListInv
<1> QED
    BY <1>1, ListAlways, PTL

\* On the same two conditions, a DSN is queued once, last, and for a peer that
\* nobody can find any more.
THEOREM FarewellsQueuedLast == ~PortReuse /\ NoAliases => (Spec => []FarewellQueuedLast)
<1>1. TypeInv /\ ListInv => FarewellQueuedLast
    BY DEF ListInv, FarewellInv, FarewellQueuedLast, DsnLast, NoDsn
<1> QED
    BY <1>1, ListAlways, PTL

\* On the same two conditions, no walk over the list of peers meets a freed one.
THEOREM WalksSafe == ~PortReuse /\ NoAliases => (Spec => []WalksAreSafe)
<1>1. TypeInv /\ ListInv => WalksAreSafe
    BY DEF ListInv
<1> QED
    BY <1>1, ListAlways, PTL

-----------------------------------------------------------------------------
(* A DSN is the last packet *)

\* A handler that has said goodbye is on its way out.
Leaving == {"destroy", "null", "cleanup", "done"}
GoodbyeInv ==
    /\ \A p \in Peers : goodbye[p] => thread[p] \in Leaving
    /\ cli_pc \in {"add", "spawn"} =>
          thread[cli_peer] = "created" /\ addr[cli_peer] \in Typed
    /\ srv_pc \in {"add", "spawn"} =>
          thread[srv_peer] = "created" /\ addr[srv_peer] \in PeerAddrs

\* Steps that leave the handlers alone and give nobody a connection to start.
LEMMA GoodbyeFrame ==
    ASSUME GoodbyeInv, UNCHANGED <<thread, addr, goodbye>>,
           cli_pc' \in {"add", "spawn"} =>
              cli_pc \in {"add", "spawn"} /\ UNCHANGED cli_peer,
           srv_pc' \in {"add", "spawn"} =>
              srv_pc \in {"add", "spawn"} /\ UNCHANGED srv_peer
    PROVE  GoodbyeInv' /\ \A p \in Peers : goodbye[p] => goodbye'[p]
BY DEF GoodbyeInv

\* A handler's step.
LEMMA GoodbyeHandler ==
    ASSUME TypeInv, GoodbyeInv, NEW p \in Peers, Handler(p)
    PROVE  GoodbyeInv' /\ \A q \in Peers : goodbye[q] => goodbye'[q]
<1> USE DEF HandlerAt, HandlerTo, handlerUnchanged, cliVars, srvVars
<1>1. ASSUME UNCHANGED <<cliVars, srvVars, addr>>,
             thread[p] \in HandlerPcs,
             \A q \in Peers \ {p} : thread'[q] = thread[q] /\ goodbye'[q] = goodbye[q],
             goodbye[p] => goodbye'[p],
             goodbye'[p] => thread'[p] \in Leaving
      PROVE  GoodbyeInv' /\ \A q \in Peers : goodbye[q] => goodbye'[q]
    <2>1. \A q \in Peers : goodbye'[q] => thread'[q] \in Leaving
        BY <1>1 DEF GoodbyeInv
    <2>2. /\ cli_pc \in {"add", "spawn"} => cli_peer # p
          /\ srv_pc \in {"add", "spawn"} => srv_peer # p
        BY <1>1 DEF GoodbyeInv, HandlerPcs
    <2>3. GoodbyeInv'
        BY <1>1, <2>1, <2>2 DEF GoodbyeInv, TypeInv, LocalsOK
    <2> QED
        BY <1>1, <2>3
<1>2. /\ thread \in [Peers -> ThreadPcs] /\ goodbye \in [Peers -> BOOLEAN]
      /\ goodbye[p] => thread[p] \in Leaving
    BY DEF TypeInv, TypeOK, GoodbyeInv
<1>3. ASSUME NEW m \in Packets, try_send(p, m)
      PROVE  /\ \A q \in Peers \ {p} : goodbye'[q] = goodbye[q]
             /\ m # "DSN" /\ ~goodbye[p] => ~goodbye'[p]
             /\ ~goodbye[p] => (goodbye[p] => goodbye'[p])
    BY <1>2, <1>3 DEF try_send
<1>4. CASE PeerHello(p)
    BY <1>1, <1>2, <1>3, <1>4 DEF PeerHello, Leaving, HandlerPcs, Packets
<1>5. CASE PeerAwaitAck(p)
    BY <1>1, <1>2, <1>5 DEF PeerAwaitAck, Leaving, HandlerPcs
<1>6. CASE PeerNoRequest(p)
    BY <1>1, <1>2, <1>6 DEF PeerNoRequest, Leaving, HandlerPcs
<1>7. CASE PeerRequest(p)
    <2>1. Head(reqs_q[p]) \in Packets
        BY <1>7, QueueTypes DEF PeerRequest, TypeInv, Requests, Packets
    <2>2. thread[p] = "loop" /\ ~goodbye[p]
        BY <1>2, <1>7 DEF PeerRequest, Leaving
    <2>3. goodbye'[p] => Head(reqs_q[p]) = "DSN"
        BY <1>3, <1>7, <2>1, <2>2 DEF PeerRequest
    <2>4. goodbye'[p] => thread'[p] \in Leaving
        BY <1>2, <1>7, <2>3 DEF PeerRequest, Leaving
    <2> QED
        BY <1>1, <1>2, <1>3, <1>7, <2>1, <2>2, <2>4 DEF PeerRequest, HandlerPcs
<1>8. CASE PeerNoPacket(p)
    BY <1>1, <1>2, <1>8 DEF PeerNoPacket, Leaving, HandlerPcs
<1>9. CASE PeerAnswer(p)
    <2>1. Answer[Head(inbox[p])] \in Packets \ {"DSN"}
        BY <1>9 DEF PeerAnswer, Answer, Packets
    <2> QED
        BY <1>1, <1>2, <1>3, <1>9, <2>1 DEF PeerAnswer, Leaving, HandlerPcs
<1>10. CASE PeerIgnore(p)
    BY <1>1, <1>2, <1>10 DEF PeerIgnore, Leaving, HandlerPcs
<1>11. CASE PeerReadsDsn(p)
    BY <1>1, <1>2, <1>11 DEF PeerReadsDsn, Leaving, HandlerPcs
<1>12. CASE PeerRemove(p)
    BY <1>1, <1>2, <1>12 DEF PeerRemove, Leaving, HandlerPcs
<1>13. CASE PeerRemoveFaults(p)
    BY <1>13, GoodbyeFrame DEF PeerRemoveFaults, peerVars
<1>14. CASE PeerDestroy(p)
    BY <1>1, <1>2, <1>14 DEF PeerDestroy, Leaving, HandlerPcs
<1>15. CASE PeerClearQueue(p)
    BY <1>1, <1>2, <1>15 DEF PeerClearQueue, Leaving, HandlerPcs
<1>16. CASE PeerCleanup(p)
    BY <1>1, <1>2, <1>16 DEF PeerCleanup, Leaving, HandlerPcs
<1> QED
    BY <1>4, <1>5, <1>6, <1>7, <1>8, <1>9, <1>10, <1>11, <1>12, <1>13, <1>14,
       <1>15, <1>16 DEF Handler

LEMMA GoodbyeStep ==
    ASSUME TypeInv, GoodbyeInv, [Next]_vars
    PROVE  GoodbyeInv' /\ \A q \in Peers : goodbye[q] => goodbye'[q]
<1> USE DEF CliAt, Types, CliTo, CliReturns
<1>1. ASSUME NEW p \in Peers, NEW a \in Addrs, peer_create(p, a),
             \/ a \in Typed /\ cli_pc' = "add" /\ cli_peer' = p /\ UNCHANGED srvVars
             \/ a \in PeerAddrs /\ srv_pc' = "add" /\ srv_peer' = p /\ UNCHANGED cliVars
      PROVE  GoodbyeInv' /\ \A q \in Peers : goodbye[q] => goodbye'[q]
    BY <1>1 DEF peer_create, GoodbyeInv, TypeInv, TypeOK, LocalsOK, Leaving,
                cliVars, srvVars
<1>2. ASSUME NEW p \in Peers, thread[p] = "created", peer_create_thread(p),
             \/ cli_pc = "spawn" /\ cli_peer = p /\ cli_pc' = "idle" /\ UNCHANGED srvVars
             \/ srv_pc = "spawn" /\ srv_peer = p /\ srv_pc' = "accept" /\ UNCHANGED cliVars
      PROVE  GoodbyeInv' /\ \A q \in Peers : goodbye[q] => goodbye'[q]
    <2>1. \A q \in Peers : goodbye'[q] => thread'[q] \in Leaving
        BY <1>2 DEF peer_create_thread, GoodbyeInv, TypeInv, TypeOK, Leaving
    <2>2. cli_pc \in {"add", "spawn"} /\ srv_pc \in {"add", "spawn"}
              => cli_peer # srv_peer
        BY SessionsAssumption DEF GoodbyeInv, Typed
    <2> QED
        BY <1>2, <2>1, <2>2
           DEF peer_create_thread, GoodbyeInv, TypeInv, TypeOK, LocalsOK,
               cliVars, srvVars
<1>3. CASE CliCommand
    BY <1>3, GoodbyeFrame
       DEF CliCommand, CliConnect, CliDisconnect, CliFindFaults, CliRefused,
           CliPeers, CliNoPeers, CliQuit, vars, cliVars, srvVars, peerVars
<1>4. CASE CliInternal
    <2>1. ASSUME NEW p \in Peers, CliDial(p)
          PROVE  GoodbyeInv' /\ \A q \in Peers : goodbye[q] => goodbye'[q]
        BY <1>1, <2>1 DEF CliDial, TypeInv, LocalsOK, Typed, Addrs
    <2>2. CASE CliSpawn
        BY <1>2, <2>2 DEF CliSpawn, TypeInv, LocalsOK, GoodbyeInv
    <2>3. CASE CliAdd \/ CliDialFails \/ CliJoin
        BY <2>3, GoodbyeFrame
           DEF CliAdd, CliDialFails, CliJoin, srvVars, peerVars
    <2>4. CASE CliRemove \/ CliEnqueue \/ CliEnqueueFaults \/ CliPing \/ CliPinged
        BY <2>4, GoodbyeFrame
           DEF CliRemove, CliEnqueue, CliEnqueueFaults, CliPing, CliPinged,
               cliVars, srvVars, peerVars
    <2>5. CASE \/ CliWalkFaults \/ CliCancel \/ CliCancelled \/ CliFree \/ CliExit
               \/ CliRemoveFaults
        BY <2>5, GoodbyeFrame
           DEF CliWalkFaults, CliCancel, CliCancelled, CliFree, CliExit,
               CliRemoveFaults, cliVars, srvVars, peerVars
    <2> QED
        BY <1>4, <2>1, <2>2, <2>3, <2>4, <2>5 DEF CliInternal
<1>5. ASSUME NEW p \in Peers, NEW a \in PeerAddrs, ServerAccept(p, a)
      PROVE  GoodbyeInv' /\ \A q \in Peers : goodbye[q] => goodbye'[q]
    BY <1>1, <1>5 DEF ServerAccept, Addrs
<1>6. CASE Server
    <2>1. CASE ServerSpawn
        BY <1>2, <2>1 DEF ServerSpawn, TypeInv, LocalsOK, GoodbyeInv
    <2>2. CASE ServerAdd \/ ServerAddFaults
        BY <2>2, GoodbyeFrame
           DEF ServerAdd, ServerAddFaults, cliVars, srvVars, peerVars
    <2> QED
        BY <1>6, <2>1, <2>2 DEF Server
<1>7. ASSUME NEW p \in Peers, Remote(p)
      PROVE  GoodbyeInv' /\ \A q \in Peers : goodbye[q] => goodbye'[q]
    BY <1>7, GoodbyeFrame
       DEF Remote, RemoteGone, RemoteSends, envUnchanged, cliVars, srvVars
<1>8. CASE UNCHANGED vars
    BY <1>8, GoodbyeFrame DEF vars
<1> QED
    BY <1>3, <1>4, <1>5, <1>6, <1>7, <1>8, GoodbyeHandler DEF Next, Ended

\* After a DSN this end sends nothing more on the connection, for any number
\* of connections and even when remote ends reuse their ports.
THEOREM FarewellLast == Spec => FarewellIsLast
<1>1. Init => GoodbyeInv
    BY DEF Init, GoodbyeInv
<1>2. TypeInv /\ GoodbyeInv /\ [Next]_vars => (TypeInv /\ GoodbyeInv)'
    BY TypeStep, GoodbyeStep
<1>3. TypeInv /\ GoodbyeInv /\ [Next]_vars
          => [\A p \in Peers : goodbye[p] => goodbye'[p]]_vars
    BY GoodbyeStep
<1> QED
    BY <1>1, <1>2, <1>3, TypeInit, PTL DEF Spec, FarewellIsLast

-----------------------------------------------------------------------------
(* The list of peers is a registry *)

aliveBar == {p \in Peers : Allocated(p)}
freedBar == {p \in Peers : Freed(p)}

\* What the registry sees of a step.
RegistryStep == [Registry!RegistryNext]_<<members, aliveBar, freedBar>>

\* A step that the registry does not see.
LEMMA UnseenStep ==
    ASSUME UNCHANGED list,
           \A p \in Peers : Allocated(p)' = Allocated(p) /\ Freed(p)' = Freed(p)
    PROVE  RegistryStep
<1>1. UNCHANGED <<members, aliveBar, freedBar>>
    BY DEF members, Occupied, aliveBar, freedBar
<1> QED
    BY <1>1 DEF RegistryStep

\* Members are no more than occupied slots.
LEMMA MembersCounted ==
    ASSUME TypeInv
    PROVE  /\ members \in SUBSET Peers
           /\ Cardinality(members) \in Nat
           /\ Cardinality(members) <= npeers_cur
<1> DEFINE f == [i \in Occupied |-> list[i]]
<1>1. f \in Surjection(Occupied, members)
    BY DEF Surjection, members
<1>2. IsFiniteSet(members) /\ Cardinality(members) <= Cardinality(Occupied)
    BY <1>1, OccupiedFinite, FS_Surjection
<1>3. members \in SUBSET Peers
    BY DEF members, Occupied, TypeInv, TypeOK
<1>4. /\ Cardinality(members) \in Nat /\ Cardinality(Occupied) \in Nat
      /\ npeers_cur \in Nat /\ npeers_cur >= Cardinality(Occupied)
    BY <1>2, OccupiedFinite, FS_CardinalityType DEF TypeInv, TypeOK, CountInv
<1> QED
    BY <1>2, <1>3, <1>4

\* Making a connection.
LEMMA CreateIsCreate ==
    ASSUME TypeInv, NEW p \in Peers, NEW a, peer_create(p, a), UNCHANGED list
    PROVE  RegistryStep
<1>1. /\ thread[p] = "unused" /\ thread'[p] = "created"
      /\ \A q \in Peers : q # p => thread'[q] = thread[q]
    BY DEF peer_create, TypeInv, TypeOK
<1>2. p \notin aliveBar \cup freedBar /\ aliveBar' = aliveBar \cup {p}
    BY <1>1 DEF aliveBar, freedBar, Allocated, Freed
<1>3. UNCHANGED <<members, freedBar>>
    BY <1>1 DEF members, Occupied, freedBar, Freed
<1> QED
    BY <1>2, <1>3
       DEF RegistryStep, Registry!RegistryNext, Registry!Create, aliveBar,
           freedBar

\* peers_add enters a connection, or nothing happens because the list is full.
LEMMA AddIsEnter ==
    ASSUME TypeInv, ListInv, NEW p \in Peers, peers_add(p), Newborn(p),
           UNCHANGED thread
    PROVE  RegistryStep
<1>1. UNCHANGED <<aliveBar, freedBar>>
    BY DEF aliveBar, freedBar, Allocated, Freed
<1>2. CASE npeers_cur < MaxPeers /\ FreeSlots # {}
    <2> DEFINE i == First(FreeSlots)
    <2>1. i \in Slots /\ i \notin Occupied /\ list' = [list EXCEPT ![i] = p]
        BY <1>2, FirstSlot DEF FreeSlots, peers_add
    <2> HIDE DEF i
    <2>2. p # NULL /\ list \in [Slots -> Peers \cup {NULL}]
        BY SessionsAssumption DEF Peers, TypeInv, TypeOK
    <2>3. Occupied' = Occupied \cup {i}
        BY <2>1, <2>2 DEF Occupied
    <2>4. members' = members \cup {p}
        <3>1. list'[i] = p /\ \A j \in Occupied : list'[j] = list[j]
            BY <2>1, <2>2 DEF Occupied
        <3> QED
            BY <2>3, <3>1 DEF members
    <2>5. p \in aliveBar \ members
        BY DEF Newborn, Listed, members, Occupied, aliveBar, Allocated
    <2>6. Cardinality(members) < MaxPeers
        BY <1>2, MembersCounted, SessionsAssumption DEF TypeInv, TypeOK
    <2>7. Registry!Cardinality(members) = Cardinality(members)
        BY DEF Cardinality, Registry!Cardinality
    <2> QED
        BY <1>1, <2>4, <2>5, <2>6, <2>7
           DEF RegistryStep, Registry!RegistryNext, Registry!Enter, aliveBar,
               freedBar
<1>3. CASE ~(npeers_cur < MaxPeers /\ FreeSlots # {})
    BY <1>3, UnseenStep DEF peers_add, listVars, Allocated, Freed
<1> QED
    BY <1>2, <1>3

\* Emptying a slot, the only one of its connection, takes it off the registry.
LEMMA ClearIsLeave ==
    ASSUME TypeInv, ListInv, NEW i \in Slots, list' = [list EXCEPT ![i] = NULL],
           \A p \in Peers : Allocated(p)' = Allocated(p) /\ Freed(p)' = Freed(p)
    PROVE  RegistryStep
<1>1. UNCHANGED <<aliveBar, freedBar>>
    BY DEF aliveBar, freedBar
<1>2. list \in [Slots -> Peers \cup {NULL}] /\ NULL \notin Peers
    BY SessionsAssumption DEF Peers, TypeInv, TypeOK
<1>3. CASE list[i] = NULL
    BY <1>2, <1>3, UnseenStep
<1>4. CASE list[i] # NULL
    <2> DEFINE p == list[i]
    <2>1. Occupied' = Occupied \ {i} /\ i \in Occupied
        BY <1>2, <1>4 DEF Occupied
    <2>2. \A j \in Occupied' : list'[j] = list[j] /\ list[j] # p
        BY <1>2, <2>1 DEF Occupied, ListInv, OneListing
    <2>3. members' = members \ {p}
        BY <2>1, <2>2 DEF members
    <2>4. p \in members /\ p \in Peers
        BY <1>2, <2>1 DEF members, Occupied
    <2> QED
        BY <1>1, <2>3, <2>4
           DEF RegistryStep, Registry!RegistryNext, Registry!Leave, aliveBar,
               freedBar
<1> QED
    BY <1>3, <1>4

LEMMA RemoveIsLeave ==
    ASSUME TypeInv, ListInv, NEW a, peers_remove(a),
           \A p \in Peers : Allocated(p)' = Allocated(p) /\ Freed(p)' = Freed(p)
    PROVE  RegistryStep
<1>1. CASE SlotsOf(a) # {}
    <2>1. First(SlotsOf(a)) \in Slots
        BY <1>1, FirstSlot DEF SlotsOf, Occupied
    <2> QED
        BY <1>1, <2>1, ClearIsLeave DEF peers_remove
<1>2. CASE SlotsOf(a) = {}
    BY <1>2, UnseenStep DEF peers_remove, listVars
<1> QED
    BY <1>1, <1>2

\* The end of a handler.
LEMMA CleanupIsFree ==
    ASSUME TypeInv, ListInv, NEW p \in Peers, PeerCleanup(p)
    PROVE  RegistryStep
<1>1. /\ thread[p] = "cleanup" /\ thread'[p] = "done"
      /\ \A q \in Peers : q # p => thread'[q] = thread[q]
      /\ UNCHANGED list
    BY DEF PeerCleanup, HandlerAt, HandlerTo, handlerUnchanged, listVars,
           TypeInv, TypeOK
<1>2. p \in aliveBar /\ aliveBar' = aliveBar \ {p} /\ freedBar' = freedBar \cup {p}
    BY <1>1 DEF aliveBar, freedBar, Allocated, Freed
<1>3. p \notin members /\ UNCHANGED members
    BY <1>1 DEF members, Occupied, ListInv, ListedIsLive, Serving
<1> QED
    BY <1>2, <1>3
       DEF RegistryStep, Registry!RegistryNext, Registry!Free, aliveBar, freedBar

LEMMA HandlerRegistry ==
    ASSUME TypeInv, ListInv, NEW p \in Peers, Handler(p)
    PROVE  RegistryStep
<1>1. ASSUME thread[p] \in HandlerPcs, NEW pc \in HandlerPcs,
             thread' = [thread EXCEPT ![p] = pc]
      PROVE  \A q \in Peers : Allocated(q)' = Allocated(q) /\ Freed(q)' = Freed(q)
    BY <1>1 DEF TypeInv, TypeOK, Allocated, Freed, HandlerPcs
<1>2. CASE PeerRemove(p)
    BY <1>1, <1>2, RemoveIsLeave DEF PeerRemove, HandlerAt, HandlerTo, HandlerPcs
<1>3. CASE PeerCleanup(p)
    BY <1>3, CleanupIsFree
<1>4. CASE PeerRemoveFaults(p)
    BY <1>4, UnseenStep DEF PeerRemoveFaults, listVars, peerVars, Allocated, Freed
<1>5. CASE PeerRequest(p)
    BY <1>1, <1>5, UnseenStep
       DEF PeerRequest, HandlerAt, HandlerTo, HandlerPcs, handlerUnchanged, listVars
<1>6. CASE \/ PeerHello(p) \/ PeerAwaitAck(p) \/ PeerNoRequest(p)
           \/ PeerNoPacket(p) \/ PeerAnswer(p)
    BY <1>1, <1>6, UnseenStep
       DEF PeerHello, PeerAwaitAck, PeerNoRequest, PeerNoPacket, PeerAnswer,
           HandlerAt, HandlerTo, HandlerPcs, handlerUnchanged, listVars
<1>7. CASE \/ PeerIgnore(p) \/ PeerReadsDsn(p) \/ PeerDestroy(p)
           \/ PeerClearQueue(p)
    BY <1>1, <1>7, UnseenStep
       DEF PeerIgnore, PeerReadsDsn, PeerDestroy, PeerClearQueue,
           HandlerAt, HandlerTo, HandlerPcs, handlerUnchanged, listVars
<1> QED
    BY <1>2, <1>3, <1>4, <1>5, <1>6, <1>7 DEF Handler

\* Starting the handler of a connection is not seen.
LEMMA SpawnUnseen ==
    ASSUME TypeInv, NEW p \in Peers, thread[p] = "created", peer_create_thread(p)
    PROVE  \A q \in Peers : Allocated(q)' = Allocated(q) /\ Freed(q)' = Freed(q)
BY DEF peer_create_thread, TypeInv, TypeOK, Allocated, Freed

LEMMA CliRegistry ==
    ASSUME TypeInv, ListInv, CliCommand \/ CliInternal
    PROVE  RegistryStep
<1> USE DEF CliAt
<1>1. (UNCHANGED <<list, thread>>) => RegistryStep
    BY UnseenStep DEF Allocated, Freed
<1>2. CASE CliCommand
    BY <1>1, <1>2
       DEF CliCommand, CliConnect, CliDisconnect, CliFindFaults, CliRefused,
           CliPeers, CliNoPeers, CliQuit, vars, listVars, peerVars
<1>3. CASE CliInternal
    <2>1. ASSUME NEW p \in Peers, CliDial(p)
          PROVE  RegistryStep
        BY <2>1, CreateIsCreate DEF CliDial, listVars
    <2>2. CASE CliAdd
        BY <2>2, AddIsEnter
           DEF CliAdd, peerVars, ListInv, CreatedInv, TypeInv, LocalsOK
    <2>3. CASE CliSpawn
        BY <2>3, SpawnUnseen, UnseenStep
           DEF CliSpawn, listVars, ListInv, CreatedInv, TypeInv, LocalsOK
    <2>4. CASE CliRemove
        BY <2>4, RemoveIsLeave DEF CliRemove, peerVars, Allocated, Freed
    <2>5. CASE CliCancel
        BY <2>5, ClearIsLeave DEF CliCancel, Allocated, Freed
    <2>6. CASE \/ CliDialFails \/ CliEnqueue \/ CliEnqueueFaults \/ CliPing
               \/ CliPinged \/ CliWalkFaults \/ CliCancelled \/ CliFree
               \/ CliJoin \/ CliExit \/ CliRemoveFaults
        BY <1>1, <2>6
           DEF CliDialFails, CliEnqueue, CliEnqueueFaults, CliPing, CliPinged,
               CliWalkFaults, CliCancelled, CliFree, CliJoin, CliExit,
               CliRemoveFaults, listVars, peerVars
    <2> QED
        BY <1>3, <2>1, <2>2, <2>3, <2>4, <2>5, <2>6 DEF CliInternal
<1> QED
    BY <1>2, <1>3

LEMMA NextRegistry ==
    ASSUME TypeInv, ListInv, [Next]_vars
    PROVE  RegistryStep
<1>1. (UNCHANGED <<list, thread>>) => RegistryStep
    BY UnseenStep DEF Allocated, Freed
<1>2. ASSUME NEW p \in Peers, NEW a \in PeerAddrs, ServerAccept(p, a)
      PROVE  RegistryStep
    BY <1>2, CreateIsCreate DEF ServerAccept, listVars
<1>3. CASE Server
    <2>1. CASE ServerAdd
        BY <2>1, AddIsEnter
           DEF ServerAdd, peerVars, ListInv, CreatedInv, TypeInv, LocalsOK
    <2>2. CASE ServerSpawn
        BY <2>2, SpawnUnseen, UnseenStep
           DEF ServerSpawn, listVars, ListInv, CreatedInv, TypeInv, LocalsOK
    <2>3. CASE ServerAddFaults
        BY <1>1, <2>3 DEF ServerAddFaults, listVars, peerVars
    <2> QED
        BY <1>3, <2>1, <2>2, <2>3 DEF Server
<1>4. ASSUME NEW p \in Peers, Remote(p)
      PROVE  RegistryStep
    BY <1>1, <1>4 DEF Remote, RemoteGone, RemoteSends, envUnchanged, listVars
<1>5. CASE UNCHANGED vars
    BY <1>1, <1>5 DEF vars
<1> QED
    BY <1>2, <1>3, <1>4, <1>5, CliRegistry, HandlerRegistry DEF Next, Ended

\* The list of peers implements its abstract specification for any number of
\* connections and any maximum: what three kinds of threads do to it in any
\* order amounts to connections that enter while there is room, leave, and are
\* freed only after they have left.  On the same two conditions.
THEOREM RegistryImplemented == ~PortReuse /\ NoAliases => (Spec => ImplementsRegistry)
<1> SUFFICES ASSUME ~PortReuse, NoAliases PROVE Spec => ImplementsRegistry
    OBVIOUS
<1>1. Init => Registry!RegistryInit
    BY DEF Init, Registry!RegistryInit, members, Occupied, Allocated, Freed
<1>2. TypeInv /\ ListInv /\ [Next]_vars
          => [Registry!RegistryNext]_(Registry!regVars)
    BY NextRegistry DEF RegistryStep, Registry!regVars, aliveBar, freedBar
<1> QED
    BY <1>1, <1>2, ListAlways, PTL
       DEF Spec, ImplementsRegistry, Registry!RegistrySpec
=============================================================================
