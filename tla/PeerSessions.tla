---------------------------- MODULE PeerSessions ----------------------------
(***************************************************************************)
(* The connections of one btide process: the command loop (main thread),   *)
(* the listening thread and one handler thread per connection, with the    *)
(* list of peers and the request queues they share.                        *)
(*                                                                         *)
(* Every function that takes peers->lock or reqs_q->lock and does all its  *)
(* work before releasing it is one step.  Two critical sections span       *)
(* several steps because they take a second lock for every slot they       *)
(* visit: PEERS (cli_list_peers) and the shutdown (cancel_all_peers).      *)
(* What lies between two critical sections is never merged with them: the  *)
(* windows of cli_connect, cli_disconnect and of the handler that has read *)
(* a DSN are states of this model.                                         *)
(*                                                                         *)
(* The program is built with -fsanitize=address, so a read of freed memory *)
(* stops the process; `proc` says which access did it.  The remote ends    *)
(* are the environment: they greet, ping, disconnect or vanish.            *)
(***************************************************************************)
EXTENDS Integers, Sequences, FiniteSets

CONSTANTS NPeers,     \* bound: connections a run makes
          NULL,       \* the null pointer
          MaxPeers,   \* config->max_peers
          DialAddrs,  \* ip:port pairs that a user dials
          PeerAddrs,  \* ip:port pairs that remote ends connect from
          WideAddrs,  \* ip:port pairs a user types whose port needs more than
                      \* 16 bits: the command line reads any unsigned number
          PortCut,    \* what each of them becomes when its port is cut to 16
          PortReuse,  \* may a remote end come back from a port while its old
                      \* connection, dead, is still open at this end?
          Commands,   \* commands the user types: CONNECT DISCONNECT PEERS QUIT
          Chatter,    \* what remote ends send between ACP and DSN
          MaxInbox,   \* bound: packets of one remote end not yet received
          MaxReqs     \* bound: PEERS is typed while queues are shorter,
                      \* DISCONNECT while they are not longer

ASSUME SessionsAssumption ==
    /\ NPeers \in Nat /\ NULL \notin 1..NPeers
    /\ MaxPeers \in Nat \ {0}
    /\ DialAddrs \cap PeerAddrs = {}
    /\ WideAddrs \cap (DialAddrs \cup PeerAddrs) = {}
    /\ NULL \notin DialAddrs \cup PeerAddrs \cup WideAddrs
    /\ DOMAIN PortCut = WideAddrs
    /\ \A a \in WideAddrs : PortCut[a] \notin WideAddrs
    /\ PortReuse \in BOOLEAN
    /\ Chatter \subseteq {"ACK", "PNG", "POG"}

VARIABLES
    proc,        \* "running", or how the process ended
    list,        \* peers->list
    npeers_cur,  \* peers->npeers_cur
    peers_lock,  \* peers->lock is held across steps (by the command loop)
    peers_mem,   \* peers itself: "live" until cancel_all_peers frees it
    cli_pc, cli_addr, cli_peer, cli_slot,   \* the command loop
    srv_pc, srv_peer,                       \* the listening thread
    thread,      \* where each connection's handler is; see Lifetime below
    addr,        \* peer->ip and peer->port
    reqs_q,      \* peer->reqs_q: requests waiting for the handler
    conn,        \* the TCP connection, as this end can tell
    inbox,       \* packets of the remote end not yet received
    goodbye      \* is a DSN the last packet this end got onto the wire?

listVars == <<list, npeers_cur>>
cliVars  == <<cli_pc, cli_addr, cli_peer, cli_slot>>
srvVars  == <<srv_pc, srv_peer>>
peerVars == <<thread, addr, reqs_q, conn, inbox, goodbye>>
vars == <<proc, list, npeers_cur, peers_lock, peers_mem, cli_pc, cli_addr,
          cli_peer, cli_slot, srv_pc, srv_peer, thread, addr, reqs_q, conn,
          inbox, goodbye>>

Peers    == 1..NPeers    \* connection objects, in the order of their creation
Slots    == 1..MaxPeers
Addrs    == DialAddrs \cup PeerAddrs \cup WideAddrs
Typed    == DialAddrs \cup WideAddrs    \* what a user types after CONNECT
Requests == {"PNG", "DSN"}
Packets  == {"ACP", "ACK", "PNG", "POG", "DSN"}

Endings == {"exited",       \* exit(EXIT_SUCCESS) of graceful_shutdown
            "sigpipe",      \* killed by a send on a reset connection
            "uaf_list",     \* read of a freed peer through peers->list
            "uaf_target",   \* read of a freed peer through peer_target
            "uaf_peers"}    \* use of the freed peers structure

\* A connection object is unused, then owned by its creator ("created"), then
\* by its handler.  "null" is the point in peer_destroy where the queue is
\* freed and peer->reqs_q still points to it.
HandlerPcs == {"hello", "ack", "loop", "recv", "remove", "destroy", "null",
               "cleanup"}
ThreadPcs  == {"unused", "created", "done"} \cup HandlerPcs

QueueAlive(p)    == thread[p] \in {"created", "hello", "ack", "loop", "recv",
                                   "remove", "destroy"}
QueueDangling(p) == thread[p] = "null"
Freed(p)         == thread[p] = "done"
Allocated(p)     == thread[p] \notin {"unused", "done"}

\* greeting: the remote end has not sent its ACP; leaving: it has sent DSN;
\* closed: it is gone; reset: gone, and this end has been told by a RST.
Up == {"greeting", "open", "leaving"}
ConnStates == Up \cup {"none", "closed", "reset", "shut"}

-----------------------------------------------------------------------------
(* The list of peers *)

Listed(p)   == \E i \in Slots : list[i] = p
Occupied    == {i \in Slots : list[i] # NULL}
FreeSlots   == Slots \ Occupied
First(S)    == CHOOSE i \in S : \A j \in S : i <= j
SlotsOf(a)  == {i \in Occupied : addr[list[i]] = a}

\* The port of peers_find and the one connect() dials are a uint16_t; peer->port
\* and the port of peers_remove are an int.
uint16(a) == IF a \in WideAddrs THEN PortCut[a] ELSE a

peers_find(a) ==
    LET S == SlotsOf(uint16(a)) IN IF S = {} THEN NULL ELSE list[First(S)]

peers_add(p) ==
    IF npeers_cur < MaxPeers /\ FreeSlots # {}
    THEN /\ list' = [list EXCEPT ![First(FreeSlots)] = p]
         /\ npeers_cur' = npeers_cur + 1
    ELSE UNCHANGED listVars

\* Not the code, like every definition marked so below: a plausible mistake in
\* the definition that follows it, which a property must rule out.  Here: the
\* count goes down although nothing matched.
peers_removeCountsAlways(a) ==
    /\ npeers_cur' = npeers_cur - 1
    /\ list' = IF SlotsOf(a) = {} THEN list
               ELSE [list EXCEPT ![First(SlotsOf(a))] = NULL]

\* Not the code: the loop ends one slot early.
peers_removeStopsShort(a) ==
    IF SlotsOf(a) \ {MaxPeers} # {}
    THEN /\ list' = [list EXCEPT ![First(SlotsOf(a))] = NULL]
         /\ npeers_cur' = npeers_cur - 1
    ELSE UNCHANGED listVars

peers_remove(a) ==
    IF SlotsOf(a) # {}
    THEN /\ list' = [list EXCEPT ![First(SlotsOf(a))] = NULL]
         /\ npeers_cur' = npeers_cur - 1
    ELSE UNCHANGED listVars

\* peers_find and peers_remove read ip and port of every peer they pass.
ScanFaults(a) ==
    \E i \in Occupied : Freed(list[i]) /\ \A j \in SlotsOf(a) : i <= j

reqs_enqueue(p, r) == reqs_q' = [reqs_q EXCEPT ![p] = Append(@, r)]

-----------------------------------------------------------------------------
Init ==
    /\ proc = "running"
    /\ list = [i \in Slots |-> NULL]
    /\ npeers_cur = 0
    /\ peers_lock = FALSE
    /\ peers_mem = "live"
    /\ cli_pc = "idle" /\ cli_addr = NULL /\ cli_peer = NULL /\ cli_slot = 1
    /\ srv_pc = "accept" /\ srv_peer = NULL
    /\ thread = [p \in Peers |-> "unused"]
    /\ addr = [p \in Peers |-> NULL]
    /\ reqs_q = [p \in Peers |-> <<>>]
    /\ conn = [p \in Peers |-> "none"]
    /\ inbox = [p \in Peers |-> <<>>]
    /\ goodbye = [p \in Peers |-> FALSE]

\* peer_create, with a socket that is connected.
peer_create(p, a) ==
    /\ thread[p] = "unused" /\ \A q \in 1..(p - 1) : thread[q] # "unused"
    /\ thread' = [thread EXCEPT ![p] = "created"]
    /\ addr' = [addr EXCEPT ![p] = a]
    /\ conn' = [conn EXCEPT ![p] = "greeting"]
    /\ UNCHANGED <<reqs_q, inbox, goodbye>>

peer_create_thread(p) ==
    /\ thread' = [thread EXCEPT ![p] = "hello"]
    /\ UNCHANGED <<addr, reqs_q, conn, inbox, goodbye>>

-----------------------------------------------------------------------------
(* The command loop *)

CliAt(pc) == proc = "running" /\ cli_pc = pc
Types(command) == CliAt("idle") /\ command \in Commands
\* The command loop continues at pc ...
CliTo(pc) == cli_pc' = pc
\* ... or returns to the prompt, its locals out of scope.
CliReturns ==
    /\ cli_pc' = "idle"
    /\ cli_addr' = NULL /\ cli_peer' = NULL /\ cli_slot' = 1

\* Not the code: CONNECT dials without looking.
CliConnectUnchecked(a) ==
    /\ Types("CONNECT")
    /\ ~peers_lock
    /\ CliTo("dial")
    /\ cli_addr' = a
    /\ UNCHANGED <<proc, listVars, peers_lock, peers_mem, cli_peer, cli_slot,
                   srvVars, peerVars>>

\* CONNECT: an address that is already listed is refused.
CliConnect(a) ==
    /\ Types("CONNECT")
    /\ ~peers_lock
    /\ ~ScanFaults(uint16(a))
    /\ peers_find(a) = NULL
    /\ CliTo("dial")
    /\ cli_addr' = a
    /\ UNCHANGED <<proc, listVars, peers_lock, peers_mem, cli_peer, cli_slot,
                   srvVars, peerVars>>

CliDialFails ==
    /\ CliAt("dial")
    /\ CliReturns
    /\ UNCHANGED <<proc, listVars, peers_lock, peers_mem, srvVars, peerVars>>

\* The port is cut for connect() and kept whole in the connection's object.
CliDial(p) ==
    /\ CliAt("dial")
    /\ uint16(cli_addr) \in DialAddrs
    /\ peer_create(p, cli_addr)
    /\ cli_peer' = p
    /\ CliTo("add")
    /\ UNCHANGED <<proc, listVars, peers_lock, peers_mem, cli_addr, cli_slot,
                   srvVars>>

\* The handler is started whether or not the list had room.
CliAdd ==
    /\ CliAt("add")
    /\ ~peers_lock
    /\ peers_add(cli_peer)
    /\ CliTo("spawn")
    /\ UNCHANGED <<proc, peers_lock, peers_mem, cli_addr, cli_peer, cli_slot,
                   srvVars, peerVars>>

CliSpawn ==
    /\ CliAt("spawn")
    /\ peer_create_thread(cli_peer)
    /\ CliReturns
    /\ UNCHANGED <<proc, listVars, peers_lock, peers_mem, srvVars>>

\* DISCONNECT looks the peer up, releases the lock, ...
CliDisconnect(a) ==
    /\ Types("DISCONNECT")
    /\ ~peers_lock
    /\ ~ScanFaults(uint16(a))
    /\ peers_find(a) # NULL
    /\ Len(reqs_q[peers_find(a)]) <= MaxReqs
    /\ cli_peer' = peers_find(a)
    /\ cli_addr' = a
    /\ CliTo("remove")
    /\ UNCHANGED <<proc, listVars, peers_lock, peers_mem, cli_slot, srvVars,
                   peerVars>>

\* Not the code: DISCONNECT leaves the removal to the handler.
CliRemoveNothing ==
    /\ CliAt("remove")
    /\ CliTo("enqueue")
    /\ UNCHANGED <<proc, listVars, peers_lock, peers_mem, cli_addr, cli_peer,
                   cli_slot, srvVars, peerVars>>

\* Not the code: one lock taken after the DSN is queued, not before.
CliRemoveLater ==
    /\ CliAt("remove")
    /\ ~peers_lock
    /\ IF QueueAlive(cli_peer) THEN reqs_enqueue(cli_peer, "DSN")
                               ELSE UNCHANGED reqs_q
    /\ CliTo("enqueue")
    /\ UNCHANGED <<proc, listVars, peers_lock, peers_mem, cli_addr, cli_peer,
                   cli_slot, srvVars, thread, addr, conn, inbox, goodbye>>

\* ... takes it again to remove whatever is listed under the address as typed,
\* ...
CliRemove ==
    /\ CliAt("remove")
    /\ ~peers_lock
    /\ ~ScanFaults(cli_addr)
    /\ peers_remove(cli_addr)
    /\ CliTo("enqueue")
    /\ UNCHANGED <<proc, peers_lock, peers_mem, cli_addr, cli_peer, cli_slot,
                   srvVars, peerVars>>

\* ... and then follows the pointer it found to queue a DSN.
CliEnqueue ==
    /\ CliAt("enqueue")
    /\ ~QueueDangling(cli_peer) /\ ~Freed(cli_peer)
    /\ IF QueueAlive(cli_peer) THEN reqs_enqueue(cli_peer, "DSN")
                               ELSE UNCHANGED reqs_q
    /\ CliReturns
    /\ UNCHANGED <<proc, listVars, peers_lock, peers_mem, srvVars, thread, addr,
                   conn, inbox, goodbye>>

CliEnqueueFaults ==
    /\ CliAt("enqueue")
    /\ QueueDangling(cli_peer) \/ Freed(cli_peer)
    /\ proc' = "uaf_target"
    /\ UNCHANGED <<listVars, peers_lock, peers_mem, cliVars, srvVars, peerVars>>

\* A search of the list meets a freed peer.
CliFindFaults(a) ==
    /\ \/ Types("CONNECT") /\ a \in Typed
       \/ Types("DISCONNECT")
    /\ ~peers_lock
    /\ ScanFaults(uint16(a))
    /\ proc' = "uaf_list"
    /\ UNCHANGED <<listVars, peers_lock, peers_mem, cliVars, srvVars, peerVars>>

CliRemoveFaults ==
    /\ CliAt("remove")
    /\ ~peers_lock
    /\ ScanFaults(cli_addr)
    /\ proc' = "uaf_list"
    /\ UNCHANGED <<listVars, peers_lock, peers_mem, cliVars, srvVars, peerVars>>

\* PEERS keeps peers->lock while it queues a PNG for every listed peer.
CliPeers ==
    /\ Types("PEERS")
    /\ ~peers_lock
    /\ npeers_cur > 0
    /\ \A p \in Peers : Len(reqs_q[p]) < MaxReqs
    /\ peers_lock' = TRUE
    /\ cli_slot' = 1
    /\ CliTo("ping")
    /\ UNCHANGED <<proc, listVars, peers_mem, cli_addr, cli_peer, srvVars,
                   peerVars>>

\* Not the code: an empty slot is skipped before the index moves on.
CliPingStuck ==
    /\ CliAt("ping")
    /\ cli_slot \in Slots
    /\ list[cli_slot] # NULL
    /\ IF QueueAlive(list[cli_slot]) THEN reqs_enqueue(list[cli_slot], "PNG")
                                     ELSE UNCHANGED reqs_q
    /\ cli_slot' = cli_slot + 1
    /\ UNCHANGED <<proc, listVars, peers_lock, peers_mem, cli_pc, cli_addr,
                   cli_peer, srvVars, thread, addr, conn, inbox, goodbye>>

CliPing ==
    /\ CliAt("ping")
    /\ cli_slot \in Slots
    /\ list[cli_slot] # NULL =>
          ~QueueDangling(list[cli_slot]) /\ ~Freed(list[cli_slot])
    /\ IF list[cli_slot] # NULL /\ QueueAlive(list[cli_slot])
       THEN reqs_enqueue(list[cli_slot], "PNG")
       ELSE UNCHANGED reqs_q
    /\ cli_slot' = cli_slot + 1
    /\ UNCHANGED <<proc, listVars, peers_lock, peers_mem, cli_pc, cli_addr,
                   cli_peer, srvVars, thread, addr, conn, inbox, goodbye>>

CliPinged ==
    /\ CliAt("ping")
    /\ cli_slot > MaxPeers
    /\ peers_lock' = FALSE
    /\ CliReturns
    /\ UNCHANGED <<proc, listVars, peers_mem, srvVars, peerVars>>

\* QUIT or end of input: cancel_all_peers empties the list under the lock, ...
CliQuit ==
    /\ Types("QUIT")
    /\ ~peers_lock
    /\ peers_lock' = TRUE
    /\ cli_slot' = 1
    /\ CliTo("cancel")
    /\ UNCHANGED <<proc, listVars, peers_mem, cli_addr, cli_peer, srvVars,
                   peerVars>>

CliCancel ==
    /\ CliAt("cancel")
    /\ cli_slot \in Slots
    /\ list[cli_slot] # NULL =>
          ~QueueDangling(list[cli_slot]) /\ ~Freed(list[cli_slot])
    /\ IF list[cli_slot] # NULL /\ QueueAlive(list[cli_slot])
       THEN reqs_enqueue(list[cli_slot], "DSN")
       ELSE UNCHANGED reqs_q
    /\ list' = [list EXCEPT ![cli_slot] = NULL]
    /\ cli_slot' = cli_slot + 1
    /\ UNCHANGED <<proc, npeers_cur, peers_lock, peers_mem, cli_pc, cli_addr,
                   cli_peer, srvVars, thread, addr, conn, inbox, goodbye>>

\* ... leaving npeers_cur as it was, releases the lock ...
CliCancelled ==
    /\ CliAt("cancel")
    /\ cli_slot > MaxPeers
    /\ peers_lock' = FALSE
    /\ cli_slot' = 1
    /\ CliTo("free")
    /\ UNCHANGED <<proc, listVars, peers_mem, cli_addr, cli_peer, srvVars,
                   peerVars>>

\* ... and frees the list, with the other threads still running.
CliFree ==
    /\ CliAt("free")
    /\ peers_mem' = "freed"
    /\ CliTo("join")
    /\ UNCHANGED <<proc, listVars, peers_lock, cli_addr, cli_peer, cli_slot,
                   srvVars, peerVars>>

\* The listening thread is cancelled in accept() or, with a connection it has
\* accepted and not yet added, in printf().
CliJoin ==
    /\ CliAt("join")
    /\ srv_pc \in {"accept", "add"}
    /\ srv_pc' = "done"
    /\ CliTo("exit")
    /\ UNCHANGED <<proc, listVars, peers_lock, peers_mem, cli_addr, cli_peer,
                   cli_slot, srv_peer, peerVars>>

CliExit ==
    /\ CliAt("exit")
    /\ proc' = "exited"
    /\ UNCHANGED <<listVars, peers_lock, peers_mem, cliVars, srvVars, peerVars>>

\* PEERS and the shutdown follow every pointer of the list.
CliWalkFaults ==
    /\ CliAt("ping") \/ CliAt("cancel")
    /\ cli_slot \in Slots
    /\ list[cli_slot] # NULL
    /\ QueueDangling(list[cli_slot]) \/ Freed(list[cli_slot])
    /\ proc' = "uaf_list"
    /\ UNCHANGED <<listVars, peers_lock, peers_mem, cliVars, srvVars, peerVars>>

\* The commands that only print: CONNECT to a listed address, DISCONNECT from
\* an unknown one, PEERS without peers.
CliRefused(a) ==
    /\ ~peers_lock
    /\ ~ScanFaults(uint16(a))
    /\ \/ Types("CONNECT") /\ a \in Typed /\ peers_find(a) # NULL
       \/ Types("DISCONNECT") /\ peers_find(a) = NULL
    /\ UNCHANGED vars

CliNoPeers == Types("PEERS") /\ ~peers_lock /\ npeers_cur = 0 /\ UNCHANGED vars

CliInternal ==
    \/ CliDialFails \/ (\E p \in Peers : CliDial(p)) \/ CliAdd \/ CliSpawn
    \/ CliRemove \/ CliRemoveFaults
    \/ CliEnqueue \/ CliEnqueueFaults
    \/ CliPing \/ CliPinged \/ CliWalkFaults
    \/ CliCancel \/ CliCancelled \/ CliFree \/ CliJoin \/ CliExit

CliCommand ==
    \/ \E a \in Typed : CliConnect(a)
    \/ \E a \in Addrs : CliDisconnect(a) \/ CliFindFaults(a) \/ CliRefused(a)
    \/ CliPeers
    \/ CliNoPeers
    \/ CliQuit

-----------------------------------------------------------------------------
(* The listening thread: p2p_server_listening *)

\* accept() returns a connection from a, whose 4-tuple is not in use.  A remote
\* end that died without a DSN leaves its old connection here; PortReuse says
\* whether it may come back from the same port.
ServerAccept(p, a) ==
    /\ proc = "running"
    /\ srv_pc = "accept"
    /\ \A q \in Peers :
          addr[q] = a => Freed(q) \/ (PortReuse /\ conn[q] \notin Up)
    /\ peer_create(p, a)
    /\ srv_peer' = p
    /\ srv_pc' = "add"
    /\ UNCHANGED <<proc, listVars, peers_lock, peers_mem, cliVars>>

\* No check for an address that is already listed.
ServerAdd ==
    /\ proc = "running"
    /\ srv_pc = "add"
    /\ peers_mem = "live"
    /\ ~peers_lock
    /\ peers_add(srv_peer)
    /\ srv_pc' = "spawn"
    /\ UNCHANGED <<proc, peers_lock, peers_mem, cliVars, srv_peer, peerVars>>

ServerAddFaults ==
    /\ proc = "running"
    /\ srv_pc = "add"
    /\ peers_mem = "freed"
    /\ proc' = "uaf_peers"
    /\ UNCHANGED <<listVars, peers_lock, peers_mem, cliVars, srvVars, peerVars>>

ServerSpawn ==
    /\ proc = "running"
    /\ srv_pc = "spawn"
    /\ peer_create_thread(srv_peer)
    /\ srv_pc' = "accept"
    /\ srv_peer' = NULL
    /\ UNCHANGED <<proc, listVars, peers_lock, peers_mem, cliVars>>

Server == ServerAdd \/ ServerAddFaults \/ ServerSpawn

-----------------------------------------------------------------------------
(* The handler thread of connection p *)

HandlerAt(p, pc) == proc = "running" /\ thread[p] = pc
HandlerTo(p, pc) == thread' = [thread EXCEPT ![p] = pc]

\* try_send.  The first packets sent to a remote end that is gone are lost and
\* answered by a RST; sending after the RST raises SIGPIPE.
try_send(p, packet) ==
    /\ goodbye' = IF conn[p] \in Up
                  THEN [goodbye EXCEPT ![p] = (packet = "DSN")]
                  ELSE goodbye
    /\ IF conn[p] = "closed"
       THEN \E s \in {"closed", "reset"} : conn' = [conn EXCEPT ![p] = s]
       ELSE UNCHANGED conn
    /\ proc' = IF conn[p] = "reset" THEN "sigpipe" ELSE proc

handlerUnchanged == UNCHANGED <<listVars, peers_lock, peers_mem, cliVars,
                                srvVars, addr>>

\* acp_wait_ack sends ACP, ...
PeerHello(p) ==
    /\ HandlerAt(p, "hello")
    /\ try_send(p, "ACP")
    /\ HandlerTo(p, "ack")
    /\ UNCHANGED <<reqs_q, inbox>>
    /\ handlerUnchanged

\* ... then drops one packet, whatever it is, or times out.
PeerAwaitAck(p) ==
    /\ HandlerAt(p, "ack")
    /\ inbox' = IF inbox[p] = <<>> THEN inbox
                ELSE [inbox EXCEPT ![p] = Tail(@)]
    /\ HandlerTo(p, "loop")
    /\ UNCHANGED <<proc, reqs_q, conn, goodbye>>
    /\ handlerUnchanged

\* peer_process_request_shared, when there is no request.
PeerNoRequest(p) ==
    /\ HandlerAt(p, "loop")
    /\ reqs_q[p] = <<>>
    /\ HandlerTo(p, "recv")
    /\ UNCHANGED <<proc, reqs_q, conn, inbox, goodbye>>
    /\ handlerUnchanged

\* Not the code: the handler goes on after sending a DSN.
PeerRequestGoesOn(p) ==
    /\ HandlerAt(p, "loop")
    /\ reqs_q[p] # <<>>
    /\ reqs_q' = [reqs_q EXCEPT ![p] = Tail(@)]
    /\ try_send(p, Head(reqs_q[p]))
    /\ HandlerTo(p, "recv")
    /\ UNCHANGED inbox
    /\ handlerUnchanged

\* peer_process_request_shared: dequeue, then process_pkt_out.
PeerRequest(p) ==
    /\ HandlerAt(p, "loop")
    /\ reqs_q[p] # <<>>
    /\ reqs_q' = [reqs_q EXCEPT ![p] = Tail(@)]
    /\ try_send(p, Head(reqs_q[p]))
    /\ HandlerTo(p, IF Head(reqs_q[p]) = "DSN" THEN "destroy" ELSE "recv")
    /\ UNCHANGED inbox
    /\ handlerUnchanged

\* peer_try_receive returns NULL: timeout, or the remote end is gone.
PeerNoPacket(p) ==
    /\ HandlerAt(p, "recv")
    /\ inbox[p] = <<>>
    /\ HandlerTo(p, "loop")
    /\ UNCHANGED <<proc, reqs_q, conn, inbox, goodbye>>
    /\ handlerUnchanged

\* The answer process_pkt_in sends; ACK and POG have none.
Answer == [PNG |-> "POG", ACP |-> "ACK"]

PeerAnswer(p) ==
    /\ HandlerAt(p, "recv")
    /\ inbox[p] # <<>> /\ Head(inbox[p]) \in DOMAIN Answer
    /\ inbox' = [inbox EXCEPT ![p] = Tail(@)]
    /\ try_send(p, Answer[Head(inbox[p])])
    /\ HandlerTo(p, "loop")
    /\ UNCHANGED reqs_q
    /\ handlerUnchanged

PeerIgnore(p) ==
    /\ HandlerAt(p, "recv")
    /\ inbox[p] # <<>> /\ Head(inbox[p]) \in {"ACK", "POG"}
    /\ inbox' = [inbox EXCEPT ![p] = Tail(@)]
    /\ HandlerTo(p, "loop")
    /\ UNCHANGED <<proc, reqs_q, conn, goodbye>>
    /\ handlerUnchanged

\* Not the code: a DSN is ignored like a POG.
PeerReadsDsnIgnores(p) ==
    /\ HandlerAt(p, "recv")
    /\ inbox[p] # <<>> /\ Head(inbox[p]) = "DSN"
    /\ inbox' = [inbox EXCEPT ![p] = Tail(@)]
    /\ HandlerTo(p, "loop")
    /\ UNCHANGED <<proc, reqs_q, conn, goodbye>>
    /\ handlerUnchanged

\* Not the code: a DSN frees the connection without unlisting it.
PeerReadsDsnFrees(p) ==
    /\ HandlerAt(p, "recv")
    /\ inbox[p] # <<>> /\ Head(inbox[p]) = "DSN"
    /\ inbox' = [inbox EXCEPT ![p] = Tail(@)]
    /\ HandlerTo(p, "destroy")
    /\ UNCHANGED <<proc, reqs_q, conn, goodbye>>
    /\ handlerUnchanged

PeerReadsDsn(p) ==
    /\ HandlerAt(p, "recv")
    /\ inbox[p] # <<>> /\ Head(inbox[p]) = "DSN"
    /\ inbox' = [inbox EXCEPT ![p] = Tail(@)]
    /\ HandlerTo(p, "remove")
    /\ UNCHANGED <<proc, reqs_q, conn, goodbye>>
    /\ handlerUnchanged

\* process_pkt_in, DSN: peers_remove by the connection's own address.
PeerRemove(p) ==
    /\ HandlerAt(p, "remove")
    /\ peers_mem = "live"
    /\ ~peers_lock
    /\ ~ScanFaults(addr[p])
    /\ peers_remove(addr[p])
    /\ HandlerTo(p, "destroy")
    /\ UNCHANGED <<proc, peers_lock, peers_mem, cliVars, srvVars, addr,
                   reqs_q, conn, inbox, goodbye>>

PeerRemoveFaults(p) ==
    /\ HandlerAt(p, "remove")
    /\ \/ peers_mem = "freed" /\ proc' = "uaf_peers"
       \/ /\ peers_mem = "live" /\ ~peers_lock /\ ScanFaults(addr[p])
          /\ proc' = "uaf_list"
    /\ UNCHANGED <<listVars, peers_lock, peers_mem, cliVars, srvVars, peerVars>>

\* peer_destroy: reqs_destroy frees the queue and what is in it, ...
PeerDestroy(p) ==
    /\ HandlerAt(p, "destroy")
    /\ reqs_q' = [reqs_q EXCEPT ![p] = <<>>]
    /\ HandlerTo(p, "null")
    /\ UNCHANGED <<proc, conn, inbox, goodbye>>
    /\ handlerUnchanged

\* ... the pointer is cleared, ...
PeerClearQueue(p) ==
    /\ HandlerAt(p, "null")
    /\ HandlerTo(p, "cleanup")
    /\ UNCHANGED <<proc, reqs_q, conn, inbox, goodbye>>
    /\ handlerUnchanged

\* ... and pthread_exit runs peer_cleanup_handler: close, free.
PeerCleanup(p) ==
    /\ HandlerAt(p, "cleanup")
    /\ conn' = [conn EXCEPT ![p] = "shut"]
    /\ inbox' = [inbox EXCEPT ![p] = <<>>]
    /\ HandlerTo(p, "done")
    /\ UNCHANGED <<proc, reqs_q, goodbye>>
    /\ handlerUnchanged

Handler(p) ==
    \/ PeerHello(p) \/ PeerAwaitAck(p)
    \/ PeerNoRequest(p) \/ PeerRequest(p)
    \/ PeerNoPacket(p) \/ PeerAnswer(p) \/ PeerIgnore(p) \/ PeerReadsDsn(p)
    \/ PeerRemove(p) \/ PeerRemoveFaults(p)
    \/ PeerDestroy(p) \/ PeerClearQueue(p) \/ PeerCleanup(p)

-----------------------------------------------------------------------------
(* The remote ends: a btide process or anything that speaks its protocol *)

envUnchanged == UNCHANGED <<proc, listVars, peers_lock, peers_mem, cliVars,
                            srvVars, thread, addr, reqs_q, goodbye>>

\* ACP is the first packet; after DSN there is nothing.
RemoteSends(p, packet) ==
    /\ proc = "running"
    /\ Len(inbox[p]) < MaxInbox
    /\ \/ /\ conn[p] = "greeting" /\ packet = "ACP"
          /\ conn' = [conn EXCEPT ![p] = "open"]
       \/ /\ conn[p] = "open" /\ packet \in Chatter
          /\ UNCHANGED conn
       \/ /\ conn[p] = "open" /\ packet = "DSN"
          /\ conn' = [conn EXCEPT ![p] = "leaving"]
    /\ inbox' = [inbox EXCEPT ![p] = Append(@, packet)]
    /\ envUnchanged

\* The remote end exits or dies; packets on their way still arrive.
RemoteGone(p) ==
    /\ proc = "running"
    /\ conn[p] \in Up
    /\ \E s \in {"closed", "reset"} : conn' = [conn EXCEPT ![p] = s]
    /\ UNCHANGED inbox
    /\ envUnchanged

Remote(p) == RemoteGone(p) \/ \E m \in Packets : RemoteSends(p, m)

-----------------------------------------------------------------------------
\* The process has ended, one way or another.
Ended == proc # "running" /\ UNCHANGED vars

Next ==
    \/ CliCommand
    \/ CliInternal
    \/ \E p \in Peers, a \in PeerAddrs : ServerAccept(p, a)
    \/ Server
    \/ \E p \in Peers : Handler(p)
    \/ \E p \in Peers : Remote(p)
    \/ Ended

Spec == Init /\ [][Next]_vars

\* Threads run; a receive ends after 3 s at the latest.  A thread that waits
\* for peers->lock gets it if it is free again and again: the command loop,
\* the only one to keep it, waits for its user between two commands.  Neither
\* the user nor a remote end owes this process anything.
Fairness ==
    /\ WF_vars(CliInternal)
    /\ WF_vars(Server) /\ SF_vars(ServerAdd)
    /\ \A p \in Peers : WF_vars(Handler(p)) /\ SF_vars(PeerRemove(p) \/ PeerRemoveFaults(p))

FairSpec == Spec /\ Fairness

-----------------------------------------------------------------------------
(* Properties *)

TypeOK ==
    /\ proc \in {"running"} \cup Endings
    /\ list \in [Slots -> Peers \cup {NULL}]
    /\ npeers_cur \in 0..MaxPeers
    /\ peers_lock \in BOOLEAN
    /\ peers_mem \in {"live", "freed"}
    /\ cli_pc \in {"idle", "dial", "add", "spawn", "remove", "enqueue", "ping",
                   "cancel", "free", "join", "exit"}
    /\ cli_addr \in Addrs \cup {NULL}
    /\ cli_peer \in Peers \cup {NULL}
    /\ cli_slot \in 1..(MaxPeers + 1)
    /\ srv_pc \in {"accept", "add", "spawn", "done"}
    /\ srv_peer \in Peers \cup {NULL}
    /\ thread \in [Peers -> ThreadPcs]
    /\ addr \in [Peers -> Addrs \cup {NULL}]
    /\ reqs_q \in [Peers -> Seq(Requests)]
    /\ conn \in [Peers -> ConnStates]
    /\ inbox \in [Peers -> Seq(Packets)]
    /\ goodbye \in [Peers -> BOOLEAN]

\* npeers_cur counts the occupied slots, whoever adds and removes and however
\* often the same connection is disconnected from both sides; it is the bound
\* of peers_add and what PEERS trusts.  Only the shutdown stops maintaining it.
ShuttingDown == cli_pc \in {"cancel", "free", "join", "exit"}
CountOK == ~ShuttingDown => npeers_cur = Cardinality(Occupied)

\* No port that the user types with more than 16 bits is, once it is cut, the
\* port of anybody.  peers_find cuts and peers_remove does not, so five of the
\* properties below are false without this: ListedIsLive, OneListing,
\* FarewellQueuedLast, WalksAreSafe and ImplementsRegistry.
NoAliases == \A a \in WideAddrs : PortCut[a] \notin DialAddrs \cup PeerAddrs

\* A listed peer has a handler that will still serve its queue: both ways out
\* of a connection (DISCONNECT here, DSN from there) unlist before they free.
Serving == {"created", "hello", "ack", "loop", "recv", "remove"}
ListedIsLive == \A i \in Occupied : thread[list[i]] \in Serving

\* One slot per address, although CONNECT checks and adds in two critical
\* sections and the listening thread does not check at all.
OneListing == \A i, j \in Occupied : addr[list[i]] = addr[list[j]] => i = j

\* A queued DSN is the last request of its queue and its peer is unlisted:
\* PEERS never queues a PNG behind it, nobody queues a second one.
FarewellQueuedLast ==
    \A p \in Peers : \A k \in 1..Len(reqs_q[p]) :
        reqs_q[p][k] = "DSN" => k = Len(reqs_q[p]) /\ ~Listed(p)

\* PEERS, the shutdown and the searches of the list never touch a freed peer.
WalksAreSafe == proc # "uaf_list"

\* After a DSN nothing else is sent on the connection.
FarewellIsLast == [][\A p \in Peers : goodbye[p] => goodbye'[p]]_vars

\* The list of peers implements its abstract specification.
members == {list[i] : i \in Occupied}
Registry == INSTANCE PeerRegistry
                WITH alive <- {p \in Peers : Allocated(p)},
                     freed <- {p \in Peers : Freed(p)}
ImplementsRegistry == Registry!RegistrySpec

\* A DSN ends the handler it is meant for.  One that the user's DISCONNECT queued
\* does so whatever the remote end sends or does not send meanwhile; one of the
\* remote end whatever the user types: it is neither lost in the handshake nor
\* starved by requests or the list's lock.
FarewellsEnd ==
    \A p \in Peers :
        (\/ \E k \in 1..Len(reqs_q[p]) : reqs_q[p][k] = "DSN"
         \/ \E k \in 1..Len(inbox[p]) : inbox[p][k] = "DSN")
            ~> (Freed(p) \/ proc # "running")

\* Every command returns to the prompt, or the process ends.
CommandsReturn == (cli_pc # "idle") ~> (cli_pc = "idle" \/ proc # "running")

-----------------------------------------------------------------------------
(* What the documentation says, and the code does not do *)

\* README.md:28 "the maximum number of peers"; peer_data_sync.h:44 "Maximum
\* number of peers": connections with a handler never exceed it.
MaxPeersRespected ==
    Cardinality({p \in Peers : thread[p] \in HandlerPcs}) <= MaxPeers

\* README.md:42 "Maintains a list of connected peers": as long as the list has
\* room for every connection, a connection whose handler runs can be found, or
\* is being disconnected.
NoOrphans ==
    NPeers <= MaxPeers /\ ~ShuttingDown =>
        \A p \in Peers :
            thread[p] \in {"hello", "ack", "loop", "recv"} =>
                \/ Listed(p)
                \/ \E k \in 1..Len(reqs_q[p]) : reqs_q[p][k] = "DSN"
                \/ cli_pc = "enqueue" /\ cli_peer = p

\* README.md:182 "The program should handle connections and disconnections
\* gracefully": DISCONNECT never follows a pointer to a peer whose handler,
\* told by the remote end, has freed it.
DisconnectIsSafe == proc # "uaf_target"

\* README.md:5 "ensures graceful shutdowns and disconnections": when QUIT has
\* ended the process, no connection is left with an unsent DSN.
QuitSaysGoodbye ==
    proc = "exited" =>
        \A p \in Peers : \A k \in 1..Len(reqs_q[p]) : reqs_q[p][k] # "DSN"
=============================================================================
