# ByteTide in TLA+

ByteTide (`src/`) is a peer-to-peer file transfer program in C. One `btide`
process runs a command loop, a listening thread and one handler thread per
connection; they share the list of peers, a request queue per peer and the list
of packages. The repository's tests replay command scripts and compare output:
they see one interleaving. This project models what the threads, the users and
the remote ends can do to the shared state in any order, checks it with TLC and
proves it with TLAPS.

## Inventory

Paths are below `src/src/`.

| Component | State | Operations | Interacts with |
|---|---|---|---|
| Peer list (`peer_2_peer/peer_data_sync.c`) | `peers->list`, `npeers_cur`, `lock`; the peer objects and their life | `peers_add`, `peers_remove`, `peers_find`, `peer_create`, `peer_destroy` | called by all threads |
| Request queues (same file, `utilities/my_utils.c`) | a linked list, `count`, `lock` per peer | `reqs_enqueue`, `reqs_dequeue`, `reqs_destroy` | command loop produces, handler consumes and frees |
| Command loop (`peer_2_peer/cli.c`, `btide.c`) | locals of one command | CONNECT, DISCONNECT, PEERS, ADDPACKAGE, REMPACKAGE, PACKAGES, FETCH, QUIT | peer list, queues, package list |
| Listening thread (`peer_2_peer/peer_server.c`) | the accepted connection | `p2p_server_listening` | peer list; starts handlers |
| Peer handlers (`peer_2_peer/peer_handler.c`) | one connection | handshake, requests out, packets in, cleanup | peer list, own queue, socket, packages |
| Shutdown (`btide.c`, `cancel_all_peers`) | - | `graceful_shutdown`, SIGINT handler | everything, with all threads running |
| Packets (`peer_2_peer/packet.c`) | - | marshalling, framing in `peer_try_receive`/`try_send` | handlers |
| Data transfer (`send_res_pkts`, `pkt_install`) | files | cutting a chunk into RES packets and installing them | packages, handlers |
| Package manager (`peer_2_peer/package.c`) | `bpkgs->ls`, `count`, `lock` | add, remove, find | command loop, handlers |
| Package files, Merkle tree (`chk/`, `tree/`) | a tree of hashes | load, build, query | package manager |
| SHA-256 (`crypt/sha256.c`) | a block buffer | update, finalize | Merkle tree |
| Configuration (`config.c`) | three fields | `config_load` | `main` |

What makes each correct:

* **Peer list**: its count is the number of occupied slots; a listed peer is
  never a freed one; an address is listed once; it is never fuller than its
  maximum; a connection that is served can be found.
* **Queues and handlers**: a DSN is the last thing queued and the last thing
  sent; a DSN from either side ends the handler.
* **Commands and shutdown**: every command returns; nothing is freed under a
  thread that uses it; QUIT says goodbye.
* **Merkle tree**: once no update is under way every inner node has the hash of
  its children; a node is complete exactly if the data below it are; the queries
  return what their names say; a chunk that is there is found.
* **Data transfer**: the RES packets of a chunk tile it; a desynchronised stream
  is noticed.
* **Packages, hashes, configuration**: a removed package is not used any more; a block boundary changes no
  digest; an incomplete configuration is refused.

Hard here: five critical sections that belong together are taken apart (find,
remove, enqueue); pointers outlive locks; two ends disconnect at the same time;
the shutdown frees what others use; handlers update one Merkle tree at the same
time with one node locked at a time. `PROJECT.json` lists each hazard at its line.

## Modules

| Module | What it is |
|---|---|
| `PeerRegistry` | abstract specification: connections are created, enter a registry while there is room, leave it, and are freed only after they have left |
| `PeerSessions` | the threads of one process over the list, the queues, the peer objects and the connections |
| `MCPeerSessions` | instances for TLC |
| `PeerSessions_proofs` | types, count, list and queues; nothing follows a DSN; `PeerSessions` implements `PeerRegistry` |
| `MerkleTree` | one package in memory: the tree is built, queried and updated by several handlers |
| `MCMerkleTree` | instances for TLC |
| `MerkleTree_proofs` | types; concurrent updates leave a Merkle tree behind; what the queries over it return |
| `LinkedQueue` | the linked list of `utilities/my_utils.c`, pointer by pointer; a library of steps for other modules |
| `LinkedQueue_proofs` | every step keeps the list's shape |
| `PackageList` | abstract specification: the packages a user sees, in the order they were added |
| `Packages` | the package manager: commands, unlocked searches by handlers, destruction; uses `LinkedQueue` |
| `MCPackages` | instances for TLC |
| `Packages_proofs` | types, shape, count, searches, the report; `Packages` implements `PackageList` |
| `Sha256Stream` | buffering and padding of SHA-256 (small enough to be its own instance) |
| `Division_proofs` | lemmas about `\div`, `%` and least elements that the other proofs cite |
| `Sha256Stream_proofs` | types, nothing lost, the blocks are the padded message |
| `Exchange` | two handler loops and the byte streams between them |
| `MCExchange` | instances for TLC |
| `Exchange_proofs` | types, framing, the handshake, the tiling of chunks |
| `Process` | a process from `main` to exit, with signals |
| `MCProcess` | instances for TLC |
| `Process_proofs` | types, configuration, what a shutdown frees and when |

How they divide the program: `PeerSessions` has all connections of one process and of
each only what reaches this end; `Exchange` has one connection with both of its ends
and of each process only the handler; `Process` has one process and of its commands
only the locks they take; `Packages` and `MerkleTree` are the data behind REQ and RES.
Where two modules have the same function they model it for what their properties tell
apart: `try_send` is the order of packets in `PeerSessions`, and bytes in `Exchange`;
`graceful_shutdown` meets connections in `PeerSessions`, searches in `Packages`, and
other runs of itself in `Process`.

### How PeerSessions corresponds to the code

* **Steps.** A function that holds one lock for all of its work is one step:
  `peers_add`, `peers_remove`, `peers_find`, `reqs_enqueue`. What lies between two
  critical sections is a state: `cli_connect` is `CliConnect` (find), `CliDial`,
  `CliAdd`, `CliSpawn`; `cli_disconnect` is `CliDisconnect` (find), `CliRemove`,
  `CliEnqueue`. PEERS and `cancel_all_peers` keep `peers->lock` while they take a
  queue's lock per slot: `peers_lock` is TRUE between `CliPeers` and `CliPinged`
  and between `CliQuit` and `CliCancelled`, with a step per slot.
* **Threads.** `cli_pc`, `srv_pc` and `thread[p]` are program counters.
  `thread[p]` is also the life of the object: `unused`, `created` (its creator
  owns it), `hello` and `ack` (`acp_wait_ack`), `loop` (`peer_process_request_shared`),
  `recv` (`peer_try_receive`, `process_pkt_in`), `remove` (a DSN was read),
  `destroy`, `null`, `cleanup` (`peer_destroy` and `peer_cleanup_handler`: queue freed,
  pointer cleared, socket closed and peer freed), `done`.
* **Memory.** The Makefile builds with the address sanitizer, so a read of freed
  memory stops the process; `proc` says which access it was. `uaf_list`: a pointer
  of the list; `uaf_target`: the pointer DISCONNECT holds; `uaf_peers`: the list
  structure after the shutdown freed it.
* **The network.** `conn` and `inbox` are what one end can tell of its TCP
  connection: packets arrive in order; a remote end may vanish at any point; what
  it sent before still arrives. `try_send` to a connection that is gone is lost
  first and raises SIGPIPE once a RST has come back.
* **Remote ends** greet with ACP, then send what `Chatter` holds, then perhaps a
  DSN. They need not be btide processes and owe no answer.
* **Addresses.** Dialled addresses and those that remote ends connect from are
  different sets: a remote end connects from an ephemeral port. Two live
  connections never share one. `PortReuse` lets a remote end that died without a
  DSN come back from its old port while the dead connection is still open here.
* **Ports above 65535.** A command line may name them (`%u`, tested for `<= 0` only).
  `peer_t` and `peers_remove` have the port as an `int`; `peers_find` and `connect` take
  16 bits of it. `WideAddrs` are such addresses, `PortCut` says what each becomes, and
  `uint16` is applied where the code cuts: CONNECT looks up and dials the cut address and
  lists the whole one, DISCONNECT looks up the cut one and removes the whole one.
  `NoAliases`: none of them becomes an address that somebody has. In the runs it
  is true. Without it DISCONNECT unlists nobody and CONNECT connects to one port twice:
  `SessionsSafety` with `PortCut <- MCCutTaken` shows `ListedIsLive`, `OneListing`,
  `FarewellQueuedLast`, `WalksAreSafe` and `ImplementsRegistry` violated.
* **Abstracted**: contents of packets, REQ, RES and the package commands; failures
  of malloc, socket and pthread_create; sends do not block for ever (a remote end
  reads or is gone).

### How MerkleTree corresponds to the code

* **Nodes** are positions in `mtree->nodes`; `left`, `right` and `parent` are what
  `mtree_from_lvlorder` makes of them: heap arithmetic. `built` and `at` are its call
  stack: the calls that have returned and the one that runs.
* **Hashes.** The hash of a chunk is the chunk, the hash of an inner node the pair
  of the hashes below it: SHA-256 without collisions. `data` is the mapped file:
  `mtree_build` maps it MAP_SHARED, so `FileWritten`, a write of another process,
  shows at once; it maps it PROT_READ, so the memcpy of `update_chunk_node` ends the
  process (`CopyFaults`) unless the packet has no data (`CopyNothing`).
* **Queries** (`check_chunk`, `bpkg_get_completed_chunks`,
  `bpkg_get_largest_completed_subtree`, `bpkg_get_subtree_chunks`, the two lookups) are
  operators over the state; the recursive ones are recursive functions on nodes. The lookup
  counts the nodes it searches, and a query the hashes it hands out, in a `uint16_t`
  (`Searched`, `bpkg_qry_create`): `CountLimit` is 65536 in the code.
* **Updates.** `thread[h]` is handler h in `update_chunk_node` and
  `update_parent_hashes`: `lock` (waiting for the leaf's lock), `hash`, `store`,
  `storing` (the 64 characters of `computed_hash` are being written: a reader sees
  `Torn`), `climb` (lock released, on the way to the parent), then `left` and `right` at
  the parent, which is locked while its children, unlocked, are read one after the
  other.
* **Uninitialised memory.** `mtree_node_create` sets neither `key` nor `parent`.
  Keys start with any value of `KeyGarbage`; the root's parent is NULL or it is not
  (`ClimbEnds`, `ClimbFaults`).
* **Abstracted**: offsets are counted in chunks; packages are well formed and the data
  file has its size; the failures of open, mmap and malloc are left out.

### How LinkedQueue and Packages correspond to the code

* **Memory.** A node is the number of its allocation; `mem` says whether it is linked,
  taken out and not yet freed, or freed. `next`, `head` and `tail` are the fields of
  `q_node_t` and `queue_t`. The build has the address sanitizer: a read of a freed node
  or package ends the process, `proc` says which.
* **Locks.** Only commands take `bpkgs->lock`, and one thread runs all commands, so
  ADDPACKAGE is one step for them. `pkg_find_by_ident` takes no lock: each read of its
  walk is a step (`SearchVisit` reads the package, `SearchAdvance` the next pointer), and
  so is each write of `pkgs_rem` that such a walk can see: `RemUnlink`, `RemDestroy`,
  `RemFree`. `q_enqueue` writes `next` of the new node before it links it, so a walk sees
  it whole or not at all.
* **Identifiers.** `strncmp` over the length of the query: a query is the set of
  identifiers it is a prefix of. The empty identifier of an error RES is the set of all,
  and of NULL: over no characters `strncmp` reads nothing, so a package that failed to load
  matches, `pkg_find_by_ident` returns its NULL, and the packages behind it are not seen.
  A freed package matches it unread as well; the caller reads it.
* **Failures.** `bpkg_load` returns NULL and ADDPACKAGE lists it; a malformed file has its
  path freed twice (`double_free`, pkgchk.c:67 and 72); a data file that cannot be made
  ends the process (`no_data_file`). REMPACKAGE, or a search for an identifier that is not
  empty, that comes to such a NULL reads through it (`null_package`).
* **The count** is a `uint8_t`; `CountLimit` is 256 in the code and 4 in the run, so that
  it wraps, which hides all packages from PACKAGES.

### How Sha256Stream corresponds to the code

A byte of the message is its position. `chain` is the sequence of blocks that
`sha256_calculate_chunk` has got, of which the hash is a function. `UpdateFirst`,
`UpdateBlock` and `UpdateTail` are the three parts of `sha256_update`. B, L and Width are 64,
8 and 2^32 in the code. The sum `size + data->chunk_size` is taken in 32 bits; the
assumption says that no caller comes near the limit.

### How Exchange corresponds to the code

* **Streams.** A stream is the packets its end has said and a unit is a piece the network
  may deliver; `PktUnits` is 4096 for bytes. Positions count units. `peer_try_receive`
  holds the units from `from` to `read`; its `recv` calls are `Receive`, its early returns
  `NoPacket`, `Stall` (a timeout with part of a packet in the buffer, which is dropped) and
  `CutOff` (the end of the stream there). `Readings` is what `pkt_unmarshall` makes of the
  units: the packet, if they begin with one.
* **Packets** have their two codes and, of the payload, offset, size and hash; the hash names
  the chunk, and chunks are named by their size, 0 being one that is not here.
* **Handlers.** `pc[e]` is the place in `peer_handler`: `hello` and `await` (`acp_wait_ack`),
  `request` (`peer_process_request_shared`), `receive` (`peer_try_receive`, `process_pkt_in`),
  `respond` (the loop of `send_res_pkts`), `leave` (`peer_destroy`).
* **TCP.** `link[e]` is what end e can tell of the other one. An end that closes with
  unread data sends a RST; a send to a closed end brings one back. A RST that arrives may
  discard what was still on its way (`Reset`), and the next send after it kills the process.
* **REQ** is sent by another implementation of the protocol: no command of this one gets
  that far. It would not survive it: `send_req` frees the packet and `req_destroy` frees it
  again.
* **Abstracted**: sends do not block; a receive that gets nothing for three seconds is
  `NoPacket` at any time before the first unit.

### How Process corresponds to the code

* **Start-up.** `parse_entry` of each line in any order and number, `check_directory`, the
  test for completeness over memory that malloc did not clear (`entry` starts with
  any value of the garbage constants), `pkgs_init`, `peer_list_create`, `p2p_setup_server`,
  which takes the port as 16 bits.
* **Threads.** `thread`, `lock`: who runs and who holds which of `peers->lock`, `bpkgs->lock`
  and the lock of a request queue. What is done under a lock is left to the other modules.
* **Shutdown.** `shutdown[r]` is the program counter of one run of `graceful_shutdown`: the one
  `main` calls, and one in the signal handler of each thread. A thread in its handler does
  not go on. The global pointers keep their values after `free`, so `memory` tells a second
  run `live` or `freed`; a second `free` ends the process.
* **Cancellation.** The listening thread is cancelled at `accept` and `pthread_testcancel`,
  which it reaches holding no lock, also inside its own `pthread_join`.

Definitions marked "Not the code" are plausible mistakes in the
definition that follows them. Nothing uses them; putting one in the place of its
neighbour must break the property it is listed with in `PROJECT.json`, which shows
that the property depends on that part of the code.

## Runs

| Run | Bounds | What it shows |
|---|---|---|
| `SessionsSafety` | 2 connections, 2 slots, 1 address to dial, 1 to be called from, queues and inboxes bounded by 1; CONNECT, also with a port above 65535 that is nobody's in 16 bits, DISCONNECT, PEERS, QUIT | types, count, list and queues stay consistent; walks over the list are safe; the list implements `PeerRegistry`; nothing follows a DSN |
| `SessionsLiveness` | 2 incoming connections, 2 slots, port reuse, remote ends that chat; DISCONNECT and PEERS | a DSN from either side ends its handler or the process has ended; commands return; the count is right although an address may be listed twice |
| `TreeSafety` | up to 5 chunks, counts that wrap at 5, 2 contents, all packages (first chunk fixed, the contents being interchangeable) and all data files, 2 handlers, 1 write by another process | the tree that is built answers its queries correctly; updates that meet leave a Merkle tree behind and end |
| `PackagesSafety` | 4 packages of 2 identifiers, a count that wraps at 4, 1 handler, 1 query to remove, queries for one identifier and for the empty one | the list keeps its shape and implements `PackageList`; searches overlook nothing and end |
| `Sha256Stream` | blocks of 8 bytes, length fields of 2, messages of up to 30 bytes in pieces of 0 to 21: shorter than a block, one block, two and more | the padded message is hashed, however it was cut |
| `ExchangeSafety` | 2 ends, packets of 2 units, chunks of 0 and 3 with 2 per packet, 1 request per end, 1 stall or exit | packets are heard as said, chunks whole; questions are answered, farewells followed |
| `ProcessSafety` | 2 SIGINTs besides QUIT; values at both ends of each range | ports and limits of the file are honoured; memory is freed twice only by two shutdowns; a shutdown ends unless it caught a lock |
| `SessionsMaxPeers` (violation) | 2 connections, 1 slot | more connections than `max_peers` are served |
| `SessionsDisconnectRace` (violation) | 1 connection | DISCONNECT uses a peer that its handler has freed |
| `SessionsReconnect` (violation) | 2 connections to one address | a late DSN of the old connection unlists the new one |
| `SessionsQuit` (violation) | 1 connection | QUIT exits before its DSNs are sent |
| `TreeLookup` (violation) | up to 4 chunks, 1 handler; keys full of large numbers, zeros, or a range that covers everything | a REQ for the second chunk of a package finds nothing |

Two connections are what the races need: an old and a new one to the same address,
one listed before and one listed after the other. A list that is full is what
`SessionsMaxPeers` is about, and the theorems on the count and on the refinement hold
for every number of connections and slots, so for a full list as well. `MaxInbox`
and `MaxReqs` bound how far a remote end and a user can run ahead; a queue still
reaches two requests (a PNG of PEERS and a DSN behind it), which is what the order
of requests is about. The proofs do not depend on any of these bounds.

Four chunks make a full tree of two levels, in which two updates share a climb and
meet at the root; three make one whose leaves are on two levels; one makes a tree
without inner nodes. Because the lookup finds only the first chunk
(`FirstChunkFound`), updates start where the lookup lets them: at the first chunk and,
with equal chunks, nowhere else; two handlers climb behind each other along the same
nodes. The proof makes no use of where updates start. Counts that wrap at five make a package
of five chunks one whose chunks are not found, and leave the lookup of -hashes_of the first
few nodes of trees of three chunks and more; requests and updates of up to four chunks are as
they are without a cut.

Four packages let REMPACKAGE take the first, a middle, the last and the only one and
ADDPACKAGE follow each; one handler is enough because handlers do not see each other.
A packet of two units has one place to be cut, which is all a receive can tell; a chunk
of 3 takes a full and a partial RES; one request per end lets a DSN cross a PNG, a REQ
and another DSN. In `ProcessSafety` two signals and QUIT make three shutdowns, on every
choice of threads. `CHECK_DEADLOCK FALSE` stands where the system may stop:
`Packages` and `Sha256Stream` end, and a `Process` may wait for a lock that it holds.

A violation run states what the documentation says and shows a behaviour of the
code that contradicts it; `PROJECT.json` quotes the line under "findings".

**Fairness.** Threads are scheduled and a receive ends after three seconds
(SO_RCVTIMEO), so each thread's steps are weakly fair. The two places where a thread
waits for `peers->lock` against a user who types PEERS without end are strongly
fair: the lock is free while the command loop waits for its next line. A handler's update of the tree is
strongly fair for the same reason: other updates take a node's lock again and
again, but release it each time. In `Packages` commands and searches go on once begun.
In `Exchange` handlers are weakly fair and `Receive` strongly: what is on its way arrives
before receives have timed out for ever. In `Process` a thread gives up the locks it
holds, a shutdown gets a lock that is free again and again, and the listening thread
comes to a cancellation point again and again. Users and
remote ends have no fairness: nobody has to type, send, leave or interrupt. A search of
`Packages` ends because additions are bounded: against a user who adds packages faster
than a handler walks it need not.

## Proofs

Every safety property and every refinement that a passing run checks is also a theorem,
for every value of the constants that the assumptions below allow: `PROJECT.json` lists
which theorem states which property. None of them needs fairness.

For the sessions the assumptions are `SessionsAssumption` (constants of the right kind,
addresses of the three kinds disjoint) and, where a theorem says so, `~PortReuse` and
`NoAliases`.

* `TypeCorrect`, `CountCorrect`: `TypeInv` is inductive. `TypeOK` alone is not: that
  `npeers_cur` never drops below zero needs that it is at least the number of
  occupied slots, also during the shutdown, which empties slots without counting.
* `ListedPeersLive`, `ListedOnce`, `FarewellsQueuedLast`, `WalksSafe`: `ListInv` is
  inductive together with `TypeInv`. Each of the four needs the others: a handler
  unlists by address, so it takes away its own slot only because no other slot has
  that address; a handler that sends a DSN frees a peer that is unlisted because
  whoever queued the DSN had unlisted it; and that holds because the pointer
  DISCONNECT carries across its critical sections, stale as it may become, names a
  connection without a DSN that cannot be listed again (`DisconnectInv`, `CreatedInv`).
  `AddressInv` says that what CONNECT found missing is still missing when it adds,
  since only the command loop dials.
* `FarewellLast`: a handler that has sent a DSN is on its way out (`GoodbyeInv`);
  no port assumption is needed.
* `RegistryImplemented`: every step is a step of `PeerRegistry` or changes nothing it
  sees. That there is room when a connection enters follows from the count; that a
  freed connection has left follows from `ListInv`.

Without `~PortReuse` `OneListing` is false, and with it the rest of `ListInv`: an
accepted connection is added without a look at the list. Without `NoAliases` all five of
these theorems are false as well: DISCONNECT ip:70536 queues a DSN for the peer of port 5000,
which stays listed when its handler frees it, and CONNECT ip:70536 lists one port twice. Types,
count and `FarewellLast` hold of every port.

For the tree, from `TreeAssumption` (there is at least one chunk) and, where the hashes of
chunks and of inner nodes must differ, `HashAssumption` (SHA-256 without collisions; TLC
evaluates it over the packages of its runs):

* `TreeTypes`: `TypeInv` adds to `TypeOK` where a handler may be: at a leaf while it
  hashes a chunk, at an inner node while it reads children. Lemma `Heap` is the
  arithmetic of positions.
* `TreeAlwaysSettles`: no lock protects a node together with its children, so
  `TreeSettles` is far from inductive. `NodeInv`: an inner node has the hash of its
  children, or a handler that changed a child is on its way up (`Announced`), or one is
  at work on the node. `ReadInv`: what that one has read is current, or another change
  is announced. A handler that arrives at the parent takes its announcement back; it
  does so under the parent's lock, so nobody who relied on it is still at work there
  (`ClimbingStep`). `BuildInv` and lemma `AllBuilt` (by the least node that is missing)
  say that a loaded tree is built everywhere.
* `TreeCompleteMeansCorrect`: `PackageInv` says what the expected hashes are, `LeafInv` that
  a leaf has the hash of its chunk or a handler is writing that hash. `CompleteBelow` joins
  them to `TreeSettles`, from the leaves up.
* `TreeMinCompletedIsMinimal`: what the recursive search returns for a node stands for the
  complete leaves below it, each piece for its own, and the parent of a piece is not
  complete (`RootsInv`). That the pieces are disjoint comes down to `HalvesDisjoint`:
  nothing descends from both children of a node. That it stands for all complete chunks
  needs fewer of them than a count has values (65536); the rest does not.
* `TreeHashesOfSubtree`: nodes with the same hash have the same hashes below them
  (`SameHashes`, for which `HashAssumption` keeps leaves and inner nodes apart), and in a
  full tree the leaves below a node are consecutive (`FullTreeInOrder`); that a node is found
  needs fewer nodes than a count has values. `TreeFirstChunkFound`: no inner node has the hash of
  a chunk, so the search stops at the first leaf, if it gets there: with 65536 chunks or more the
  cut count (`Uint16`) ends it among the inner nodes, whatever their number.

The queries are recursive functions over the heap. That such a function exists, without
which it is no function at all, is `HeapRecursion`: by the greatest node from which it
cannot be computed. `HeapInduction` is induction from the leaves to the root, over sets of
nodes: the provers have no induction over operators.

For the package list, from `PackagesAssumption` and `QueueAssumption` (NULL is no node):

* `PackagesListShape`: nodes are linked in the order of their allocation, so that the
  shape is a statement about minima instead of paths: head is the least linked node, each
  next pointer the least linked node above, tail the greatest (`QueueShape`). The lemmas of
  `LinkedQueue_proofs` show it for each operation; for `q_unlink` they need that `previous` is
  the greatest linked node below, which the walk of REMPACKAGE keeps.
* `PackagesSearchMissesNothing`: the strengthening says that whatever a search has not
  come to yet and was there at its start is above the node it stands on (or, when it has
  stopped, not below the NULL that the empty identifier took for a match), and that a node
  taken out still leads to the least linked node above it at the time: a walk that was on it rejoins the list.
* `PackagesCount` needs that what is counted is finite and changes by one node;
  `PackagesImplemented` maps the list to the linked nodes.
* `PackagesReported`: the walk of PACKAGES stays in the list and comes to node n in fewer
  than n steps, because the shape orders nodes by their allocation.

For SHA-256, from `StreamAssumption`: `StreamNothingLost` has as its strengthening the same
statement in the middle of an update, with the bytes not yet read; `StreamIsPadded` then
needs that the number of blocks is the least that fits, which is where `Division_proofs`
comes in.

For two ends of a connection, from `ExchangeAssumption` (there are two ends, packets and
pieces of chunks have at least one unit):

* `ExchangeHeardIsSaid`: `StreamInv` says in addition that no more packets are heard than
  their units were taken, so that an end that is not in step never comes back into step and
  `HeardIsSaid` need not be shown of it. A full buffer that begins at a packet's first unit
  holds that packet (`Fits`, about the quotient of a position).
* `ExchangeGreetingDropped`, `ExchangeTiles`: both are about what is said first
  (`SpeechInv`) and reach the hearer by `HeardIsSaid`. ACP comes before anything else
  (`GreetingInv`). What an end has said tiles its chunks, but for the one at work on, and
  what remains of that one joins on to the last packet said (`TileInv`, `RestInv`); no
  request in the queue is a RES that could come between (`QueueInv`).

For a process, from `ProcessAssumption` (ports and limits are numbers):

* `ProcessHonoursConfig`: what a line let through is in range until the end of the file
  (`ConfigInv`), so the cut to 16 bits keeps it.
* `ProcessFreesOnce`: whatever is freed was freed by a run of the shutdown that has gone on
  from there (`FreedInv`), so a second free is another run's. `ProcessJoinsFirst`: a run past
  the join leaves no listening thread unless it runs on that thread (`JoinInv`); that none
  starts afterwards needs the order of start-up and shutdown (`OrderInv`).

What the liveness properties do not cover: in `PeerSessions` a section under a request
queue's lock is one step, so `CommandsReturn` and `FarewellsEnd` cannot fail by the order of
`peers->lock` and a queue's lock (PEERS takes the second under the first; no function takes
the first under the second). `ShutdownEnds` is about the program's own locks; that a
SIGINT may interrupt malloc or stdio inside theirs is left out.

Only model-checked: the liveness properties (`FarewellsEnd`, `CommandsReturn`, `UpdatesEnd`,
`SearchesEnd`, `QuestionsAnswered`, `FarewellFollowed`, `ShutdownEnds`), whose proofs would need
ENABLED, and the violations, which are behaviours and not theorems. `SelectSeq` and powers
(`^`) have no meaning to the provers: the loop of `CompletedChunks` and `PowerOf2` are written
as recursive functions.

## Plan

Done: the modules above and the theorems about them. What is left: safety parts of the
liveness arguments that do not need fairness (which steps a farewell or an update still has
before it), and `PeerSessions` with port reuse or with ports that alias, of which only types, count and
`FarewellIsLast` are proved.

## Not modelled

* Parsing of `.bpkg` files (malformed ones are an outcome of `cli_add_package`), of command
  lines and of lines of the configuration; printing.
* The SHA-256 compression function: arithmetic without branches.
* `pkgmain.c` and `pktchk.c`: argument parsing over the package functions, one thread.
* Code that nothing calls: `send_png_all`, `reqs_nextup`, `mtree_print_info`; and FETCH behind its
  `return` (cli.c:266) with `pkt_fetch_from_peer` and the status of a request, which nobody
  waits for. A RES that nobody asked for makes `process_pkt_in` write through a request that
  is NULL or freed; no end of this program causes one.
* Failures of malloc, of creating threads and of mutexes.
