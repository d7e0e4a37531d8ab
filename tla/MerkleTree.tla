----------------------------- MODULE MerkleTree -----------------------------
(***************************************************************************)
(* The Merkle tree of one package in memory (src/src/tree/merkletree.c,    *)
(* src/src/chk): it is built over the mapped data file while the package   *)
(* is loaded, answers queries, and is brought up to date, leaf to root, by *)
(* peer handlers that receive RES packets at the same time.                *)
(*                                                                         *)
(* Nodes are their positions in mtree->nodes, which combine_nodes fills    *)
(* with the hashes first and the chunks behind them: a binary heap, the    *)
(* children of n at 2n+1 and 2n+2.  SHA-256 is taken to be free of         *)
(* collisions: the hash of a chunk is its content, the hash of an internal *)
(* node the pair of what it hashes.  Offsets are counted in chunks.        *)
(* Packages are well formed: one hash less than chunks.                    *)
(*                                                                         *)
(* What the constructors leave uninitialised (mtree_node_create: parent,   *)
(* key) is any value here.  The data file is mapped shared, so writes of   *)
(* other processes show at any time; it is mapped for reading only, so a   *)
(* write of this process is a fault.                                       *)
(***************************************************************************)
EXTENDS Integers, Sequences, FiniteSets

CONSTANTS
    MaxChunks,    \* bound on the number of chunks of a package
    CountLimit,   \* values of a uint16_t count: 65536 in the code
    Contents,     \* what a chunk may contain
    PackageFiles, \* packages to look at: functions from chunks to contents
    Handlers,     \* peer handler threads that receive RES packets
    MaxWrites,    \* bound on the writes of other processes to the file
    KeyGarbage,   \* what uninitialised keys may hold: pairs of offsets
    NoHash,       \* computed_hash before anything is computed: zeros
    Torn,         \* a hash read while another thread writes it
    UnknownHash   \* a hash that no node of the package has

ASSUME TreeAssumption ==
    /\ MaxChunks \in Nat \ {0}
    /\ CountLimit \in Nat \ {0}
    /\ MaxWrites \in Nat

VARIABLES
    nchunks,      \* mtree->nchunks
    original,     \* chunk -> the content the package file was made from
    expected,     \* node -> expected_hash
    data,         \* chunk -> its content in the mapped file (f_data)
    computed,     \* node -> computed_hash
    key,          \* node -> key
    built,        \* nodes mtree_from_lvlorder has returned from
    at,           \* the node mtree_from_lvlorder is at
    phase,        \* "init", "build", "loaded"
    thread,       \* handler -> where it is in update_chunk_node
    writes,       \* writes to the file so far
    proc          \* "running", or how the process ended

package == <<nchunks, original, expected>>
tree == <<key, built, at, phase>>
vars == <<package, data, computed, tree, thread, writes, proc>>

NoNode == -1

-----------------------------------------------------------------------------
(* The shape of the tree.                                                  *)

nhashes == nchunks - 1
nnodes == nhashes + nchunks
Nodes == 0 .. nnodes - 1
Chunks == 0 .. nchunks - 1

Left(n) == 2 * n + 1
Right(n) == 2 * n + 2
Parent(n) == (n - 1) \div 2

\* Not the code: i_left may be one too far, and i_right is not looked at.
InternalOffByOne(n) == Left(n) <= nnodes

\* Has children: both are inside the array.
Internal(n) == Left(n) < nnodes /\ Right(n) < nnodes

\* is_leaf: created from a line of the chunks section.
IsLeaf(n) == n >= nhashes

NodeOf(c) == nhashes + c
ChunkOf(n) == n - nhashes

\* The expected hashes of a package of m chunks made from content.
PackageHashes(m, content) ==
    LET hash[n \in 0 .. 2 * m - 2] ==
            IF n >= m - 1 THEN content[n - (m - 1)]
                          ELSE <<hash[Left(n)], hash[Right(n)]>>
    IN  hash

\* SHA-256 without collisions: no internal node has the hash of a chunk.
ASSUME HashAssumption ==
    \A m \in 1 .. MaxChunks : \A content \in PackageFiles :
        DOMAIN content = 0 .. m - 1 =>
            \A n \in 0 .. m - 2 : PackageHashes(m, content)[n] \notin Contents

-----------------------------------------------------------------------------
(* Queries.                                                                *)

\* What is left of a number in a uint16_t.
uint16(n) == n % CountLimit

\* What a query hands out: the length goes through a uint16_t.
bpkg_qry_create(hashes) == SubSeq(hashes, 1, uint16(Len(hashes)))

check_chunk(n) == expected[n] = computed[n]

\* bpkg_get_completed_chunks: the loop over mtree->chk_nodes.
CompletedChunks ==
    LET done[i \in 0 .. nchunks] ==
            IF i = 0 THEN <<>>
            ELSE IF check_chunk(NodeOf(i - 1)) THEN Append(done[i - 1], NodeOf(i - 1))
            ELSE done[i - 1]
    IN  bpkg_qry_create(done[nchunks])

\* Not the code: a subtree whose left half has nothing is skipped.
MinCompletedLeftOnly ==
    LET roots[n \in Nodes] ==
            CASE check_chunk(n) -> <<n>>
              [] ~check_chunk(n) /\ IsLeaf(n) -> <<>>
              [] OTHER -> IF roots[Left(n)] = <<>> THEN <<>>
                          ELSE roots[Left(n)] \o roots[Right(n)]
    IN  bpkg_qry_create(roots[0])

\* bpkg_get_min_completed_hashes: the topmost complete nodes, as
\* bpkg_get_largest_completed_subtree finds them from the root.
MinCompleted ==
    LET roots[n \in Nodes] ==
            CASE check_chunk(n) -> <<n>>
              [] ~check_chunk(n) /\ IsLeaf(n) -> <<>>
              [] OTHER -> roots[Left(n)] \o roots[Right(n)]
    IN  bpkg_qry_create(roots[0])

\* Not the code: the right half comes first.
SubtreeChunksSwapped ==
    LET leaves[n \in Nodes] ==
            IF IsLeaf(n) THEN <<n>> ELSE leaves[Right(n)] \o leaves[Left(n)]
    IN  leaves

\* bpkg_get_subtree_chunks for every node: the leaves below it, in order.
SubtreeChunks ==
    LET leaves[n \in Nodes] ==
            IF IsLeaf(n) THEN <<n>> ELSE leaves[Left(n)] \o leaves[Right(n)]
    IN  leaves

\* Not the code: CHUNK searches as many nodes as there are hashes.
SearchedShort(mode) ==
    CASE mode = "ALL" -> uint16(nnodes)
      [] mode \in {"INTERNAL", "CHUNK"} -> uint16(nhashes)

\* How many of mtree->nodes, from the first on, a mode searches: counted in a
\* uint16_t, though the three numbers have 32 bits.
Searched(mode) ==
    CASE mode = "ALL" -> uint16(nnodes)
      [] mode = "INTERNAL" -> uint16(nhashes)
      [] mode = "CHUNK" -> uint16(nchunks)

\* The first node with this expected hash among those searched.
bpkg_find_node_from_hash(hash, mode) ==
    LET found == {n \in 0 .. Searched(mode) - 1 : expected[n] = hash}
    IN  IF found = {} THEN NoNode
        ELSE CHOOSE n \in found : \A m \in found : n <= m

\* The hashes of the chunks below the node with this hash, if there is one.
bpkg_get_all_chunk_hashes_from_hash(hash) ==
    LET node == bpkg_find_node_from_hash(hash, "ALL")
    IN  bpkg_qry_create(IF node = NoNode THEN <<>>
                        ELSE [i \in DOMAIN SubtreeChunks[node] |->
                                 expected[SubtreeChunks[node][i]]])

\* bpkg_find_node_from_hash_offset(root): down where the key covers offset.
bpkg_find_node_from_hash_offset(hash, offset) ==
    LET Covers(n) == key[n][1] <= offset /\ offset <= key[n][2]
        find[n \in Nodes] ==
            IF expected[n] = hash THEN n
            ELSE IF IsLeaf(n) THEN NoNode
            ELSE LET l == IF Covers(Left(n)) THEN find[Left(n)] ELSE NoNode
                     r == IF Covers(Right(n)) THEN find[Right(n)] ELSE NoNode
                 IN  IF l # NoNode THEN l ELSE r
    IN  find[0]

\* The node send_res_pkts answers a REQ for (hash, offset) from.
RequestedNode(hash, offset) ==
    IF offset > 0 THEN bpkg_find_node_from_hash_offset(hash, offset)
                  ELSE bpkg_find_node_from_hash(hash, "CHUNK")

-----------------------------------------------------------------------------
(* Loading.                                                                *)

Init ==
    /\ nchunks \in 1 .. MaxChunks
    /\ original \in PackageFiles \intersect [Chunks -> Contents]
    /\ expected = PackageHashes(nchunks, original)
    /\ data \in [Chunks -> Contents]
    /\ computed = [n \in Nodes |-> NoHash]
    /\ \E garbage \in KeyGarbage : key = [n \in Nodes |-> garbage]
    /\ built = {}
    /\ at = 0
    /\ phase = "init"
    /\ thread = [h \in Handlers |->
                    [pc |-> "idle", node |-> 0, left |-> NoHash, value |-> NoHash]]
    /\ writes = 0
    /\ proc = "running"

\* init_chunks_data: every chunk gets its data pointer and its hash.
InitChunks ==
    /\ phase = "init"
    /\ computed' = [n \in Nodes |-> IF IsLeaf(n) THEN data[ChunkOf(n)]
                                                 ELSE computed[n]]
    /\ phase' = "build"
    /\ UNCHANGED <<package, data, key, built, at, thread, writes, proc>>

\* mtree_from_lvlorder goes down, left child first.
BuildDown ==
    /\ phase = "build"
    /\ Internal(at)
    /\ \/ /\ Left(at) \notin built
          /\ at' = Left(at)
       \/ /\ Left(at) \in built
          /\ Right(at) \notin built
          /\ at' = Right(at)
    /\ UNCHANGED <<package, data, computed, key, built, phase, thread,
                   writes, proc>>

\* It returns from node at to the caller: the parent, or mtree_build.
BuildReturns ==
    /\ built' = built \union {at}
    /\ IF at = 0 THEN phase' = "loaded" /\ at' = at
                 ELSE at' = Parent(at) /\ phase' = phase

\* A leaf is hashed again.
BuildLeaf ==
    /\ phase = "build"
    /\ ~Internal(at)
    /\ IsLeaf(at)
    /\ computed' = [computed EXCEPT ![at] = data[ChunkOf(at)]]
    /\ BuildReturns
    /\ UNCHANGED <<package, data, key, thread, writes, proc>>

\* Not the code: the left child's hash goes in twice.
BuildInternalLeftTwice ==
    /\ phase = "build"
    /\ Internal(at)
    /\ {Left(at), Right(at)} \subseteq built
    /\ key' = [key EXCEPT ![at] =
                  IF IsLeaf(Left(at))
                  THEN <<ChunkOf(Left(at)), ChunkOf(Right(at))>>
                  ELSE <<key[Left(at)][1], key[Right(at)][2]>>]
    /\ computed' = [computed EXCEPT
                       ![at] = <<computed[Left(at)], computed[Left(at)]>>]
    /\ BuildReturns
    /\ UNCHANGED <<package, data, thread, writes, proc>>

\* Both children are there: the key range and the hash of an inner node.
BuildInternal ==
    /\ phase = "build"
    /\ Internal(at)
    /\ {Left(at), Right(at)} \subseteq built
    /\ key' = [key EXCEPT ![at] =
                  IF IsLeaf(Left(at))
                  THEN <<ChunkOf(Left(at)), ChunkOf(Right(at))>>
                  ELSE <<key[Left(at)][1], key[Right(at)][2]>>]
    /\ computed' = [computed EXCEPT
                       ![at] = <<computed[Left(at)], computed[Right(at)]>>]
    /\ BuildReturns
    /\ UNCHANGED <<package, data, thread, writes, proc>>

-----------------------------------------------------------------------------
(* RES packets: update_chunk_node and update_parent_hashes.                *)

\* Inside a critical section of the lock of its node.
Holds(h) == thread[h].pc \in {"hash", "left", "right", "store", "storing"}

LockFree(n) == \A h \in Handlers : Holds(h) => thread[h].node # n

\* Handler h goes on at pc, with node n; l and v are what it has read and made.
Goes(h, pc, n, l, v) ==
    thread' = [thread EXCEPT
                  ![h] = [pc |-> pc, node |-> n, left |-> l, value |-> v]]

\* A RES for (hash, size) with no such node among those searched: the
\* lookup's NULL is followed.
ReceiveUnknown(h) ==
    /\ phase = "loaded"
    /\ thread[h].pc = "idle"
    /\ \E hash \in {expected[n] : n \in Nodes} \union {UnknownHash} :
           bpkg_find_node_from_hash(hash, "CHUNK") = NoNode
    /\ proc' = "null_node"
    /\ UNCHANGED <<package, data, computed, tree, thread, writes>>

\* The hash of a chunk: update_chunk_node goes for the lock of its node.  (It
\* refuses the hash of an internal node: nothing happens.)
ReceiveChunk(h) ==
    /\ phase = "loaded"
    /\ thread[h].pc = "idle"
    /\ \E n \in Nodes :
           /\ bpkg_find_node_from_hash(expected[n], "CHUNK") = n
           /\ IsLeaf(n)
           /\ Goes(h, "lock", n, NoHash, NoHash)
    /\ UNCHANGED <<package, data, computed, tree, writes, proc>>

\* The copy of at least one byte goes to a page mapped for reading.
CopyFaults(h) ==
    /\ thread[h].pc = "lock"
    /\ LockFree(thread[h].node)
    /\ proc' = "readonly"
    /\ UNCHANGED <<package, data, computed, tree, thread, writes>>

\* A RES with size 0: nothing is copied.
CopyNothing(h) ==
    /\ thread[h].pc = "lock"
    /\ LockFree(thread[h].node)
    /\ Goes(h, "hash", thread[h].node, NoHash, NoHash)
    /\ UNCHANGED <<package, data, computed, tree, writes, proc>>

\* sha256_compute_chunk_hash reads the chunk.
HashChunk(h) ==
    /\ thread[h].pc = "hash"
    /\ Goes(h, "store", thread[h].node, NoHash, data[ChunkOf(thread[h].node)])
    /\ UNCHANGED <<package, data, computed, tree, writes, proc>>

\* computed_hash is overwritten in place: a reader in between sees both.
StoreBegins(h) ==
    LET n == thread[h].node
        v == thread[h].value
    IN  /\ thread[h].pc = "store"
        /\ computed' = [computed EXCEPT ![n] = IF @ = v THEN v ELSE Torn]
        /\ Goes(h, "storing", n, NoHash, v)
        /\ UNCHANGED <<package, data, tree, writes, proc>>

\* Not the code: update_parent_hashes goes on with its own argument.
StoreEndsAtChild(h) ==
    LET n == thread[h].node
    IN  /\ thread[h].pc = "storing"
        /\ computed' = [computed EXCEPT ![n] = thread[h].value]
        /\ Goes(h, "climb", IF Internal(n) THEN Left(n) ELSE n, NoHash, NoHash)
        /\ UNCHANGED <<package, data, tree, writes, proc>>

\* The hash is there and the lock released.
StoreEnds(h) ==
    LET n == thread[h].node
    IN  /\ thread[h].pc = "storing"
        /\ computed' = [computed EXCEPT ![n] = thread[h].value]
        /\ Goes(h, "climb", n, NoHash, NoHash)
        /\ UNCHANGED <<package, data, tree, writes, proc>>

\* Not the code: the hashes change one level up and no further.
ClimbOnce(h) ==
    LET p == Parent(thread[h].node)
    IN  /\ thread[h].pc = "climb"
        /\ thread[h].node # 0
        /\ IF IsLeaf(thread[h].node)
           THEN LockFree(p) /\ Goes(h, "left", p, NoHash, NoHash)
           ELSE Goes(h, "idle", 0, NoHash, NoHash)
        /\ UNCHANGED <<package, data, computed, tree, writes, proc>>

\* update_parent_hashes(node): the parent's lock is taken.
Climb(h) ==
    LET p == Parent(thread[h].node)
    IN  /\ thread[h].pc = "climb"
        /\ thread[h].node # 0
        /\ LockFree(p)
        /\ Goes(h, "left", p, NoHash, NoHash)
        /\ UNCHANGED <<package, data, computed, tree, writes, proc>>

\* The root's parent was never set.  If the memory was zero the update is
\* done ...
ClimbEnds(h) ==
    /\ thread[h].pc = "climb"
    /\ thread[h].node = 0
    /\ Goes(h, "idle", 0, NoHash, NoHash)
    /\ UNCHANGED <<package, data, computed, tree, writes, proc>>

\* ... if not, it is followed.
ClimbFaults(h) ==
    /\ thread[h].pc = "climb"
    /\ thread[h].node = 0
    /\ proc' = "wild_parent"
    /\ UNCHANGED <<package, data, computed, tree, thread, writes>>

\* sha256_compute_internal_hash reads the left child's hash, without its lock,
ReadLeft(h) ==
    /\ thread[h].pc = "left"
    /\ Goes(h, "right", thread[h].node, computed[Left(thread[h].node)], NoHash)
    /\ UNCHANGED <<package, data, computed, tree, writes, proc>>

\* then the right child's.
ReadRight(h) ==
    /\ thread[h].pc = "right"
    /\ Goes(h, "store", thread[h].node, NoHash,
               <<thread[h].left, computed[Right(thread[h].node)]>>)
    /\ UNCHANGED <<package, data, computed, tree, writes, proc>>

-----------------------------------------------------------------------------
\* Another process writes a chunk of the file.
FileWritten ==
    /\ writes < MaxWrites
    /\ \E c \in Chunks, v \in Contents : data' = [data EXCEPT ![c] = v]
    /\ writes' = writes + 1
    /\ UNCHANGED <<package, computed, tree, thread, proc>>

Load == InitChunks \/ BuildDown \/ BuildLeaf \/ BuildInternal

Receive(h) == ReceiveUnknown(h) \/ ReceiveChunk(h)

Update(h) ==
    \/ CopyFaults(h) \/ CopyNothing(h) \/ HashChunk(h)
    \/ StoreBegins(h) \/ StoreEnds(h)
    \/ Climb(h) \/ ClimbEnds(h) \/ ClimbFaults(h)
    \/ ReadLeft(h) \/ ReadRight(h)

Next ==
    /\ proc = "running"
    /\ \/ Load
       \/ FileWritten
       \/ \E h \in Handlers : Receive(h) \/ Update(h)

\* The loader and the handlers are scheduled; a lock that is free again and
\* again is got.
Fairness ==
    /\ WF_vars(proc = "running" /\ Load)
    /\ \A h \in Handlers : SF_vars(proc = "running" /\ Update(h))

Spec == Init /\ [][Next]_vars
FairSpec == Spec /\ Fairness

-----------------------------------------------------------------------------
(* Properties.                                                             *)

PCs == {"idle", "lock", "hash", "store", "storing", "climb", "left", "right"}

\* Types.  Hashes are what the hash operators make of each other and have no
\* type of their own.
TypeOK ==
    /\ nchunks \in 1 .. MaxChunks
    /\ DOMAIN computed = Nodes
    /\ DOMAIN key = Nodes
    /\ data \in [Chunks -> Contents]
    /\ built \subseteq Nodes
    /\ at \in Nodes
    /\ phase \in {"init", "build", "loaded"}
    /\ DOMAIN thread = Handlers
    /\ \A h \in Handlers : /\ thread[h].pc \in PCs
                           /\ thread[h].node \in Nodes
    /\ writes \in 0 .. MaxWrites

Settled == phase = "loaded" /\ \A h \in Handlers : thread[h].pc \in {"idle", "lock"}

HashesItsChildren(n) == computed[n] = <<computed[Left(n)], computed[Right(n)]>>

\* When no update is under way the tree is a Merkle tree: every internal node
\* has the hash of its children's hashes, although updates read children
\* without their locks and meet in common ancestors.
TreeSettles == Settled => \A n \in Nodes : Internal(n) => HashesItsChildren(n)

\* As long as nobody writes the file, a node is complete exactly if all data
\* below it are what the package was made from: what -chunk_check, PACKAGES
\* and send_res_pkts go by.
CompleteMeansCorrect ==
    phase = "loaded" /\ writes = 0 /\ Settled =>
        \A n \in Nodes :
            check_chunk(n) <=>
                \A i \in DOMAIN SubtreeChunks[n] :
                    LET c == ChunkOf(SubtreeChunks[n][i])
                    IN  data[c] = original[c]

LeavesOf(nodes) ==
    UNION {{SubtreeChunks[n][i] : i \in DOMAIN SubtreeChunks[n]} : n \in nodes}

\* The minimal set of complete hashes names complete nodes, each once, no chunk
\* is below two of them and no two could be replaced by their parent; it stands
\* for all complete chunks unless there may be more than a count can hold.
MinCompletedIsMinimal ==
    Settled =>
        LET nodes == {MinCompleted[i] : i \in DOMAIN MinCompleted}
        IN  /\ \A n \in nodes : check_chunk(n)
            /\ Len(MinCompleted) = Cardinality(nodes)
            /\ \A m, n \in nodes :
                   m # n => /\ LeavesOf({m}) \intersect LeavesOf({n}) = {}
                            /\ m # 0 /\ n # 0 => Parent(m) # Parent(n)
            /\ nchunks < CountLimit =>
                   LeavesOf(nodes) =
                       {CompletedChunks[i] : i \in DOMAIN CompletedChunks}

PowerOf2[d \in 0 .. MaxChunks + 1] == IF d = 0 THEN 1 ELSE 2 * PowerOf2[d - 1]

\* -hashes_of lists the chunks below the node that was asked for, also when
\* chunks are equal and the lookup finds another node with the same hash: in
\* file order if the tree is full, as merkle_test_2 expects.  With as many nodes
\* as a count has values or more, the node may not be found and the end of the
\* list may be missing, but nothing else is listed.
HashesOfSubtree ==
    phase = "init" => \A n \in Nodes :
        LET found == bpkg_find_node_from_hash(expected[n], "ALL")
            level == CHOOSE d \in 0 .. MaxChunks :
                         n + 1 \in PowerOf2[d] .. PowerOf2[d + 1] - 1
            width == nchunks \div PowerOf2[level]
            first == width * (n + 1 - PowerOf2[level])
        IN  /\ nnodes < CountLimit => found # NoNode
            /\ found # NoNode /\ (\E d \in 0 .. MaxChunks : nchunks = PowerOf2[d])
                   => bpkg_get_all_chunk_hashes_from_hash(expected[n])
                      = [i \in 1 .. uint16(width) |-> original[first + i - 1]]

\* A REQ for the first chunk, which has offset 0 and is looked up without it,
\* is answered from the first chunk, and from none as soon as there are as many
\* chunks as a count has values.
FirstChunkFound ==
    phase = "loaded" =>
        RequestedNode(original[0], 0) = IF nchunks < CountLimit THEN NodeOf(0)
                                                                ELSE NoNode

\* A chunk that is being updated is done, with all nodes above it, or the
\* process has ended.
UpdatesEnd ==
    \A h \in Handlers :
        thread[h].pc # "idle" ~> thread[h].pc = "idle" \/ proc # "running"

-----------------------------------------------------------------------------
(* What the documentation says.                                            *)

\* pkg_helper.h: bpkg_find_node_from_hash_offset finds a node by hash and
\* offset.  A REQ for a chunk at an offset other than 0 depends on it.
ChunkFoundByOffset ==
    phase = "loaded" =>
        \A c \in Chunks : RequestedNode(original[c], c) # NoNode

=============================================================================
