-------------------------- MODULE MerkleTree_proofs --------------------------
(***************************************************************************)
(* Proofs about MerkleTree, for every number of chunks, of contents and of *)
(* handlers: the types, that the tree settles, and what the queries over   *)
(* it then return.                                                         *)
(*                                                                         *)
(* Why it settles: whoever changes the hash of a node goes on to its       *)
(* parent and computes the parent's hash under the parent's lock.          *)
(* So an internal node that does not have the hash of its children has     *)
(* been announced a change (a handler is on its way from a child) or is    *)
(* being worked on; and what a handler read from a child without its lock  *)
(* is the child's hash still, or a change of it has been announced.        *)
(***************************************************************************)
EXTENDS MerkleTree, Division_proofs, FunctionTheorems, FiniteSetTheorems

\* The types that the proofs use, and the node a handler may be at.
TypeInv ==
    /\ nchunks \in 1 .. MaxChunks
    /\ DOMAIN computed = Nodes
    /\ DOMAIN key = Nodes
    /\ data \in [Chunks -> Contents]
    /\ built \subseteq Nodes
    /\ at \in Nodes
    /\ phase \in {"init", "build", "loaded"}
    /\ DOMAIN thread = Handlers
    /\ \A h \in Handlers : /\ thread[h].pc \in PCs
                           /\ thread[h].node \in Nodes
    /\ \A h \in Handlers : thread[h].pc \in {"lock", "hash"} => IsLeaf(thread[h].node)
    /\ \A h \in Handlers : thread[h].pc \in {"left", "right"} => Internal(thread[h].node)
    /\ writes \in 0 .. MaxWrites

\* h has changed the hash of n and has not come to the parent yet.
Announces(h, n) == thread[h].node = n /\ thread[h].pc \in {"storing", "climb"}

Announced(n) == \E h \in Handlers : Announces(h, Left(n)) \/ Announces(h, Right(n))

WorksOn(h, n) ==
    thread[h].node = n /\ thread[h].pc \in {"left", "right", "store", "storing"}

\* An internal node has the hash of its children, or somebody will see to it.
NodeInv ==
    \A n \in built : Internal(n) =>
        \/ HashesItsChildren(n)
        \/ Announced(n)
        \/ \E h \in Handlers : WorksOn(h, n)

\* What h read from the children is current, or a change is announced.
ReadCurrent(h) ==
    LET n == thread[h].node IN
    /\ thread[h].pc = "right" =>
           thread[h].left = computed[Left(n)] \/ Announced(n)
    /\ thread[h].pc \in {"store", "storing"} /\ Internal(n) =>
           \/ thread[h].value = <<computed[Left(n)], computed[Right(n)]>>
           \/ Announced(n)

ReadInv == \A h \in Handlers : ReadCurrent(h)

\* Nodes are built after their children, and the root last.
BuildInv ==
    /\ \A n \in built : Internal(n) => {Left(n), Right(n)} \subseteq built
    /\ phase = "init" => built = {} /\ at = 0
    /\ phase = "build" => at \notin built
    /\ phase = "loaded" => 0 \in built
    /\ phase # "loaded" => \A h \in Handlers : thread[h].pc = "idle"

TreeInv == TypeInv /\ NodeInv /\ ReadInv /\ BuildInv

-----------------------------------------------------------------------------
\* The heap: parents and children.
LEMMA Heap ==
    ASSUME nchunks \in Nat \ {0}
    PROVE  /\ \A n \in Nodes : Parent(Left(n)) = n /\ Parent(Right(n)) = n
           /\ \A n \in Nodes : Left(n) # 0 /\ Right(n) # 0
           /\ \A n \in Nodes : Left(n) # n /\ Right(n) # n /\ Left(n) # Right(n)
           /\ \A n \in Nodes \ {0} :
                  /\ Parent(n) \in Nodes
                  /\ Parent(n) < n
                  /\ Internal(Parent(n))
                  /\ n \in {Left(Parent(n)), Right(Parent(n))}
           /\ \A n \in Nodes : Internal(n) => Left(n) \in Nodes /\ Right(n) \in Nodes
           /\ \A n \in Nodes : IsLeaf(n) <=> ~Internal(n)
           /\ 0 \in Nodes
           /\ Nodes \subseteq Nat
<1> USE DEF Nodes, nnodes, nhashes, Left, Right, Parent, Internal, IsLeaf
<1>1. \A n \in Nodes : Parent(Left(n)) = n /\ Parent(Right(n)) = n
  OBVIOUS
<1>2. \A n \in Nodes \ {0} :
          /\ Parent(n) \in Nodes
          /\ Parent(n) < n
          /\ Internal(Parent(n))
          /\ n \in {Left(Parent(n)), Right(Parent(n))}
  <2> SUFFICES ASSUME NEW n \in Nodes \ {0}
               PROVE  /\ Parent(n) \in Nodes
                      /\ Parent(n) < n
                      /\ Internal(Parent(n))
                      /\ n \in {Left(Parent(n)), Right(Parent(n))}
    OBVIOUS
  <2>1. n - 1 \in Nat
    OBVIOUS
  <2>2. \A m \in Nat : m \div 2 \in Nat /\ m - 2 * (m \div 2) \in {0, 1}
    OBVIOUS
  <2>3. PICK k \in Nat : k = Parent(n) /\ (n = 2 * k + 1 \/ n = 2 * k + 2)
    BY <2>1, <2>2
  <2> QED
    BY <2>3
<1> QED
  BY <1>1, <1>2

\* When the root is built, everything is.
LEMMA AllBuilt ==
    ASSUME TypeInv, BuildInv, 0 \in built
    PROVE  built = Nodes
<1>0. nchunks \in Nat \ {0}
  BY DEF TypeInv
<1> SUFFICES ASSUME Nodes \ built # {}
             PROVE  FALSE
  BY DEF TypeInv
<1>1. Nodes \ built \subseteq Nat
  BY <1>0, Heap
<1>2. PICK m \in Nodes \ built : \A k \in Nodes \ built : m <= k
  BY <1>1, LeastElement
<1>3. m \in Nodes \ {0}
  BY <1>2
<1>4. Parent(m) \in Nodes /\ Parent(m) < m
  BY <1>0, <1>3, Heap
<1>5. Parent(m) \in built
  BY <1>1, <1>2, <1>4, <1>0, Heap
<1>6. Internal(Parent(m)) /\ m \in {Left(Parent(m)), Right(Parent(m))}
  BY <1>0, <1>3, Heap
<1> QED
  BY <1>2, <1>5, <1>6 DEF BuildInv

-----------------------------------------------------------------------------
\* The shape of the tree does not change.
LEMMA SameShape ==
    ASSUME UNCHANGED nchunks
    PROVE  /\ Nodes' = Nodes
           /\ Chunks' = Chunks
           /\ \A n : Internal(n)' = Internal(n) /\ IsLeaf(n)' = IsLeaf(n)
BY DEF Nodes, Chunks, nnodes, nhashes, Internal, IsLeaf

LEMMA InitTree == Init => TreeInv
<1> SUFFICES ASSUME Init
             PROVE  TreeInv
  OBVIOUS
<1>1. nchunks \in Nat \ {0}
  BY TreeAssumption DEF Init
<1>2. TypeInv
  BY <1>1, Heap, TreeAssumption DEF TypeInv, Init, PCs
<1>3. NodeInv /\ ReadInv /\ BuildInv
  BY DEF Init, NodeInv, ReadInv, ReadCurrent, BuildInv
<1> QED
  BY <1>2, <1>3 DEF TreeInv

LEMMA TypeStep ==
    ASSUME TypeInv, [Next]_vars
    PROVE  TypeInv'
<1>0. nchunks \in Nat \ {0}
  BY DEF TypeInv
<1>h. /\ \A n \in Nodes \ {0} : Parent(n) \in Nodes /\ Internal(Parent(n))
      /\ \A n \in Nodes : Internal(n) => Left(n) \in Nodes /\ Right(n) \in Nodes
      /\ 0 \in Nodes
  BY <1>0, Heap
<1>s. ASSUME UNCHANGED nchunks
      PROVE  /\ Nodes' = Nodes
             /\ Chunks' = Chunks
             /\ \A n \in Nodes : Internal(n)' = Internal(n) /\ IsLeaf(n)' = IsLeaf(n)
  BY <1>s, SameShape
<1> USE DEF TypeInv, package, tree
<1>1. CASE InitChunks
  BY <1>1, <1>s DEF InitChunks
<1>2. CASE BuildDown
  BY <1>2, <1>h, <1>s DEF BuildDown
<1>3. CASE BuildLeaf
  BY <1>3, <1>h, <1>s DEF BuildLeaf, BuildReturns
<1>4. CASE BuildInternal
  BY <1>4, <1>h, <1>s DEF BuildInternal, BuildReturns
<1>5. CASE FileWritten
  <2>1. writes' \in 0 .. MaxWrites
    BY <1>5, TreeAssumption DEF FileWritten
  <2>2. data' \in [Chunks -> Contents]
    BY <1>5 DEF FileWritten
  <2> QED
    BY <1>5, <1>s, <2>1, <2>2 DEF FileWritten
<1>6. ASSUME NEW h \in Handlers, Receive(h)
      PROVE  TypeInv'
  BY <1>6, <1>s DEF Receive, ReceiveUnknown, ReceiveChunk, Goes, PCs
<1>7. ASSUME NEW h \in Handlers, Update(h)
      PROVE  TypeInv'
  <2>1. CASE CopyFaults(h) \/ ClimbFaults(h)
    BY <2>1, <1>s DEF CopyFaults, ClimbFaults
  <2>2. CASE CopyNothing(h)
    BY <2>2, <1>s DEF CopyNothing, Goes, PCs
  <2>3. CASE HashChunk(h)
    BY <2>3, <1>s DEF HashChunk, Goes, PCs
  <2>4. CASE StoreBegins(h)
    BY <2>4, <1>s DEF StoreBegins, Goes, PCs
  <2>5. CASE StoreEnds(h)
    BY <2>5, <1>s DEF StoreEnds, Goes, PCs
  <2>6. CASE Climb(h)
    BY <2>6, <1>h, <1>s DEF Climb, Goes, PCs
  <2>7. CASE ClimbEnds(h)
    BY <2>7, <1>h, <1>s DEF ClimbEnds, Goes, PCs
  <2>8. CASE ReadLeft(h)
    BY <2>8, <1>s DEF ReadLeft, Goes, PCs
  <2>9. CASE ReadRight(h)
    BY <2>9, <1>s DEF ReadRight, Goes, PCs
  <2> QED
    BY <1>7, <2>1, <2>2, <2>3, <2>4, <2>5, <2>6, <2>7, <2>8, <2>9 DEF Update
<1>8. CASE UNCHANGED vars
  BY <1>8, <1>s DEF vars
<1> QED
  BY <1>1, <1>2, <1>3, <1>4, <1>5, <1>6, <1>7, <1>8 DEF Next, Load

-----------------------------------------------------------------------------
LEMMA BuildStep ==
    ASSUME TreeInv, [Next]_vars
    PROVE  BuildInv'
<1>0. nchunks \in Nat \ {0} /\ TypeInv /\ BuildInv
  BY DEF TreeInv, TypeInv
<1>h. /\ \A n \in Nodes : Parent(Left(n)) = n /\ Parent(Right(n)) = n
      /\ \A n \in Nodes : Left(n) # 0 /\ Right(n) # 0
      /\ \A n \in Nodes \ {0} :
             /\ Parent(n) \in Nodes
             /\ Parent(n) # n
             /\ Internal(Parent(n))
             /\ n \in {Left(Parent(n)), Right(Parent(n))}
      /\ \A n \in Nodes : IsLeaf(n) <=> ~Internal(n)
  BY <1>0, Heap
<1>s. ASSUME UNCHANGED nchunks
      PROVE  \A n : Internal(n)' = Internal(n)
  BY <1>s, SameShape
<1> USE DEF BuildInv, package, tree
<1>1. CASE InitChunks
  BY <1>0, <1>1, <1>s DEF InitChunks
<1>2. CASE BuildDown
  BY <1>0, <1>2, <1>s DEF BuildDown
<1>3. CASE BuildLeaf \/ BuildInternal
  <2>1. /\ built' = built \union {at}
        /\ at \notin built
        /\ at \in Nodes
        /\ built \subseteq Nodes
        /\ UNCHANGED <<nchunks, thread>>
        /\ phase = "build"
    BY <1>0, <1>3 DEF BuildLeaf, BuildInternal, BuildReturns, TypeInv
  <2>2. Internal(at) => {Left(at), Right(at)} \subseteq built
    BY <1>3 DEF BuildLeaf, BuildInternal
  <2>3. /\ at = 0 => phase' = "loaded"
        /\ at # 0 => phase' = "build" /\ at' = Parent(at)
    BY <1>3, <2>1 DEF BuildLeaf, BuildInternal, BuildReturns
  <2>4. at # 0 => Parent(at) \notin built'
    BY <1>0, <1>h, <2>1
  <2> QED
    BY <1>0, <1>s, <2>1, <2>2, <2>3, <2>4
<1>4. CASE FileWritten
  BY <1>0, <1>4, <1>s DEF FileWritten
<1>5. ASSUME NEW h \in Handlers, Receive(h) \/ Update(h)
      PROVE  BuildInv'
  <2>1. phase = "loaded"
    BY <1>0, <1>5 DEF Receive, ReceiveUnknown, ReceiveChunk, Update, CopyFaults,
       CopyNothing, HashChunk, StoreBegins, StoreEnds, Climb, ClimbEnds,
       ClimbFaults, ReadLeft, ReadRight
  <2>2. UNCHANGED <<nchunks, built, at, phase>>
    BY <1>5 DEF Receive, ReceiveUnknown, ReceiveChunk, Update, CopyFaults,
       CopyNothing, HashChunk, StoreBegins, StoreEnds, Climb, ClimbEnds,
       ClimbFaults, ReadLeft, ReadRight
  <2> QED
    BY <1>0, <1>s, <2>1, <2>2
<1>6. CASE UNCHANGED vars
  BY <1>0, <1>6, <1>s DEF vars
<1> QED
  BY <1>1, <1>2, <1>3, <1>4, <1>5, <1>6 DEF Next, Load

\* Steps that leave hashes and handlers alone.
LEMMA QuietStep ==
    ASSUME NodeInv, ReadInv, UNCHANGED <<nchunks, computed, thread, built>>
    PROVE  NodeInv' /\ ReadInv'
<1>1. \A n : Internal(n)' = Internal(n)
  BY SameShape
<1> QED
  BY <1>1 DEF NodeInv, ReadInv, ReadCurrent, HashesItsChildren, Announced, Announces, WorksOn

\* Steps of the loader: no handler is at work.
LEMMA LoadStep ==
    ASSUME TreeInv, BuildLeaf \/ BuildInternal
    PROVE  NodeInv' /\ ReadInv'
<1>0. nchunks \in Nat \ {0} /\ TypeInv /\ BuildInv /\ NodeInv
  BY DEF TreeInv, TypeInv
<1>1. /\ built' = built \union {at}
      /\ at \notin built
      /\ at \in Nodes
      /\ built \subseteq Nodes
      /\ UNCHANGED <<nchunks, thread>>
      /\ \A h \in Handlers : thread[h].pc = "idle"
      /\ DOMAIN computed = Nodes
  BY <1>0 DEF BuildLeaf, BuildInternal, BuildReturns, TypeInv, BuildInv, package
<1>2. \A n : Internal(n)' = Internal(n)
  BY <1>1, SameShape
<1>3. \A n \in Nodes \ {at} : computed'[n] = computed[n]
  BY <1>1 DEF BuildLeaf, BuildInternal
<1>4. ASSUME NEW n \in built, Internal(n)
      PROVE  HashesItsChildren(n)'
  <2>1. HashesItsChildren(n)
    BY <1>0, <1>1, <1>4 DEF NodeInv, Announced, Announces, WorksOn
  <2>2. Left(n) \in built /\ Right(n) \in built
    BY <1>0, <1>4 DEF BuildInv
  <2> QED
    BY <1>1, <1>3, <1>4, <2>1, <2>2 DEF HashesItsChildren
<1>5. ASSUME NEW n, n = at, Internal(n)
      PROVE  HashesItsChildren(n)'
  <2>1. BuildInternal
    BY <1>5 DEF BuildLeaf
  <2>2. Left(n) # n /\ Right(n) # n /\ Left(n) \in Nodes /\ Right(n) \in Nodes
    BY <1>0, <1>1, <1>5, Heap
  <2>3. computed'[n] = <<computed[Left(n)], computed[Right(n)]>>
    BY <1>1, <1>5, <2>1 DEF BuildInternal
  <2>4. computed'[Left(n)] = computed[Left(n)] /\ computed'[Right(n)] = computed[Right(n)]
    BY <1>3, <1>5, <2>2
  <2> QED
    BY <2>3, <2>4 DEF HashesItsChildren
<1>6. NodeInv'
  BY <1>1, <1>2, <1>4, <1>5 DEF NodeInv
<1>7. ReadInv'
  BY <1>1 DEF ReadInv, ReadCurrent
<1> QED
  BY <1>6, <1>7

\* Steps of a handler that leave the hashes and what it has announced alone.
LEMMA ReadingStep ==
    ASSUME NodeInv, ReadInv,
           NEW h \in Handlers,
           UNCHANGED <<nchunks, computed, built>>,
           \A g \in Handlers \ {h} : thread'[g] = thread[g],
           \A n \in Nodes : (\/ Announces(h, Left(n))
                             \/ Announces(h, Right(n))) => Announced(n)',
           \A n \in Nodes : WorksOn(h, n) => WorksOn(h, n)',
           ReadCurrent(h)',
           \A g \in Handlers : thread[g].node \in Nodes,
           built \subseteq Nodes
    PROVE  NodeInv' /\ ReadInv'
<1>1. \A n : Internal(n)' = Internal(n)
  BY SameShape
<1>2. ASSUME NEW n \in Nodes, Announced(n)
      PROVE  Announced(n)'
  <2>1. PICK g \in Handlers : Announces(g, Left(n)) \/ Announces(g, Right(n))
    BY <1>2 DEF Announced
  <2>2. CASE g = h
    BY <2>1, <2>2
  <2>3. CASE g # h
    BY <2>1, <2>3 DEF Announced, Announces
  <2> QED
    BY <2>2, <2>3
<1>3. ASSUME NEW n \in Nodes, NEW g \in Handlers, WorksOn(g, n)
      PROVE  WorksOn(g, n)'
  BY <1>3 DEF WorksOn
<1>4. ASSUME NEW n
      PROVE  HashesItsChildren(n)' = HashesItsChildren(n)
  BY DEF HashesItsChildren
<1>5. NodeInv'
  BY <1>1, <1>2, <1>3, <1>4 DEF NodeInv
<1>6. ASSUME NEW g \in Handlers \ {h}
      PROVE  ReadCurrent(g)'
  <2>1. ReadCurrent(g)
    BY DEF ReadInv
  <2>2. thread'[g] = thread[g] /\ thread[g].node \in Nodes
    OBVIOUS
  <2> QED
    BY <1>1, <1>2, <2>1, <2>2 DEF ReadCurrent
<1> QED
  BY <1>5, <1>6 DEF ReadInv

\* Steps that write the hash of the node a handler works on: its parent is
\* announced the change.
LEMMA WritingStep ==
    ASSUME TypeInv, NodeInv, ReadInv,
           NEW h \in Handlers,
           StoreBegins(h) \/ StoreEnds(h)
    PROVE  NodeInv' /\ ReadInv'
<1> DEFINE at_h == thread[h].node
<1>0. /\ nchunks \in Nat \ {0}
      /\ \A g \in Handlers : thread[g].node \in Nodes
      /\ built \subseteq Nodes
      /\ DOMAIN computed = Nodes
      /\ DOMAIN thread = Handlers
  BY DEF TypeInv
<1>h. /\ \A n \in Nodes : Left(n) # n /\ Right(n) # n
      /\ \A n \in Nodes : Internal(n) => Left(n) \in Nodes /\ Right(n) \in Nodes
  BY <1>0, Heap
<1>1. /\ UNCHANGED <<nchunks, built>>
      /\ \A n \in Nodes \ {thread[h].node} : computed'[n] = computed[n]
      /\ \A g \in Handlers \ {h} : thread'[g] = thread[g]
      /\ thread'[h].node = thread[h].node
      /\ thread[h].pc \in {"store", "storing"}
      /\ thread'[h].pc \in {"storing", "climb"}
  BY <1>0 DEF StoreBegins, StoreEnds, Goes, package, tree
<1>2. \A n : Internal(n)' = Internal(n)
  BY <1>1, SameShape
<1>3. \A n : thread[h].node \in {Left(n), Right(n)} => Announced(n)'
  BY <1>1 DEF Announced, Announces
<1>4. ASSUME NEW n \in Nodes, Announced(n)
      PROVE  Announced(n)'
  <2>1. PICK g \in Handlers : Announces(g, Left(n)) \/ Announces(g, Right(n))
    BY <1>4 DEF Announced
  <2>2. Announces(g, Left(n))' \/ Announces(g, Right(n))'
    BY <1>1, <2>1 DEF Announces
  <2> QED
    BY <2>2 DEF Announced
\* The children of n are as they were, or n is announced a change.
<1>5. ASSUME NEW n \in Nodes, Internal(n)
      PROVE  \/ Announced(n)'
             \/ /\ computed'[Left(n)] = computed[Left(n)]
                /\ computed'[Right(n)] = computed[Right(n)]
  BY <1>h, <1>1, <1>3, <1>5
<1>6. ASSUME NEW n \in built, Internal(n), n # thread[h].node
      PROVE  \/ HashesItsChildren(n)'
             \/ Announced(n)'
             \/ \E g \in Handlers : WorksOn(g, n)'
  <2>1. n \in Nodes
    BY <1>0
  <2>2. CASE HashesItsChildren(n)
    BY <1>1, <1>5, <1>6, <2>1, <2>2 DEF HashesItsChildren
  <2>3. CASE Announced(n)
    BY <1>4, <2>1, <2>3
  <2>4. CASE \E g \in Handlers : WorksOn(g, n)
    BY <1>1, <1>6, <2>4 DEF WorksOn
  <2> QED
    BY <1>6, <2>2, <2>3, <2>4 DEF NodeInv
\* The node itself.
<1>7. ASSUME NEW n \in built, Internal(n), n = thread[h].node
      PROVE  \/ HashesItsChildren(n)'
             \/ Announced(n)'
             \/ \E g \in Handlers : WorksOn(g, n)'
  <2>0. n \in Nodes
    BY <1>0
  <2>1. CASE StoreBegins(h)
    <3>1. thread'[h].pc = "storing"
      BY <1>0, <2>1 DEF StoreBegins, Goes
    <3> QED
      BY <1>1, <1>7, <3>1 DEF WorksOn
  <2>2. CASE StoreEnds(h)
    <3>1. computed'[n] = thread[h].value
      BY <1>0, <1>7, <2>0, <2>2 DEF StoreEnds
    <3>2. \/ thread[h].value = <<computed[Left(n)], computed[Right(n)]>>
          \/ Announced(n)
      BY <1>1, <1>7 DEF ReadInv, ReadCurrent
    <3> QED
      BY <1>4, <1>5, <1>7, <2>0, <3>1, <3>2 DEF HashesItsChildren
  <2> QED
    BY <2>1, <2>2
<1>8. NodeInv'
  BY <1>1, <1>2, <1>6, <1>7 DEF NodeInv
<1>9. ASSUME NEW g \in Handlers \ {h}
      PROVE  ReadCurrent(g)'
  <2>1. ReadCurrent(g) /\ thread'[g] = thread[g] /\ thread[g].node \in Nodes
    BY <1>0, <1>1 DEF ReadInv
  <2>2. thread[g].pc = "right" => Internal(thread[g].node)
    BY DEF TypeInv
  <2> QED
    BY <1>2, <1>4, <1>5, <2>1, <2>2 DEF ReadCurrent
<1>10. ReadCurrent(h)'
  <2>1. CASE StoreBegins(h)
    <3>1. thread'[h].pc = "storing" /\ thread'[h].value = thread[h].value
      BY <1>0, <2>1 DEF StoreBegins, Goes
    <3>2. ReadCurrent(h) /\ thread[h].node \in Nodes
      BY <1>0 DEF ReadInv
    <3> QED
      BY <1>1, <1>2, <1>4, <1>5, <3>1, <3>2 DEF ReadCurrent
  <2>2. CASE StoreEnds(h)
    <3>1. thread'[h].pc = "climb"
      BY <1>0, <2>2 DEF StoreEnds, Goes
    <3> QED
      BY <3>1 DEF ReadCurrent
  <2> QED
    BY <2>1, <2>2
<1> QED
  BY <1>8, <1>9, <1>10 DEF ReadInv

\* A handler arrives at the parent: it works on what it had announced, and
\* nobody else holds the lock of the parent who could still rely on it.
LEMMA ClimbingStep ==
    ASSUME TypeInv, NodeInv, ReadInv,
           NEW h \in Handlers,
           Climb(h)
    PROVE  NodeInv' /\ ReadInv'
<1>0. /\ nchunks \in Nat \ {0}
      /\ \A g \in Handlers : thread[g].node \in Nodes
      /\ built \subseteq Nodes
      /\ DOMAIN thread = Handlers
  BY DEF TypeInv
<1>h. \A n \in Nodes : Parent(Left(n)) = n /\ Parent(Right(n)) = n
  BY <1>0, Heap
<1>1. PICK p : p = Parent(thread[h].node)
  OBVIOUS
<1>2. /\ UNCHANGED <<nchunks, computed, built>>
      /\ \A g \in Handlers \ {h} : thread'[g] = thread[g]
      /\ thread[h].pc = "climb"
      /\ thread'[h].node = p
      /\ thread'[h].pc = "left"
      /\ \A g \in Handlers : Holds(g) => thread[g].node # p
  BY <1>0, <1>1 DEF Climb, Goes, LockFree, package, tree
<1>3. \A n : Internal(n)' = Internal(n)
  BY <1>2, SameShape
<1>4. ASSUME NEW n \in Nodes, n # p, Announced(n)
      PROVE  Announced(n)'
  <2>1. PICK g \in Handlers : Announces(g, Left(n)) \/ Announces(g, Right(n))
    BY <1>4 DEF Announced
  <2>2. g # h
    BY <1>1, <1>4, <1>h, <2>1 DEF Announces
  <2> QED
    BY <1>2, <2>1, <2>2 DEF Announced, Announces
<1>5. ASSUME NEW n
      PROVE  HashesItsChildren(n)' = HashesItsChildren(n)
  BY <1>2 DEF HashesItsChildren
<1>6. WorksOn(h, p)'
  BY <1>2 DEF WorksOn
<1>7. ASSUME NEW n, NEW g \in Handlers, WorksOn(g, n)
      PROVE  WorksOn(g, n)'
  BY <1>2, <1>7 DEF WorksOn
<1>8. NodeInv'
  BY <1>0, <1>2, <1>3, <1>4, <1>5, <1>6, <1>7 DEF NodeInv
<1>9. ASSUME NEW g \in Handlers \ {h}
      PROVE  ReadCurrent(g)'
  <2>1. ReadCurrent(g) /\ thread'[g] = thread[g] /\ thread[g].node \in Nodes
    BY <1>0, <1>2 DEF ReadInv
  <2>2. thread[g].pc \in {"right", "store", "storing"} => thread[g].node # p
    BY <1>2 DEF Holds
  <2> QED
    BY <1>2, <1>3, <1>4, <2>1, <2>2 DEF ReadCurrent
<1>10. ReadCurrent(h)'
  BY <1>2 DEF ReadCurrent
<1> QED
  BY <1>8, <1>9, <1>10 DEF ReadInv

\* The other steps of a handler.
LEMMA HandlerStep ==
    ASSUME TreeInv, NEW h \in Handlers, Receive(h) \/ Update(h)
    PROVE  NodeInv' /\ ReadInv'
<1>0. /\ TypeInv /\ NodeInv /\ ReadInv
      /\ nchunks \in Nat \ {0}
      /\ \A g \in Handlers : thread[g].node \in Nodes
      /\ built \subseteq Nodes
      /\ DOMAIN thread = Handlers
  BY DEF TreeInv, TypeInv
<1>h. \A n \in Nodes : /\ Left(n) # 0 /\ Right(n) # 0
                       /\ IsLeaf(n) <=> ~Internal(n)
  BY <1>0, Heap
<1>1. CASE ReceiveUnknown(h) \/ CopyFaults(h) \/ ClimbFaults(h)
  <2>1. UNCHANGED <<nchunks, computed, thread, built>>
    BY <1>1 DEF ReceiveUnknown, CopyFaults, ClimbFaults, package, tree
  <2> QED
    BY <1>0, <2>1, QuietStep
<1>2. CASE StoreBegins(h) \/ StoreEnds(h)
  BY <1>0, <1>2, WritingStep
<1>3. CASE Climb(h)
  BY <1>0, <1>3, ClimbingStep
<1>4. CASE \/ ReceiveChunk(h) \/ CopyNothing(h) \/ HashChunk(h)
           \/ ClimbEnds(h) \/ ReadLeft(h) \/ ReadRight(h)
  <2>1. /\ UNCHANGED <<nchunks, computed, built>>
        /\ \A g \in Handlers \ {h} : thread'[g] = thread[g]
    BY <1>0, <1>4 DEF ReceiveChunk, CopyNothing, HashChunk, ClimbEnds,
       ReadLeft, ReadRight, Goes, package, tree
  \* What h announces is of the root, which is nobody's child.
  <2>2. ASSUME NEW n \in Nodes, Announces(h, Left(n)) \/ Announces(h, Right(n))
        PROVE  Announced(n)'
    <3>1. thread[h].pc \in {"storing", "climb"} /\ thread[h].node # 0
      BY <1>h, <2>2 DEF Announces
    <3> QED
      BY <1>4, <3>1 DEF ReceiveChunk, CopyNothing, HashChunk, ClimbEnds,
         ReadLeft, ReadRight
  <2>3. ASSUME NEW n \in Nodes, WorksOn(h, n)
        PROVE  WorksOn(h, n)'
    BY <1>0, <1>4, <2>3 DEF WorksOn, ReceiveChunk, CopyNothing, HashChunk,
       ClimbEnds, ReadLeft, ReadRight, Goes
  <2>4. ReadCurrent(h)'
    <3>n. PICK n \in Nodes : n = thread[h].node
      BY <1>0
    <3>i. \A m : Internal(m)' = Internal(m)
      BY <2>1, SameShape
    <3>1. CASE ReceiveChunk(h) \/ CopyNothing(h) \/ ClimbEnds(h)
      <4>1. thread'[h].pc \in {"lock", "hash", "idle"}
        BY <1>0, <3>1 DEF ReceiveChunk, CopyNothing, ClimbEnds, Goes
      <4> QED
        BY <4>1 DEF ReadCurrent
    <3>2. CASE HashChunk(h)
      <4>1. /\ thread'[h].pc = "store" /\ thread'[h].node = n
            /\ ~Internal(n)
        BY <1>0, <1>h, <3>n, <3>2 DEF HashChunk, Goes, TypeInv
      <4> QED
        BY <3>i, <4>1 DEF ReadCurrent
    <3>3. CASE ReadLeft(h)
      <4>1. /\ thread'[h].pc = "right" /\ thread'[h].node = n
            /\ thread'[h].left = computed[Left(n)]
        BY <1>0, <3>n, <3>3 DEF ReadLeft, Goes
      <4> QED
        BY <2>1, <4>1 DEF ReadCurrent
    <3>4. CASE ReadRight(h)
      <4>1. /\ thread[h].pc = "right"
            /\ thread'[h].pc = "store" /\ thread'[h].node = n
            /\ thread'[h].value = <<thread[h].left, computed[Right(n)]>>
        BY <1>0, <3>n, <3>4 DEF ReadRight, Goes
      <4>2. thread[h].left = computed[Left(n)] \/ Announced(n)
        BY <1>0, <3>n, <4>1 DEF ReadInv, ReadCurrent
      <4>3. Announced(n) => Announced(n)'
        BY <2>1, <2>2 DEF Announced, Announces
      <4> QED
        BY <2>1, <4>1, <4>2, <4>3 DEF ReadCurrent
    <3> QED
      BY <1>4, <3>1, <3>2, <3>3, <3>4
  <2> QED
    BY <1>0, <2>1, <2>2, <2>3, <2>4, ReadingStep
<1> QED
  BY <1>1, <1>2, <1>3, <1>4 DEF Receive, Update

LEMMA TreeStep ==
    ASSUME TreeInv, [Next]_vars
    PROVE  TreeInv'
<1>0. TypeInv /\ NodeInv /\ ReadInv /\ BuildInv
  BY DEF TreeInv
<1>1. TypeInv' /\ BuildInv'
  BY <1>0, TypeStep, BuildStep
<1>2. CASE InitChunks
  <2>1. built' = {} /\ \A h \in Handlers : thread'[h].pc = "idle"
    BY <1>0, <1>2 DEF InitChunks, BuildInv
  <2> QED
    BY <1>1, <2>1 DEF TreeInv, NodeInv, ReadInv, ReadCurrent
<1>3. CASE BuildLeaf \/ BuildInternal
  BY <1>1, <1>3, LoadStep DEF TreeInv
<1>4. CASE BuildDown \/ FileWritten \/ UNCHANGED vars
  <2>1. UNCHANGED <<nchunks, computed, thread, built>>
    BY <1>4 DEF BuildDown, FileWritten, vars, package, tree
  <2> QED
    BY <1>0, <1>1, <2>1, QuietStep DEF TreeInv
<1>5. ASSUME NEW h \in Handlers, Receive(h) \/ Update(h)
      PROVE  TreeInv'
  BY <1>1, <1>5, HandlerStep DEF TreeInv
<1> QED
  BY <1>2, <1>3, <1>4, <1>5 DEF Next, Load

LEMMA TreeInvariant == Spec => []TreeInv
<1>1. Init => TreeInv
  BY InitTree
<1>2. TreeInv /\ [Next]_vars => TreeInv'
  BY TreeStep
<1> QED
  BY <1>1, <1>2, PTL DEF Spec

\* In a tree that has settled nobody is on the way to a node or at work on it.
LEMMA SettledHashes ==
    ASSUME TreeInv, Settled
    PROVE  \A n \in Nodes : Internal(n) => HashesItsChildren(n)
<1> SUFFICES ASSUME NEW n \in Nodes, Internal(n)
             PROVE  HashesItsChildren(n)
  OBVIOUS
<1>1. n \in built
  BY AllBuilt DEF TreeInv, BuildInv, Settled
<1>2. ~Announced(n) /\ \A h \in Handlers : ~WorksOn(h, n)
  BY DEF Settled, Announced, Announces, WorksOn
<1> QED
  BY <1>1, <1>2 DEF TreeInv, NodeInv

-----------------------------------------------------------------------------
(***************************************************************************)
(* Theorem.  Types: the positions that loading, updates and climbing to    *)
(* the parent (mtree_from_lvlorder, update_parent_hashes) go through stay  *)
(* inside mtree->nodes, for every number of chunks.                        *)
(***************************************************************************)
THEOREM TreeTypes == Spec => []TypeOK
<1>1. TreeInv => TypeOK
  BY DEF TreeInv, TypeInv, TypeOK
<1> QED
  BY <1>1, TreeInvariant, PTL

(***************************************************************************)
(* Theorem.  When no update is under way every internal node has the hash  *)
(* of its children's hashes, for any number of handlers whose updates have *)
(* met in common ancestors (update_chunk_node, update_parent_hashes).      *)
(***************************************************************************)
THEOREM TreeAlwaysSettles == Spec => []TreeSettles
<1>1. TreeInv => TreeSettles
  BY SettledHashes DEF TreeSettles
<1> QED
  BY <1>1, TreeInvariant, PTL

-----------------------------------------------------------------------------
(* Recursive functions over the heap.  That they are what their equations    *)
(* say has to be shown: by the greatest node below which that fails.         *)

\* Arithmetic of a heap with m leaves.
LEMMA HeapAbove ==
    ASSUME NEW m \in Nat \ {0}, NEW a \in 0 .. 2 * m - 2, a < m - 1
    PROVE  Left(a) \in a + 1 .. 2 * m - 2 /\ Right(a) \in a + 1 .. 2 * m - 2
BY DEF Left, Right

\* Hashes of the nodes from a on.
HashesFrom(g, m, content, a) ==
    g = [n \in a .. 2 * m - 2 |->
            IF n >= m - 1 THEN content[n - (m - 1)]
                          ELSE <<g[Left(n)], g[Right(n)]>>]

LEMMA HashesExist ==
    ASSUME NEW m \in Nat \ {0}, NEW content
    PROVE  \E g : HashesFrom(g, m, content, 0)
<1> DEFINE last == 2 * m - 2
           S == {i \in 0 .. last : ~ \E g : HashesFrom(g, m, content, last - i)}
<1>0. last \in Nat /\ S \subseteq Nat /\ last >= m - 1
  OBVIOUS
<1>1. S = {}
  <2> SUFFICES ASSUME S # {} PROVE FALSE
    OBVIOUS
  <2>1. PICK i \in S : \A k \in S : i <= k
    <3> HIDE DEF S
    <3> QED
      BY <1>0, LeastElement
  <2> DEFINE a == last - i
  <2>2. i \in 0 .. last /\ a \in 0 .. last /\ ~ \E g : HashesFrom(g, m, content, a)
    BY <1>0, <2>1
  <2>3. CASE i = 0
    <3> DEFINE g == [n \in last .. last |-> content[n - (m - 1)]]
    <3>1. a = last /\ \A n \in last .. last : n >= m - 1
      BY <1>0, <2>3
    <3>2. HashesFrom(g, m, content, last)
      BY <3>1 DEF HashesFrom
    <3> HIDE DEF g
    <3> QED
      BY <2>2, <3>1, <3>2
  <2>4. CASE i # 0
    <3>1. i - 1 \in 0 .. last /\ last - (i - 1) = a + 1 /\ ~(i <= i - 1)
      BY <1>0, <2>2, <2>4
    <3>2. i - 1 \notin S
      BY <2>1, <3>1
    <3>3. PICK g : HashesFrom(g, m, content, a + 1)
      BY <3>1, <3>2
    <3> HIDE DEF a
    <3> DEFINE v == [n \in a .. last |->
                       IF n # a THEN g[n]
                       ELSE IF a >= m - 1 THEN content[a - (m - 1)]
                       ELSE <<g[Left(a)], g[Right(a)]>>]
    <3>4. \A n \in a + 1 .. last : n \in a .. last /\ n # a /\ v[n] = g[n]
      BY <1>0, <2>2
    <3>5. \A n \in a + 1 .. last :
             g[n] = IF n >= m - 1 THEN content[n - (m - 1)]
                                  ELSE <<g[Left(n)], g[Right(n)]>>
      BY <3>3, Zenon DEF HashesFrom
    <3>6. ASSUME NEW n \in a .. last
          PROVE  v[n] = IF n >= m - 1 THEN content[n - (m - 1)]
                                      ELSE <<v[Left(n)], v[Right(n)]>>
      <4>1. n < m - 1 => /\ Left(n) \in a + 1 .. last /\ Right(n) \in a + 1 .. last
        <5>1. n \in 0 .. last /\ a <= n
          BY <1>0, <2>2
        <5>2. n < m - 1 => Left(n) \in n + 1 .. last /\ Right(n) \in n + 1 .. last
          BY <5>1, HeapAbove
        <5> QED
          BY <1>0, <2>2, <5>1, <5>2
      <4>2. n < m - 1 => v[Left(n)] = g[Left(n)] /\ v[Right(n)] = g[Right(n)]
        BY <3>4, <4>1
      <4>3. n >= m - 1 \/ n < m - 1
        BY <1>0, <2>2
      <4>4. CASE n = a
        <5>1. v[a] = IF a >= m - 1 THEN content[a - (m - 1)]
                                   ELSE <<g[Left(a)], g[Right(a)]>>
          BY <4>4
        <5> HIDE DEF v
        <5> QED
          BY <4>2, <4>3, <4>4, <5>1
      <4>5. CASE n # a
        <5>1. n \in a + 1 .. last
          BY <1>0, <2>2, <4>5
        <5> HIDE DEF v
        <5> QED
          BY <3>4, <3>5, <4>2, <4>3, <5>1
      <4> QED
        BY <4>4, <4>5
    <3>7. v = [n \in a .. last |-> v[n]]
      OBVIOUS
    <3> HIDE DEF v
    <3>8. HashesFrom(v, m, content, a)
      BY <3>6, <3>7, Zenon DEF HashesFrom
    <3> QED
      BY <2>2, <3>8
  <2> QED
    BY <2>3, <2>4
<1>2. last \in 0 .. last /\ last - last = 0
  BY <1>0
<1> QED
  BY <1>1, <1>2

LEMMA Hashes ==
    ASSUME NEW m \in Nat \ {0}, NEW content, NEW n \in 0 .. 2 * m - 2
    PROVE  PackageHashes(m, content)[n] =
               IF n >= m - 1 THEN content[n - (m - 1)]
               ELSE <<PackageHashes(m, content)[Left(n)],
                      PackageHashes(m, content)[Right(n)]>>
<1> DEFINE H == CHOOSE g : HashesFrom(g, m, content, 0)
<1>1. HashesFrom(H, m, content, 0)
  BY HashesExist, Zenon
<1>2. PackageHashes(m, content) = H
  BY Zenon DEF PackageHashes, HashesFrom
<1> HIDE DEF H
<1>3. H[n] = IF n >= m - 1 THEN content[n - (m - 1)] ELSE <<H[Left(n)], H[Right(n)]>>
  BY <1>1, Zenon DEF HashesFrom
<1> QED
  BY <1>2, <1>3

\* A function on nodes that is computed from the leaves up, by leaf and both,
\* is determined from node a on.
ComputedFrom(g, leaf, both, a) ==
    \A n \in a .. nnodes - 1 :
        g[n] = IF IsLeaf(n) THEN leaf[n] ELSE both[<<n, g[Left(n)], g[Right(n)]>>]

LEMMA HeapRecursion ==
    ASSUME nchunks \in Nat \ {0}, NEW V,
           NEW leaf \in [Nodes -> V], NEW both \in [Nodes \X V \X V -> V]
    PROVE  \E g \in [Nodes -> V] : ComputedFrom(g, leaf, both, 0)
<1> DEFINE last == nnodes - 1
           Known(a) == \E g \in [a .. last -> V] : ComputedFrom(g, leaf, both, a)
           S == {i \in 0 .. nnodes : ~Known(nnodes - i)}
<1>0. nnodes \in Nat /\ last = nnodes - 1 /\ Nodes = 0 .. last
  BY DEF nnodes, nhashes, Nodes
<1>h. /\ \A n \in Nodes : IsLeaf(n) <=> ~Internal(n)
      /\ \A n \in Nodes : Internal(n) => Left(n) \in Nodes /\ Right(n) \in Nodes
      /\ \A n \in Nodes : Left(n) > n /\ Right(n) > n
  <2>1. \A n \in Nodes : Left(n) > n /\ Right(n) > n
    BY <1>0 DEF Left, Right
  <2> QED
    BY <2>1, Heap
<1>1. S = {}
  <2> SUFFICES ASSUME S # {} PROVE FALSE
    OBVIOUS
  <2>1. PICK i \in S : \A k \in S : i <= k
    <3>1. S \subseteq Nat
      BY <1>0
    <3> HIDE DEF S
    <3> QED
      BY <3>1, LeastElement
  <2>2. i \in 0 .. nnodes /\ ~Known(nnodes - i)
    BY <2>1
  <2>3. CASE i = 0
    <3>1. nnodes - i = nnodes /\ nnodes .. last = {}
      BY <1>0, <2>3
    <3>2. [n \in {} |-> n] \in [{} -> V]
      OBVIOUS
    <3> QED
      BY <2>2, <3>1, <3>2 DEF ComputedFrom
  <2>4. CASE i # 0
    <3> DEFINE a == nnodes - i
    <3>1. /\ i - 1 \in 0 .. nnodes /\ nnodes - (i - 1) = a + 1 /\ ~(i <= i - 1)
          /\ a \in Nodes /\ a \in Nat
      BY <1>0, <2>2, <2>4
    <3>2. Known(a + 1)
      <4>1. i - 1 \notin S
        BY <2>1, <3>1
      <4> QED
        BY <3>1, <4>1
    <3>3. PICK g \in [a + 1 .. last -> V] : ComputedFrom(g, leaf, both, a + 1)
      BY <3>2
    <3>4. ~Known(a)
      BY <2>2
    <3> HIDE DEF a
    <3>5. /\ a .. last = {a} \union (a + 1 .. last)
          /\ a \notin a + 1 .. last
          /\ \A n \in a .. last : n \in Nodes /\ n >= a
          /\ \A n \in Nodes : n > a => n \in a + 1 .. last
      BY <1>0, <3>1
    <3>6. ASSUME NEW n \in a .. last, ~IsLeaf(n)
          PROVE  Left(n) \in a + 1 .. last /\ Right(n) \in a + 1 .. last
      <4>1. n \in Nodes /\ n >= a
        BY <3>5
      <4>2. /\ Left(n) \in Nodes /\ Right(n) \in Nodes
            /\ Left(n) > n /\ Right(n) > n
        BY <1>h, <3>6, <4>1
      <4>3. Left(n) > a /\ Right(n) > a
        BY <1>0, <3>1, <4>1, <4>2
      <4> QED
        BY <3>5, <4>2, <4>3
    <3> DEFINE x == IF IsLeaf(a) THEN leaf[a] ELSE both[<<a, g[Left(a)], g[Right(a)]>>]
               v == [n \in a .. last |-> IF n = a THEN x ELSE g[n]]
    <3>7. x \in V
      <4>1. CASE IsLeaf(a)
        BY <3>1, <4>1
      <4>2. CASE ~IsLeaf(a)
        <5>1. g[Left(a)] \in V /\ g[Right(a)] \in V
          BY <3>3, <3>5, <3>6, <4>2
        <5> QED
          BY <3>1, <4>2, <5>1
      <4> QED
        BY <4>1, <4>2
    <3> HIDE DEF x
    <3>8. /\ v \in [a .. last -> V] /\ v[a] = x
          /\ \A n \in a + 1 .. last : v[n] = g[n]
      BY <3>3, <3>5, <3>7
    <3> HIDE DEF v
    <3>9. ComputedFrom(v, leaf, both, a)
      <4> SUFFICES ASSUME NEW n \in a .. last
                   PROVE  v[n] = IF IsLeaf(n) THEN leaf[n]
                                 ELSE both[<<n, v[Left(n)], v[Right(n)]>>]
        BY DEF ComputedFrom
      <4>1. ~IsLeaf(n) => v[Left(n)] = g[Left(n)] /\ v[Right(n)] = g[Right(n)]
        BY <3>6, <3>8
      <4>2. CASE n = a
        BY <3>8, <4>1, <4>2 DEF x
      <4>3. CASE n # a
        <5>1. n \in a + 1 .. last
          BY <3>5, <4>3
        <5>2. v[n] = g[n]
          BY <3>8, <5>1
        <5>3. g[n] = IF IsLeaf(n) THEN leaf[n] ELSE both[<<n, g[Left(n)], g[Right(n)]>>]
          BY <3>3, <5>1 DEF ComputedFrom
        <5> QED
          BY <4>1, <5>2, <5>3
      <4> QED
        BY <4>2, <4>3
    <3> QED
      BY <3>4, <3>8, <3>9
  <2> QED
    BY <2>3, <2>4
<1>2. nnodes \in 0 .. nnodes /\ nnodes - nnodes = 0
  BY <1>0
<1>3. Known(0)
  BY <1>1, <1>2
<1> QED
  BY <1>0, <1>3

LEMMA LeavesBelow ==
    ASSUME nchunks \in Nat \ {0}
    PROVE  \A n \in Nodes :
               SubtreeChunks[n] =
                   IF IsLeaf(n) THEN <<n>>
                   ELSE SubtreeChunks[Left(n)] \o SubtreeChunks[Right(n)]
<1> DEFINE V == Seq(Nodes)
           leaf == [n \in Nodes |-> <<n>>]
           both == [t \in Nodes \X V \X V |-> t[2] \o t[3]]
           Leaves(g) == g = [n \in Nodes |->
                                IF IsLeaf(n) THEN <<n>> ELSE g[Left(n)] \o g[Right(n)]]
<1>1. leaf \in [Nodes -> V] /\ both \in [Nodes \X V \X V -> V]
  <2>1. \A s, t \in V : s \o t \in V
    OBVIOUS
  <2>2. \A n \in Nodes : <<n>> \in V
    OBVIOUS
  <2> QED
    BY <2>1, <2>2
<1>2. PICK g \in [Nodes -> V] : ComputedFrom(g, leaf, both, 0)
  <2> HIDE DEF V, leaf, both
  <2> QED
    BY <1>1, HeapRecursion
<1>3. ASSUME NEW k \in Nodes
      PROVE  g[k] = IF IsLeaf(k) THEN <<k>> ELSE g[Left(k)] \o g[Right(k)]
  <2>1. g[k] = IF IsLeaf(k) THEN leaf[k] ELSE both[<<k, g[Left(k)], g[Right(k)]>>]
    BY <1>2 DEF ComputedFrom, Nodes
  <2>2. CASE IsLeaf(k)
    BY <2>1, <2>2
  <2>3. CASE ~IsLeaf(k)
    <3>1. g[Left(k)] \in V /\ g[Right(k)] \in V
      BY <1>2, <2>3, Heap
    <3>2. both[<<k, g[Left(k)], g[Right(k)]>>] = g[Left(k)] \o g[Right(k)]
      BY <3>1
    <3> QED
      BY <2>1, <2>3, <3>2
  <2> QED
    BY <2>2, <2>3
<1>4. Leaves(g)
  <2>1. g = [n \in Nodes |-> g[n]]
    BY <1>2
  <2> QED
    BY <1>3, <2>1, Zenon
<1> DEFINE T == CHOOSE f : Leaves(f)
<1>5. Leaves(T)
  BY <1>4, Zenon
<1>6. SubtreeChunks = T
  BY Zenon DEF SubtreeChunks
<1> HIDE DEF T
<1>7. \A k \in Nodes :
          T[k] = IF IsLeaf(k) THEN <<k>> ELSE T[Left(k)] \o T[Right(k)]
  BY <1>5
<1> QED
  BY <1>6, <1>7

\* Induction from the leaves to the root.
LEMMA HeapInduction ==
    ASSUME nchunks \in Nat \ {0}, NEW S, S \subseteq Nodes,
           \A n \in Nodes : IsLeaf(n) \/ (Left(n) \in S /\ Right(n) \in S) => n \in S
    PROVE  S = Nodes
<1> SUFFICES ASSUME Nodes \ S # {} PROVE FALSE
  OBVIOUS
<1> DEFINE last == nnodes - 1
           Missing == {i \in 0 .. last : last - i \in Nodes \ S}
<1>0. last \in Nat /\ Nodes = 0 .. last
  BY DEF Nodes, nnodes, nhashes
<1>h. /\ \A n \in Nodes : IsLeaf(n) <=> ~Internal(n)
      /\ \A n \in Nodes : Internal(n) => Left(n) \in Nodes /\ Right(n) \in Nodes
      /\ \A n \in Nodes : Left(n) > n /\ Right(n) > n
  <2>1. \A n \in Nodes : Left(n) > n /\ Right(n) > n
    BY <1>0 DEF Left, Right
  <2> QED
    BY <2>1, Heap
<1> HIDE DEF last
<1>1. PICK k \in Nodes \ S : TRUE
  OBVIOUS
<1>2. last - k \in Missing
  BY <1>0, <1>1
<1>3. PICK i \in Missing : \A j \in Missing : i <= j
  <2>1. Missing \subseteq Nat
    BY <1>0
  <2> HIDE DEF Missing
  <2> QED
    BY <1>2, <2>1, LeastElement
<1> DEFINE n == last - i
<1>4. n \in Nodes /\ n \notin S /\ n \in 0 .. last /\ i \in 0 .. last
  BY <1>0, <1>3
<1>5. ASSUME NEW c \in Nodes, c > n PROVE c \in S
  <2>1. last - c \in 0 .. last /\ last - (last - c) = c /\ ~(i <= last - c)
    BY <1>0, <1>4, <1>5
  <2>2. last - c \notin Missing
    BY <1>3, <2>1
  <2> QED
    BY <2>1, <2>2
<1> QED
  BY <1>h, <1>4, <1>5

\* What a sequence holds.
Elements(s) == {s[i] : i \in DOMAIN s}

LEMMA ElementsOfConcat ==
    ASSUME NEW S, NEW l \in Seq(S), NEW r \in Seq(S)
    PROVE  Elements(l \o r) = Elements(l) \union Elements(r)
<1>1. /\ Len(l) \in Nat /\ Len(r) \in Nat
      /\ DOMAIN l = 1 .. Len(l) /\ DOMAIN r = 1 .. Len(r)
      /\ DOMAIN (l \o r) = 1 .. Len(l) + Len(r)
      /\ \A i \in 1 .. Len(l) : (l \o r)[i] = l[i]
      /\ \A i \in 1 .. Len(r) : (l \o r)[i + Len(l)] = r[i]
  OBVIOUS
<1> DEFINE both == {(l \o r)[i] : i \in 1 .. Len(l) + Len(r)}
           left == {l[i] : i \in 1 .. Len(l)}
           right == {r[i] : i \in 1 .. Len(r)}
<1>2. left \subseteq both
  <2>1. \A i \in 1 .. Len(l) : i \in 1 .. Len(l) + Len(r)
    BY <1>1
  <2> QED
    BY <1>1, <2>1
<1>3. right \subseteq both
  <2>1. \A i \in 1 .. Len(r) : i + Len(l) \in 1 .. Len(l) + Len(r)
    BY <1>1
  <2> QED
    BY <1>1, <2>1
<1>4. both \subseteq left \union right
  <2> SUFFICES ASSUME NEW i \in 1 .. Len(l) + Len(r)
               PROVE  (l \o r)[i] \in left \union right
    OBVIOUS
  <2>1. CASE i <= Len(l)
    <3>1. i \in 1 .. Len(l)
      BY <1>1, <2>1
    <3> QED
      BY <1>1, <3>1
  <2>2. CASE i > Len(l)
    <3>1. i - Len(l) \in 1 .. Len(r) /\ (i - Len(l)) + Len(l) = i
      BY <1>1, <2>2
    <3>2. (l \o r)[i] = r[i - Len(l)]
      BY <1>1, <3>1
    <3> QED
      BY <3>1, <3>2
  <2> QED
    BY <1>1, <2>1, <2>2
<1>5. both = left \union right
  BY <1>2, <1>3, <1>4
<1> QED
  BY <1>1, <1>5 DEF Elements

\* The leaves below a node.
Below(n) == Elements(SubtreeChunks[n])

LEMMA BelowNodes ==
    ASSUME nchunks \in Nat \ {0}
    PROVE  \A n \in Nodes :
               /\ SubtreeChunks[n] \in Seq(Nodes)
               /\ IsLeaf(n) => Below(n) = {n}
               /\ ~IsLeaf(n) => Below(n) = Below(Left(n)) \union Below(Right(n))
<1> DEFINE S == {n \in Nodes : SubtreeChunks[n] \in Seq(Nodes)}
<1>1. S = Nodes
  <2>1. ASSUME NEW n \in Nodes, IsLeaf(n) \/ (Left(n) \in S /\ Right(n) \in S)
        PROVE  n \in S
    <3> SUFFICES SubtreeChunks[n] \in Seq(Nodes)
      OBVIOUS
    <3>1. CASE IsLeaf(n)
      <4>1. SubtreeChunks[n] = <<n>>
        BY <3>1, LeavesBelow
      <4>2. <<n>> \in Seq(Nodes)
        OBVIOUS
      <4> QED
        BY <4>1, <4>2
    <3>2. CASE ~IsLeaf(n)
      <4> DEFINE l == SubtreeChunks[Left(n)]
                 r == SubtreeChunks[Right(n)]
      <4>1. l \in Seq(Nodes) /\ r \in Seq(Nodes)
        BY <2>1, <3>2
      <4>2. SubtreeChunks[n] = l \o r
        BY <3>2, LeavesBelow
      <4> HIDE DEF l, r
      <4>3. l \o r \in Seq(Nodes)
        BY <4>1
      <4> QED
        BY <4>2, <4>3
    <3> QED
      BY <3>1, <3>2
  <2> HIDE DEF S
  <2>2. S \subseteq Nodes
    BY DEF S
  <2> QED
    BY <2>1, <2>2, HeapInduction
<1>2. ASSUME NEW n \in Nodes, IsLeaf(n) PROVE Below(n) = {n}
  <2>1. SubtreeChunks[n] = <<n>>
    BY <1>2, LeavesBelow
  <2> QED
    BY <2>1 DEF Below, Elements
<1>3. ASSUME NEW n \in Nodes, ~IsLeaf(n)
      PROVE  Below(n) = Below(Left(n)) \union Below(Right(n))
  <2> DEFINE l == SubtreeChunks[Left(n)]
             r == SubtreeChunks[Right(n)]
  <2>1. l \in Seq(Nodes) /\ r \in Seq(Nodes)
    BY <1>1, <1>3, Heap
  <2>2. SubtreeChunks[n] = l \o r
    BY <1>3, LeavesBelow
  <2> HIDE DEF l, r
  <2>3. Elements(l \o r) = Elements(l) \union Elements(r)
    BY <2>1, ElementsOfConcat
  <2> QED
    BY <2>2, <2>3 DEF Below, l, r
<1> QED
  BY <1>1, <1>2, <1>3

LEMMA BelowLeaves ==
    ASSUME nchunks \in Nat \ {0}
    PROVE  \A n \in Nodes : \A l \in Below(n) : l \in Nodes /\ IsLeaf(l)
<1> DEFINE S == {n \in Nodes : \A l \in Below(n) : l \in Nodes /\ IsLeaf(l)}
<1>1. \A n \in Nodes : IsLeaf(n) \/ (Left(n) \in S /\ Right(n) \in S) => n \in S
  BY BelowNodes
<1>2. S \subseteq Nodes
  OBVIOUS
<1>3. S = Nodes
  <2> HIDE DEF S
  <2> QED
    BY <1>1, <1>2, HeapInduction
<1> QED
  BY <1>3

-----------------------------------------------------------------------------
(* What the hashes stand for                                                 *)

PackageInv ==
    /\ original \in PackageFiles /\ original \in [Chunks -> Contents]
    /\ expected = PackageHashes(nchunks, original)

\* As long as the file keeps what it had, a leaf has the hash of its chunk, or
\* a handler is writing that hash.
LeafInv ==
    writes = 0 /\ phase # "init" =>
        /\ \A n \in Nodes : IsLeaf(n) =>
              \/ computed[n] = data[ChunkOf(n)]
              \/ \E h \in Handlers : thread[h].node = n /\ thread[h].pc = "storing"
        /\ \A h \in Handlers :
              thread[h].pc \in {"store", "storing"} /\ IsLeaf(thread[h].node) =>
                  thread[h].value = data[ChunkOf(thread[h].node)]

ContentInv == TreeInv /\ PackageInv /\ LeafInv

LEMMA PackageStep ==
    ASSUME PackageInv, [Next]_vars
    PROVE  PackageInv' /\ nchunks' = nchunks
<1>1. UNCHANGED package
  BY DEF Next, Load, InitChunks, BuildDown, BuildLeaf, BuildInternal, FileWritten,
     Receive, ReceiveUnknown, ReceiveChunk, Update, CopyFaults, CopyNothing, HashChunk,
     StoreBegins, StoreEnds, Climb, ClimbEnds, ClimbFaults, ReadLeft, ReadRight, vars
<1>2. UNCHANGED <<nchunks, original, expected>>
  BY <1>1 DEF package
<1>3. Chunks' = Chunks /\ PackageHashes(nchunks, original)' = PackageHashes(nchunks, original)
  BY <1>2 DEF Chunks, PackageHashes
<1> QED
  BY <1>2, <1>3 DEF PackageInv

\* A step of handler h that moves it and writes no hash of a leaf.
LEMMA LeafMoves ==
    ASSUME TypeInv, LeafInv, NEW h \in Handlers,
           UNCHANGED <<nchunks, data, phase, writes>>,
           \A n \in Nodes : IsLeaf(n) => computed'[n] = computed[n],
           \A g \in Handlers \ {h} : thread'[g] = thread[g],
           thread[h].pc # "storing",
           thread'[h].pc \in {"store", "storing"} /\ IsLeaf(thread'[h].node) =>
               thread'[h].value = data[ChunkOf(thread'[h].node)]
    PROVE  LeafInv'
<1>1. /\ Nodes' = Nodes /\ \A n : IsLeaf(n)' = IsLeaf(n) /\ ChunkOf(n)' = ChunkOf(n)
  BY SameShape DEF ChunkOf, nhashes
<1> SUFFICES ASSUME writes = 0, phase # "init"
             PROVE  /\ \A n \in Nodes : IsLeaf(n) =>
                          \/ computed'[n] = data[ChunkOf(n)]
                          \/ \E g \in Handlers : /\ thread'[g].node = n
                                                 /\ thread'[g].pc = "storing"
                    /\ \A g \in Handlers :
                          /\ thread'[g].pc \in {"store", "storing"}
                          /\ IsLeaf(thread'[g].node)
                          => thread'[g].value = data[ChunkOf(thread'[g].node)]
  BY <1>1 DEF LeafInv
<1>2. ASSUME NEW n \in Nodes, IsLeaf(n)
      PROVE  \/ computed'[n] = data[ChunkOf(n)]
             \/ \E g \in Handlers : thread'[g].node = n /\ thread'[g].pc = "storing"
  BY <1>2 DEF LeafInv
<1>3. ASSUME NEW g \in Handlers,
             thread'[g].pc \in {"store", "storing"}, IsLeaf(thread'[g].node)
      PROVE  thread'[g].value = data[ChunkOf(thread'[g].node)]
  BY <1>3 DEF LeafInv
<1> QED
  BY <1>2, <1>3

LEMMA LeafStep ==
    ASSUME TypeInv, BuildInv, LeafInv, [Next]_vars
    PROVE  LeafInv'
<1>0. /\ nchunks \in Nat \ {0} /\ DOMAIN computed = Nodes /\ DOMAIN thread = Handlers
      /\ writes \in Nat /\ at \in Nodes
      /\ \A g \in Handlers : thread[g].node \in Nodes
      /\ phase # "loaded" => \A g \in Handlers : thread[g].pc = "idle"
  BY TreeAssumption DEF TypeInv, BuildInv
<1>h. \A n \in Nodes : IsLeaf(n) <=> ~Internal(n)
  BY <1>0, Heap
<1>s. ASSUME UNCHANGED nchunks
      PROVE  /\ Nodes' = Nodes
             /\ \A n : IsLeaf(n)' = IsLeaf(n) /\ ChunkOf(n)' = ChunkOf(n)
  BY <1>s, SameShape DEF ChunkOf, nhashes
<1>1. CASE InitChunks
  <2>1. /\ UNCHANGED <<nchunks, data, thread>>
        /\ \A n \in Nodes : IsLeaf(n) => computed'[n] = data[ChunkOf(n)]
        /\ \A g \in Handlers : thread[g].pc = "idle"
    BY <1>0, <1>1 DEF InitChunks, package
  <2> QED
    BY <1>s, <2>1 DEF LeafInv
<1>2. CASE BuildDown \/ UNCHANGED vars
  <2>1. UNCHANGED <<nchunks, computed, data, thread, phase, writes>>
    BY <1>2 DEF BuildDown, vars, package, tree
  <2> QED
    BY <1>s, <2>1 DEF LeafInv
<1>3. CASE BuildLeaf \/ BuildInternal
  <2>1. /\ UNCHANGED <<nchunks, data, thread, writes>> /\ phase = "build"
        /\ \A g \in Handlers : thread[g].pc = "idle"
    BY <1>0, <1>3 DEF BuildLeaf, BuildInternal, package
  <2>2. \A n \in Nodes : IsLeaf(n) =>
            computed'[n] = computed[n] \/ computed'[n] = data[ChunkOf(n)]
    BY <1>0, <1>h, <1>3 DEF BuildLeaf, BuildInternal
  <2> QED
    BY <1>s, <2>1, <2>2 DEF LeafInv
<1>4. CASE FileWritten
  <2>1. writes' # 0
    BY <1>0, <1>4 DEF FileWritten
  <2> QED
    BY <2>1 DEF LeafInv
<1>5. ASSUME NEW h \in Handlers, Receive(h) \/ Update(h)
      PROVE  LeafInv'
  <2>n. PICK n \in Nodes : n = thread[h].node
    BY <1>0
  <2>1. CASE ReceiveUnknown(h) \/ CopyFaults(h) \/ ClimbFaults(h)
    <3>1. UNCHANGED <<nchunks, computed, data, thread, phase, writes>>
      BY <2>1 DEF ReceiveUnknown, CopyFaults, ClimbFaults, package, tree
    <3> QED
      BY <1>s, <3>1 DEF LeafInv
  <2>2. CASE \/ ReceiveChunk(h) \/ CopyNothing(h) \/ Climb(h) \/ ClimbEnds(h)
             \/ ReadLeft(h)
    <3>1. /\ UNCHANGED <<nchunks, computed, data, phase, writes>>
          /\ \A g \in Handlers \ {h} : thread'[g] = thread[g]
          /\ thread[h].pc # "storing"
          /\ thread'[h].pc \notin {"store", "storing"}
      BY <1>0, <2>2 DEF ReceiveChunk, CopyNothing, Climb, ClimbEnds, ReadLeft, Goes,
         package, tree
    <3> QED
      BY <3>1, LeafMoves
  <2>3. CASE HashChunk(h)
    <3>1. /\ UNCHANGED <<nchunks, computed, data, phase, writes>>
          /\ \A g \in Handlers \ {h} : thread'[g] = thread[g]
          /\ thread[h].pc # "storing"
          /\ thread'[h].node = n /\ thread'[h].value = data[ChunkOf(n)]
      BY <1>0, <2>n, <2>3 DEF HashChunk, Goes, package, tree
    <3> QED
      BY <3>1, LeafMoves
  <2>4. CASE ReadRight(h)
    <3>1. /\ UNCHANGED <<nchunks, computed, data, phase, writes>>
          /\ \A g \in Handlers \ {h} : thread'[g] = thread[g]
          /\ thread[h].pc = "right" /\ thread'[h].node = n
      BY <1>0, <2>n, <2>4 DEF ReadRight, Goes, package, tree
    <3>2. ~IsLeaf(n)
      BY <1>h, <2>n, <3>1 DEF TypeInv
    <3> QED
      BY <3>1, <3>2, LeafMoves
  <2>5. CASE StoreBegins(h)
    <3>1. /\ UNCHANGED <<nchunks, data, phase, writes>>
          /\ \A g \in Handlers \ {h} : thread'[g] = thread[g]
          /\ \A m \in Nodes \ {n} : computed'[m] = computed[m]
          /\ thread[h].pc = "store"
          /\ thread'[h].pc = "storing" /\ thread'[h].node = n
          /\ thread'[h].value = thread[h].value
      BY <1>0, <2>n, <2>5 DEF StoreBegins, Goes, package, tree
    <3> QED
      BY <1>s, <2>n, <3>1 DEF LeafInv
  <2>6. CASE StoreEnds(h)
    <3>1. /\ UNCHANGED <<nchunks, data, phase, writes>>
          /\ \A g \in Handlers \ {h} : thread'[g] = thread[g]
          /\ \A m \in Nodes \ {n} : computed'[m] = computed[m]
          /\ computed'[n] = thread[h].value
          /\ thread[h].pc = "storing" /\ thread'[h].pc = "climb"
      BY <1>0, <2>n, <2>6 DEF StoreEnds, Goes, package, tree
    <3> QED
      BY <1>s, <2>n, <3>1 DEF LeafInv
  <2> QED
    BY <1>5, <2>1, <2>2, <2>3, <2>4, <2>5, <2>6 DEF Receive, Update
<1> QED
  BY <1>1, <1>2, <1>3, <1>4, <1>5 DEF Next, Load

LEMMA ContentInvariant == Spec => []ContentInv
<1>1. Init => ContentInv
  BY InitTree DEF Init, ContentInv, PackageInv, LeafInv
<1>2. ContentInv /\ [Next]_vars => ContentInv'
  BY TreeStep, PackageStep, LeafStep DEF ContentInv, TreeInv
<1> QED
  BY <1>1, <1>2, PTL DEF Spec

\* The expected hash of a node.
LEMMA Expected ==
    ASSUME TypeInv, PackageInv, NEW n \in Nodes
    PROVE  /\ IsLeaf(n) => expected[n] = original[ChunkOf(n)]
           /\ ~IsLeaf(n) => expected[n] = <<expected[Left(n)], expected[Right(n)]>>
<1>1. nchunks \in Nat \ {0} /\ expected = PackageHashes(nchunks, original)
  BY DEF TypeInv, PackageInv
<1>2. /\ n \in 0 .. 2 * nchunks - 2
      /\ IsLeaf(n) <=> n >= nchunks - 1
      /\ ChunkOf(n) = n - (nchunks - 1)
  <2>1. nnodes - 1 = 2 * nchunks - 2
    BY <1>1 DEF nnodes, nhashes
  <2> QED
    BY <2>1 DEF Nodes, IsLeaf, ChunkOf, nhashes
<1> QED
  BY <1>1, <1>2, Hashes

\* In a tree that has settled, a node has its expected hash exactly if every
\* leaf below it has.
LEMMA CompleteBelow ==
    ASSUME TreeInv, PackageInv, Settled
    PROVE  \A n \in Nodes : check_chunk(n) <=> \A l \in Below(n) : check_chunk(l)
<1> DEFINE S == {n \in Nodes : check_chunk(n) <=> \A l \in Below(n) : check_chunk(l)}
<1>0. TypeInv /\ nchunks \in Nat \ {0}
  BY DEF TreeInv, TypeInv
<1>1. ASSUME NEW n \in Nodes, IsLeaf(n) \/ (Left(n) \in S /\ Right(n) \in S)
      PROVE  check_chunk(n) <=> \A l \in Below(n) : check_chunk(l)
  <2>1. CASE IsLeaf(n)
    BY <1>0, <2>1, BelowNodes
  <2>2. CASE ~IsLeaf(n)
    <3>1. /\ check_chunk(Left(n)) <=> \A l \in Below(Left(n)) : check_chunk(l)
          /\ check_chunk(Right(n)) <=> \A l \in Below(Right(n)) : check_chunk(l)
      BY <1>1, <2>2
    <3>2. Below(n) = Below(Left(n)) \union Below(Right(n))
      BY <1>0, <2>2, BelowNodes
    <3>3. expected[n] = <<expected[Left(n)], expected[Right(n)]>>
      BY <1>0, <2>2, Expected
    <3>4. computed[n] = <<computed[Left(n)], computed[Right(n)]>>
      BY <1>0, <2>2, Heap, SettledHashes DEF HashesItsChildren
    <3>5. check_chunk(n) <=> check_chunk(Left(n)) /\ check_chunk(Right(n))
      BY <3>3, <3>4 DEF check_chunk
    <3> QED
      BY <3>1, <3>2, <3>5
  <2> QED
    BY <2>1, <2>2
<1>2. S = Nodes
  <2>1. S \subseteq Nodes
    OBVIOUS
  <2>2. \A n \in Nodes : IsLeaf(n) \/ (Left(n) \in S /\ Right(n) \in S) => n \in S
    BY <1>1
  <2> HIDE DEF S
  <2> QED
    BY <1>0, <2>1, <2>2, HeapInduction
<1> QED
  BY <1>2

(***************************************************************************)
(* Theorem.  While the file stays as it is, the nodes that check_chunk     *)
(* calls complete are those below which every chunk has the content the    *)
(* package was made from: for any number of chunks, full tree or not, and  *)
(* whatever updates have met in it.                                        *)
(***************************************************************************)
THEOREM TreeCompleteMeansCorrect == Spec => []CompleteMeansCorrect
<1>1. ContentInv => CompleteMeansCorrect
  <2> SUFFICES ASSUME ContentInv, phase = "loaded", writes = 0, Settled,
                      NEW n \in Nodes
               PROVE  check_chunk(n) <=>
                        \A i \in DOMAIN SubtreeChunks[n] :
                            LET c == ChunkOf(SubtreeChunks[n][i])
                            IN  data[c] = original[c]
    BY DEF CompleteMeansCorrect
  <2>0. TreeInv /\ TypeInv /\ PackageInv /\ LeafInv /\ nchunks \in Nat \ {0}
    BY DEF ContentInv, TreeInv, TypeInv
  <2>1. check_chunk(n) <=> \A l \in Below(n) : check_chunk(l)
    BY <2>0, CompleteBelow
  <2>2. \A l \in Below(n) : l \in Nodes /\ IsLeaf(l)
    BY <2>0, BelowLeaves
  <2>3. ASSUME NEW l \in Nodes, IsLeaf(l)
        PROVE  check_chunk(l) <=> data[ChunkOf(l)] = original[ChunkOf(l)]
    <3>1. computed[l] = data[ChunkOf(l)]
      BY <2>0, <2>3 DEF LeafInv, Settled
    <3>2. expected[l] = original[ChunkOf(l)]
      BY <2>0, <2>3, Expected
    <3> QED
      BY <3>1, <3>2 DEF check_chunk
  <2>4. check_chunk(n) <=> \A l \in Below(n) : data[ChunkOf(l)] = original[ChunkOf(l)]
    BY <2>1, <2>2, <2>3
  <2> QED
    BY <2>4 DEF Below, Elements
<1> QED
  BY <1>1, ContentInvariant, PTL

\* What the cut to 16 bits leaves of a number: less, if it cuts at all.
LEMMA Uint16 ==
    ASSUME NEW n \in Nat
    PROVE  /\ uint16(n) \in 0 .. n
           /\ n < CountLimit => uint16(n) = n
           /\ n >= CountLimit => uint16(n) < n
<1>1. CountLimit \in Int /\ CountLimit > 0
  BY TreeAssumption
<1>2. /\ uint16(n) \in 0 .. CountLimit - 1
      /\ n \in 0 .. CountLimit - 1 => uint16(n) = n
  BY <1>1, Remainder DEF uint16
<1> QED
  BY <1>1, <1>2

(***************************************************************************)
(* Theorem.  A REQ with offset 0 for the first chunk is answered from the  *)
(* first chunk (send_res_pkts, bpkg_find_node_from_hash): the search goes  *)
(* through the hashes before it and stops one node into the chunks.  That  *)
(* is so while the number of chunks fits the count of the search, 16 bits; *)
(* with more chunks the search ends before it, for any number of them.     *)
(***************************************************************************)
THEOREM TreeFirstChunkFound == Spec => []FirstChunkFound
<1>1. ContentInv => FirstChunkFound
  <2> SUFFICES ASSUME ContentInv
               PROVE  RequestedNode(original[0], 0) =
                          IF nchunks < CountLimit THEN NodeOf(0) ELSE NoNode
    BY DEF FirstChunkFound
  <2>0. /\ TypeInv /\ PackageInv /\ nchunks \in Nat \ {0} /\ nchunks \in 1 .. MaxChunks
    BY TreeAssumption DEF ContentInv, TreeInv, TypeInv
  <2> DEFINE count == uint16(nchunks)
             found == {n \in 0 .. count - 1 : expected[n] = original[0]}
             first == nchunks - 1
  <2>1. /\ count \in 0 .. nchunks
        /\ nchunks < CountLimit => count = nchunks
        /\ ~(nchunks < CountLimit) => count < nchunks
    BY <2>0, Uint16, TreeAssumption
  <2>2. bpkg_find_node_from_hash(original[0], "CHUNK") =
            IF found = {} THEN NoNode
            ELSE CHOOSE n \in found : \A m \in found : n <= m
    BY DEF bpkg_find_node_from_hash, Searched
  <2> HIDE DEF count
  <2>3. expected[first] = original[0]
    <3>1. first \in Nodes /\ IsLeaf(first) /\ ChunkOf(first) = 0
      BY <2>0 DEF Nodes, nnodes, nhashes, IsLeaf, ChunkOf
    <3> QED
      BY <2>0, <3>1, Expected
  <2>4. \A n \in 0 .. nchunks - 2 : expected[n] # original[0]
    <3>1. DOMAIN original = 0 .. nchunks - 1 /\ original \in PackageFiles
      BY <2>0 DEF PackageInv, Chunks
    <3>2. \A n \in 0 .. nchunks - 2 : expected[n] \notin Contents
      BY <2>0, <3>1, HashAssumption DEF PackageInv
    <3>3. original[0] \in Contents
      BY <2>0 DEF PackageInv, Chunks
    <3> QED
      BY <3>2, <3>3
  <2>5. CASE nchunks < CountLimit
    <3>1. first \in 0 .. count - 1 /\ \A n \in 0 .. count - 1 : n = first \/ n \in 0 .. nchunks - 2
      BY <2>0, <2>1, <2>5
    <3>2. found = {first}
      BY <2>3, <2>4, <3>1
    <3> HIDE DEF found
    <3>3. (CHOOSE n \in found : \A m \in found : n <= m) = first
      BY <2>0, <3>2
    <3>4. bpkg_find_node_from_hash(original[0], "CHUNK") = first
      BY <2>2, <3>2, <3>3, Zenon
    <3>5. NodeOf(0) = first
      BY <2>0 DEF NodeOf, nhashes
    <3> HIDE DEF first
    <3> QED
      BY <2>5, <3>4, <3>5 DEF RequestedNode
  <2>6. CASE ~(nchunks < CountLimit)
    <3>1. \A n \in 0 .. count - 1 : n \in 0 .. nchunks - 2
      BY <2>0, <2>1, <2>6
    <3>2. found = {}
      BY <2>4, <3>1
    <3> QED
      BY <2>2, <2>6, <3>2 DEF RequestedNode
  <2> QED
    BY <2>5, <2>6
<1> QED
  BY <1>1, ContentInvariant, PTL

-----------------------------------------------------------------------------
(* The minimal set of complete hashes.                                       *)

\* Node n and what descends from it.
Descendants(n) ==
    {x \in Nodes :
        \A S \in SUBSET Nodes :
            /\ n \in S
            /\ \A y \in S : Internal(y) => Left(y) \in S /\ Right(y) \in S
            => x \in S}

LEMMA DescendantsOf ==
    ASSUME nchunks \in Nat \ {0}, NEW n \in Nodes
    PROVE  /\ n \in Descendants(n)
           /\ \A y \in Descendants(n) :
                 Internal(y) => /\ Left(y) \in Descendants(n)
                                /\ Right(y) \in Descendants(n)
           /\ \A x \in Descendants(n) : x >= n
           /\ \A x \in Descendants(n) : x # n => Parent(x) \in Descendants(n)
<1>1. n \in Descendants(n)
  BY DEF Descendants
<1>2. ASSUME NEW y \in Descendants(n), Internal(y)
      PROVE  Left(y) \in Descendants(n) /\ Right(y) \in Descendants(n)
  BY <1>2, Heap DEF Descendants
<1>3. ASSUME NEW x \in Descendants(n) PROVE x >= n
  <2> DEFINE S == {y \in Nodes : y >= n}
  <2>1. n \in S
    BY Heap
  <2>2. ASSUME NEW y \in S, Internal(y) PROVE Left(y) \in S /\ Right(y) \in S
    <3>1. Left(y) \in Nodes /\ Right(y) \in Nodes
      BY <2>2, Heap
    <3>2. y \in Nat /\ n \in Nat /\ y >= n
      BY Heap
    <3>3. Left(y) >= n /\ Right(y) >= n
      BY <3>2 DEF Left, Right
    <3> QED
      BY <3>1, <3>3
  <2>3. S \in SUBSET Nodes
    OBVIOUS
  <2>4. x \in S
    <3> HIDE DEF S
    <3> QED
      BY <2>1, <2>2, <2>3 DEF Descendants
  <2> QED
    BY <2>4
<1>4. ASSUME NEW x \in Descendants(n), x # n, Parent(x) \notin Descendants(n)
      PROVE  FALSE
  <2> DEFINE S == Descendants(n) \ {x}
  <2>1. n \in S /\ S \in SUBSET Nodes
    BY <1>1, <1>4 DEF Descendants
  <2>2. ASSUME NEW y \in S, Internal(y) PROVE Left(y) \in S /\ Right(y) \in S
    <3>1. Left(y) \in Descendants(n) /\ Right(y) \in Descendants(n)
      BY <1>2, <2>2
    <3>2. y \in Nodes /\ Parent(Left(y)) = y /\ Parent(Right(y)) = y
      BY Heap DEF Descendants
    <3> QED
      BY <1>4, <3>1, <3>2
  <2>3. x \in S
    <3> HIDE DEF S
    <3> QED
      BY <2>1, <2>2 DEF Descendants
  <2> QED
    BY <2>3
<1> QED
  BY <1>1, <1>2, <1>3, <1>4

LEMMA BelowDescends ==
    ASSUME nchunks \in Nat \ {0}
    PROVE  \A n \in Nodes : Below(n) \subseteq Descendants(n)
<1> DEFINE T == {n \in Nodes : Below(n) \subseteq Descendants(n)}
<1>1. ASSUME NEW n \in Nodes, IsLeaf(n) \/ (Left(n) \in T /\ Right(n) \in T)
      PROVE  n \in T
  <2>1. CASE IsLeaf(n)
    BY <2>1, BelowNodes, DescendantsOf
  <2>2. CASE ~IsLeaf(n)
    <3>1. Left(n) \in Descendants(n) /\ Right(n) \in Descendants(n)
      BY <2>2, DescendantsOf, Heap
    <3>2. ASSUME NEW c \in Descendants(n)
          PROVE  Descendants(c) \subseteq Descendants(n)
      BY <3>2, DescendantsOf DEF Descendants
    <3>3. Below(Left(n)) \subseteq Descendants(n) /\ Below(Right(n)) \subseteq Descendants(n)
      BY <1>1, <2>2, <3>1, <3>2
    <3> QED
      BY <2>2, <3>3, BelowNodes
  <2> QED
    BY <2>1, <2>2
<1>2. T \subseteq Nodes
  OBVIOUS
<1>3. T = Nodes
  <2> HIDE DEF T
  <2> QED
    BY <1>1, <1>2, HeapInduction
<1> QED
  BY <1>3

\* Nothing is below both children of a node.
LEMMA HalvesDisjoint ==
    ASSUME nchunks \in Nat \ {0}, NEW n \in Nodes, ~IsLeaf(n)
    PROVE  Below(Left(n)) \intersect Below(Right(n)) = {}
<1> DEFINE l == Left(n)
           r == Right(n)
           Both == Descendants(l) \intersect Descendants(r)
<1>1. /\ n \in Nat /\ l \in Nodes /\ r \in Nodes /\ l = 2 * n + 1 /\ r = 2 * n + 2
      /\ Parent(l) = n /\ Parent(r) = n
  BY Heap DEF Left, Right
<1>2. Both = {}
  <2> SUFFICES ASSUME Both # {} PROVE FALSE
    OBVIOUS
  <2>1. Both \subseteq Nodes /\ Nodes \subseteq Nat
    BY Heap DEF Descendants
  <2>2. PICK x \in Both : \A y \in Both : x <= y
    <3> HIDE DEF Both
    <3> QED
      BY <2>1, LeastElement
  <2> HIDE DEF l, r
  <2>3. x >= l /\ x >= r /\ x \in Nat
    BY <1>1, <2>1, DescendantsOf
  <2>4. x \in Nodes \ {0} /\ Parent(x) < x /\ Parent(x) \in Nodes
    <3>1. x \in Nodes \ {0}
      BY <1>1, <2>1, <2>3
    <3> QED
      BY <3>1, Heap
  <2>5. x # l
    BY <1>1, <2>3
  <2>6. Parent(x) \in Descendants(l) /\ Parent(x) >= l
    BY <1>1, <2>5, DescendantsOf
  <2>7. x # r
    BY <1>1, <2>6
  <2>8. Parent(x) \in Descendants(r)
    BY <1>1, <2>7, DescendantsOf
  <2>9. x <= Parent(x)
    BY <2>2, <2>6, <2>8
  <2>10. Parent(x) \in Nat
    BY <2>1, <2>4
  <2> QED
    BY <2>3, <2>4, <2>9, <2>10
<1> QED
  BY <1>1, <1>2, BelowDescends

LEMMA BelowSome ==
    ASSUME nchunks \in Nat \ {0}
    PROVE  \A n \in Nodes : Below(n) # {}
<1> DEFINE T == {n \in Nodes : Below(n) # {}}
<1>1. \A n \in Nodes : IsLeaf(n) \/ (Left(n) \in T /\ Right(n) \in T) => n \in T
  BY BelowNodes
<1>2. T \subseteq Nodes
  OBVIOUS
<1>3. T = Nodes
  <2> HIDE DEF T
  <2> QED
    BY <1>1, <1>2, HeapInduction
<1> QED
  BY <1>3

\* Every leaf is below the root.
LEMMA BelowRoot ==
    ASSUME nchunks \in Nat \ {0}, NEW l \in Nodes, IsLeaf(l)
    PROVE  l \in Below(0)
<1> DEFINE Above == {n \in Nodes : l \in Below(n)}
<1>1. l \in Above /\ Above \subseteq Nat
  BY BelowNodes, Heap
<1>2. PICK m \in Above : \A n \in Above : m <= n
  <2> HIDE DEF Above
  <2> QED
    BY <1>1, LeastElement
<1>3. CASE m = 0
  BY <1>3
<1>4. CASE m # 0
  <2>1. /\ m \in Nodes \ {0} /\ m \in Nat
        /\ Parent(m) \in Nodes /\ Parent(m) < m /\ ~IsLeaf(Parent(m))
        /\ m \in {Left(Parent(m)), Right(Parent(m))}
    BY <1>1, <1>4, Heap
  <2>2. l \in Below(Parent(m))
    BY <2>1, BelowNodes
  <2>3. m <= Parent(m) /\ Parent(m) \in Nat
    BY <1>1, <1>2, <2>1, <2>2
  <2> QED
    BY <2>1, <2>3
<1> QED
  BY <1>3, <1>4

\* bpkg_get_largest_completed_subtree for every node.
RootsOf(f) ==
    f = [n \in Nodes |->
            CASE check_chunk(n) -> <<n>>
              [] ~check_chunk(n) /\ IsLeaf(n) -> <<>>
              [] OTHER -> f[Left(n)] \o f[Right(n)]]

Roots == CHOOSE f : RootsOf(f)

LEMMA RootsBelow ==
    ASSUME nchunks \in Nat \ {0}
    PROVE  /\ MinCompleted = bpkg_qry_create(Roots[0])
           /\ \A n \in Nodes :
                 Roots[n] = CASE check_chunk(n) -> <<n>>
                              [] ~check_chunk(n) /\ IsLeaf(n) -> <<>>
                              [] OTHER -> Roots[Left(n)] \o Roots[Right(n)]
<1> DEFINE V == Seq(Nodes)
           leaf == [n \in Nodes |-> IF check_chunk(n) THEN <<n>> ELSE <<>>]
           both == [t \in Nodes \X V \X V |->
                       IF check_chunk(t[1]) THEN <<t[1]>> ELSE t[2] \o t[3]]
<1>1. leaf \in [Nodes -> V] /\ both \in [Nodes \X V \X V -> V]
  <2>1. \A s, t \in V : s \o t \in V
    OBVIOUS
  <2>2. \A n \in Nodes : <<n>> \in V
    OBVIOUS
  <2>3. <<>> \in V
    OBVIOUS
  <2> QED
    BY <2>1, <2>2, <2>3
<1>2. PICK g \in [Nodes -> V] : ComputedFrom(g, leaf, both, 0)
  <2> HIDE DEF V, leaf, both
  <2> QED
    BY <1>1, HeapRecursion
<1>3. ASSUME NEW n \in Nodes
      PROVE  g[n] = CASE check_chunk(n) -> <<n>>
                      [] ~check_chunk(n) /\ IsLeaf(n) -> <<>>
                      [] OTHER -> g[Left(n)] \o g[Right(n)]
  <2>1. g[n] = IF IsLeaf(n) THEN leaf[n] ELSE both[<<n, g[Left(n)], g[Right(n)]>>]
    BY <1>2 DEF ComputedFrom, Nodes
  <2>2. CASE IsLeaf(n)
    BY <2>1, <2>2
  <2>3. CASE ~IsLeaf(n)
    <3>1. g[Left(n)] \in V /\ g[Right(n)] \in V
      BY <1>2, <2>3, Heap
    <3>2. both[<<n, g[Left(n)], g[Right(n)]>>] =
             IF check_chunk(n) THEN <<n>> ELSE g[Left(n)] \o g[Right(n)]
      BY <3>1
    <3> HIDE DEF both, leaf
    <3> QED
      BY <2>1, <2>3, <3>2
  <2> QED
    BY <2>2, <2>3
<1>4. RootsOf(g)
  <2>1. g = [n \in Nodes |-> g[n]]
    BY <1>2
  <2> QED
    BY <1>3, <2>1, Zenon DEF RootsOf
<1>5. RootsOf(Roots)
  BY <1>4, Zenon DEF Roots
<1>6. MinCompleted = bpkg_qry_create(Roots[0])
  BY Zenon DEF MinCompleted, Roots, RootsOf
<1>7. \A n \in Nodes :
          Roots[n] = CASE check_chunk(n) -> <<n>>
                       [] ~check_chunk(n) /\ IsLeaf(n) -> <<>>
                       [] OTHER -> Roots[Left(n)] \o Roots[Right(n)]
  BY <1>5, Zenon DEF RootsOf
<1> QED
  BY <1>6, <1>7

\* The complete nodes that the search from n finds stand for the complete leaves
\* below n, each for its own; a node between them and n is not complete.
RootsInv(n) ==
    /\ Roots[n] \in Seq(Nodes)
    /\ UNION {Below(x) : x \in Elements(Roots[n])} = {l \in Below(n) : check_chunk(l)}
    /\ \A x \in Elements(Roots[n]) : x = n \/ ~check_chunk(Parent(x))
    /\ \A x \in Elements(Roots[n]) : check_chunk(x)
    /\ \A i, j \in DOMAIN Roots[n] :
           i # j => Below(Roots[n][i]) \intersect Below(Roots[n][j]) = {}

\* Two such searches, side by side.
LEMMA RootsOfHalves ==
    ASSUME nchunks \in Nat \ {0}, NEW n \in Nodes, ~IsLeaf(n), ~check_chunk(n),
           RootsInv(Left(n)), RootsInv(Right(n))
    PROVE  RootsInv(n)
<1> DEFINE l == Roots[Left(n)]
           r == Roots[Right(n)]
           s == l \o r
<1>1. Roots[n] = s
  BY RootsBelow
<1>2. l \in Seq(Nodes) /\ r \in Seq(Nodes) /\ s \in Seq(Nodes)
  <2>1. l \in Seq(Nodes) /\ r \in Seq(Nodes)
    BY DEF RootsInv
  <2> QED
    BY <2>1
<1>3. Elements(s) = Elements(l) \union Elements(r)
  <2> HIDE DEF l, r
  <2> QED
    BY <1>2, ElementsOfConcat
<1>4. Below(n) = Below(Left(n)) \union Below(Right(n))
  BY BelowNodes
<1>5. UNION {Below(x) : x \in Elements(s)} = {k \in Below(n) : check_chunk(k)}
  <2>1. /\ UNION {Below(x) : x \in Elements(l)} = {k \in Below(Left(n)) : check_chunk(k)}
        /\ UNION {Below(x) : x \in Elements(r)} = {k \in Below(Right(n)) : check_chunk(k)}
    BY DEF RootsInv
  <2> HIDE DEF l, r, s
  <2>2. UNION {Below(x) : x \in Elements(s)} =
           (UNION {Below(x) : x \in Elements(l)})
               \union (UNION {Below(x) : x \in Elements(r)})
    BY <1>3
  <2> QED
    BY <1>4, <2>1, <2>2
<1>6. \A x \in Elements(s) : x = n \/ ~check_chunk(Parent(x))
  <2>1. /\ \A x \in Elements(l) : x = Left(n) \/ ~check_chunk(Parent(x))
        /\ \A x \in Elements(r) : x = Right(n) \/ ~check_chunk(Parent(x))
    BY DEF RootsInv
  <2>2. Parent(Left(n)) = n /\ Parent(Right(n)) = n
    BY Heap
  <2> HIDE DEF l, r, s
  <2> QED
    BY <1>3, <2>1, <2>2
<1>7. \A x \in Elements(s) : check_chunk(x)
  <2>1. /\ \A x \in Elements(l) : check_chunk(x)
        /\ \A x \in Elements(r) : check_chunk(x)
    BY DEF RootsInv
  <2> HIDE DEF l, r, s
  <2> QED
    BY <1>3, <2>1
<1>8. ASSUME NEW i \in DOMAIN s, NEW j \in DOMAIN s, i # j
      PROVE  Below(s[i]) \intersect Below(s[j]) = {}
  <2>1. /\ \A a, b \in DOMAIN l : a # b => Below(l[a]) \intersect Below(l[b]) = {}
        /\ \A a, b \in DOMAIN r : a # b => Below(r[a]) \intersect Below(r[b]) = {}
        /\ UNION {Below(x) : x \in Elements(l)} = {k \in Below(Left(n)) : check_chunk(k)}
        /\ UNION {Below(x) : x \in Elements(r)} = {k \in Below(Right(n)) : check_chunk(k)}
    BY DEF RootsInv
  <2>2. Below(Left(n)) \intersect Below(Right(n)) = {}
    BY HalvesDisjoint
  <2> HIDE DEF l, r
  <2>8. /\ \A a \in DOMAIN l : Below(l[a]) \subseteq Below(Left(n))
        /\ \A a \in DOMAIN r : Below(r[a]) \subseteq Below(Right(n))
    <3>1. /\ \A a \in DOMAIN l : l[a] \in Elements(l)
          /\ \A a \in DOMAIN r : r[a] \in Elements(r)
      BY DEF Elements
    <3> QED
      BY <2>1, <3>1
  <2>3. /\ Len(l) \in Nat /\ Len(r) \in Nat
        /\ DOMAIN l = 1 .. Len(l) /\ DOMAIN r = 1 .. Len(r)
        /\ i \in 1 .. Len(l) + Len(r) /\ j \in 1 .. Len(l) + Len(r)
        /\ \A a \in 1 .. Len(l) + Len(r) :
              s[a] = IF a <= Len(l) THEN l[a] ELSE r[a - Len(l)]
    BY <1>2
  <2> HIDE DEF s
  <2>4. CASE i <= Len(l) /\ j <= Len(l)
    <3>1. i \in DOMAIN l /\ j \in DOMAIN l /\ s[i] = l[i] /\ s[j] = l[j]
      BY <2>3, <2>4
    <3> QED
      BY <1>8, <2>1, <3>1
  <2>5. CASE i > Len(l) /\ j > Len(l)
    <3>1. /\ i - Len(l) \in DOMAIN r /\ j - Len(l) \in DOMAIN r
          /\ i - Len(l) # j - Len(l)
          /\ s[i] = r[i - Len(l)] /\ s[j] = r[j - Len(l)]
      BY <1>8, <2>3, <2>5
    <3> QED
      BY <2>1, <3>1
  <2>6. CASE i <= Len(l) /\ j > Len(l)
    <3>1. i \in DOMAIN l /\ j - Len(l) \in DOMAIN r /\ s[i] = l[i] /\ s[j] = r[j - Len(l)]
      BY <2>3, <2>6
    <3> QED
      BY <2>2, <2>8, <3>1
  <2>7. CASE i > Len(l) /\ j <= Len(l)
    <3>1. j \in DOMAIN l /\ i - Len(l) \in DOMAIN r /\ s[j] = l[j] /\ s[i] = r[i - Len(l)]
      BY <2>3, <2>7
    <3> QED
      BY <2>2, <2>8, <3>1
  <2> QED
    BY <2>3, <2>4, <2>5, <2>6, <2>7
<1> HIDE DEF s
<1> QED
  BY <1>1, <1>2, <1>5, <1>6, <1>7, <1>8 DEF RootsInv

LEMMA RootsInvariant ==
    ASSUME TreeInv, PackageInv, Settled
    PROVE  \A n \in Nodes : RootsInv(n)
<1> DEFINE T == {n \in Nodes : RootsInv(n)}
<1>0. nchunks \in Nat \ {0}
  BY DEF TreeInv, TypeInv
<1>1. ASSUME NEW n \in Nodes, IsLeaf(n) \/ (Left(n) \in T /\ Right(n) \in T)
      PROVE  RootsInv(n)
  <2>1. CASE check_chunk(n)
    <3>1. Roots[n] = <<n>>
      BY <1>0, <2>1, RootsBelow
    <3>2. DOMAIN <<n>> = {1} /\ <<n>> \in Seq(Nodes) /\ Elements(<<n>>) = {n}
      BY DEF Elements
    <3>3. \A l \in Below(n) : check_chunk(l)
      BY <2>1, CompleteBelow
    <3>4. UNION {Below(x) : x \in {n}} = {l \in Below(n) : check_chunk(l)}
      BY <3>3
    <3> QED
      BY <2>1, <3>1, <3>2, <3>4 DEF RootsInv
  <2>2. CASE ~check_chunk(n) /\ IsLeaf(n)
    <3>1. Roots[n] = <<>>
      BY <1>0, <2>2, RootsBelow
    <3>2. DOMAIN <<>> = {} /\ <<>> \in Seq(Nodes) /\ Elements(<<>>) = {}
      BY DEF Elements
    <3>3. Below(n) = {n}
      BY <1>0, <2>2, BelowNodes
    <3>4. UNION {Below(x) : x \in {}} = {l \in Below(n) : check_chunk(l)}
      BY <2>2, <3>3
    <3> QED
      BY <3>1, <3>2, <3>4 DEF RootsInv
  <2>3. CASE ~check_chunk(n) /\ ~IsLeaf(n)
    BY <1>0, <1>1, <2>3, RootsOfHalves
  <2> QED
    BY <2>1, <2>2, <2>3
<1>2. T \subseteq Nodes
  OBVIOUS
<1>3. \A n \in Nodes : IsLeaf(n) \/ (Left(n) \in T /\ Right(n) \in T) => n \in T
  BY <1>1
<1>4. T = Nodes
  <2> HIDE DEF T
  <2> QED
    BY <1>0, <1>2, <1>3, HeapInduction
<1> QED
  BY <1>4

\* bpkg_get_completed_chunks after i rounds of its loop.
DoneTo(g, i) ==
    g = [k \in 0 .. i |->
            IF k = 0 THEN <<>>
            ELSE IF check_chunk(NodeOf(k - 1)) THEN Append(g[k - 1], NodeOf(k - 1))
            ELSE g[k - 1]]

LEMMA DoneExists ==
    ASSUME NEW i \in Nat
    PROVE  \E g : DoneTo(g, i)
<1> DEFINE S == {k \in Nat : ~ \E g : DoneTo(g, k)}
<1> SUFFICES ASSUME S # {} PROVE FALSE
  OBVIOUS
<1>1. PICK k \in S : \A j \in S : k <= j
  <2>1. S \subseteq Nat
    OBVIOUS
  <2> HIDE DEF S
  <2> QED
    BY <2>1, LeastElement
<1>2. k \in Nat /\ ~ \E g : DoneTo(g, k)
  BY <1>1
<1>3. CASE k = 0
  <2> DEFINE g == [j \in 0 .. 0 |-> <<>>]
  <2>1. \A j \in 0 .. 0 : j = 0
    OBVIOUS
  <2>2. DoneTo(g, 0)
    BY <2>1 DEF DoneTo
  <2> QED
    BY <1>2, <1>3, <2>2
<1>4. CASE k # 0
  <2>1. /\ k - 1 \in Nat /\ ~(k <= k - 1)
        /\ \A j \in 0 .. k : j = k \/ j \in 0 .. k - 1
        /\ \A j \in 0 .. k : j # 0 => j - 1 \in 0 .. k - 1 /\ j - 1 \in 0 .. k /\ j - 1 # k
        /\ k \in 0 .. k
    BY <1>2, <1>4
  <2>2. PICK g : DoneTo(g, k - 1)
    BY <1>1, <2>1
  <2> DEFINE x == IF check_chunk(NodeOf(k - 1)) THEN Append(g[k - 1], NodeOf(k - 1))
                                                ELSE g[k - 1]
             v == [j \in 0 .. k |-> IF j = k THEN x ELSE g[j]]
  <2> HIDE DEF x
  <2>3. v[k] = x /\ \A j \in 0 .. k : j # k => v[j] = g[j]
    BY <2>1
  <2>4. v = [j \in 0 .. k |-> v[j]]
    OBVIOUS
  <2> HIDE DEF v
  <2>5. ASSUME NEW j \in 0 .. k
        PROVE  v[j] = IF j = 0 THEN <<>>
                      ELSE IF check_chunk(NodeOf(j - 1)) THEN Append(v[j - 1], NodeOf(j - 1))
                      ELSE v[j - 1]
    <3>1. j # 0 => v[j - 1] = g[j - 1]
      BY <2>1, <2>3
    <3>2. CASE j = k
      BY <1>4, <2>3, <3>1, <3>2 DEF x
    <3>3. CASE j # k
      <4>1. j \in 0 .. k - 1 /\ v[j] = g[j]
        BY <2>1, <2>3, <3>3
      <4>2. g[j] = IF j = 0 THEN <<>>
                   ELSE IF check_chunk(NodeOf(j - 1)) THEN Append(g[j - 1], NodeOf(j - 1))
                   ELSE g[j - 1]
        BY <2>2, <4>1, Zenon DEF DoneTo
      <4> QED
        BY <3>1, <4>1, <4>2
    <3> QED
      BY <3>2, <3>3
  <2>6. DoneTo(v, k)
    BY <2>4, <2>5, Zenon DEF DoneTo
  <2> QED
    BY <1>2, <2>6
<1> QED
  BY <1>3, <1>4

\* A query hands out its list up to the length that is left of it.
LEMMA QueryCut ==
    ASSUME NEW S, NEW s \in Seq(S)
    PROVE  /\ uint16(Len(s)) \in 0 .. Len(s)
           /\ bpkg_qry_create(s) \in Seq(S)
           /\ Len(bpkg_qry_create(s)) = uint16(Len(s))
           /\ bpkg_qry_create(s) = [i \in 1 .. uint16(Len(s)) |-> s[i]]
           /\ Len(s) < CountLimit => bpkg_qry_create(s) = s
<1> DEFINE k == uint16(Len(s))
           q == SubSeq(s, 1, k)
<1>1. Len(s) \in Nat /\ k \in 0 .. Len(s) /\ (Len(s) < CountLimit => k = Len(s))
  BY Uint16
<1>2. bpkg_qry_create(s) = q
  BY DEF bpkg_qry_create
<1> HIDE DEF k
<1>3. q \in Seq(S) /\ Len(q) = k /\ \A i \in 1 .. k : q[i] = s[i]
  BY <1>1
<1> HIDE DEF q
<1>4. q = [i \in 1 .. k |-> s[i]]
  BY <1>3
<1>5. k = Len(s) => q = s
  BY <1>3
<1> QED
  BY <1>1, <1>2, <1>3, <1>4, <1>5 DEF k

\* The loop collects the complete leaves.
LEMMA CompletedAre ==
    ASSUME nchunks \in Nat \ {0}, nchunks < CountLimit
    PROVE  Elements(CompletedChunks) = {l \in Nodes : IsLeaf(l) /\ check_chunk(l)}
<1> DEFINE D == CHOOSE g : DoneTo(g, nchunks)
           Upto(i) == {NodeOf(c) : c \in {c \in 0 .. i - 1 : check_chunk(NodeOf(c))}}
           Good(i) == /\ D[i] \in Seq(Nodes)
                      /\ Elements(D[i]) = Upto(i)
                      /\ Len(D[i]) <= i
           S == {i \in 0 .. nchunks : ~Good(i)}
<1>1. DoneTo(D, nchunks)
  BY DoneExists, Zenon
<1>2. CompletedChunks = bpkg_qry_create(D[nchunks])
  BY Zenon DEF CompletedChunks, DoneTo
<1> HIDE DEF D
<1>3. \A i \in 0 .. nchunks :
          D[i] = IF i = 0 THEN <<>>
                 ELSE IF check_chunk(NodeOf(i - 1)) THEN Append(D[i - 1], NodeOf(i - 1))
                 ELSE D[i - 1]
  BY <1>1, Zenon DEF DoneTo
<1>4. S = {}
  <2> SUFFICES ASSUME S # {} PROVE FALSE
    OBVIOUS
  <2>1. PICK i \in S : \A j \in S : i <= j
    <3>1. S \subseteq Nat
      OBVIOUS
    <3> HIDE DEF S
    <3> QED
      BY <3>1, LeastElement
  <2>2. i \in 0 .. nchunks /\ ~Good(i)
    BY <2>1
  <2>3. CASE i = 0
    <3>1. D[0] = <<>> /\ 0 .. 0 - 1 = {}
      BY <1>3, <2>2, <2>3
    <3>2. Upto(0) = {}
      BY <3>1
    <3>3. Elements(<<>>) = {} /\ <<>> \in Seq(Nodes) /\ Len(<<>>) = 0
      BY DEF Elements
    <3> QED
      BY <2>2, <2>3, <3>1, <3>2, <3>3
  <2>4. CASE i # 0
    <3> DEFINE s == D[i - 1]
               c == i - 1
    <3>1. c \in 0 .. nchunks /\ ~(i <= c) /\ 0 .. i - 1 = (0 .. c - 1) \union {c}
      BY <2>2, <2>4
    <3>2. Good(c)
      BY <2>1, <3>1
    <3>3. s \in Seq(Nodes) /\ Elements(s) = Upto(c) /\ Len(s) <= c /\ Len(s) \in Nat
      BY <3>2
    <3>4. NodeOf(c) \in Nodes
      BY <2>2, <2>4 DEF NodeOf, Nodes, nnodes, nhashes
    <3>5. CASE check_chunk(NodeOf(c))
      <4>1. D[i] = Append(s, NodeOf(c))
        BY <1>3, <2>2, <2>4, <3>5
      <4>2. Append(s, NodeOf(c)) = s \o <<NodeOf(c)>> /\ <<NodeOf(c)>> \in Seq(Nodes)
        BY <3>3, <3>4
      <4>3. Elements(<<NodeOf(c)>>) = {NodeOf(c)}
        BY DEF Elements
      <4>4. Elements(s \o <<NodeOf(c)>>) = Elements(s) \union {NodeOf(c)}
        <5>1. s \in Seq(Nodes) /\ <<NodeOf(c)>> \in Seq(Nodes)
          BY <3>3, <4>2
        <5> HIDE DEF s, c
        <5>2. Elements(s \o <<NodeOf(c)>>) = Elements(s) \union Elements(<<NodeOf(c)>>)
          BY <5>1, ElementsOfConcat
        <5> QED
          BY <4>3, <5>2
      <4>5. Upto(i) = Upto(c) \union {NodeOf(c)}
        BY <3>1, <3>5
      <4>6. s \o <<NodeOf(c)>> \in Seq(Nodes)
        BY <3>3, <4>2
      <4>7. Len(Append(s, NodeOf(c))) <= i
        <5>1. Len(Append(s, NodeOf(c))) = Len(s) + 1
          BY <3>3, <3>4
        <5> QED
          BY <2>2, <3>3, <5>1
      <4> QED
        BY <2>2, <3>3, <4>1, <4>2, <4>4, <4>5, <4>6, <4>7
    <3>6. CASE ~check_chunk(NodeOf(c))
      <4>1. D[i] = s
        BY <1>3, <2>2, <2>4, <3>6
      <4>2. Upto(i) = Upto(c)
        BY <3>1, <3>6
      <4>3. Len(s) <= i
        BY <2>2, <3>3
      <4> QED
        BY <2>2, <3>3, <4>1, <4>2, <4>3
    <3> QED
      BY <3>5, <3>6
  <2> QED
    BY <2>3, <2>4
<1>5. Elements(CompletedChunks) = Upto(nchunks)
  <2>1. nchunks \in 0 .. nchunks
    OBVIOUS
  <2>2. Good(nchunks)
    BY <1>4, <2>1
  <2>3. Len(D[nchunks]) < CountLimit
    <3>1. Len(D[nchunks]) \in Nat /\ Len(D[nchunks]) <= nchunks
      BY <2>2
    <3> QED
      BY <3>1, TreeAssumption
  <2> QED
    BY <1>2, <2>2, <2>3, QueryCut
<1>6. \A c \in 0 .. nchunks - 1 : NodeOf(c) \in Nodes /\ IsLeaf(NodeOf(c))
  BY DEF NodeOf, Nodes, nnodes, nhashes, IsLeaf
<1>7. \A l \in Nodes : IsLeaf(l) => ChunkOf(l) \in 0 .. nchunks - 1 /\ NodeOf(ChunkOf(l)) = l
  BY DEF NodeOf, ChunkOf, Nodes, nnodes, nhashes, IsLeaf
<1>8. \A l \in Upto(nchunks) : l \in Nodes /\ IsLeaf(l) /\ check_chunk(l)
  BY <1>6
<1>9. \A l \in Nodes : IsLeaf(l) /\ check_chunk(l) => l \in Upto(nchunks)
  BY <1>7
<1> HIDE DEF Upto
<1> QED
  BY <1>5, <1>8, <1>9

\* Each of these nodes has a complete leaf of its own: there are no more than
\* chunks.
LEMMA RootsAreFew ==
    ASSUME nchunks \in Nat \ {0}, NEW f \in Seq(Nodes),
           \A i, j \in DOMAIN f : i # j => Below(f[i]) \intersect Below(f[j]) = {}
    PROVE  Len(f) <= nchunks
<1> DEFINE leaves == nhashes .. nnodes - 1
           pick == [i \in 1 .. Len(f) |-> CHOOSE l : l \in Below(f[i])]
<1>1. Len(f) \in Nat /\ DOMAIN f = 1 .. Len(f) /\ \A i \in 1 .. Len(f) : f[i] \in Nodes
  OBVIOUS
<1>2. \A i \in 1 .. Len(f) : pick[i] \in Below(f[i])
  <2> SUFFICES ASSUME NEW i \in 1 .. Len(f) PROVE pick[i] \in Below(f[i])
    OBVIOUS
  <2>1. Below(f[i]) # {}
    BY <1>1, BelowSome
  <2> QED
    BY <2>1
<1>3. \A i \in 1 .. Len(f) : pick[i] \in leaves
  <2> SUFFICES ASSUME NEW i \in 1 .. Len(f) PROVE pick[i] \in leaves
    OBVIOUS
  <2> HIDE DEF pick
  <2>1. pick[i] \in Nodes /\ IsLeaf(pick[i])
    BY <1>1, <1>2, BelowLeaves
  <2> QED
    BY <2>1 DEF Nodes, nnodes, nhashes, IsLeaf
<1>4. \A i, j \in 1 .. Len(f) : pick[i] = pick[j] => i = j
  <2> HIDE DEF pick
  <2> QED
    BY <1>1, <1>2
<1>5. pick \in Injection(1 .. Len(f), leaves)
  <2>1. pick \in [1 .. Len(f) -> leaves]
    BY <1>3
  <2> HIDE DEF pick, leaves
  <2> QED
    BY <1>4, <2>1, Fun_IsInj
<1>6. IsFiniteSet(leaves) /\ Cardinality(leaves) = nchunks
  <2>1. nhashes \in Int /\ nnodes - 1 \in Int /\ ~(nhashes > nnodes - 1)
        /\ nnodes - 1 - nhashes + 1 = nchunks
    BY DEF nnodes, nhashes
  <2> QED
    BY <2>1, FS_Interval
<1>7. Cardinality(1 .. Len(f)) = Len(f)
  BY <1>1, FS_Interval
<1> HIDE DEF leaves, pick
<1>8. Cardinality(1 .. Len(f)) <= Cardinality(leaves)
  BY <1>5, <1>6, FS_Injection
<1> QED
  BY <1>6, <1>7, <1>8

(***************************************************************************)
(* Theorem.  The minimal set of complete hashes holds complete nodes, each *)
(* once, none above another and no two children of one node; and while the *)
(* number of chunks fits a query's length it stands for exactly the        *)
(* complete chunks (bpkg_get_largest_completed_subtree compared with       *)
(* bpkg_get_completed_chunks), for any number of chunks.                   *)
(***************************************************************************)
THEOREM TreeMinCompletedIsMinimal == Spec => []MinCompletedIsMinimal
<1>1. ContentInv => MinCompletedIsMinimal
  <2> SUFFICES ASSUME ContentInv, Settled
               PROVE  /\ \A n \in Elements(MinCompleted) : check_chunk(n)
                      /\ Len(MinCompleted) = Cardinality(Elements(MinCompleted))
                      /\ \A m, n \in Elements(MinCompleted) :
                            m # n => /\ LeavesOf({m}) \intersect LeavesOf({n}) = {}
                                     /\ m # 0 /\ n # 0 => Parent(m) # Parent(n)
                      /\ nchunks < CountLimit =>
                            LeavesOf(Elements(MinCompleted)) = Elements(CompletedChunks)
    BY Zenon DEF MinCompletedIsMinimal, Elements
  <2>0. TreeInv /\ TypeInv /\ PackageInv /\ nchunks \in Nat \ {0} /\ 0 \in Nodes
    BY Heap DEF ContentInv, TreeInv, TypeInv
  <2> DEFINE r == Roots[0]
             f == bpkg_qry_create(r)
             nodes == Elements(f)
  <2>1. MinCompleted = f
    BY <2>0, RootsBelow
  <2>9. /\ r \in Seq(Nodes)
        /\ UNION {Below(x) : x \in Elements(r)} = {l \in Below(0) : check_chunk(l)}
        /\ \A x \in Elements(r) : x = 0 \/ ~check_chunk(Parent(x))
        /\ \A x \in Elements(r) : check_chunk(x)
        /\ \A i, j \in DOMAIN r : i # j => Below(r[i]) \intersect Below(r[j]) = {}
    BY <2>0, RootsInvariant DEF RootsInv
  <2> HIDE DEF r
  <2>10. /\ f \in Seq(Nodes) /\ DOMAIN f \subseteq DOMAIN r
         /\ \A i \in DOMAIN f : f[i] = r[i]
         /\ Len(r) < CountLimit => f = r
    <3>1. /\ uint16(Len(r)) \in 0 .. Len(r) /\ Len(r) \in Nat /\ DOMAIN r = 1 .. Len(r)
          /\ f \in Seq(Nodes)
          /\ f = [i \in 1 .. uint16(Len(r)) |-> r[i]]
          /\ Len(r) < CountLimit => f = r
      BY <2>9, QueryCut
    <3> HIDE DEF f
    <3> QED
      BY <3>1
  <2> HIDE DEF f
  <2>2. /\ f \in Seq(Nodes)
        /\ \A x \in nodes : x = 0 \/ ~check_chunk(Parent(x))
        /\ \A x \in nodes : check_chunk(x)
        /\ \A i, j \in DOMAIN f : i # j => Below(f[i]) \intersect Below(f[j]) = {}
    <3>1. nodes \subseteq Elements(r)
      BY <2>10 DEF Elements
    <3> QED
      BY <2>9, <2>10, <3>1
  <2>3. /\ Len(f) \in Nat /\ DOMAIN f = 1 .. Len(f)
        /\ \A i \in 1 .. Len(f) : f[i] \in Nodes
    BY <2>2
  <2>4. nodes \subseteq Nodes
    BY <2>3 DEF Elements
  <2>5. ASSUME nchunks < CountLimit
        PROVE  LeavesOf(nodes) = Elements(CompletedChunks)
    <3>1. LeavesOf(nodes) = UNION {Below(x) : x \in nodes}
      BY DEF LeavesOf, Below, Elements
    <3>2. {l \in Below(0) : check_chunk(l)} = {l \in Nodes : IsLeaf(l) /\ check_chunk(l)}
      BY <2>0, BelowLeaves, BelowRoot
    <3>3. Len(r) < CountLimit
      <4>1. Len(r) \in Nat /\ Len(r) <= nchunks
        BY <2>0, <2>9, RootsAreFew
      <4> QED
        BY <2>0, <2>5, <4>1, TreeAssumption
    <3>4. f = r
      BY <2>10, <3>3
    <3> QED
      BY <2>0, <2>5, <2>9, <3>1, <3>2, <3>4, CompletedAre
  <2>6. Len(f) = Cardinality(nodes)
    <3>1. ASSUME NEW i \in 1 .. Len(f), NEW j \in 1 .. Len(f), f[i] = f[j] PROVE i = j
      <4>1. Below(f[i]) # {}
        BY <2>0, <2>3, BelowSome
      <4> QED
        BY <2>2, <2>3, <3>1, <4>1
    <3>2. f \in [1 .. Len(f) -> nodes] /\ \A x \in nodes : \E i \in 1 .. Len(f) : f[i] = x
      BY <2>2, <2>3 DEF Elements
    <3>3. f \in Bijection(1 .. Len(f), nodes)
      <4> HIDE DEF nodes
      <4> QED
        BY <3>1, <3>2, Fun_IsBij
    <3>4. ExistsBijection(1 .. Len(f), nodes)
      BY <3>3, Fun_ExistsBij
    <3> QED
      BY <2>3, <3>4, FS_CountingElements
  <2>7. ASSUME NEW m \in nodes, NEW n \in nodes, m # n
        PROVE  LeavesOf({m}) \intersect LeavesOf({n}) = {}
    <3>1. PICK i \in DOMAIN f, j \in DOMAIN f : f[i] = m /\ f[j] = n
      BY DEF Elements
    <3>2. LeavesOf({m}) = Below(m) /\ LeavesOf({n}) = Below(n)
      BY DEF LeavesOf, Below, Elements
    <3> QED
      BY <2>2, <2>7, <3>1, <3>2
  <2>8. ASSUME NEW m \in nodes, NEW n \in nodes, m # n, m # 0, n # 0, Parent(m) = Parent(n)
        PROVE  FALSE
    <3> DEFINE p == Parent(m)
    <3>1. /\ p \in Nodes /\ ~IsLeaf(p)
          /\ \/ m = Left(p) /\ n = Right(p)
             \/ m = Right(p) /\ n = Left(p)
      BY <2>0, <2>4, <2>8, Heap
    <3>2. ~check_chunk(p) /\ check_chunk(m) /\ check_chunk(n)
      BY <2>2, <2>8
    <3> HIDE DEF p
    <3>3. Below(p) = Below(m) \union Below(n)
      BY <2>0, <3>1, BelowNodes
    <3>4. /\ check_chunk(p) <=> \A l \in Below(p) : check_chunk(l)
          /\ check_chunk(m) <=> \A l \in Below(m) : check_chunk(l)
          /\ check_chunk(n) <=> \A l \in Below(n) : check_chunk(l)
      BY <2>0, <2>4, <3>1, CompleteBelow
    <3> QED
      BY <3>2, <3>3, <3>4
  <2> QED
    BY <2>1, <2>2, <2>5, <2>6, <2>7, <2>8
<1> QED
  BY <1>1, ContentInvariant, PTL

-----------------------------------------------------------------------------
(* The order of the chunks.                                                  *)

PowersTo(g, i) == g = [k \in 0 .. i |-> IF k = 0 THEN 1 ELSE 2 * g[k - 1]]

LEMMA PowersExist ==
    ASSUME NEW i \in Nat
    PROVE  \E g : PowersTo(g, i)
<1> DEFINE S == {k \in Nat : ~ \E g : PowersTo(g, k)}
<1> SUFFICES ASSUME S # {} PROVE FALSE
  OBVIOUS
<1>1. PICK k \in S : \A j \in S : k <= j
  <2>1. S \subseteq Nat
    OBVIOUS
  <2> HIDE DEF S
  <2> QED
    BY <2>1, LeastElement
<1>2. k \in Nat /\ ~ \E g : PowersTo(g, k)
  BY <1>1
<1>3. CASE k = 0
  <2> DEFINE g == [j \in 0 .. 0 |-> 1]
  <2>1. \A j \in 0 .. 0 : j = 0
    OBVIOUS
  <2>2. PowersTo(g, 0)
    BY <2>1 DEF PowersTo
  <2> QED
    BY <1>2, <1>3, <2>2
<1>4. CASE k # 0
  <2>1. /\ k - 1 \in Nat /\ ~(k <= k - 1)
        /\ \A j \in 0 .. k : j = k \/ j \in 0 .. k - 1
        /\ \A j \in 0 .. k : j # 0 => j - 1 \in 0 .. k - 1 /\ j - 1 \in 0 .. k /\ j - 1 # k
        /\ k \in 0 .. k
    BY <1>2, <1>4
  <2>2. PICK g : PowersTo(g, k - 1)
    BY <1>1, <2>1
  <2> DEFINE v == [j \in 0 .. k |-> IF j = k THEN 2 * g[k - 1] ELSE g[j]]
  <2>3. v[k] = 2 * g[k - 1] /\ \A j \in 0 .. k : j # k => v[j] = g[j]
    BY <2>1
  <2>4. v = [j \in 0 .. k |-> v[j]]
    OBVIOUS
  <2> HIDE DEF v
  <2>5. ASSUME NEW j \in 0 .. k
        PROVE  v[j] = IF j = 0 THEN 1 ELSE 2 * v[j - 1]
    <3>1. j # 0 => v[j - 1] = g[j - 1]
      BY <2>1, <2>3
    <3>2. CASE j = k
      BY <1>4, <2>3, <3>1, <3>2
    <3>3. CASE j # k
      <4>1. j \in 0 .. k - 1 /\ v[j] = g[j]
        BY <2>1, <2>3, <3>3
      <4>2. g[j] = IF j = 0 THEN 1 ELSE 2 * g[j - 1]
        BY <2>2, <4>1, Zenon DEF PowersTo
      <4> QED
        BY <3>1, <4>1, <4>2
    <3> QED
      BY <3>2, <3>3
  <2>6. PowersTo(v, k)
    BY <2>4, <2>5, Zenon DEF PowersTo
  <2> QED
    BY <1>2, <2>6
<1> QED
  BY <1>3, <1>4

LEMMA Powers ==
    /\ PowerOf2[0] = 1
    /\ \A d \in 0 .. MaxChunks : PowerOf2[d + 1] = 2 * PowerOf2[d]
    /\ \A d \in 0 .. MaxChunks + 1 : PowerOf2[d] \in Nat \ {0}
<1> DEFINE P == CHOOSE g : PowersTo(g, MaxChunks + 1)
<1>1. PowersTo(P, MaxChunks + 1)
  <2>1. MaxChunks + 1 \in Nat
    BY TreeAssumption
  <2> QED
    BY <2>1, PowersExist, Zenon
<1>2. PowerOf2 = P
  BY Zenon DEF PowerOf2, PowersTo
<1> HIDE DEF P
<1>3. \A d \in 0 .. MaxChunks + 1 : P[d] = IF d = 0 THEN 1 ELSE 2 * P[d - 1]
  BY <1>1, Zenon DEF PowersTo
<1>4. P[0] = 1 /\ \A d \in 0 .. MaxChunks : P[d + 1] = 2 * P[d]
  <2>1. /\ 0 \in 0 .. MaxChunks + 1
        /\ \A d \in 0 .. MaxChunks : d + 1 \in 0 .. MaxChunks + 1 /\ d + 1 # 0 /\ d + 1 - 1 = d
    BY TreeAssumption
  <2> QED
    BY <1>3, <2>1
<1> DEFINE S == {d \in 0 .. MaxChunks + 1 : P[d] \notin Nat \ {0}}
<1>5. S = {}
  <2> SUFFICES ASSUME S # {} PROVE FALSE
    OBVIOUS
  <2>1. PICK d \in S : \A k \in S : d <= k
    <3>1. S \subseteq Nat
      OBVIOUS
    <3> HIDE DEF S
    <3> QED
      BY <3>1, LeastElement
  <2>2. d \in 0 .. MaxChunks + 1 /\ P[d] \notin Nat \ {0}
    BY <2>1
  <2>3. d # 0
    BY <1>4, <2>2
  <2>4. d - 1 \in 0 .. MaxChunks /\ d - 1 \in 0 .. MaxChunks + 1 /\ ~(d <= d - 1) /\ d - 1 + 1 = d
    BY <2>2, <2>3, TreeAssumption
  <2>5. P[d - 1] \in Nat \ {0}
    BY <2>1, <2>4
  <2>6. P[d] = 2 * P[d - 1]
    BY <1>4, <2>4
  <2> QED
    BY <2>2, <2>5, <2>6
<1> QED
  BY <1>2, <1>4, <1>5

\* Powers grow, and what one leaves of another is a power again.
LEMMA PowersGrow ==
    ASSUME NEW d \in 0 .. MaxChunks + 1, NEW e \in 0 .. d
    PROVE  /\ PowerOf2[e] <= PowerOf2[d]
           /\ PowerOf2[e] * PowerOf2[d - e] = PowerOf2[d]
<1> DEFINE Good(k) == /\ PowerOf2[k] <= PowerOf2[d]
                      /\ PowerOf2[k] * PowerOf2[d - k] = PowerOf2[d]
           S == {k \in 0 .. d : ~Good(d - k)}
<1>0. MaxChunks \in Nat
  BY TreeAssumption
<1> SUFFICES ASSUME S # {} PROVE FALSE
  <2>1. d - e \in 0 .. d /\ d - (d - e) = e
    BY <1>0
  <2> QED
    BY <2>1
<1>1. PICK k \in S : \A j \in S : k <= j
  <2>1. S \subseteq Nat
    OBVIOUS
  <2> HIDE DEF S
  <2> QED
    BY <2>1, LeastElement
<1>2. k \in 0 .. d /\ ~Good(d - k)
  BY <1>1
<1>3. CASE k = 0
  <2>1. d - k = d /\ d - d = 0
    BY <1>0, <1>3
  <2>2. PowerOf2[d] \in Nat /\ PowerOf2[0] = 1
    BY Powers
  <2> QED
    BY <1>2, <2>1, <2>2
<1>4. CASE k # 0
  <2> DEFINE a == d - k
             b == k - 1
  <2>1. /\ b \in 0 .. d /\ ~(k <= b) /\ d - b = a + 1
        /\ a \in 0 .. MaxChunks /\ b \in 0 .. MaxChunks /\ d - a = b + 1 /\ d - (a + 1) = b
        /\ a \in 0 .. MaxChunks + 1 /\ b \in 0 .. MaxChunks + 1
    BY <1>0, <1>2, <1>4
  <2>2. Good(a + 1)
    BY <1>1, <2>1
  <2> HIDE DEF a, b
  <2>3. PICK p \in Nat, q \in Nat : p = PowerOf2[a] /\ q = PowerOf2[b]
    BY <2>1, Powers
  <2>4. PowerOf2[a + 1] = 2 * p /\ PowerOf2[b + 1] = 2 * q /\ PowerOf2[d] \in Nat
    BY <2>1, <2>3, Powers
  <2>5. 2 * p <= PowerOf2[d] /\ (2 * p) * q = PowerOf2[d]
    BY <2>1, <2>2, <2>3, <2>4
  <2>6. p * (2 * q) = (2 * p) * q /\ p <= 2 * p
    OBVIOUS
  <2>7. p <= PowerOf2[d]
    BY <2>4, <2>5, <2>6
  <2>8. Good(a)
    BY <2>1, <2>3, <2>4, <2>5, <2>6, <2>7
  <2> QED
    BY <1>2, <2>8 DEF a
<1> QED
  BY <1>3, <1>4

\* In a full tree the leaves below node n of level d are consecutive.
InOrder(n, depth) ==
    \A d \in 0 .. depth :
        n + 1 \in PowerOf2[d] .. 2 * PowerOf2[d] - 1 =>
            LET w == PowerOf2[depth - d]
            IN  /\ Len(SubtreeChunks[n]) = w
                /\ \A i \in 1 .. w :
                      SubtreeChunks[n][i] = nhashes + w * (n + 1 - PowerOf2[d]) + i - 1

LEMMA FullTreeInOrder ==
    ASSUME nchunks \in Nat \ {0}, NEW depth \in 0 .. MaxChunks,
           nchunks = PowerOf2[depth]
    PROVE  \A n \in Nodes : InOrder(n, depth)
<1> DEFINE T == {n \in Nodes : InOrder(n, depth)}
<1>0. MaxChunks \in Nat /\ depth \in 0 .. MaxChunks + 1
  BY TreeAssumption
<1>1. ASSUME NEW n \in Nodes, IsLeaf(n) \/ (Left(n) \in T /\ Right(n) \in T)
      PROVE  InOrder(n, depth)
  <2> SUFFICES ASSUME NEW d \in 0 .. depth,
                      n + 1 \in PowerOf2[d] .. 2 * PowerOf2[d] - 1
               PROVE  /\ Len(SubtreeChunks[n]) = PowerOf2[depth - d]
                      /\ \A i \in 1 .. PowerOf2[depth - d] :
                            SubtreeChunks[n][i] =
                                nhashes + PowerOf2[depth - d] * (n + 1 - PowerOf2[d]) + i - 1
    BY DEF InOrder
  <2>0. /\ n \in Nat /\ nhashes = nchunks - 1 /\ nhashes \in Nat
        /\ IsLeaf(n) <=> n + 1 >= nchunks
    BY Heap DEF nhashes, IsLeaf
  <2>p. PICK p \in Nat \ {0} : p = PowerOf2[d]
    BY <1>0, Powers
  <2>1. CASE IsLeaf(n)
    <3>1. d = depth
      <4> SUFFICES ASSUME d # depth PROVE FALSE
        OBVIOUS
      <4>1. d + 1 \in 0 .. depth /\ d \in 0 .. MaxChunks
        BY <1>0
      <4>2. 2 * p <= nchunks
        BY <1>0, <2>p, <4>1, Powers, PowersGrow
      <4> QED
        BY <2>0, <2>p, <2>1, <4>2
    <3>2. PowerOf2[depth - d] = 1
      BY <3>1, Powers
    <3>3. SubtreeChunks[n] = <<n>>
      BY <2>1, LeavesBelow
    <3>4. nhashes + 1 * (n + 1 - p) + 1 - 1 = n
      BY <2>0, <2>p, <3>1
    <3> QED
      BY <2>p, <3>2, <3>3, <3>4
  <2>2. CASE ~IsLeaf(n)
    <3>1. d # depth
      BY <2>0, <2>p, <2>2
    <3>2. /\ d + 1 \in 0 .. depth /\ d \in 0 .. MaxChunks
          /\ depth - (d + 1) \in 0 .. MaxChunks /\ depth - (d + 1) + 1 = depth - d
      BY <1>0, <3>1
    <3>3. PICK w \in Nat : w = PowerOf2[depth - (d + 1)]
      <4>1. depth - (d + 1) \in 0 .. MaxChunks + 1
        BY <1>0, <3>2
      <4> QED
        BY <4>1, Powers
    <3>4. PowerOf2[d + 1] = 2 * p /\ PowerOf2[depth - d] = 2 * w
      BY <2>p, <3>2, <3>3, Powers
    <3>5. /\ Left(n) + 1 \in 2 * p .. 2 * (2 * p) - 1
          /\ Right(n) + 1 \in 2 * p .. 2 * (2 * p) - 1
          /\ Left(n) + 1 - 2 * p = 2 * (n + 1 - p)
          /\ Right(n) + 1 - 2 * p = 2 * (n + 1 - p) + 1
      BY <2>0, <2>p DEF Left, Right
    <3> DEFINE l == SubtreeChunks[Left(n)]
               r == SubtreeChunks[Right(n)]
    <3>6. InOrder(Left(n), depth) /\ InOrder(Right(n), depth)
      BY <1>1, <2>2
    <3>7. /\ Len(l) = w
          /\ \A i \in 1 .. w : l[i] = nhashes + w * (2 * (n + 1 - p)) + i - 1
      <4>1. /\ Len(l) = PowerOf2[depth - (d + 1)]
            /\ \A i \in 1 .. PowerOf2[depth - (d + 1)] :
                  l[i] = nhashes + PowerOf2[depth - (d + 1)]
                                        * (Left(n) + 1 - PowerOf2[d + 1]) + i - 1
        <5>1. Left(n) + 1 \in PowerOf2[d + 1] .. 2 * PowerOf2[d + 1] - 1
          BY <3>4, <3>5
        <5> QED
          BY <3>2, <3>6, <5>1 DEF InOrder
      <4>2. Left(n) + 1 - PowerOf2[d + 1] = 2 * (n + 1 - p)
        BY <3>4, <3>5
      <4> HIDE DEF l
      <4> QED
        BY <3>3, <4>1, <4>2
    <3>8. /\ Len(r) = w
          /\ \A i \in 1 .. w : r[i] = nhashes + w * (2 * (n + 1 - p) + 1) + i - 1
      <4>1. /\ Len(r) = PowerOf2[depth - (d + 1)]
            /\ \A i \in 1 .. PowerOf2[depth - (d + 1)] :
                  r[i] = nhashes + PowerOf2[depth - (d + 1)]
                                        * (Right(n) + 1 - PowerOf2[d + 1]) + i - 1
        <5>1. Right(n) + 1 \in PowerOf2[d + 1] .. 2 * PowerOf2[d + 1] - 1
          BY <3>4, <3>5
        <5> QED
          BY <3>2, <3>6, <5>1 DEF InOrder
      <4>2. Right(n) + 1 - PowerOf2[d + 1] = 2 * (n + 1 - p) + 1
        BY <3>4, <3>5
      <4> HIDE DEF r
      <4> QED
        BY <3>3, <4>1, <4>2
    <3>9. SubtreeChunks[n] = l \o r /\ l \in Seq(Nodes) /\ r \in Seq(Nodes)
      BY <2>2, Heap, LeavesBelow, BelowNodes
    <3>p. PICK x \in Int : x = w * (n + 1 - p)
      BY <2>0
    <3>q. /\ w * (2 * (n + 1 - p)) = 2 * x
          /\ w * (2 * (n + 1 - p) + 1) = 2 * x + w
          /\ (2 * w) * (n + 1 - p) = 2 * x
      <4> DEFINE y == n + 1 - p
      <4>1. y \in Int
        BY <2>0
      <4> HIDE DEF y
      <4>2. w * (2 * y) = 2 * (w * y) /\ w * (2 * y + 1) = 2 * (w * y) + w
            /\ (2 * w) * y = 2 * (w * y)
        BY <4>1
      <4> QED
        BY <3>p, <4>2 DEF y
    <3> HIDE DEF l, r
    <3>10. /\ Len(l \o r) = 2 * w
           /\ \A i \in 1 .. 2 * w : (l \o r)[i] = IF i <= w THEN l[i] ELSE r[i - w]
      <4>1. /\ Len(l \o r) = Len(l) + Len(r)
            /\ \A i \in 1 .. Len(l) + Len(r) :
                  (l \o r)[i] = IF i <= Len(l) THEN l[i] ELSE r[i - Len(l)]
        BY <3>9
      <4>2. Len(l) = w /\ Len(r) = w /\ w + w = 2 * w
        BY <3>7, <3>8
      <4> QED
        BY <4>1, <4>2
    <3>11. ASSUME NEW i \in 1 .. 2 * w
           PROVE  (l \o r)[i] = nhashes + 2 * x + i - 1
      <4>1. CASE i <= w
        <5>1. i \in 1 .. w
          BY <4>1
        <5> QED
          BY <3>7, <3>q, <3>10, <4>1, <5>1
      <4>2. CASE ~(i <= w)
        <5>1. i - w \in 1 .. w
          BY <4>2
        <5>2. r[i - w] = nhashes + (2 * x + w) + (i - w) - 1
          BY <3>8, <3>q, <5>1
        <5>3. nhashes + (2 * x + w) + (i - w) - 1 = nhashes + 2 * x + i - 1
          BY <2>0
        <5> QED
          BY <3>10, <4>2, <5>2, <5>3
      <4> QED
        BY <4>1, <4>2
    <3> QED
      BY <2>p, <3>4, <3>9, <3>q, <3>10, <3>11
  <2> QED
    BY <2>1, <2>2
<1>2. \A n \in Nodes : IsLeaf(n) \/ (Left(n) \in T /\ Right(n) \in T) => n \in T
  BY <1>1
<1>3. T \subseteq Nodes
  OBVIOUS
<1>4. T = Nodes
  <2> HIDE DEF T
  <2> QED
    BY <1>2, <1>3, HeapInduction
<1> QED
  BY <1>4

\* The hashes that -hashes_of lists for a node.
HashesOf(n) == [i \in DOMAIN SubtreeChunks[n] |-> expected[SubtreeChunks[n][i]]]

LEMMA HashesOfNode ==
    ASSUME nchunks \in Nat \ {0}, NEW n \in Nodes
    PROVE  /\ IsLeaf(n) => HashesOf(n) = <<expected[n]>>
           /\ ~IsLeaf(n) => HashesOf(n) = HashesOf(Left(n)) \o HashesOf(Right(n))
<1>1. ASSUME IsLeaf(n) PROVE HashesOf(n) = <<expected[n]>>
  <2>1. SubtreeChunks[n] = <<n>>
    BY <1>1, LeavesBelow
  <2> QED
    BY <2>1 DEF HashesOf
<1>2. ASSUME ~IsLeaf(n) PROVE HashesOf(n) = HashesOf(Left(n)) \o HashesOf(Right(n))
  <2> DEFINE l == SubtreeChunks[Left(n)]
             r == SubtreeChunks[Right(n)]
             a == [i \in DOMAIN l |-> expected[l[i]]]
             b == [i \in DOMAIN r |-> expected[r[i]]]
             c == [i \in DOMAIN (l \o r) |-> expected[(l \o r)[i]]]
  <2>1. SubtreeChunks[n] = l \o r /\ l \in Seq(Nodes) /\ r \in Seq(Nodes)
    BY <1>2, Heap, LeavesBelow, BelowNodes
  <2>2. HashesOf(n) = c /\ HashesOf(Left(n)) = a /\ HashesOf(Right(n)) = b
    BY <2>1 DEF HashesOf
  <2> HIDE DEF l, r
  <2>3. /\ Len(l) \in Nat /\ Len(r) \in Nat
        /\ DOMAIN l = 1 .. Len(l) /\ DOMAIN r = 1 .. Len(r)
        /\ DOMAIN (l \o r) = 1 .. Len(l) + Len(r)
        /\ \A i \in 1 .. Len(l) + Len(r) :
              (l \o r)[i] = IF i <= Len(l) THEN l[i] ELSE r[i - Len(l)]
    BY <2>1
  <2> DEFINE H == {expected[k] : k \in Nodes}
  <2>4. a \in Seq(H) /\ b \in Seq(H) /\ Len(a) = Len(l) /\ Len(b) = Len(r)
    <3>1. \A i \in DOMAIN l : l[i] \in Nodes
      BY <2>1
    <3>2. \A i \in DOMAIN r : r[i] \in Nodes
      BY <2>1
    <3>3. a \in [1 .. Len(l) -> H] /\ b \in [1 .. Len(r) -> H]
      BY <2>3, <3>1, <3>2
    <3> QED
      BY <2>3, <3>3
  <2>5. /\ DOMAIN (a \o b) = 1 .. Len(l) + Len(r)
        /\ \A i \in 1 .. Len(l) + Len(r) :
              (a \o b)[i] = IF i <= Len(l) THEN a[i] ELSE b[i - Len(l)]
        /\ a \o b = [i \in 1 .. Len(l) + Len(r) |-> (a \o b)[i]]
    <3> HIDE DEF a, b, H
    <3>1. a \o b \in Seq(H)
      BY <2>4
    <3>2. /\ Len(a \o b) = Len(a) + Len(b)
          /\ \A i \in 1 .. Len(a) + Len(b) :
                (a \o b)[i] = IF i <= Len(a) THEN a[i] ELSE b[i - Len(a)]
      BY <2>4
    <3>3. DOMAIN (a \o b) = 1 .. Len(a) + Len(b)
      BY <3>1, <3>2
    <3>4. a \o b = [i \in 1 .. Len(a) + Len(b) |-> (a \o b)[i]]
      <4> DEFINE s == a \o b
      <4>1. s \in Seq(H) /\ Len(s) = Len(a) + Len(b)
        BY <3>1, <3>2
      <4> HIDE DEF s
      <4>2. s = [i \in 1 .. Len(s) |-> s[i]]
        BY <4>1
      <4> QED
        BY <4>1, <4>2 DEF s
    <3> QED
      BY <2>4, <3>2, <3>3, <3>4
  <2>6. ASSUME NEW i \in 1 .. Len(l) + Len(r) PROVE (a \o b)[i] = expected[(l \o r)[i]]
    <3>1. CASE i <= Len(l)
      <4>1. i \in DOMAIN l
        BY <2>3, <3>1
      <4>2. a[i] = expected[l[i]]
        BY <4>1
      <4> HIDE DEF a, b
      <4> QED
        BY <2>3, <2>5, <3>1, <4>2
    <3>2. CASE ~(i <= Len(l))
      <4>1. i - Len(l) \in DOMAIN r
        BY <2>3, <3>2
      <4>2. b[i - Len(l)] = expected[r[i - Len(l)]]
        BY <4>1
      <4> HIDE DEF a, b
      <4> QED
        BY <2>3, <2>5, <3>2, <4>2
    <3> QED
      BY <3>1, <3>2
  <2>7. c = [i \in 1 .. Len(l) + Len(r) |-> expected[(l \o r)[i]]]
    BY <2>3
  <2> HIDE DEF a, b, c
  <2>8. a \o b = c
    BY <2>5, <2>6, <2>7
  <2> QED
    BY <2>2, <2>8
<1> QED
  BY <1>1, <1>2

\* Leaves have hashes of contents, internal nodes have not.
LEMMA LeafHashes ==
    ASSUME TypeInv, PackageInv, NEW n \in Nodes
    PROVE  IsLeaf(n) <=> expected[n] \in Contents
<1>0. nchunks \in 1 .. MaxChunks /\ nchunks \in Nat \ {0} /\ Nodes \subseteq Nat
  BY Heap, TreeAssumption DEF TypeInv
<1>1. CASE IsLeaf(n)
  <2>1. ChunkOf(n) \in Chunks
    BY <1>0, <1>1 DEF ChunkOf, Chunks, IsLeaf, Nodes, nnodes, nhashes
  <2>2. expected[n] = original[ChunkOf(n)]
    BY <1>1, Expected
  <2> QED
    BY <1>1, <2>1, <2>2 DEF PackageInv
<1>2. CASE ~IsLeaf(n)
  <2>1. n \in 0 .. nchunks - 2
    BY <1>0, <1>2 DEF IsLeaf, nhashes
  <2>2. DOMAIN original = 0 .. nchunks - 1 /\ original \in PackageFiles
    BY DEF PackageInv, Chunks
  <2> QED
    BY <1>0, <1>2, <2>1, <2>2, HashAssumption DEF PackageInv
<1> QED
  BY <1>1, <1>2

\* Nodes with the same hash have the same hashes below them.
LEMMA SameHashes ==
    ASSUME TypeInv, PackageInv
    PROVE  \A n \in Nodes : \A m \in Nodes :
               expected[m] = expected[n] => HashesOf(m) = HashesOf(n)
<1> DEFINE T == {n \in Nodes : \A m \in Nodes :
                    expected[m] = expected[n] => HashesOf(m) = HashesOf(n)}
<1>0. nchunks \in Nat \ {0}
  BY DEF TypeInv
<1>1. ASSUME NEW n \in Nodes, IsLeaf(n) \/ (Left(n) \in T /\ Right(n) \in T)
      PROVE  n \in T
  <2> SUFFICES ASSUME NEW m \in Nodes, expected[m] = expected[n]
               PROVE  HashesOf(m) = HashesOf(n)
    OBVIOUS
  <2>0. IsLeaf(m) <=> IsLeaf(n)
    BY LeafHashes
  <2>1. CASE IsLeaf(n)
    BY <1>0, <2>0, <2>1, HashesOfNode
  <2>2. CASE ~IsLeaf(n)
    <3>1. /\ expected[m] = <<expected[Left(m)], expected[Right(m)]>>
          /\ expected[n] = <<expected[Left(n)], expected[Right(n)]>>
      BY <2>0, <2>2, Expected
    <3>2. expected[Left(m)] = expected[Left(n)] /\ expected[Right(m)] = expected[Right(n)]
      <4>1. <<expected[Left(m)], expected[Right(m)]>> = <<expected[Left(n)], expected[Right(n)]>>
        BY <3>1, Zenon
      <4>2. \A a, b, c, d : <<a, b>> = <<c, d>> => a = c /\ b = d
        OBVIOUS
      <4> QED
        BY <4>1, <4>2, Zenon
    <3>3. Left(m) \in Nodes /\ Right(m) \in Nodes
      BY <1>0, <2>0, <2>2, Heap
    <3>4. /\ HashesOf(Left(m)) = HashesOf(Left(n))
          /\ HashesOf(Right(m)) = HashesOf(Right(n))
      BY <1>1, <2>2, <3>2, <3>3
    <3> QED
      BY <1>0, <2>0, <2>2, <3>4, HashesOfNode
  <2> QED
    BY <2>1, <2>2
<1>2. T \subseteq Nodes
  OBVIOUS
<1>3. T = Nodes
  <2> HIDE DEF T
  <2> QED
    BY <1>0, <1>1, <1>2, HeapInduction
<1> QED
  BY <1>3

\* The level of a node of a full tree.
LEMMA LevelExists ==
    ASSUME nchunks \in Nat \ {0}, NEW depth \in 0 .. MaxChunks,
           nchunks = PowerOf2[depth], NEW n \in Nodes
    PROVE  /\ \E d \in 0 .. MaxChunks : n + 1 \in PowerOf2[d] .. PowerOf2[d + 1] - 1
           /\ \A d \in 0 .. MaxChunks :
                 n + 1 \in PowerOf2[d] .. PowerOf2[d + 1] - 1 => d \in 0 .. depth
<1> DEFINE S == {d \in 0 .. MaxChunks + 1 : PowerOf2[d] > n + 1}
<1>0. /\ MaxChunks \in Nat /\ n \in Nat /\ n + 1 < 2 * nchunks
      /\ depth + 1 \in 0 .. MaxChunks + 1
  BY TreeAssumption DEF Nodes, nnodes, nhashes
<1>1. PowerOf2[depth + 1] = 2 * nchunks
  BY Powers
<1>2. depth + 1 \in S
  BY <1>0, <1>1
<1>3. PICK d \in S : \A k \in S : d <= k
  <2>1. S \subseteq Nat
    OBVIOUS
  <2> HIDE DEF S
  <2> QED
    BY <1>2, <2>1, LeastElement
<1>4. d \in 0 .. MaxChunks + 1 /\ PowerOf2[d] > n + 1
  BY <1>3
<1>5. d # 0
  BY <1>0, <1>4, Powers
<1>6. d - 1 \in 0 .. MaxChunks /\ d - 1 \in 0 .. MaxChunks + 1 /\ ~(d <= d - 1) /\ d - 1 + 1 = d
  BY <1>0, <1>4, <1>5
<1>7. ~(PowerOf2[d - 1] > n + 1)
  BY <1>3, <1>6
<1>8. n + 1 \in PowerOf2[d - 1] .. PowerOf2[d - 1 + 1] - 1
  <2>1. PowerOf2[d - 1] \in Nat /\ PowerOf2[d] \in Nat
    BY <1>4, <1>6, Powers
  <2> QED
    BY <1>0, <1>4, <1>6, <1>7, <2>1
<1>9. ASSUME NEW e \in 0 .. MaxChunks, n + 1 \in PowerOf2[e] .. PowerOf2[e + 1] - 1,
             e \notin 0 .. depth
      PROVE  FALSE
  <2>1. e \in 0 .. MaxChunks + 1 /\ depth + 1 \in 0 .. e
    BY <1>0, <1>9
  <2>2. 2 * nchunks <= PowerOf2[e] /\ PowerOf2[e] \in Nat
    BY <1>1, <2>1, Powers, PowersGrow
  <2> QED
    BY <1>0, <1>9, <2>2
<1> QED
  BY <1>6, <1>8, <1>9

(***************************************************************************)
(* Theorem.  While the number of nodes fits the count of the search,       *)
(* -hashes_of finds the node it is asked for, or one with the same hash;   *)
(* for any number of chunks, what it lists when it finds one in a full     *)
(* tree are the hashes of the chunks below the node asked for, in file     *)
(* order, up to the length that 16 bits leave (bpkg_find_node_from_hash,   *)
(* bpkg_get_subtree_chunks, bpkg_qry_create).                              *)
(***************************************************************************)
THEOREM TreeHashesOfSubtree == Spec => []HashesOfSubtree
<1>1. ContentInv => HashesOfSubtree
  <2> SUFFICES ASSUME ContentInv, NEW n \in Nodes
               PROVE  LET found == bpkg_find_node_from_hash(expected[n], "ALL")
                          level == CHOOSE d \in 0 .. MaxChunks :
                                       n + 1 \in PowerOf2[d] .. PowerOf2[d + 1] - 1
                          width == nchunks \div PowerOf2[level]
                          first == width * (n + 1 - PowerOf2[level])
                      IN  /\ nnodes < CountLimit => found # NoNode
                          /\ found # NoNode /\ (\E d \in 0 .. MaxChunks : nchunks = PowerOf2[d])
                                 => bpkg_get_all_chunk_hashes_from_hash(expected[n])
                                    = [i \in 1 .. uint16(width) |-> original[first + i - 1]]
    BY Zenon DEF HashesOfSubtree
  <2> DEFINE found == bpkg_find_node_from_hash(expected[n], "ALL")
             level == CHOOSE d \in 0 .. MaxChunks :
                          n + 1 \in PowerOf2[d] .. PowerOf2[d + 1] - 1
             width == nchunks \div PowerOf2[level]
             first == width * (n + 1 - PowerOf2[level])
  <2>0. /\ TypeInv /\ PackageInv /\ nchunks \in Nat \ {0} /\ Nodes \subseteq Nat
        /\ Nodes = 0 .. nnodes - 1 /\ nnodes \in Nat
    BY Heap DEF ContentInv, TreeInv, TypeInv, Nodes, nnodes, nhashes
  <2>1. /\ nnodes < CountLimit => found # NoNode
        /\ found # NoNode => found \in Nodes /\ expected[found] = expected[n]
    <3> DEFINE count == uint16(nnodes)
               S == {m \in 0 .. count - 1 : expected[m] = expected[n]}
    <3>1. count \in 0 .. nnodes /\ (nnodes < CountLimit => count = nnodes)
      BY <2>0, Uint16
    <3>2. found = IF S = {} THEN NoNode ELSE CHOOSE m \in S : \A k \in S : m <= k
      BY DEF bpkg_find_node_from_hash, Searched
    <3> HIDE DEF count
    <3>3. S \subseteq Nat /\ S \subseteq Nodes /\ (nnodes < CountLimit => n \in S)
      BY <2>0, <3>1
    <3>4. \A m \in S : expected[m] = expected[n]
      OBVIOUS
    <3> HIDE DEF S, found
    <3>5. ASSUME S # {} PROVE found \in S /\ found # NoNode
      <4>1. \E m \in S : \A k \in S : m <= k
        BY <3>3, <3>5, LeastElement
      <4>2. (CHOOSE m \in S : \A k \in S : m <= k) \in S
        BY <4>1
      <4>3. NoNode \notin Nat
        BY DEF NoNode
      <4> QED
        BY <3>2, <3>3, <3>5, <4>2, <4>3
    <3> QED
      BY <3>2, <3>3, <3>4, <3>5
  <2>3. found # NoNode => HashesOf(found) = HashesOf(n)
    BY <2>0, <2>1, SameHashes
  <2>4. ASSUME NEW depth \in 0 .. MaxChunks, nchunks = PowerOf2[depth]
        PROVE  /\ HashesOf(n) = [i \in 1 .. width |-> original[first + i - 1]]
               /\ width \in Nat
    <3>0. MaxChunks \in Nat /\ depth \in 0 .. MaxChunks + 1
      BY TreeAssumption
    <3>1. /\ level \in 0 .. MaxChunks
          /\ n + 1 \in PowerOf2[level] .. PowerOf2[level + 1] - 1
      BY <2>0, <2>4, LevelExists
    <3>2. level \in 0 .. depth
      BY <2>0, <2>4, <3>1, LevelExists
    <3> HIDE DEF level, found
    <3>3. PICK p \in Nat \ {0}, w \in Nat \ {0} :
              p = PowerOf2[level] /\ w = PowerOf2[depth - level]
      <4>1. level \in 0 .. MaxChunks + 1 /\ depth - level \in 0 .. MaxChunks + 1
        BY <3>0, <3>2
      <4> QED
        BY <4>1, Powers
    <3>4. p * w = nchunks /\ PowerOf2[level + 1] = 2 * p
      BY <2>4, <3>0, <3>1, <3>2, <3>3, Powers, PowersGrow
    <3>5. width = w
      <4>1. nchunks = p * w + 0 /\ 0 \in 0 .. p - 1
        BY <2>0, <3>4
      <4> QED
        BY <2>0, <3>3, <4>1, Divided
    <3>6. PICK x \in Int : x = w * (n + 1 - p)
      BY <2>0
    <3>7. first = x
      BY <3>3, <3>5, <3>6
    <3> HIDE DEF width, first
    <3>8. /\ Len(SubtreeChunks[n]) = w
          /\ \A i \in 1 .. w : SubtreeChunks[n][i] = nhashes + x + i - 1
      <4>1. InOrder(n, depth)
        BY <2>0, <2>4, FullTreeInOrder
      <4> QED
        BY <3>1, <3>2, <3>3, <3>4, <3>6, <4>1 DEF InOrder
    <3>9. SubtreeChunks[n] \in Seq(Nodes) /\ Below(n) = Elements(SubtreeChunks[n])
      BY <2>0, BelowNodes DEF Below
    <3>10. DOMAIN SubtreeChunks[n] = 1 .. w
      BY <3>8, <3>9
    <3>11. ASSUME NEW i \in 1 .. w
           PROVE  expected[SubtreeChunks[n][i]] = original[x + i - 1]
      <4> DEFINE k == SubtreeChunks[n][i]
      <4>1. k \in Below(n)
        BY <3>9, <3>10 DEF Elements
      <4>2. k \in Nodes /\ IsLeaf(k)
        BY <2>0, <4>1, BelowLeaves
      <4>3. ChunkOf(k) = x + i - 1
        <5>1. k = nhashes + x + i - 1 /\ nhashes \in Int
          BY <2>0, <3>8 DEF nhashes
        <5> HIDE DEF k
        <5> QED
          BY <5>1 DEF ChunkOf
      <4> QED
        BY <2>0, <4>2, <4>3, Expected
    <3> QED
      BY <3>5, <3>7, <3>10, <3>11 DEF HashesOf
  <2>5. ASSUME NEW depth \in 0 .. MaxChunks, nchunks = PowerOf2[depth], found # NoNode
        PROVE  bpkg_get_all_chunk_hashes_from_hash(expected[n])
                   = [i \in 1 .. uint16(width) |-> original[first + i - 1]]
    <3> DEFINE H == HashesOf(n)
    <3>1. H = [i \in 1 .. width |-> original[first + i - 1]] /\ width \in Nat
      BY <2>4, <2>5
    <3>2. bpkg_get_all_chunk_hashes_from_hash(expected[n]) = bpkg_qry_create(H)
      <4>1. HashesOf(found) = H
        BY <2>3, <2>5
      <4> HIDE DEF H
      <4> QED
        BY <2>5, <4>1, Zenon DEF bpkg_get_all_chunk_hashes_from_hash, HashesOf
    <3> HIDE DEF H, found, width, first
    <3> DEFINE S == {original[first + i - 1] : i \in 1 .. width}
    <3>3. H \in Seq(S) /\ Len(H) = width /\ \A i \in 1 .. width : H[i] = original[first + i - 1]
      <4>1. \A i \in 1 .. width : original[first + i - 1] \in S
        OBVIOUS
      <4> HIDE DEF S
      <4> QED
        BY <3>1, <4>1
    <3> HIDE DEF S
    <3>4. /\ uint16(width) \in 0 .. width
          /\ bpkg_qry_create(H) = [i \in 1 .. uint16(width) |-> H[i]]
      BY <3>3, QueryCut
    <3>5. \A i \in 1 .. uint16(width) : H[i] = original[first + i - 1]
      BY <3>1, <3>3, <3>4
    <3> QED
      BY <3>2, <3>4, <3>5
  <2> QED
    BY <2>1, <2>5
<1> QED
  BY <1>1, ContentInvariant, PTL

=============================================================================
