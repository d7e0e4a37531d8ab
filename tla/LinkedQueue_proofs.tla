------------------------- MODULE LinkedQueue_proofs -------------------------
(***************************************************************************)
(* What each operation of the linked list does to its shape, for lists of  *)
(* every length.                                                           *)
(***************************************************************************)
EXTENDS LinkedQueue, TLAPS

\* p is the node in front of n, or NULL in front of the first.
InFrontOf(p, n) ==
    IF p = NULL THEN \A m \in Linked : n <= m
    ELSE p \in Linked /\ p < n /\ \A m \in Linked : m <= p \/ n <= m

LEMMA NullFacts == NULL \notin Int /\ NULL \notin Nodes /\ Nodes \subseteq Int
BY QueueAssumption DEF Nodes

LEMMA InitShape == ASSUME q_init PROVE QueueTypeOK /\ QueueShape /\ Linked = {}
BY NullFacts, QueueAssumption
   DEF q_init, QueueTypeOK, QueueShape, Linked, Leads, Pointers, Nodes, After

\* q_enqueue appends: the new node is behind all others.
LEMMA EnqueueShape ==
    ASSUME QueueTypeOK, QueueShape, NEW n \in Nodes, n = nodes_made + 1,
           q_enqueue(n)
    PROVE  /\ QueueTypeOK' /\ QueueShape'
           /\ Linked' = Linked \cup {n}
           /\ n \notin Linked
<1>1. /\ mem' = [mem EXCEPT ![n] = "linked"]
      /\ mem \in [Nodes -> {"unused", "linked", "unlinked", "freed"}]
      /\ mem[n] = "unused"
    BY QueueAssumption DEF q_enqueue, QueueTypeOK, Nodes
<1>2. Linked' = Linked \cup {n} /\ n \notin Linked
    BY <1>1 DEF Linked
<1>3. n \in Int /\ \A m \in Linked : m \in Int /\ m < n /\ m # n
    BY QueueAssumption DEF QueueTypeOK, Linked, Nodes
<1>4. QueueTypeOK'
    <2>1. next' \in [Nodes -> Pointers] /\ head' \in Pointers /\ tail' \in Pointers
        BY DEF q_enqueue, QueueTypeOK, Pointers
    <2>2. nodes_made' \in 0..MaxNodes /\ nodes_made' = n
        BY QueueAssumption DEF q_enqueue, QueueTypeOK, Nodes
    <2>3. mem' \in [Nodes -> {"unused", "linked", "unlinked", "freed"}]
        BY <1>1
    <2>4. ASSUME NEW m \in Nodes PROVE m > nodes_made' <=> mem'[m] = "unused"
        BY <1>1, <2>2, <2>4, QueueAssumption DEF QueueTypeOK, Nodes
    <2> QED
        BY <2>1, <2>2, <2>3, <2>4 DEF QueueTypeOK
<1>5. Leads(head, Linked)'
    <2>1. CASE tail = NULL
        BY <1>2, <1>3, <2>1, NullFacts DEF q_enqueue, QueueShape, Leads
    <2>2. CASE tail # NULL
        BY <1>2, <1>3, <2>2, NullFacts DEF q_enqueue, QueueShape, Leads
    <2> QED
        BY <2>1, <2>2
<1>6. ASSUME NEW m \in Linked' PROVE Leads(next[m], After(m))'
    <2>1. m \in Nodes /\ m \in Int
        BY NullFacts DEF Linked
    <2>2. CASE m = n
        <3>1. next'[m] = NULL
            BY <2>1, <2>2 DEF q_enqueue
        <3>2. ASSUME NEW k \in After(m)' PROVE FALSE
            BY <1>2, <1>3, <2>2, <3>2 DEF After
        <3> QED
            BY <3>1, <3>2 DEF Leads
    <2>3. CASE m # n /\ m = tail
        <3>1. next'[m] = n /\ m \in Linked
            BY <1>2, <2>1, <2>3 DEF q_enqueue
        <3>2. \A k \in Linked : k <= m
            BY <2>3, <3>1, NullFacts DEF QueueShape, Linked
        <3>3. After(m)' = {n}
            BY <1>2, <1>3, <3>1, <3>2 DEF After
        <3> QED
            BY <3>1, <3>3, NullFacts DEF Leads
    <2>4. CASE m # n /\ m # tail
        <3>1. next'[m] = next[m] /\ m \in Linked
            BY <1>2, <2>1, <2>4 DEF q_enqueue
        <3>2. tail \in Linked /\ m < tail
            BY <2>4, <3>1, <1>3 DEF QueueShape
        <3>3. Leads(next[m], After(m)) /\ tail \in After(m)
            BY <3>1, <3>2 DEF QueueShape, After
        <3>4. After(m)' = After(m) \cup {n}
            BY <1>2, <1>3, <3>1 DEF After
        <3>5. next[m] # NULL /\ next[m] \in Linked
            BY <3>3 DEF Leads, After
        <3> QED
            BY <1>3, <3>1, <3>3, <3>4, <3>5 DEF Leads
    <2> QED
        BY <2>2, <2>3, <2>4
<1>7. tail' = n /\ n # NULL
    BY NullFacts DEF q_enqueue
<1> QED
    BY <1>2, <1>3, <1>4, <1>5, <1>6, <1>7 DEF QueueShape

\* Taking any node out leaves the rest linked as before; the node itself still
\* points to what came after it.
LEMMA UnlinkShape ==
    ASSUME QueueTypeOK, QueueShape, NEW n \in Linked, NEW p \in Pointers,
           InFrontOf(p, n), q_unlink(n, p)
    PROVE  /\ QueueTypeOK' /\ QueueShape'
           /\ Linked' = Linked \ {n}
           /\ next'[n] = next[n]
           /\ mem' = [mem EXCEPT ![n] = "unlinked"]
<1>1. /\ mem' = [mem EXCEPT ![n] = "unlinked"]
      /\ mem \in [Nodes -> {"unused", "linked", "unlinked", "freed"}]
      /\ n \in Nodes /\ n \in Int /\ n # NULL /\ mem[n] = "linked"
    BY NullFacts DEF q_unlink, QueueTypeOK, Linked
<1>2. Linked' = Linked \ {n}
    BY <1>1 DEF Linked
<1>3. /\ p # n
      /\ p # NULL => p \in Linked /\ p \in Int
      /\ \A m \in Linked : m \in Nodes /\ m \in Int /\ m # NULL
    <2>1. \A m \in Linked : m \in Nodes /\ m \in Int /\ m # NULL
        BY NullFacts DEF Linked
    <2>2. p # NULL => p \in Linked /\ p < n
        BY DEF InFrontOf
    <2>3. p # NULL => p \in Int /\ p # n
        <3> HAVE p # NULL
        <3>1. p \in Int /\ n \in Int /\ p < n
            BY <1>1, <2>1, <2>2
        <3> QED
            BY <3>1
    <2> QED
        BY <1>1, <2>1, <2>2, <2>3
<1>4. Leads(next[n], After(n)) /\ next[n] # n
    BY <1>1, NullFacts DEF QueueShape, After, Leads
<1>5. \A m \in Nodes : next'[m] = IF m = p THEN next[n] ELSE next[m]
    BY DEF q_unlink
<1>6. next'[n] = next[n]
    BY <1>1, <1>3, <1>5
<1>7. QueueTypeOK'
    <2>1. next[n] \in Pointers
        BY <1>1 DEF QueueTypeOK
    <2>2. next' \in [Nodes -> Pointers] /\ head' \in Pointers /\ tail' \in Pointers
        BY <2>1 DEF q_unlink, QueueTypeOK
    <2>3. ASSUME NEW m \in Nodes PROVE m > nodes_made' <=> mem'[m] = "unused"
        BY <1>1, <2>3 DEF QueueTypeOK, q_unlink
    <2> QED
        BY <1>1, <2>2, <2>3 DEF QueueTypeOK, q_unlink
<1>8. Leads(head, Linked)'
    <2>1. CASE p = NULL
        <3>1. head' = next[n]
            BY <2>1 DEF q_unlink
        <3>2. \A m \in Linked : n <= m
            BY <2>1 DEF InFrontOf
        <3>3. \A m \in Linked : m > n <=> m # n
            BY <1>1, <1>3, <3>2
        <3>4. After(n) = Linked \ {n}
            BY <3>3 DEF After
        <3> QED
            BY <1>2, <1>4, <3>1, <3>4
    <2>2. CASE p # NULL
        <3>1. head' = head /\ head \in Linked /\ \A m \in Linked : head <= m
            BY <1>3, <2>2 DEF q_unlink, QueueShape, Leads
        <3>2. head # n
            BY <1>3, <2>2, <3>1 DEF InFrontOf
        <3> QED
            BY <1>2, <1>3, <3>1, <3>2 DEF Leads
    <2> QED
        BY <2>1, <2>2
<1>9. ASSUME NEW m \in Linked' PROVE Leads(next[m], After(m))'
    <2>1. m \in Linked /\ m # n /\ m \in Nodes /\ m \in Int
        BY <1>2, <1>3
    <2>2. Leads(next[m], After(m))
        BY <2>1 DEF QueueShape
    <2>3. CASE m = p
        <3>1. p # NULL /\ p < n /\ \A k \in Linked : k <= p \/ n <= k
            BY <1>3, <2>1, <2>3 DEF InFrontOf
        <3>2. \A k \in Linked : k > m /\ k # n <=> k > n
            BY <1>1, <1>3, <2>1, <2>3, <3>1
        <3>3. After(m)' = After(n)
            BY <1>2, <3>2 DEF After
        <3> QED
            BY <1>4, <1>5, <2>1, <2>3, <3>3
    <2>4. CASE m # p
        <3>1. next'[m] = next[m]
            BY <1>5, <2>1, <2>4
        <3>2. After(m)' = After(m) \ {n}
            BY <1>2 DEF After
        <3>3. next[m] # n
            <4>1. SUFFICES ASSUME next[m] = n PROVE FALSE
                OBVIOUS
            <4>2. m < n /\ \A k \in Linked : k > m => n <= k
                BY <1>1, <2>2, <4>1 DEF Leads, After
            <4>3. CASE p = NULL
                BY <1>1, <2>1, <4>2, <4>3 DEF InFrontOf
            <4>4. CASE p # NULL
                BY <1>1, <1>3, <2>1, <2>4, <4>2, <4>4 DEF InFrontOf
            <4> QED
                BY <4>3, <4>4
        <3>4. next[m] = NULL => After(m)' = {}
            BY <2>2, <3>2 DEF Leads
        <3>5. next[m] # NULL => next[m] \in After(m)' /\ \A k \in After(m)' : next[m] <= k
            BY <2>2, <3>2, <3>3 DEF Leads
        <3> QED
            BY <3>1, <3>4, <3>5 DEF Leads
    <2> QED
        BY <2>3, <2>4
<1>10. IF tail' = NULL THEN Linked' = {}
       ELSE tail' \in Linked' /\ \A m \in Linked' : m <= tail'
    <2>1. tail # NULL /\ tail \in Linked /\ \A m \in Linked : m <= tail
        BY DEF QueueShape
    <2>2. CASE n # tail
        BY <1>2, <2>1, <2>2 DEF q_unlink
    <2>3. CASE n = tail /\ p = NULL
        BY <1>1, <1>2, <1>3, <2>1, <2>3 DEF q_unlink, InFrontOf
    <2>4. CASE n = tail /\ p # NULL
        BY <1>1, <1>2, <1>3, <2>1, <2>4 DEF q_unlink, InFrontOf
    <2> QED
        BY <2>2, <2>3, <2>4
<1> QED
    BY <1>1, <1>2, <1>6, <1>7, <1>8, <1>9, <1>10 DEF QueueShape

\* Freeing a node that has been taken out changes nothing for the list.
LEMMA NodeDestroyShape ==
    ASSUME QueueTypeOK, NEW n \in Nodes, mem[n] = "unlinked",
           q_node_destroy(n)
    PROVE  /\ QueueTypeOK'
           /\ Linked' = Linked
           /\ UNCHANGED <<head, tail, next, nodes_made>>
           /\ mem' = [mem EXCEPT ![n] = "freed"]
           /\ QueueShape => QueueShape'
<1>1. /\ mem' = [mem EXCEPT ![n] = "freed"]
      /\ mem \in [Nodes -> {"unused", "linked", "unlinked", "freed"}]
    BY DEF q_node_destroy, QueueTypeOK
<1>2. Linked' = Linked
    BY <1>1 DEF Linked
<1>3. UNCHANGED <<head, tail, next, nodes_made>>
    BY DEF q_node_destroy
<1>4. QueueTypeOK'
    BY <1>1, <1>3 DEF QueueTypeOK
<1>5. QueueShape => QueueShape'
    BY <1>2, <1>3 DEF QueueShape, After, Leads
<1> QED
    BY <1>1, <1>2, <1>3, <1>4, <1>5

\* q_dequeue takes the first node.
LEMMA DequeueShape ==
    ASSUME QueueTypeOK, QueueShape, head # NULL, q_dequeue
    PROVE  /\ QueueTypeOK' /\ QueueShape'
           /\ head \in Linked /\ Linked' = Linked \ {head}
           /\ \A m \in Linked : head <= m
<1>1. /\ head \in Linked /\ \A m \in Linked : head <= m
      /\ head \in Nodes /\ head \in Int
      /\ \A m \in Linked : m \in Nodes /\ m \in Int /\ m # NULL
    BY NullFacts DEF QueueShape, Leads, Linked
<1>2. /\ mem' = [mem EXCEPT ![head] = "freed"]
      /\ mem \in [Nodes -> {"unused", "linked", "unlinked", "freed"}]
      /\ next' = next /\ nodes_made' = nodes_made /\ head' = next[head]
      /\ tail' = IF next[head] = NULL THEN NULL ELSE tail
    BY DEF q_dequeue, QueueTypeOK
<1>3. Linked' = Linked \ {head}
    BY <1>1, <1>2 DEF Linked
<1>4. After(head) = Linked \ {head}
    <2>1. \A m \in Linked : m > head <=> m # head
        BY <1>1
    <2> QED
        BY <2>1 DEF After
<1>5. Leads(next[head], Linked \ {head})
    BY <1>1, <1>4 DEF QueueShape
<1>6. QueueTypeOK'
    BY <1>1, <1>2 DEF QueueTypeOK, Pointers, Linked
<1>7. ASSUME NEW m \in Linked' PROVE Leads(next[m], After(m))'
    <2>1. m \in Linked /\ Leads(next[m], After(m)) /\ head < m
        BY <1>1, <1>3 DEF QueueShape
    <2>2. After(m)' = After(m)
        BY <1>1, <1>3, <2>1 DEF After
    <2> QED
        BY <1>2, <2>1, <2>2
<1>8. IF tail' = NULL THEN Linked' = {}
      ELSE tail' \in Linked' /\ \A m \in Linked' : m <= tail'
    <2>1. tail # NULL /\ tail \in Linked /\ \A m \in Linked : m <= tail
        BY <1>1 DEF QueueShape
    <2>2. CASE next[head] = NULL
        BY <1>2, <1>3, <1>5, <2>2 DEF Leads
    <2>3. CASE next[head] # NULL
        <3>1. next[head] \in Linked /\ next[head] # head
            BY <1>5, <2>3 DEF Leads
        <3>2. tail # head
            <4> DEFINE second == next[head]
            <4>1. second \in Int /\ head <= second /\ second <= tail /\ second # head
                BY <1>1, <2>1, <3>1
            <4>2. head \in Int /\ tail \in Int
                BY <1>1, <2>1
            <4> HIDE DEF second
            <4> QED
                BY <4>1, <4>2
        <3> QED
            BY <1>2, <1>3, <2>1, <2>3, <3>2
    <2> QED
        BY <2>2, <2>3
<1> QED
    BY <1>1, <1>2, <1>3, <1>5, <1>6, <1>7, <1>8 DEF QueueShape
=============================================================================
