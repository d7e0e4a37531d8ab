---------------------------- MODULE LinkedQueue ----------------------------
(***************************************************************************)
(* The linked list under the package manager and the request queues:       *)
(* queue_t and q_node_t of src/src/utilities/my_utils.c.  The list is what *)
(* its pointers say: head, tail and the next pointer of every node.        *)
(*                                                                         *)
(* Nodes are numbered in the order of their allocation, and the memory of  *)
(* a freed node is not handed out again, as under -fsanitize=address,      *)
(* whose quarantine keeps it.                                              *)
(***************************************************************************)
EXTENDS Integers, FiniteSets

CONSTANTS MaxNodes,   \* bound: nodes a run allocates
          NULL        \* the null pointer

ASSUME QueueAssumption == MaxNodes \in Nat /\ NULL \notin Int

VARIABLES
    head, tail,  \* qobj->head, qobj->tail
    next,        \* node -> node->next
    mem,         \* node -> what has become of its memory
    nodes_made   \* nodes allocated so far

queueVars == <<head, tail, next, mem, nodes_made>>

Nodes    == 1..MaxNodes
Pointers == Nodes \cup {NULL}

\* "unlinked": taken out of the list by pkgs_rem and not yet freed.
Linked == {n \in Nodes : mem[n] = "linked"}

QueueTypeOK ==
    /\ head \in Pointers /\ tail \in Pointers
    /\ next \in [Nodes -> Pointers]
    /\ mem \in [Nodes -> {"unused", "linked", "unlinked", "freed"}]
    /\ nodes_made \in 0..MaxNodes
    /\ \A n \in Nodes : n > nodes_made <=> mem[n] = "unused"

q_init ==
    /\ head = NULL /\ tail = NULL
    /\ next = [n \in Nodes |-> NULL]
    /\ mem = [n \in Nodes |-> "unused"]
    /\ nodes_made = 0

-----------------------------------------------------------------------------
(* Operations *)

\* Not the code, like every definition marked so below: a plausible mistake
\* in the definition that follows it, which a property must rule out.  Here:
\* the tail moves on and its old node is left behind.
q_enqueueBehind(n) ==
    /\ next' = [next EXCEPT ![n] = NULL]
    /\ head' = IF tail = NULL THEN n ELSE head
    /\ tail' = n
    /\ mem' = [mem EXCEPT ![n] = "linked"]
    /\ nodes_made' = n

\* The next node allocated becomes the last of the list.
q_enqueue(n) ==
    /\ next' = [m \in Nodes |-> IF m = n THEN NULL
                                ELSE IF m = tail THEN n ELSE next[m]]
    /\ head' = IF tail = NULL THEN n ELSE head
    /\ tail' = n
    /\ mem' = [mem EXCEPT ![n] = "linked"]
    /\ nodes_made' = n

\* The first node is taken off and freed.
q_dequeue ==
    /\ head' = next[head]
    /\ tail' = IF next[head] = NULL THEN NULL ELSE tail
    /\ mem' = [mem EXCEPT ![head] = "freed"]
    /\ UNCHANGED <<next, nodes_made>>

q_empty == head = NULL /\ tail = NULL

\* Not the code: a removed last node stays the tail.
q_unlinkKeepsTail(n, previous) ==
    /\ next' = [m \in Nodes |-> IF m = previous THEN next[n] ELSE next[m]]
    /\ head' = IF previous = NULL THEN next[n] ELSE head
    /\ mem' = [mem EXCEPT ![n] = "unlinked"]
    /\ UNCHANGED <<tail, nodes_made>>

\* Not the code: the removed node's pointer is cleared, which ends the walk of
\* a reader that is just there.
q_unlinkTidies(n, previous) ==
    /\ next' = [m \in Nodes |-> IF m = n THEN NULL
                                ELSE IF m = previous THEN next[n] ELSE next[m]]
    /\ head' = IF previous = NULL THEN next[n] ELSE head
    /\ tail' = IF n = tail THEN previous ELSE tail
    /\ mem' = [mem EXCEPT ![n] = "unlinked"]
    /\ UNCHANGED nodes_made

\* pkgs_rem takes node n out; previous is the node it visited before.
q_unlink(n, previous) ==
    /\ next' = [m \in Nodes |-> IF m = previous THEN next[n] ELSE next[m]]
    /\ head' = IF previous = NULL THEN next[n] ELSE head
    /\ tail' = IF n = tail THEN previous ELSE tail
    /\ mem' = [mem EXCEPT ![n] = "unlinked"]
    /\ UNCHANGED nodes_made

q_node_destroy(n) ==
    /\ mem' = [mem EXCEPT ![n] = "freed"]
    /\ UNCHANGED <<head, tail, next, nodes_made>>

\* All nodes are freed; head and tail go with the queue object itself.
q_destroy ==
    /\ mem' = [n \in Nodes |-> IF mem[n] = "unused" THEN "unused" ELSE "freed"]
    /\ UNCHANGED <<head, tail, next, nodes_made>>

-----------------------------------------------------------------------------
(* The shape of the list *)

\* A pointer that a walk over the nodes S, in their order, starts from.
Leads(p, S) == IF p = NULL THEN S = {} ELSE p \in S /\ \A m \in S : p <= m

After(n) == {m \in Linked : m > n}

\* From head, the next pointers lead through every node of the list, in the
\* order the nodes were added, and end at tail: nothing is lost, nothing is
\* visited twice, and the next q_enqueue finds the end.
QueueShape ==
    /\ Leads(head, Linked)
    /\ \A n \in Linked : Leads(next[n], After(n))
    /\ IF tail = NULL THEN Linked = {}
       ELSE tail \in Linked /\ \A m \in Linked : m <= tail
=============================================================================
