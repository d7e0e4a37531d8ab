-------------------------- MODULE Packages_proofs --------------------------
(***************************************************************************)
(* The package manager's list keeps its shape under every interleaving of  *)
(* commands and searches, a search without result has overlooked nothing,  *)
(* and the pointers implement the list that users see (PackageList), for   *)
(* every number of packages, identifiers and handlers.                     *)
(***************************************************************************)
EXTENDS Packages, LinkedQueue_proofs, Division_proofs, FiniteSetTheorems

\* Where REMPACKAGE is: at a node of the list, with its predecessor in hand,
\* having passed no package that matches; or holding a node it has taken out,
\* which still points to what came after it.
CliInv ==
    /\ cli_pc = "exit" <=> bpkgs_mem = "freed"
    /\ bpkgs_mem = "freed" => Linked = {}
    /\ cli_pc = "seek" =>
          /\ cli_query \in RemQueries
          /\ current # NULL => current \in Linked /\ InFrontOf(previous, current)
          /\ \A m \in Linked : current = NULL \/ m < current =>
                                   ~Matches(m, cli_query)
    /\ cli_pc \in {"destroy", "free"} =>
          /\ current \in Nodes
          /\ mem[current] = "unlinked"
          /\ Leads(next[current], After(current))
    /\ \A n \in Nodes : mem[n] = "unlinked" =>
                            cli_pc \in {"destroy", "free"} /\ n = current

\* Where handler h is in its walk: packages that match, were there at the
\* start and still are, lie ahead of it, or behind the package that failed to
\* load and made it return NULL.
SearchInv(h) ==
    /\ curr[h] # NULL => mem[curr[h]] # "unused"
    /\ \A n \in start[h] : mem[n] # "unused"
    /\ pc[h] = "advance" => curr[h] # NULL
    /\ \A m \in start[h] \cap Linked : Matches(m, query[h]) =>
          /\ pc[h] = "visit" =>
                curr[h] # NULL /\ (mem[curr[h]] # "freed" => curr[h] <= m)
          /\ pc[h] = "advance" => (mem[curr[h]] # "freed" => curr[h] < m)
          /\ pc[h] = "missed" =>
                /\ ~Compares(query[h])
                /\ curr[h] # NULL /\ data[curr[h]] = NULL /\ curr[h] <= m

Inv ==
    /\ TypeOK
    /\ ListShape
    /\ CliInv
    /\ \A h \in Handlers : SearchInv(h)

LEMMA Mod == \A x \in Int : uint8(x) \in 0..CountLimit - 1
BY PackagesAssumption DEF uint8

LEMMA InvInit == Init => Inv
<1> SUFFICES ASSUME Init PROVE Inv
    OBVIOUS
<1>1. QueueTypeOK /\ QueueShape /\ Linked = {}
    BY InitShape DEF Init
<1>2. TypeOK
    BY <1>1, PackagesAssumption DEF Init, TypeOK, Pointers, SearchPcs
<1>3. CliInv
    BY <1>1 DEF Init, CliInv, q_init
<1>4. \A h \in Handlers : SearchInv(h)
    BY <1>1 DEF Init, SearchInv
<1> QED
    BY <1>1, <1>2, <1>3, <1>4 DEF Inv, ListShape

-----------------------------------------------------------------------------
(* Frames *)

\* The walks do not notice what leaves the list, the packages and the walks
\* themselves alone.
LEMMA SearchFrame ==
    ASSUME UNCHANGED <<mem, data, searchVars>>, NEW h \in Handlers, SearchInv(h)
    PROVE  SearchInv(h)'
BY DEF searchVars, SearchInv, Linked, Matches, Compares

\* Nor do they mind that nodes are taken out or freed.
LEMMA SearchShrinks ==
    ASSUME TypeOK, UNCHANGED <<data, searchVars>>,
           \A n \in Nodes : /\ mem'[n] = "unused" => mem[n] = "unused"
                            /\ mem'[n] = "linked" => mem[n] = "linked"
                            /\ mem[n] = "freed" => mem'[n] = "freed",
           NEW h \in Handlers, SearchInv(h)
    PROVE  SearchInv(h)'
<1>1. curr[h] \in Pointers /\ start[h] \subseteq Nodes
    BY DEF TypeOK
<1>2. UNCHANGED <<pc[h], query[h], curr[h], start[h]>>
    BY DEF searchVars
<1>3. Linked' \subseteq Linked
    BY DEF Linked
<1>4. \A m \in Nodes : Matches(m, query[h])' <=> Matches(m, query[h])
    BY <1>2 DEF Matches
<1>5. /\ (curr[h] # NULL => mem[curr[h]] # "unused")'
      /\ (\A n \in start[h] : mem[n] # "unused")'
      /\ (pc[h] = "advance" => curr[h] # NULL)'
    BY <1>1, <1>2 DEF SearchInv, Pointers
<1>6. ASSUME NEW m \in start'[h] \cap Linked', Matches(m, query[h])'
      PROVE  /\ pc'[h] = "visit" =>
                   curr'[h] # NULL /\ (mem'[curr'[h]] # "freed" => curr'[h] <= m)
             /\ pc'[h] = "advance" => (mem'[curr'[h]] # "freed" => curr'[h] < m)
             /\ pc'[h] = "missed" =>
                   /\ ~Compares(query'[h])
                   /\ curr'[h] # NULL /\ data'[curr'[h]] = NULL /\ curr'[h] <= m
    <2>1. m \in start[h] \cap Linked /\ Matches(m, query[h])
        BY <1>1, <1>2, <1>3, <1>4, <1>6
    <2>2. curr[h] # NULL => (mem'[curr[h]] # "freed" => mem[curr[h]] # "freed")
        BY <1>1 DEF Pointers
    <2> QED
        BY <1>2, <1>5, <2>1, <2>2 DEF SearchInv, Compares
<1> QED
    BY <1>5, <1>6 DEF SearchInv, Compares

\* Steps that only move the command loop, or free packages.
LEMMA CliMoves ==
    ASSUME Inv, UNCHANGED <<queueVars, bpkgs_mem, data, searchVars>>,
           TypeOK', CliInv'
    PROVE  Inv'
<1>1. UNCHANGED <<head, tail, next, mem, Linked>>
    BY DEF queueVars, Linked
<1>2. ListShape'
    BY <1>1 DEF Inv, ListShape, QueueShape, Leads, After
<1>3. \A h \in Handlers : SearchInv(h)'
    BY SearchFrame DEF Inv, queueVars
<1> QED
    BY <1>2, <1>3 DEF Inv

-----------------------------------------------------------------------------
(* Commands *)

LEMMA InvEnds ==
    ASSUME Inv, NEW how \in Endings, Ends(how)
    PROVE  Inv' /\ UNCHANGED <<Linked, data, nodes_made>>
<1>1. UNCHANGED <<queueVars, managerVars, cliVars, searchVars>> /\ proc' = how
    BY DEF Ends
<1>2. TypeOK'
    BY <1>1 DEF Inv, TypeOK, QueueTypeOK, queueVars, managerVars, cliVars, searchVars
<1>3. CliInv'
    BY <1>1 DEF Inv, CliInv, queueVars, managerVars, cliVars, Linked,
                InFrontOf, Leads, After, Matches
<1> QED
    BY <1>1, <1>2, <1>3, CliMoves DEF queueVars, managerVars, Linked

LEMMA InvAdd ==
    ASSUME Inv, NEW package \in Idents \cup {NULL}, cli_add_package(package)
    PROVE  /\ Inv'
           /\ nodes_made + 1 \in Nodes
           /\ Linked' = Linked \cup {nodes_made + 1}
           /\ nodes_made' = nodes_made + 1
           /\ data' = [data EXCEPT ![nodes_made + 1] = package]
<1> DEFINE n == nodes_made + 1
<1>1. n \in Nodes /\ q_enqueue(n)
    BY QueueAssumption DEF cli_add_package, Inv, TypeOK, QueueTypeOK, Nodes
<1>2. bpkgs_mem = "live" /\ QueueShape
    BY DEF cli_add_package, Inv, CliInv, TypeOK, ListShape
<1>3. /\ QueueTypeOK' /\ QueueShape'
      /\ Linked' = Linked \cup {n} /\ n \notin Linked
    BY <1>1, <1>2, EnqueueShape DEF Inv, TypeOK
<1>4. /\ mem' = [mem EXCEPT ![n] = "linked"]
      /\ mem \in [Nodes -> {"unused", "linked", "unlinked", "freed"}]
      /\ nodes_made' = n
      /\ mem[n] = "unused"
    BY <1>1, QueueAssumption DEF q_enqueue, Inv, TypeOK, QueueTypeOK, Nodes
<1>5. /\ data' = [data EXCEPT ![n] = package]
      /\ alive' \subseteq alive \cup {n}
      /\ count' = uint8(count + 1)
      /\ UNCHANGED <<proc, bpkgs_mem, cliVars, searchVars>>
      /\ cli_pc = "idle"
    BY DEF cli_add_package
<1>6. count' \in 0..CountLimit - 1
    BY <1>5, Mod DEF Inv, TypeOK
<1>7. TypeOK'
    BY <1>1, <1>3, <1>5, <1>6 DEF Inv, TypeOK, cliVars, searchVars
<1>8. CliInv'
    <2>1. cli_pc' = "idle" /\ bpkgs_mem' = "live"
        BY <1>2, <1>5 DEF cliVars
    <2>2. \A m \in Nodes : mem[m] # "unlinked"
        BY <1>5 DEF Inv, CliInv
    <2> QED
        BY <1>4, <2>1, <2>2 DEF CliInv
<1>9. ASSUME NEW h \in Handlers PROVE SearchInv(h)'
    <2>1. UNCHANGED <<pc[h], query[h], curr[h], start[h]>>
        BY <1>5 DEF searchVars
    <2>2. SearchInv(h) /\ curr[h] \in Pointers /\ start[h] \subseteq Nodes
        BY DEF Inv, TypeOK
    <2>3. n \notin start[h] /\ curr[h] # n
        BY <1>1, <1>4, <2>2, NullFacts DEF SearchInv
    <2>4. \A m \in Nodes \ {n} : mem'[m] = mem[m] /\ data'[m] = data[m]
                                 /\ (Matches(m, query[h])' <=> Matches(m, query[h]))
        BY <1>4, <1>5, <2>1 DEF Matches, Inv, TypeOK
    <2>5. \A m \in start[h] \cap Linked' : m \in start[h] \cap Linked /\ m \in Nodes \ {n}
        BY <1>3, <2>2, <2>3
    <2>6. curr[h] # NULL => curr[h] \in Nodes \ {n}
        BY <2>2, <2>3 DEF Pointers
    <2> HIDE DEF n
    <2> QED
        BY <2>1, <2>2, <2>3, <2>4, <2>5, <2>6 DEF SearchInv, Compares
<1> QED
    BY <1>1, <1>3, <1>4, <1>5, <1>7, <1>8, <1>9 DEF Inv, ListShape

LEMMA InvRemStart ==
    ASSUME Inv, NEW q \in RemQueries, RemStart(q)
    PROVE  Inv' /\ UNCHANGED <<Linked, data, nodes_made>>
<1>1. /\ UNCHANGED <<proc, queueVars, managerVars, searchVars>>
      /\ cli_pc = "idle" /\ cli_pc' = "seek" /\ cli_query' = q
      /\ current' = head /\ previous' = NULL
    BY DEF RemStart
<1>2. TypeOK'
    BY <1>1, PackagesAssumption
    DEF Inv, TypeOK, QueueTypeOK, queueVars, managerVars, searchVars, Pointers
<1>3. bpkgs_mem = "live" /\ Leads(head, Linked)
    BY <1>1 DEF Inv, CliInv, TypeOK, ListShape, QueueShape
<1>4. /\ Linked' = Linked /\ bpkgs_mem' = bpkgs_mem /\ mem' = mem
    BY <1>1 DEF Linked, queueVars, managerVars
<1>5. current' # NULL => current' \in Linked' /\ InFrontOf(previous, current)'
    BY <1>1, <1>3, <1>4 DEF Leads, InFrontOf
<1>6. ASSUME NEW m \in Linked', current' = NULL \/ m < current' PROVE FALSE
    <2>1. head # NULL /\ head <= m /\ m < head /\ m \in Int /\ head \in Int
        BY <1>1, <1>3, <1>4, <1>6, NullFacts DEF Leads, Linked
    <2> QED
        BY <2>1
<1>7. CliInv'
    BY <1>1, <1>3, <1>4, <1>5, <1>6 DEF CliInv, Inv
<1> QED
    BY <1>1, <1>2, <1>4, <1>7, CliMoves DEF queueVars, managerVars

LEMMA InvRemMiss ==
    ASSUME Inv, RemMiss
    PROVE  Inv' /\ UNCHANGED <<Linked, data, nodes_made>>
<1>1. /\ UNCHANGED <<proc, queueVars, managerVars, current, previous, searchVars>>
      /\ cli_pc = "seek" /\ cli_pc' = "idle" /\ cli_query' = cli_query
    BY DEF RemMiss, CliTo
<1>2. TypeOK'
    BY <1>1 DEF Inv, TypeOK, QueueTypeOK, queueVars, managerVars, searchVars
<1>3. CliInv'
    BY <1>1 DEF Inv, CliInv, queueVars, managerVars
<1> QED
    BY <1>1, <1>2, <1>3, CliMoves DEF queueVars, managerVars, Linked

LEMMA InvRemSkip ==
    ASSUME Inv, RemSkip
    PROVE  Inv' /\ UNCHANGED <<Linked, data, nodes_made>>
<1>1. /\ UNCHANGED <<proc, queueVars, managerVars, cli_pc, cli_query, searchVars>>
      /\ cli_pc = "seek" /\ current # NULL /\ ~Matches(current, cli_query)
      /\ previous' = current /\ current' = next[current]
    BY DEF RemSkip
<1>2. /\ current \in Linked /\ current \in Nodes /\ cli_query \in RemQueries
      /\ \A m \in Linked : m < current => ~Matches(m, cli_query)
      /\ bpkgs_mem = "live"
    BY <1>1 DEF Inv, CliInv, Linked, TypeOK
<1>3. Leads(next[current], After(current))
    BY <1>2 DEF Inv, ListShape, QueueShape
<1>4. TypeOK'
    BY <1>1, <1>2 DEF Inv, TypeOK, QueueTypeOK, queueVars, managerVars, searchVars
<1>5. /\ Linked' = Linked /\ bpkgs_mem' = bpkgs_mem /\ mem' = mem
      /\ \A m \in Linked : Matches(m, cli_query)' <=> Matches(m, cli_query)
    BY <1>1 DEF Linked, queueVars, managerVars, Matches
<1>6. \A m \in Linked : m \in Int
    BY NullFacts DEF Linked
<1>7. current' # NULL => current' \in Linked' /\ InFrontOf(previous, current)'
    <2>1. SUFFICES ASSUME current' # NULL
                   PROVE  current' \in Linked' /\ InFrontOf(previous, current)'
        OBVIOUS
    <2>2. /\ next[current] \in Linked /\ next[current] > current
          /\ \A m \in Linked : m > current => next[current] <= m
        BY <1>1, <1>3, <2>1 DEF Leads, After
    <2> QED
        BY <1>1, <1>2, <1>5, <1>6, <2>2 DEF InFrontOf
<1>8. ASSUME NEW m \in Linked', current' = NULL \/ m < current'
      PROVE  ~Matches(m, cli_query)'
    <2>1. m \in Linked /\ m \in Int /\ current \in Int
        BY <1>2, <1>5, <1>6
    <2>2. ~(m > current)
        <3>1. SUFFICES ASSUME m > current PROVE FALSE
            OBVIOUS
        <3>2. m \in After(current)
            BY <2>1, <3>1 DEF After
        <3>3. next[current] # NULL /\ next[current] <= m /\ next[current] \in Int
            BY <1>3, <1>6, <3>2 DEF Leads, After
        <3> QED
            BY <1>1, <1>8, <2>1, <3>3
    <2> QED
        BY <1>1, <1>2, <1>5, <2>1, <2>2
<1>9. CliInv'
    BY <1>1, <1>2, <1>5, <1>7, <1>8 DEF Inv, CliInv
<1> QED
    BY <1>1, <1>4, <1>5, <1>9, CliMoves DEF queueVars, managerVars

LEMMA InvRemUnlink ==
    ASSUME Inv, RemUnlink
    PROVE  /\ Inv' /\ UNCHANGED <<data, nodes_made>>
           /\ current \in Linked /\ Linked' = Linked \ {current}
           /\ cli_query \in RemQueries /\ Matches(current, cli_query)
           /\ \A m \in Linked : m < current => ~Matches(m, cli_query)
<1>1. /\ cli_pc = "seek" /\ current # NULL /\ Matches(current, cli_query)
      /\ q_unlink(current, previous)
      /\ cli_pc' = "destroy" /\ cli_query' = cli_query
      /\ UNCHANGED <<proc, managerVars, current, previous, searchVars>>
    BY DEF RemUnlink, CliTo
<1>2. /\ current \in Linked /\ InFrontOf(previous, current) /\ cli_query \in RemQueries
      /\ \A m \in Linked : m < current => ~Matches(m, cli_query)
      /\ bpkgs_mem = "live"
      /\ current \in Nodes
    BY <1>1 DEF Inv, CliInv, TypeOK, Linked
<1>3. /\ QueueTypeOK' /\ QueueShape'
      /\ Linked' = Linked \ {current}
      /\ next'[current] = next[current]
      /\ mem' = [mem EXCEPT ![current] = "unlinked"]
    BY <1>1, <1>2, UnlinkShape DEF Inv, TypeOK, ListShape
<1>4. nodes_made' = nodes_made
    BY <1>1 DEF q_unlink
<1>5. TypeOK'
    BY <1>1, <1>3 DEF Inv, TypeOK, managerVars, searchVars
<1>6. mem \in [Nodes -> {"unused", "linked", "unlinked", "freed"}] /\ mem[current] = "linked"
    BY <1>2 DEF Inv, TypeOK, QueueTypeOK, Linked
<1>7. CliInv'
    <2>1. After(current)' = After(current)
        BY <1>1, <1>2, <1>3, NullFacts DEF After
    <2>2. Leads(next[current], After(current))
        BY <1>2 DEF Inv, ListShape, QueueShape
    <2>3. Leads(next[current], After(current))'
        BY <1>1, <1>3, <2>1, <2>2 DEF Leads
    <2>4. \A n \in Nodes : mem[n] # "unlinked"
        BY <1>1 DEF Inv, CliInv
    <2>5. \A n \in Nodes : mem'[n] = "unlinked" => n = current'
        BY <1>1, <1>3, <1>6, <2>4
    <2>6. mem'[current'] = "unlinked" /\ current' \in Nodes
        BY <1>1, <1>2, <1>3, <1>6
    <2> QED
        BY <1>1, <1>2, <2>3, <2>5, <2>6 DEF CliInv, managerVars
<1>8. ASSUME NEW h \in Handlers PROVE SearchInv(h)'
    <2>1. UNCHANGED <<data, searchVars>>
        BY <1>1 DEF managerVars
    <2>2. \A n \in Nodes : /\ mem'[n] = "unused" => mem[n] = "unused"
                           /\ mem'[n] = "linked" => mem[n] = "linked"
                           /\ mem[n] = "freed" => mem'[n] = "freed"
        BY <1>3, <1>6
    <2> QED
        BY <2>1, <2>2, SearchShrinks DEF Inv
<1> QED
    BY <1>1, <1>2, <1>3, <1>4, <1>5, <1>7, <1>8 DEF Inv, ListShape, managerVars

LEMMA InvRemDestroy ==
    ASSUME Inv, RemDestroy
    PROVE  Inv' /\ UNCHANGED <<Linked, data, nodes_made>>
<1>1. /\ UNCHANGED <<proc, queueVars, bpkgs_mem, data, count, current, previous,
                     searchVars>>
      /\ alive' = alive \ {current}
      /\ cli_pc = "destroy" /\ cli_pc' = "free" /\ cli_query' = cli_query
    BY DEF RemDestroy, CliTo
<1>2. TypeOK'
    BY <1>1 DEF Inv, TypeOK, QueueTypeOK, queueVars, searchVars
<1>3. CliInv'
    BY <1>1 DEF Inv, CliInv, queueVars, Linked, After, Leads
<1> QED
    BY <1>1, <1>2, <1>3, CliMoves DEF queueVars, Linked

LEMMA InvRemFree ==
    ASSUME Inv, RemFree
    PROVE  Inv' /\ UNCHANGED <<Linked, data, nodes_made>>
<1>1. /\ UNCHANGED <<proc, bpkgs_mem, data, alive, current, previous, searchVars>>
      /\ q_node_destroy(current) /\ count' = uint8(count - 1)
      /\ cli_pc = "free" /\ cli_pc' = "idle" /\ cli_query' = cli_query
    BY DEF RemFree, CliTo
<1>2. current \in Nodes /\ mem[current] = "unlinked" /\ bpkgs_mem = "live"
    BY <1>1 DEF Inv, CliInv, TypeOK
<1>3. /\ QueueTypeOK' /\ QueueShape' /\ Linked' = Linked
      /\ nodes_made' = nodes_made
      /\ mem' = [mem EXCEPT ![current] = "freed"]
    BY <1>1, <1>2, NodeDestroyShape DEF Inv, TypeOK, ListShape
<1>4. count' \in 0..CountLimit - 1
    BY <1>1, Mod DEF Inv, TypeOK
<1>5. TypeOK'
    BY <1>1, <1>3, <1>4 DEF Inv, TypeOK, searchVars
<1>6. mem \in [Nodes -> {"unused", "linked", "unlinked", "freed"}]
    BY DEF Inv, TypeOK, QueueTypeOK
<1>7. CliInv'
    BY <1>1, <1>2, <1>3, <1>6 DEF Inv, CliInv
<1>8. ASSUME NEW h \in Handlers PROVE SearchInv(h)'
    <2>1. \A n \in Nodes : /\ mem'[n] = "unused" => mem[n] = "unused"
                           /\ mem'[n] = "linked" => mem[n] = "linked"
                           /\ mem[n] = "freed" => mem'[n] = "freed"
        BY <1>2, <1>3, <1>6
    <2> QED
        BY <1>1, <2>1, SearchShrinks DEF Inv
<1> QED
    BY <1>1, <1>3, <1>5, <1>7, <1>8 DEF Inv, ListShape

LEMMA InvQuit ==
    ASSUME Inv, Quit
    PROVE  Inv' /\ UNCHANGED <<Linked, data, nodes_made>>
<1>1. /\ UNCHANGED <<proc, queueVars, managerVars, previous, searchVars>>
      /\ current' = head
      /\ cli_pc = "idle" /\ cli_pc' = "quit" /\ cli_query' = cli_query
    BY DEF Quit, CliTo
<1>2. TypeOK'
    BY <1>1 DEF Inv, TypeOK, QueueTypeOK, queueVars, managerVars, searchVars
<1>3. CliInv'
    BY <1>1 DEF Inv, CliInv, queueVars, managerVars
<1> QED
    BY <1>1, <1>2, <1>3, CliMoves DEF queueVars, managerVars, Linked

LEMMA InvQuitDestroy ==
    ASSUME Inv, QuitDestroy
    PROVE  Inv' /\ UNCHANGED <<Linked, data, nodes_made>>
<1>1. /\ UNCHANGED <<proc, queueVars, bpkgs_mem, data, count, cli_pc, cli_query,
                     previous, searchVars>>
      /\ alive' = alive \ {current} /\ current' = next[current]
      /\ cli_pc = "quit" /\ current # NULL
    BY DEF QuitDestroy
<1>2. next[current] \in Pointers
    BY <1>1 DEF Inv, TypeOK, QueueTypeOK, Pointers
<1>3. TypeOK'
    BY <1>1, <1>2 DEF Inv, TypeOK, QueueTypeOK, queueVars, searchVars
<1>4. CliInv'
    BY <1>1 DEF Inv, CliInv, queueVars
<1> QED
    BY <1>1, <1>3, <1>4, CliMoves DEF queueVars, Linked

LEMMA InvQuitFree ==
    ASSUME Inv, QuitFree
    PROVE  Inv' /\ Linked' = {} /\ UNCHANGED <<data, nodes_made>>
<1>1. /\ UNCHANGED <<proc, data, alive, count, current, previous, searchVars>>
      /\ q_destroy /\ bpkgs_mem' = "freed"
      /\ cli_pc = "quit" /\ cli_pc' = "exit" /\ cli_query' = cli_query
    BY DEF QuitFree, CliTo
<1>2. /\ UNCHANGED <<head, tail, next, nodes_made>>
      /\ mem' = [n \in Nodes |-> IF mem[n] = "unused" THEN "unused" ELSE "freed"]
    BY <1>1 DEF q_destroy
<1>3. TypeOK'
    BY <1>1, <1>2 DEF Inv, TypeOK, QueueTypeOK, searchVars, Pointers
<1>4. Linked' = {}
    BY <1>2 DEF Linked
<1>5. CliInv'
    BY <1>1, <1>2, <1>4 DEF CliInv
<1>6. ASSUME NEW h \in Handlers PROVE SearchInv(h)'
    BY <1>1, <1>2, SearchShrinks DEF Inv
<1> QED
    BY <1>1, <1>2, <1>3, <1>4, <1>5, <1>6 DEF Inv, ListShape

-----------------------------------------------------------------------------
(* Searches *)

\* A step of one handler's walk.
LEMMA WalkStep ==
    ASSUME Inv, NEW h \in Handlers,
           UNCHANGED <<proc, queueVars, managerVars, cliVars>>,
           NEW label \in SearchPcs, SearchTo(h, label),
           NEW q \in SUBSET (Idents \cup {NULL}), query' = [query EXCEPT ![h] = q],
           NEW c \in Pointers, curr' = [curr EXCEPT ![h] = c],
           NEW S \in SUBSET Nodes, start' = [start EXCEPT ![h] = S],
           SearchInv(h)'
    PROVE  Inv' /\ UNCHANGED <<Linked, data, nodes_made>>
<1>1. TypeOK'
    BY DEF Inv, TypeOK, QueueTypeOK, SearchTo, queueVars, managerVars, cliVars
<1>2. /\ UNCHANGED <<head, tail, next, mem, nodes_made, Linked, data, bpkgs_mem>>
    BY DEF queueVars, managerVars, Linked
<1>3. ListShape'
    BY <1>2 DEF Inv, ListShape, QueueShape, Leads, After
<1>4. CliInv'
    BY <1>2 DEF Inv, CliInv, cliVars, InFrontOf, Leads, After, Matches
<1>5. ASSUME NEW g \in Handlers \ {h} PROVE SearchInv(g)'
    <2>1. /\ pc'[g] = pc[g] /\ query'[g] = query[g]
          /\ curr'[g] = curr[g] /\ start'[g] = start[g]
        BY DEF SearchTo, Inv, TypeOK
    <2> QED
        BY <1>2, <2>1 DEF Inv, SearchInv, Matches, Compares
<1> QED
    BY <1>1, <1>2, <1>3, <1>4, <1>5 DEF Inv

LEMMA InvSearchStart ==
    ASSUME Inv, NEW h \in Handlers, NEW q \in SearchQueries, SearchStart(h, q)
    PROVE  Inv' /\ UNCHANGED <<Linked, data, nodes_made>>
<1>1. /\ UNCHANGED <<proc, queueVars, managerVars, cliVars>>
      /\ SearchTo(h, "visit")
      /\ query' = [query EXCEPT ![h] = q]
      /\ curr' = [curr EXCEPT ![h] = head]
      /\ start' = [start EXCEPT ![h] = Linked]
      /\ bpkgs_mem = "live"
    BY DEF SearchStart
<1>2. q \in SUBSET (Idents \cup {NULL}) /\ head \in Pointers /\ Linked \in SUBSET Nodes
    BY PackagesAssumption DEF Inv, TypeOK, QueueTypeOK, Linked
<1>3. Leads(head, Linked)
    BY <1>1 DEF Inv, ListShape, QueueShape
<1>4. /\ pc'[h] = "visit" /\ query'[h] = q /\ curr'[h] = head /\ start'[h] = Linked
      /\ mem' = mem
    BY <1>1 DEF SearchTo, Inv, TypeOK, queueVars
<1>5. SearchInv(h)'
    BY <1>3, <1>4 DEF SearchInv, Leads, Linked
<1> QED
    BY <1>1, <1>2, <1>5, WalkStep DEF SearchPcs

LEMMA InvSearchVisit ==
    ASSUME Inv, NEW h \in Handlers, SearchVisit(h)
    PROVE  Inv' /\ UNCHANGED <<Linked, data, nodes_made>>
<1> DEFINE label == IF curr[h] = NULL THEN "missed"
                    ELSE IF ~Matches(curr[h], query[h]) THEN "advance"
                    ELSE IF data[curr[h]] = NULL THEN "missed"
                    ELSE "using"
<1>1. /\ UNCHANGED <<proc, queueVars, managerVars, cliVars, query, curr, start>>
      /\ pc[h] = "visit" /\ SearchTo(h, label)
      /\ curr[h] # NULL => mem[curr[h]] # "freed"
    BY DEF SearchVisit
<1>2. /\ curr[h] \in Pointers /\ start[h] \in SUBSET Nodes
      /\ query[h] \in SUBSET (Idents \cup {NULL})
      /\ query' = [query EXCEPT ![h] = query[h]]
      /\ curr' = [curr EXCEPT ![h] = curr[h]]
      /\ start' = [start EXCEPT ![h] = start[h]]
    BY <1>1 DEF Inv, TypeOK
<1>3. /\ pc'[h] = label /\ UNCHANGED <<mem, data, query[h], curr[h], start[h]>>
    BY <1>1 DEF SearchTo, Inv, TypeOK, queueVars, managerVars
<1>4. SearchInv(h)
    BY DEF Inv
<1>5. ASSUME NEW m \in start[h] \cap Linked, Matches(m, query[h])
      PROVE  /\ curr[h] # NULL /\ curr[h] <= m
             /\ Matches(curr[h], query[h]) \/ curr[h] < m
             /\ Matches(curr[h], query[h]) /\ data[curr[h]] = NULL => ~Compares(query[h])
    <2>1. curr[h] # NULL /\ curr[h] <= m
        BY <1>1, <1>4, <1>5 DEF SearchInv
    <2>2. curr[h] \in Int /\ m \in Int
        BY <1>2, <2>1, NullFacts DEF Pointers, Linked
    <2> QED
        BY <1>5, <2>1, <2>2 DEF Matches, Compares
<1>6. SearchInv(h)'
    <2>1. /\ (curr[h] # NULL => mem[curr[h]] # "unused")'
          /\ (\A n \in start[h] : mem[n] # "unused")'
          /\ (pc[h] = "advance" => curr[h] # NULL)'
        BY <1>3, <1>4 DEF SearchInv
    <2>2. /\ \A m : Matches(m, query[h])' <=> Matches(m, query[h])
          /\ Compares(query[h])' <=> Compares(query[h])
        BY <1>3 DEF Matches, Compares
    <2>3. Linked' = Linked
        BY <1>3 DEF Linked
    <2> QED
        BY <1>3, <1>5, <2>1, <2>2, <2>3 DEF SearchInv
<1> QED
    BY <1>1, <1>2, <1>6, WalkStep DEF SearchPcs

LEMMA InvSearchAdvance ==
    ASSUME Inv, NEW h \in Handlers, SearchAdvance(h)
    PROVE  Inv' /\ UNCHANGED <<Linked, data, nodes_made>>
<1> DEFINE c == curr[h]
<1>1. /\ UNCHANGED <<proc, queueVars, managerVars, cliVars, query, start>>
      /\ pc[h] = "advance" /\ mem[c] # "freed"
      /\ curr' = [curr EXCEPT ![h] = next[c]]
      /\ SearchTo(h, "visit")
    BY DEF SearchAdvance
<1>2. /\ start[h] \in SUBSET Nodes /\ query[h] \in SUBSET (Idents \cup {NULL})
      /\ query' = [query EXCEPT ![h] = query[h]]
      /\ start' = [start EXCEPT ![h] = start[h]]
    BY <1>1 DEF Inv, TypeOK
<1>3. SearchInv(h) /\ c \in Nodes /\ mem[c] # "unused" /\ c \in Int
    BY <1>1, NullFacts DEF Inv, SearchInv, TypeOK, Pointers
<1>4. next[c] \in Pointers
    BY <1>3 DEF Inv, TypeOK, QueueTypeOK
<1>5. /\ pc'[h] = "visit" /\ curr'[h] = next[c]
      /\ UNCHANGED <<mem, data, query[h], start[h], Linked>>
    BY <1>1 DEF SearchTo, Inv, TypeOK, queueVars, managerVars, Linked
<1>6. Leads(next[c], After(c))
    <2>1. CASE mem[c] = "linked"
        <3>1. c \in Linked /\ bpkgs_mem = "live"
            BY <1>3, <2>1 DEF Inv, CliInv, TypeOK, Linked
        <3> QED
            BY <3>1 DEF Inv, ListShape, QueueShape
    <2>2. CASE mem[c] = "unlinked"
        BY <1>3, <2>2 DEF Inv, CliInv
    <2> QED
        BY <1>1, <1>3, <2>1, <2>2 DEF Inv, TypeOK, QueueTypeOK
<1>7. next[c] # NULL => next[c] \in Linked /\ mem[next[c]] # "unused"
    BY <1>6 DEF Leads, After, Linked
<1>8. ASSUME NEW m \in start[h] \cap Linked, Matches(m, query[h])
      PROVE  next[c] # NULL /\ next[c] <= m
    <2>1. c < m /\ m \in After(c)
        BY <1>1, <1>3, <1>8 DEF SearchInv, After
    <2> QED
        BY <1>6, <2>1 DEF Leads
<1>9. SearchInv(h)'
    <2>1. \A m : Matches(m, query[h])' <=> Matches(m, query[h])
        BY <1>5 DEF Matches
    <2>2. (\A n \in start[h] : mem[n] # "unused")'
        BY <1>3, <1>5 DEF SearchInv
    <2> QED
        BY <1>5, <1>7, <1>8, <2>1, <2>2 DEF SearchInv
<1> QED
    BY <1>1, <1>2, <1>4, <1>9, WalkStep DEF SearchPcs

LEMMA InvSearchEnds ==
    ASSUME Inv, NEW h \in Handlers, SearchEnds(h)
    PROVE  Inv' /\ UNCHANGED <<Linked, data, nodes_made>>
<1>1. /\ UNCHANGED <<proc, queueVars, managerVars, cliVars, query, curr, start>>
      /\ SearchTo(h, "idle")
    BY DEF SearchEnds
<1>2. /\ curr[h] \in Pointers /\ start[h] \in SUBSET Nodes
      /\ query[h] \in SUBSET (Idents \cup {NULL})
      /\ query' = [query EXCEPT ![h] = query[h]]
      /\ curr' = [curr EXCEPT ![h] = curr[h]]
      /\ start' = [start EXCEPT ![h] = start[h]]
    BY <1>1 DEF Inv, TypeOK
<1>3. /\ pc'[h] = "idle" /\ UNCHANGED <<mem, curr[h], start[h]>>
    BY <1>1 DEF SearchTo, Inv, TypeOK, queueVars
<1>4. SearchInv(h)'
    BY <1>3 DEF Inv, SearchInv
<1> QED
    BY <1>1, <1>2, <1>4, WalkStep DEF SearchPcs

-----------------------------------------------------------------------------
(* Every step *)

\* What a step does to the list, as PackageList sees it.
ListStep == List!ListNext \/ UNCHANGED <<Linked, data, nodes_made>>

LEMMA InvNext == ASSUME Inv, Next PROVE Inv' /\ ListStep
<1>1. ASSUME NEW how \in Endings, Ends(how) PROVE Inv' /\ ListStep
    BY <1>1, InvEnds DEF ListStep
<1>2. CASE CliStarts
    <2>1. ASSUME NEW package \in Idents \cup {NULL}, cli_add_package(package)
          PROVE  Inv' /\ ListStep
        BY <2>1, InvAdd DEF ListStep, List!ListNext, List!Append
    <2>2. CASE cli_add_packageEnds
        BY <1>1, <2>2 DEF cli_add_packageEnds, Endings
    <2>3. ASSUME NEW q \in RemQueries, RemStart(q) PROVE Inv' /\ ListStep
        BY <2>3, InvRemStart DEF ListStep
    <2>4. CASE Quit
        BY <2>4, InvQuit DEF ListStep
    <2> QED
        BY <1>2, <2>1, <2>2, <2>3, <2>4 DEF CliStarts
<1>3. CASE CliGoesOn
    <2>1. CASE RemMiss
        BY <2>1, InvRemMiss DEF ListStep
    <2>2. CASE RemFaults
        BY <1>1, <2>2 DEF RemFaults, Endings
    <2>3. CASE RemSkip
        BY <2>3, InvRemSkip DEF ListStep
    <2>4. CASE RemUnlink
        BY <2>4, InvRemUnlink DEF ListStep, List!ListNext, List!RemoveOldest, Matches
    <2>5. CASE RemDestroy
        BY <2>5, InvRemDestroy DEF ListStep
    <2>6. CASE RemFree
        BY <2>6, InvRemFree DEF ListStep
    <2>7. CASE QuitDestroy
        BY <2>7, InvQuitDestroy DEF ListStep
    <2>8. CASE QuitFree
        BY <2>8, InvQuitFree DEF ListStep, List!ListNext, List!RemoveAll
    <2>9. CASE Exit
        BY <1>1, <2>9 DEF Exit, Endings
    <2> QED
        BY <1>3, <2>1, <2>2, <2>3, <2>4, <2>5, <2>6, <2>7, <2>8, <2>9 DEF CliGoesOn
<1>4. ASSUME NEW h \in Handlers, NEW q \in SearchQueries, SearchStart(h, q)
      PROVE  Inv' /\ ListStep
    BY <1>4, InvSearchStart DEF ListStep
<1>5. ASSUME NEW h \in Handlers, SearchGoesOn(h) PROVE Inv' /\ ListStep
    <2>1. CASE SearchFaults(h)
        BY <1>1, <2>1 DEF SearchFaults, Endings
    <2>2. CASE SearchVisit(h) \/ SearchAdvance(h) \/ SearchEnds(h)
        BY <2>2, InvSearchVisit, InvSearchAdvance, InvSearchEnds DEF ListStep
    <2> QED
        BY <1>5, <2>1, <2>2 DEF SearchGoesOn
<1> QED
    BY <1>2, <1>3, <1>4, <1>5 DEF Next, Searches

LEMMA InvStutter == ASSUME Inv, UNCHANGED vars PROVE Inv' /\ ListStep
<1>1. TypeOK'
    BY DEF Inv, TypeOK, QueueTypeOK, vars, queueVars, managerVars, cliVars, searchVars
<1>2. CliInv'
    BY DEF Inv, CliInv, vars, queueVars, managerVars, cliVars, Linked, InFrontOf,
           Leads, After, Matches
<1> QED
    BY <1>1, <1>2, CliMoves DEF vars, managerVars, queueVars, Linked, ListStep

LEMMA Invariance == Spec => []Inv
<1>1. Inv /\ [Next]_vars => Inv'
    BY InvNext, InvStutter
<1> QED
    BY InvInit, <1>1, PTL DEF Spec

-----------------------------------------------------------------------------
(* The count: arithmetic modulo CountLimit *)

\* Wrapping early or late makes no difference.
LEMMA Wrap == \A n, k \in Int : uint8(uint8(n) + k) = uint8(n + k)
<1> SUFFICES ASSUME NEW n \in Int, NEW k \in Int
             PROVE  uint8(uint8(n) + k) = uint8(n + k)
    OBVIOUS
<1> DEFINE L == CountLimit
           a == n \div L          r == n % L
           b == (r + k) \div L    s == (r + k) % L
           c == (n + k) \div L    t == (n + k) % L
           e == a + b
<1>1. L \in Int /\ L > 0
    BY PackagesAssumption
<1> HIDE DEF L
<1>2. n = L * a + r /\ a \in Int /\ r \in 0..L - 1
    BY <1>1, Division
<1>3. r + k = L * b + s /\ b \in Int /\ s \in 0..L - 1
    BY <1>1, <1>2, Division
<1>4. n + k = L * c + t /\ c \in Int /\ t \in 0..L - 1
    BY <1>1, Division
<1> HIDE DEF a, r, b, s, c, t
<1>5. L * (a + b) = L * a + L * b
    BY <1>1, <1>2, <1>3
<1>6. /\ L * a \in Int /\ L * b \in Int /\ L * c \in Int /\ a + b \in Int
      /\ s \in Int /\ t \in Int
    BY <1>1, <1>2, <1>3, <1>4
<1>7. L * e + s = L * c + t /\ e \in Int
    BY <1>2, <1>3, <1>4, <1>5, <1>6
<1> HIDE DEF e
<1>8. s = t
    BY <1>1, <1>3, <1>4, <1>6, <1>7, OneDivision
<1> QED
    BY <1>8 DEF s, t, r, L, uint8

\* A package being removed is out of the list and still in the count.
InHand == IF cli_pc \in {"destroy", "free"} THEN 1 ELSE 0

CountInv ==
    bpkgs_mem = "live" => count = uint8(Cardinality(Linked) + InHand)

LEMMA LinkedFinite == IsFiniteSet(Linked) /\ Cardinality(Linked) \in Nat
<1>1. IsFiniteSet(Nodes)
    BY FS_Interval, QueueAssumption DEF Nodes
<1>2. Linked \in SUBSET Nodes
    BY DEF Linked
<1> QED
    BY <1>1, <1>2, FS_Subset, FS_CardinalityType

LEMMA CountNext == ASSUME Inv, CountInv, Next PROVE CountInv'
<1> DEFINE N == Cardinality(Linked)
<1>0. N \in Int
    BY LinkedFinite
<1>1. ASSUME NEW package \in Idents \cup {NULL}, cli_add_package(package)
      PROVE  CountInv'
    <2>1. Linked' = Linked \cup {nodes_made + 1} /\ nodes_made + 1 \notin Linked
        BY <1>1, InvAdd, QueueAssumption DEF Inv, TypeOK, QueueTypeOK, Linked, Nodes
    <2>2. Cardinality(Linked') = N + 1
        BY <2>1, LinkedFinite, FS_AddElement
    <2>3. cli_pc = "idle" /\ cli_pc' = "idle" /\ bpkgs_mem' = bpkgs_mem
          /\ count' = uint8(count + 1)
        BY <1>1 DEF cli_add_package, cliVars
    <2>4. bpkgs_mem = "live" => count' = uint8(N + 1)
        BY <1>0, <2>3, Wrap DEF CountInv, InHand
    <2> QED
        BY <1>0, <2>2, <2>3, <2>4 DEF CountInv, InHand
<1>2. CASE RemUnlink
    <2>1. Linked' = Linked \ {current} /\ current \in Linked
        BY <1>2, InvRemUnlink
    <2>2. Cardinality(Linked') = N - 1
        BY <2>1, LinkedFinite, FS_RemoveElement
    <2>3. /\ cli_pc = "seek" /\ cli_pc' = "destroy"
          /\ UNCHANGED <<bpkgs_mem, count>>
        BY <1>2 DEF RemUnlink, CliTo, managerVars
    <2>4. N + 0 = (N - 1) + 1
        BY <1>0
    <2> QED
        BY <2>2, <2>3, <2>4 DEF CountInv, InHand
<1>3. CASE RemFree
    <2>1. Linked' = Linked
        BY <1>3, InvRemFree
    <2>2. /\ cli_pc = "free" /\ cli_pc' = "idle" /\ bpkgs_mem' = bpkgs_mem
          /\ count' = uint8(count - 1)
        BY <1>3 DEF RemFree, CliTo
    <2>3. bpkgs_mem = "live" => count' = uint8(uint8(N + 1) + (-1))
        BY <2>2 DEF CountInv, InHand, uint8
    <2>4. uint8(uint8(N + 1) + (-1)) = uint8(N + 0)
        BY <1>0, Wrap
    <2> QED
        BY <2>1, <2>2, <2>3, <2>4 DEF CountInv, InHand
<1>4. CASE RemDestroy
    BY <1>4, InvRemDestroy DEF RemDestroy, CliTo, CountInv, InHand
<1>5. CASE QuitFree
    BY <1>5 DEF QuitFree, CountInv
<1>6. ASSUME Linked' = Linked, UNCHANGED <<bpkgs_mem, count>>,
             cli_pc \notin {"destroy", "free"}, cli_pc' \notin {"destroy", "free"}
      PROVE  CountInv'
    BY <1>6 DEF CountInv, InHand
<1>7. ASSUME NEW how, Ends(how) PROVE CountInv'
    BY <1>7 DEF Ends, queueVars, managerVars, cliVars, Linked, CountInv, InHand
<1>8. CASE CliStarts
    <2>1. ASSUME NEW q \in RemQueries, RemStart(q) PROVE CountInv'
        BY <1>6, <2>1, InvRemStart DEF RemStart, managerVars
    <2>2. CASE Quit
        BY <1>6, <2>2, InvQuit DEF Quit, CliTo, managerVars
    <2> QED
        BY <1>1, <1>7, <1>8, <2>1, <2>2 DEF CliStarts, cli_add_packageEnds
<1>9. CASE CliGoesOn
    <2>1. CASE RemMiss
        BY <1>6, <2>1, InvRemMiss DEF RemMiss, CliTo, managerVars
    <2>2. CASE RemSkip
        BY <1>6, <2>2, InvRemSkip DEF RemSkip, managerVars
    <2>3. CASE QuitDestroy
        BY <1>6, <2>3, InvQuitDestroy DEF QuitDestroy
    <2> QED
        BY <1>2, <1>3, <1>4, <1>5, <1>7, <1>9, <2>1, <2>2, <2>3
           DEF CliGoesOn, RemFaults, Exit
<1>10. CASE Searches
    <2>1. ASSUME UNCHANGED <<queueVars, managerVars, cliVars>> PROVE CountInv'
        BY <2>1 DEF queueVars, managerVars, cliVars, Linked, CountInv, InHand
    <2> QED
        BY <1>7, <1>10, <2>1 DEF Searches, SearchStart, SearchGoesOn, SearchFaults,
                                 SearchVisit, SearchAdvance, SearchEnds
<1> QED
    BY <1>8, <1>9, <1>10 DEF Next

LEMMA CountAlways == Spec => []CountInv
<1>1. Init => CountInv
    <2>1. ASSUME Init PROVE Linked = {} /\ count = 0 /\ cli_pc = "idle"
        BY <2>1, InitShape DEF Init
    <2>2. uint8(0 + 0) = 0
        BY PackagesAssumption DEF uint8
    <2> QED
        BY <2>1, <2>2, FS_EmptySet DEF CountInv, InHand
<1>2. ASSUME Inv, CountInv, UNCHANGED vars PROVE CountInv'
    BY <1>2 DEF CountInv, InHand, vars, queueVars, managerVars, cliVars, Linked
<1>3. Inv /\ CountInv /\ [Next]_vars => CountInv'
    BY <1>2, CountNext
<1> QED
    BY <1>1, <1>3, Invariance, PTL DEF Spec

-----------------------------------------------------------------------------
(* What PACKAGES prints                                                      *)

\* What is after p on a walk over the list.
Following(p) == IF p = NULL THEN NULL ELSE next[p]

\* The first nodes of a walk, 0..j of them.
WalksFrom(w, j) ==
    w = [k \in 0..j |-> IF k = 0 THEN head ELSE Following(w[k - 1])]

\* A walk of any length exists: by the least length of which there is none.
LEMMA WalkExists == ASSUME NEW j \in Nat PROVE \E w : WalksFrom(w, j)
<1> DEFINE S == {i \in Nat : ~ \E w : WalksFrom(w, i)}
<1> SUFFICES ASSUME S # {} PROVE FALSE
    OBVIOUS
<1>1. PICK i \in S : \A k \in S : i <= k
    BY LeastElement
<1>2. i \in Nat /\ ~ \E w : WalksFrom(w, i)
    BY <1>1
<1>3. CASE i = 0
    <2> DEFINE w == [k \in 0..0 |-> head]
    <2>1. WalksFrom(w, 0)
        BY DEF WalksFrom
    <2> HIDE DEF w
    <2> QED
        BY <1>2, <1>3, <2>1
<1>4. CASE i > 0
    <2>1. i - 1 \in Nat /\ i - 1 \notin S
        BY <1>1, <1>2, <1>4
    <2>2. PICK w : WalksFrom(w, i - 1)
        BY <2>1
    <2> DEFINE v == [k \in 0..i |-> IF k = i THEN Following(w[i - 1]) ELSE w[k]]
    <2>3. \A k \in 0..(i - 1) : v[k] = w[k]
        BY <1>2
    <2>4. \A k \in 0..(i - 1) : w[k] = IF k = 0 THEN head ELSE Following(w[k - 1])
        BY <2>2, Zenon DEF WalksFrom
    <2>5. v[i] = Following(v[i - 1])
        BY <1>2, <1>4, <2>3
    <2>6. ASSUME NEW k \in 0..i
          PROVE  v[k] = IF k = 0 THEN head ELSE Following(v[k - 1])
        <3>1. CASE k = i
            BY <1>4, <2>5, <3>1
        <3>2. CASE k \in 1..(i - 1)
            <4>1. k \in 0..(i - 1) /\ k - 1 \in 0..(i - 1) /\ k # 0
                BY <1>2, <3>2
            <4> QED
                BY <2>3, <2>4, <4>1
        <3>3. CASE k = 0
            BY <1>2, <1>4, <2>3, <2>4, <3>3
        <3> QED
            BY <1>2, <3>1, <3>2, <3>3
    <2>7. v = [k \in 0..i |-> v[k]]
        OBVIOUS
    <2> HIDE DEF v
    <2>8. WalksFrom(v, i)
        BY <2>6, <2>7 DEF WalksFrom
    <2> QED
        BY <1>2, <2>8
<1> QED
    BY <1>2, <1>3, <1>4

\* The walk of cli_report_packages.
Walk == CHOOSE w : WalksFrom(w, MaxNodes)

LEMMA WalkSteps ==
    /\ Walk[0] = head
    /\ \A k \in 1..MaxNodes : Walk[k] = Following(Walk[k - 1])
<1>1. \E w : WalksFrom(w, MaxNodes)
    BY WalkExists, QueueAssumption
<1>2. WalksFrom(Walk, MaxNodes)
    BY <1>1, Zenon DEF Walk
<1>3. \A k \in 0..MaxNodes : Walk[k] = IF k = 0 THEN head ELSE Following(Walk[k - 1])
    BY <1>2, Zenon DEF WalksFrom
<1>4. 0 \in 0..MaxNodes /\ \A k \in 1..MaxNodes : k \in 0..MaxNodes /\ k # 0
    BY QueueAssumption
<1> QED
    BY <1>3, <1>4

LEMMA ReportWalks ==
    Reported = IF count = 0 THEN {} ELSE {Walk[k] : k \in 0..MaxNodes} \ {NULL}
BY Zenon DEF Reported, Walk, WalksFrom, Following

\* The walk stays in the list, ...
LEMMA WalkStays ==
    ASSUME QueueShape, NEW k \in 0..MaxNodes
    PROVE  Walk[k] # NULL => Walk[k] \in Linked
<1> DEFINE S == {i \in 0..MaxNodes : Walk[i] # NULL /\ Walk[i] \notin Linked}
<1> SUFFICES ASSUME S # {} PROVE FALSE
    OBVIOUS
<1>0. S \subseteq Nat
    BY QueueAssumption
<1>1. PICK i \in S : \A j \in S : i <= j
    <2> HIDE DEF S
    <2> QED
        BY <1>0, LeastElement
<1>2. i \in 0..MaxNodes /\ Walk[i] # NULL /\ Walk[i] \notin Linked
    BY <1>1
<1>3. i # 0
    BY <1>2, WalkSteps DEF QueueShape, Leads
<1>4. i \in 1..MaxNodes /\ i - 1 \in 0..MaxNodes /\ ~(i <= i - 1)
    BY <1>2, <1>3, QueueAssumption
<1>5. i - 1 \notin S
    BY <1>1, <1>4
<1>6. Walk[i] = Following(Walk[i - 1])
    BY <1>4, WalkSteps
<1>7. Walk[i - 1] # NULL /\ Walk[i - 1] \in Linked /\ Walk[i] = next[Walk[i - 1]]
    BY <1>2, <1>4, <1>5, <1>6 DEF Following
<1>8. Walk[i] \in Linked
    BY <1>2, <1>7 DEF QueueShape, Leads, After
<1> QED
    BY <1>2, <1>8

\* ... and comes to every node of it, after fewer steps than its number.
LEMMA WalkReaches ==
    ASSUME QueueShape, NEW n \in Linked
    PROVE  \E k \in 0..MaxNodes : k < n /\ Walk[k] = n
<1> DEFINE Seen(m) == \E k \in 0..MaxNodes : k < m /\ Walk[k] = m
           S == {m \in Linked : ~Seen(m)}
<1> SUFFICES ASSUME S # {} PROVE FALSE
    OBVIOUS
<1>0. /\ Linked \subseteq Nodes /\ MaxNodes \in Nat /\ NULL \notin Nodes
      /\ \A m \in Linked : m \in Nat /\ m >= 1 /\ m <= MaxNodes
    BY QueueAssumption, NullFacts DEF Linked, Nodes
<1>1. PICK m \in S : \A i \in S : m <= i
    BY <1>0, LeastElement
<1>2. m \in Linked /\ ~Seen(m) /\ m \in Nat /\ 1 <= m /\ m <= MaxNodes
    BY <1>0, <1>1
<1>3. m # head
    <2>1. 0 \in 0..MaxNodes /\ 0 < m
        BY <1>0, <1>2
    <2> QED
        BY <1>2, <2>1, WalkSteps
<1> DEFINE Up == {i \in Nat : MaxNodes - i \in Linked /\ MaxNodes - i < m}
<1>4. head \in Linked /\ head < m
    <2>1. head \in Linked /\ head <= m
        BY <1>2 DEF QueueShape, Leads
    <2> QED
        BY <1>0, <1>2, <1>3, <2>1
<1>5. Up # {}
    <2>1. MaxNodes - (MaxNodes - head) = head /\ MaxNodes - head \in Nat
        BY <1>0, <1>4
    <2> QED
        BY <1>4, <2>1
<1>6. PICK i \in Up : \A j \in Up : i <= j
    BY <1>5, LeastElement
<1> DEFINE p == MaxNodes - i
<1>7. p \in Linked /\ p < m /\ p \in Nat /\ i \in Nat
    BY <1>0, <1>6
<1>8. ASSUME NEW l \in Linked, l < m PROVE l <= p
    <2>1. MaxNodes - (MaxNodes - l) = l /\ MaxNodes - l \in Nat
        BY <1>0
    <2>2. MaxNodes - l \in Up
        BY <1>8, <2>1
    <2>3. i <= MaxNodes - l
        BY <1>6, <2>2
    <2> QED
        BY <1>0, <1>7, <2>3
<1> HIDE DEF p
<1>9. next[p] = m
    <2>1. Leads(next[p], After(p)) /\ m \in After(p)
        BY <1>2, <1>7 DEF QueueShape, After
    <2>2. PICK q \in Linked : q = next[p] /\ q > p /\ q <= m
        BY <2>1 DEF Leads, After
    <2>3. q \in Nat /\ (q < m => q <= p)
        BY <1>0, <1>8
    <2>4. q = m
        BY <1>2, <1>7, <2>2, <2>3
    <2> QED
        BY <2>2, <2>4
<1>10. Seen(p)
    <2>1. p \notin S
        BY <1>0, <1>1, <1>7
    <2> QED
        BY <1>7, <2>1
<1>11. PICK k \in 0..MaxNodes : k < p /\ Walk[k] = p
    BY <1>10
<1>12. k + 1 \in 1..MaxNodes /\ k + 1 < m /\ (k + 1) - 1 = k /\ k + 1 \in 0..MaxNodes
    BY <1>0, <1>2, <1>7, <1>11
<1>13. Walk[k + 1] = Following(Walk[k])
    BY <1>12, WalkSteps
<1>14. Walk[k + 1] = m
    BY <1>0, <1>7, <1>9, <1>11, <1>13 DEF Following
<1> QED
    BY <1>2, <1>12, <1>14

-----------------------------------------------------------------------------
(* Theorems *)

\* Whatever the handlers read and whenever they read it, the package manager's
\* variables keep their types: the count its eight bits (package.c:204), the
\* list its pointers.
THEOREM PackagesTypes == Spec => []TypeOK
BY Invariance, PTL DEF Inv

\* pkgs_add and pkgs_rem leave a whole list, whichever package is taken out.
THEOREM PackagesListShape == Spec => []ListShape
BY Invariance, PTL DEF Inv

\* pkg_find_by_ident takes no lock, and still a NULL from it means that no
\* package which stayed in the list throughout the walk matches; or, for the
\* empty identifier, that none before a package that failed to load does.
THEOREM PackagesSearchMissesNothing == Spec => []SearchMissesNothing
<1>1. Inv => SearchMissesNothing
    BY DEF Inv, SearchInv, SearchMissesNothing
<1> QED
    BY <1>1, Invariance, PTL

\* The pointers implement the list of packages that users see: ADDPACKAGE
\* appends and REMPACKAGE removes the oldest match and nothing else.
THEOREM PackagesImplemented == Spec => ImplementsPackageList
<1>1. Init => List!ListInit
    BY InitShape DEF Init, List!ListInit, q_init
<1>2. Inv /\ [Next]_vars => [List!ListNext]_(List!listVars)
    BY InvNext, InvStutter DEF ListStep, List!listVars
<1> QED
    BY <1>1, <1>2, Invariance, PTL DEF Spec, ImplementsPackageList, List!ListSpec

\* The count that PACKAGES tests for zero (package.c:204, cli.c:170) is the
\* length of the list modulo its width, after any number of additions and
\* removals.
THEOREM PackagesCount == Spec => []CountOK
<1>1. CountInv => CountOK
    <2>1. Cardinality(Linked) \in Int
        BY LinkedFinite
    <2> QED
        BY <2>1 DEF CountInv, CountOK, InHand
<1> QED
    BY <1>1, CountAlways, PTL

\* PACKAGES (cli.c:174) prints every package that is managed, and nothing else,
\* unless there are so many that their count has wrapped to zero.
THEOREM PackagesReported == Spec => []ReportIsComplete
<1>1. Inv /\ CountInv => ReportIsComplete
    <2> SUFFICES ASSUME Inv, CountInv, bpkgs_mem = "live", cli_pc = "idle",
                        Cardinality(Linked) < CountLimit
                 PROVE  Reported = Linked
        BY DEF ReportIsComplete
    <2>1. QueueShape
        BY DEF Inv, ListShape
    <2>2. count = 0 <=> Linked = {}
        <3> DEFINE N == Cardinality(Linked)
        <3>1. N \in Nat /\ (N = 0 <=> Linked = {})
            BY LinkedFinite, FS_EmptySet
        <3>2. count = uint8(N + 0)
            BY DEF CountInv, InHand
        <3> HIDE DEF N
        <3>3. N + 0 = N /\ N \in 0..CountLimit - 1
            BY <3>1, PackagesAssumption DEF N
        <3>4. count = N
            BY <3>1, <3>2, <3>3, PackagesAssumption DEF uint8
        <3> QED
            BY <3>1, <3>4
    <2>3. CASE count = 0
        BY <2>2, <2>3, ReportWalks
    <2>4. CASE count # 0
        <3>1. Reported = {Walk[k] : k \in 0..MaxNodes} \ {NULL}
            BY <2>4, ReportWalks
        <3>2. Reported \subseteq Linked
            BY <2>1, <3>1, WalkStays
        <3>3. Linked \subseteq Reported
            <4>1. NULL \notin Linked
                BY NullFacts DEF Linked
            <4> QED
                BY <2>1, <3>1, <4>1, WalkReaches
        <3> QED
            BY <3>2, <3>3
    <2> QED
        BY <2>3, <2>4
<1> QED
    BY <1>1, Invariance, CountAlways, PTL
=============================================================================
