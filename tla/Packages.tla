------------------------------ MODULE Packages ------------------------------
(***************************************************************************)
(* The package manager, bpkgs: the command loop adds, removes and reports  *)
(* packages and frees everything at shutdown, while handler threads look   *)
(* packages up for the REQ and RES packets they receive.                   *)
(*                                                                         *)
(* Only the command loop takes bpkgs->lock.  pkg_find_by_ident walks the   *)
(* list without it, so every read of the walk is a step of its own, and so *)
(* is every step of pkgs_rem that a walk can tell apart.  The program is   *)
(* built with -fsanitize=address: a read of freed memory stops the process *)
(* and `proc` says which read it was.                                      *)
(*                                                                         *)
(* An identifier that is typed or received matches every package whose     *)
(* identifier begins with it; it is given as the set of those identifiers. *)
(* The empty one is compared without a read and matches a package whose    *)
(* load failed as well: NULL is in its set.                                *)
(***************************************************************************)
EXTENDS LinkedQueue

CONSTANTS
    Idents,       \* identifiers of packages
    RemQueries,   \* what users type after REMPACKAGE, 20 characters or more
    SearchQueries,\* identifiers in packets; an error RES carries the empty
                  \* one, which everything in the list begins with
    CountLimit,   \* values of a uint8_t
    Handlers      \* peer handler threads

ASSUME PackagesAssumption ==
    /\ RemQueries \subseteq SUBSET Idents
    /\ SearchQueries \subseteq (SUBSET Idents) \cup {Idents \cup {NULL}}
    /\ NULL \notin Idents
    /\ CountLimit \in Nat \ {0}

VARIABLES
    proc,       \* "running", or how the process ended
    bpkgs_mem,  \* bpkgs and its queue: "live" until pkgs_destroy frees them
    data,       \* node -> identifier of its package; NULL: the load failed
    alive,      \* nodes whose package object is allocated
    count,      \* bpkgs->count
    cli_pc, cli_query, current, previous,    \* the command loop
    pc, query, curr, start                   \* the handlers' searches

managerVars == <<bpkgs_mem, data, alive, count>>
cliVars     == <<cli_pc, cli_query, current, previous>>
searchVars  == <<pc, query, curr, start>>
vars == <<proc, queueVars, managerVars, cliVars, searchVars>>

\* "missed" and "using": pkg_find_by_ident has returned NULL, or a package
\* that send_res_pkts or pkt_install goes on to read.
SearchPcs == {"idle", "visit", "advance", "missed", "using"}
Endings   == {"exited",        \* exit(EXIT_SUCCESS) of graceful_shutdown
              "double_free",   \* bpkg_load, of a path it had freed
              "no_data_file",  \* exit(EXIT_FAILURE) of bpkg_file_check
              "null_package",  \* read of the package a failed load left out
              "uaf_node",      \* read of a freed list node
              "uaf_package",   \* read of a freed package
              "uaf_bpkgs"}     \* read of the freed package manager

\* Not the code: the count is wider than its type.
uint8Wide(n) == n

uint8(n) == n % CountLimit

\* Not the code: equal lengths are taken for equal identifiers.
MatchesByLength(n, q) == data[n] \in Idents

\* strncmp(ident, bpkg->ident, strlen(ident)) == 0
Matches(n, q) == data[n] \in q

\* Whether that reads the package: not over no characters.
Compares(q) == NULL \notin q

Init ==
    /\ proc = "running"
    /\ q_init
    /\ bpkgs_mem = "live"
    /\ data = [n \in Nodes |-> NULL]
    /\ alive = {}
    /\ count = 0
    /\ cli_pc = "idle" /\ cli_query = {} /\ current = NULL /\ previous = NULL
    /\ pc = [h \in Handlers |-> "idle"]
    /\ query = [h \in Handlers |-> {}]
    /\ curr = [h \in Handlers |-> NULL]
    /\ start = [h \in Handlers |-> {}]

Ends(how) ==
    /\ proc' = how
    /\ UNCHANGED <<queueVars, managerVars, cliVars, searchVars>>

-----------------------------------------------------------------------------
(* The command loop *)

\* ADDPACKAGE.  A file that cannot be read, is empty, cannot be mapped or has
\* no tree is a NULL in the list.
cli_add_package(package) ==
    /\ cli_pc = "idle"
    /\ nodes_made < MaxNodes
    /\ LET n == nodes_made + 1
       IN  /\ q_enqueue(n)
           /\ data' = [data EXCEPT ![n] = package]
           /\ alive' = IF package = NULL THEN alive ELSE alive \cup {n}
    /\ count' = uint8(count + 1)
    /\ UNCHANGED <<proc, bpkgs_mem, cliVars, searchVars>>

\* ADDPACKAGE of a malformed package file, whose path is freed twice, or of
\* one whose data file cannot be made.
cli_add_packageEnds ==
    /\ cli_pc = "idle"
    /\ \E how \in {"double_free", "no_data_file"} : Ends(how)

CliTo(label) ==
    /\ cli_pc' = label
    /\ UNCHANGED cli_query

\* REMPACKAGE takes the lock and looks at the first node.
RemStart(q) ==
    /\ cli_pc = "idle"
    /\ cli_pc' = "seek"
    /\ cli_query' = q
    /\ current' = head
    /\ previous' = NULL
    /\ UNCHANGED <<proc, queueVars, managerVars, searchVars>>

RemMiss ==
    /\ cli_pc = "seek"
    /\ current = NULL
    /\ CliTo("idle")
    /\ UNCHANGED <<proc, queueVars, managerVars, current, previous, searchVars>>

RemFaults ==
    /\ cli_pc = "seek"
    /\ current # NULL
    /\ data[current] = NULL
    /\ Ends("null_package")

RemSkip ==
    /\ cli_pc = "seek"
    /\ current # NULL
    /\ data[current] # NULL /\ ~Matches(current, cli_query)
    /\ previous' = current
    /\ current' = next[current]
    /\ UNCHANGED <<proc, queueVars, managerVars, cli_pc, cli_query, searchVars>>

RemUnlink ==
    /\ cli_pc = "seek"
    /\ current # NULL
    /\ data[current] # NULL /\ Matches(current, cli_query)
    /\ q_unlink(current, previous)
    /\ CliTo("destroy")
    /\ UNCHANGED <<proc, managerVars, current, previous, searchVars>>

\* bpkg_obj_destroy: the package, its tree and its mappings are gone.
RemDestroy ==
    /\ cli_pc = "destroy"
    /\ alive' = alive \ {current}
    /\ CliTo("free")
    /\ UNCHANGED <<proc, queueVars, bpkgs_mem, data, count, current, previous,
                   searchVars>>

\* Not the code: a removed package stays in the count.
RemFreeUncounted ==
    /\ cli_pc = "free"
    /\ q_node_destroy(current)
    /\ CliTo("idle")
    /\ UNCHANGED <<proc, managerVars, current, previous, searchVars>>

RemFree ==
    /\ cli_pc = "free"
    /\ q_node_destroy(current)
    /\ count' = uint8(count - 1)
    /\ CliTo("idle")
    /\ UNCHANGED <<proc, bpkgs_mem, data, alive, current, previous, searchVars>>

\* QUIT, after the listening thread is joined: pkgs_destroy takes the lock and
\* destroys package after package; handlers go on.
Quit ==
    /\ cli_pc = "idle"
    /\ current' = head
    /\ CliTo("quit")
    /\ UNCHANGED <<proc, queueVars, managerVars, previous, searchVars>>

QuitDestroy ==
    /\ cli_pc = "quit"
    /\ current # NULL
    /\ alive' = alive \ {current}
    /\ current' = next[current]
    /\ UNCHANGED <<proc, queueVars, bpkgs_mem, data, count, cli_pc, cli_query,
                   previous, searchVars>>

QuitFree ==
    /\ cli_pc = "quit"
    /\ current = NULL
    /\ q_destroy
    /\ bpkgs_mem' = "freed"
    /\ CliTo("exit")
    /\ UNCHANGED <<proc, data, alive, count, current, previous, searchVars>>

Exit ==
    /\ cli_pc = "exit"
    /\ Ends("exited")

-----------------------------------------------------------------------------
(* Searches: pkg_find_by_ident and what its callers do with the result *)

SearchTo(h, label) == pc' = [pc EXCEPT ![h] = label]

SearchStart(h, q) ==
    /\ pc[h] = "idle"
    /\ bpkgs_mem = "live"
    /\ SearchTo(h, "visit")
    /\ query' = [query EXCEPT ![h] = q]
    /\ curr' = [curr EXCEPT ![h] = head]
    /\ start' = [start EXCEPT ![h] = Linked]
    /\ UNCHANGED <<proc, queueVars, managerVars, cliVars>>

\* The first read is of a manager, of a node or of a package that is gone.
SearchFaults(h) ==
    \/ /\ pc[h] = "idle" /\ bpkgs_mem = "freed"
       /\ Ends("uaf_bpkgs")
    \/ /\ pc[h] \in {"visit", "advance"} /\ curr[h] # NULL
       /\ mem[curr[h]] = "freed"
       /\ Ends("uaf_node")
    \/ /\ pc[h] = "visit" /\ curr[h] # NULL
       /\ mem[curr[h]] # "freed" /\ Compares(query[h]) /\ curr[h] \notin alive
       /\ Ends(IF data[curr[h]] = NULL THEN "null_package" ELSE "uaf_package")
    \/ /\ pc[h] = "using" /\ curr[h] \notin alive
       /\ Ends("uaf_package")

\* curr->data and, unless the query is empty, its identifier are read and
\* compared.  What matches is returned, and that may be the NULL of a load that
\* failed: the search is over, with packages behind it unseen.
SearchVisit(h) ==
    /\ pc[h] = "visit"
    /\ curr[h] # NULL => /\ mem[curr[h]] # "freed"
                         /\ Compares(query[h]) => curr[h] \in alive
    /\ SearchTo(h, IF curr[h] = NULL THEN "missed"
                   ELSE IF ~Matches(curr[h], query[h]) THEN "advance"
                   ELSE IF data[curr[h]] = NULL THEN "missed"
                   ELSE "using")
    /\ UNCHANGED <<proc, queueVars, managerVars, cliVars, query, curr, start>>

\* Not the code: a search that starts over at the head.
SearchAdvanceRestarts(h) ==
    /\ pc[h] = "advance"
    /\ mem[curr[h]] # "freed"
    /\ curr' = [curr EXCEPT ![h] = head]
    /\ SearchTo(h, "visit")
    /\ UNCHANGED <<proc, queueVars, managerVars, cliVars, query, start>>

SearchAdvance(h) ==
    /\ pc[h] = "advance"
    /\ mem[curr[h]] # "freed"
    /\ curr' = [curr EXCEPT ![h] = next[curr[h]]]
    /\ SearchTo(h, "visit")
    /\ UNCHANGED <<proc, queueVars, managerVars, cliVars, query, start>>

\* An error RES is sent, or the chunk of the package is read or written.
SearchEnds(h) ==
    /\ \/ pc[h] = "missed"
       \/ pc[h] = "using" /\ curr[h] \in alive
    /\ SearchTo(h, "idle")
    /\ UNCHANGED <<proc, queueVars, managerVars, cliVars, query, curr, start>>

-----------------------------------------------------------------------------
CliStarts ==
    \/ \E package \in Idents \cup {NULL} : cli_add_package(package)
    \/ cli_add_packageEnds
    \/ \E q \in RemQueries : RemStart(q)
    \/ Quit

CliGoesOn ==
    \/ RemMiss \/ RemFaults \/ RemSkip \/ RemUnlink \/ RemDestroy \/ RemFree
    \/ QuitDestroy \/ QuitFree \/ Exit

SearchGoesOn(h) ==
    SearchFaults(h) \/ SearchVisit(h) \/ SearchAdvance(h) \/ SearchEnds(h)

Searches == \E h \in Handlers : (\E q \in SearchQueries : SearchStart(h, q))
                                \/ SearchGoesOn(h)

Next == proc = "running" /\ (CliStarts \/ CliGoesOn \/ Searches)

Spec == Init /\ [][Next]_vars

Running(A) == proc = "running" /\ A

\* The threads run; users and packets come when they like.
Fairness ==
    /\ WF_vars(Running(CliGoesOn))
    /\ \A h \in Handlers : WF_vars(Running(SearchGoesOn(h)))

FairSpec == Spec /\ Fairness

-----------------------------------------------------------------------------
(* Properties *)

TypeOK ==
    /\ QueueTypeOK
    /\ proc \in {"running"} \cup Endings
    /\ bpkgs_mem \in {"live", "freed"}
    /\ data \in [Nodes -> Idents \cup {NULL}]
    /\ alive \subseteq Nodes
    /\ count \in 0..CountLimit - 1
    /\ cli_pc \in {"idle", "seek", "destroy", "free", "quit", "exit"}
    /\ cli_query \in SUBSET Idents
    /\ current \in Pointers /\ previous \in Pointers
    /\ pc \in [Handlers -> SearchPcs]
    /\ query \in [Handlers -> SUBSET (Idents \cup {NULL})]
    /\ curr \in [Handlers -> Pointers]
    /\ start \in [Handlers -> SUBSET Nodes]

\* Removing the first, a middle, the last and the only package leaves a list
\* that q_enqueue and every walk can go on with.
ListShape == bpkgs_mem = "live" => QueueShape

\* bpkgs->count is the length of the list, in the eight bits it has.
CountOK ==
    bpkgs_mem = "live" /\ cli_pc # "free" /\ cli_pc # "destroy" =>
        count = uint8(Cardinality(Linked))

\* cli_report_packages: what PACKAGES prints, as the nodes it visits from
\* head, a package that failed to load being "Invalid package data".
Reported ==
    LET walk[k \in 0..MaxNodes] ==
            IF k = 0 THEN head
            ELSE IF walk[k - 1] = NULL THEN NULL ELSE next[walk[k - 1]]
    IN  IF count = 0 THEN {} ELSE {walk[k] : k \in 0..MaxNodes} \ {NULL}

\* PACKAGES prints every package that is managed and no other, as long as the
\* count has not come round to zero.
ReportIsComplete ==
    /\ bpkgs_mem = "live" /\ cli_pc = "idle"
    /\ Cardinality(Linked) < CountLimit
    => Reported = Linked

\* A search that returns NULL has not overlooked a package that was in the
\* list when it began and still is, whatever was removed and added meanwhile
\* without regard for it.  Only the empty identifier, which stops at a package
\* that failed to load, leaves packages unseen, and only those behind that one.
SearchMissesNothing ==
    \A h \in Handlers :
        pc[h] = "missed" =>
            \A n \in start[h] \cap Linked :
                Matches(n, query[h]) =>
                    /\ ~Compares(query[h])
                    /\ curr[h] # NULL /\ data[curr[h]] = NULL /\ curr[h] <= n

\* The pointers implement the list that users see.
List == INSTANCE PackageList WITH
            Entries <- Nodes, Labels <- Idents \cup {NULL}, Typed <- RemQueries,
            managed <- Linked, label <- data, newest <- nodes_made

ImplementsPackageList == List!ListSpec

\* A search comes to its end, however the list changes under it.
SearchesEnd ==
    \A h \in Handlers :
        pc[h] # "idle" ~> pc[h] = "idle" \/ proc # "running"
=============================================================================
