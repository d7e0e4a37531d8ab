---------------------------- MODULE Process_proofs ----------------------------
(***************************************************************************)
(* The configuration is honoured, and what several runs of                 *)
(* graceful_shutdown may free twice or too early, for every configuration, *)
(* every content of fresh memory and every number of signals.              *)
(***************************************************************************)
EXTENDS Process, Division_proofs, FiniteSetTheorems, TLAPS

\* Entries of the file were checked when they were read, and are no longer
\* read once the process goes on.
ConfigInv ==
    /\ "port" \in given => entry.port \in MIN_PORT..MAX_PORT
    /\ "max_peers" \in given => entry.max_peers \in MIN_PEERS..MAX_PEERS
    /\ main \in {"start", "commands"} => bound = sin_port(entry.port)

\* Threads other than main start when main has done with starting up, and a
\* run of the shutdown needs the thread it interrupts.
OrderInv ==
    /\ \A t \in {"server", "handler"} :
          /\ thread[t] # "off" => main \in {"commands", "stopping"}
          /\ shutdown[RunOn[t]] # "none" => thread[t] # "off"
    /\ shutdown["quit"] # "none" => main = "stopping"

\* Where a run is when it has freed p, has destroyed it, or has joined the
\* listening thread.
Past == [peers  |-> {"join", "bpkgs", "destroy", "config", "exit"},
         bpkgs  |-> {"config", "exit"},
         config |-> {"exit"}]
Joined == {"bpkgs", "destroy", "config", "exit"}

\* Whatever is freed was freed by a run that has gone on.
FreedInv ==
    \A p \in Pointers : memory[p] = "freed" => \E r \in Runs : shutdown[r] \in Past[p]

\* A run that has got past the join leaves no listening thread, unless it
\* runs on that thread.
JoinInv ==
    \A r \in Runs : shutdown[r] \in Joined =>
        thread["server"] # "on" \/ shutdown["on_server"] # "none"

Inv == TypeOK /\ ConfigInv /\ OrderInv /\ FreedInv /\ JoinInv /\ FreedOnce

LEMMA Limits ==
    /\ MIN_PORT \in Nat /\ MAX_PORT \in Nat
    /\ MIN_PEERS \in Nat /\ MAX_PEERS \in Nat /\ MIN_PEERS = 1
BY SMT DEF MIN_PORT, MAX_PORT, MIN_PEERS, MAX_PEERS

LEMMA InvInit == Init => Inv
<1> SUFFICES ASSUME Init PROVE Inv
    OBVIOUS
<1>1. entry \in [directory : Nat, max_peers : Nat, port : Nat]
    <2>1. /\ entry \in [directory : {0, 1}, max_peers : PeersGarbage, port : PortGarbage]
          /\ {0, 1} \subseteq Nat /\ PeersGarbage \subseteq Nat /\ PortGarbage \subseteq Nat
        BY ProcessAssumption DEF Init
    <2> QED
        BY <2>1, Zenon
<1>2. bound \in 0..MAX_PORT /\ signals \in 0..MaxSignals
    BY ProcessAssumption, Limits DEF Init
<1>3. TypeOK
    BY <1>1, <1>2 DEF Init, TypeOK, MainPcs, RunPcs
<1>4. ConfigInv /\ OrderInv /\ FreedInv /\ JoinInv /\ FreedOnce
    BY DEF Init, ConfigInv, OrderInv, FreedInv, JoinInv, FreedOnce, RunOn, Runs, Joined
<1> QED
    BY <1>3, <1>4 DEF Inv

-----------------------------------------------------------------------------
(* Steps of main and of the threads                                          *)

\* The process ends in another way than by freeing twice.
LEMMA EndsStep ==
    ASSUME Inv, NEW how \in Endings \ {"double_free"}, Ends(how)
    PROVE  Inv'
<1> USE DEF Ends, configVars, threadVars
<1>1. TypeOK'
    BY DEF Inv, TypeOK, Endings
<1>2. ConfigInv' /\ OrderInv' /\ FreedInv' /\ JoinInv' /\ FreedOnce'
    BY DEF Inv, ConfigInv, OrderInv, FreedInv, JoinInv, FreedOnce, Endings
<1> QED
    BY <1>1, <1>2 DEF Inv

\* The configuration is refused.
LEMMA RefuseStep ==
    ASSUME Inv, MainAt("parse"), Refuse
    PROVE  Inv'
<1> USE DEF Refuse, MainAt, Executes, configVars, threadVars, Inv
<1>1. TypeOK'
    BY DEF TypeOK, MainPcs, RunPcs, Runs
<1>2. ConfigInv'
    BY DEF ConfigInv
<1>3. OrderInv'
    BY DEF OrderInv, RunOn, TypeOK, Runs
<1>4. FreedInv' /\ JoinInv'
    BY DEF FreedInv, JoinInv, OrderInv, TypeOK, Runs, Joined, Past, Pointers
<1>5. FreedOnce'
    BY DEF FreedOnce
<1> QED
    BY <1>1, <1>2, <1>3, <1>4, <1>5

LEMMA ParseStep ==
    ASSUME Inv, NEW k \in Keys, NEW v \in Values(k), ParseEntry(k, v)
    PROVE  Inv'
<1> USE DEF ParseEntry, MainAt, Executes, threadVars, Inv
<1>1. v \in Nat
    <2>1. CASE k = "directory"
        BY <2>1 DEF Values
    <2>2. k = "directory" \/ v \in MIN_PEERS..MAX_PEERS \/ v \in MIN_PORT..MAX_PORT
        BY Zenon DEF Permitted
    <2>3. MIN_PEERS..MAX_PEERS \subseteq Nat /\ MIN_PORT..MAX_PORT \subseteq Nat
        BY Limits, SMT
    <2> QED
        BY <2>1, <2>2, <2>3, Zenon
<1>2. TypeOK'
    BY <1>1 DEF TypeOK, Keys
<1>3. ConfigInv'
    BY <1>1 DEF ConfigInv, TypeOK, Permitted, Keys
<1>4. OrderInv' /\ FreedInv' /\ JoinInv' /\ FreedOnce'
    BY DEF OrderInv, FreedInv, JoinInv, FreedOnce, Begun
<1> QED
    BY <1>2, <1>3, <1>4

LEMMA SixteenBits ==
    ASSUME NEW x \in Nat
    PROVE  /\ sin_port(x) \in 0..MAX_PORT
           /\ x \in 0..MAX_PORT => sin_port(x) = x
<1> DEFINE D == 65536
<1>1. D \in Int /\ D > 0 /\ D - 1 = MAX_PORT /\ x \in Int
    BY SMT DEF MAX_PORT
<1> HIDE DEF D
<1>2. x % D \in 0..MAX_PORT /\ (x \in 0..MAX_PORT => x % D = x)
    BY <1>1, Remainder, SMT
<1> QED
    BY <1>2, SMT DEF D, sin_port

LEMMA StartupStep == ASSUME Inv, Startup PROVE Inv'
<1> USE DEF MainAt, Executes, configVars, threadVars
<1>1. ASSUME NEW k \in Keys, NEW v \in Values(k), ParseEntry(k, v) PROVE Inv'
    BY <1>1, ParseStep
<1>2. CASE ConfigFails
    BY <1>2, RefuseStep DEF ConfigFails
<1>3. CASE NotADirectory
    BY <1>3, EndsStep DEF NotADirectory, Endings
<1>4. CASE ConfigRead
    <2>1. CASE Refuse
        BY <1>4, <2>1, RefuseStep DEF ConfigRead
    <2>2. CASE ~Refuse
        <3>1. TypeOK'
            BY <1>4, <2>2 DEF ConfigRead, Inv, TypeOK, MainPcs
        <3>2. ConfigInv' /\ OrderInv' /\ FreedInv' /\ JoinInv' /\ FreedOnce'
            BY <1>4, <2>2 DEF ConfigRead, Inv, TypeOK, ConfigInv, OrderInv, FreedInv,
                              JoinInv, FreedOnce, Begun, Pointers
        <3> QED
            BY <3>1, <3>2 DEF Inv
    <2> QED
        BY <2>1, <2>2
<1>5. ASSUME NEW p \in Pointers, NEW next \in {"peers", "listen"}, Create(p, next)
      PROVE  Inv'
    <2>1. TypeOK'
        BY <1>5 DEF Create, Inv, TypeOK, MainPcs
    <2>2. ConfigInv' /\ OrderInv' /\ FreedInv' /\ JoinInv' /\ FreedOnce'
        BY <1>5 DEF Create, Inv, TypeOK, ConfigInv, OrderInv, FreedInv, JoinInv,
                    FreedOnce, Begun, Pointers
    <2> QED
        BY <2>1, <2>2 DEF Inv
<1>6. CASE Listen
    <2>1. TypeOK'
        <3>1. entry.port \in Nat /\ bound' = sin_port(entry.port)
            BY <1>6, SMT DEF Listen, Inv, TypeOK
        <3>2. bound' \in 0..MAX_PORT
            BY <3>1, SixteenBits, SMT
        <3> QED
            BY <1>6, <3>2 DEF Listen, Inv, TypeOK, MainPcs
    <2>2. bound' = sin_port(entry'.port)
        BY <1>6, Zenon DEF Listen
    <2>3. ConfigInv'
        BY <1>6, <2>2, Zenon DEF Listen, Inv, ConfigInv
    <2>4. OrderInv' /\ FreedInv' /\ JoinInv' /\ FreedOnce'
        BY <1>6 DEF Listen, Inv, OrderInv, FreedInv, JoinInv, FreedOnce, Begun
    <2> QED
        BY <2>1, <2>3, <2>4 DEF Inv
<1>7. CASE ListenFails
    BY <1>7, EndsStep DEF ListenFails, Endings
<1>8. CASE StartServer
    <2>1. TypeOK'
        BY <1>8 DEF StartServer, Inv, TypeOK, MainPcs
    <2>2. ConfigInv' /\ FreedInv' /\ FreedOnce'
        BY <1>8 DEF StartServer, Inv, ConfigInv, FreedInv, FreedOnce, Begun
    <2>3. OrderInv'
        BY <1>8 DEF StartServer, Inv, TypeOK, OrderInv, RunOn
    <2>4. JoinInv'
        BY <1>8 DEF StartServer, Inv, JoinInv, OrderInv, RunOn, Runs, Joined
    <2> QED
        BY <2>1, <2>2, <2>3, <2>4 DEF Inv
<1> QED
    BY <1>1, <1>2, <1>3, <1>4, <1>5, <1>6, <1>7, <1>8 DEF Startup, Pointers

LEMMA QuitStep == ASSUME Inv, Quit PROVE Inv'
<1> USE DEF Quit, MainAt, Executes, configVars, threadVars
<1>1. TypeOK'
    BY DEF Inv, TypeOK, MainPcs, RunPcs, Runs
<1>2. ConfigInv' /\ FreedOnce'
    BY DEF Inv, ConfigInv, FreedOnce
<1>3. OrderInv'
    BY DEF Inv, TypeOK, OrderInv, RunOn, Runs
<1>4. FreedInv' /\ JoinInv'
    BY DEF Inv, TypeOK, FreedInv, JoinInv, OrderInv, Runs, Joined, Past, Pointers
<1> QED
    BY <1>1, <1>2, <1>3, <1>4 DEF Inv

\* Locks that are taken and given back, and threads that start and end.
LEMMA ThreadStep ==
    ASSUME Inv, Connected \/ ServerEnds \/ \E t \in Threads : Work(t)
    PROVE  Inv'
<1> USE DEF Executes, configVars, threadVars
<1>1. ASSUME proc' = proc, lock' \in [Locks -> {Nobody} \cup Threads \cup Runs],
             UNCHANGED <<main, configVars, memory, threadVars, shutdown, signals>>
      PROVE  Inv'
    <2>1. TypeOK'
        BY <1>1 DEF Inv, TypeOK
    <2>2. ConfigInv' /\ OrderInv' /\ FreedInv' /\ JoinInv' /\ FreedOnce'
        BY <1>1 DEF Inv, ConfigInv, OrderInv, FreedInv, JoinInv, FreedOnce, Begun
    <2> QED
        BY <2>1, <2>2 DEF Inv
<1>2. CASE Connected
    <2>1. TypeOK'
        BY <1>2 DEF Connected, Inv, TypeOK
    <2>2. ConfigInv' /\ FreedInv' /\ FreedOnce'
        BY <1>2 DEF Connected, Inv, ConfigInv, FreedInv, FreedOnce, Begun
    <2>3. OrderInv' /\ JoinInv'
        BY <1>2 DEF Connected, Inv, TypeOK, OrderInv, JoinInv
    <2> QED
        BY <2>1, <2>2, <2>3 DEF Inv
<1>3. CASE ServerEnds
    <2>1. TypeOK'
        BY <1>3 DEF ServerEnds, Inv, TypeOK
    <2>2. ConfigInv' /\ FreedInv' /\ FreedOnce'
        BY <1>3 DEF ServerEnds, Inv, ConfigInv, FreedInv, FreedOnce, Begun
    <2>3. OrderInv' /\ JoinInv'
        BY <1>3 DEF ServerEnds, Inv, TypeOK, OrderInv, JoinInv
    <2> QED
        BY <2>1, <2>2, <2>3 DEF Inv
<1>4. ASSUME NEW t \in Threads, NEW l \in Locks, Take(t, l)
      PROVE  Inv'
    BY <1>1, <1>4 DEF Take, Inv, TypeOK
<1>5. ASSUME NEW t \in Threads, NEW l \in Locks, TakeFreed(t, l)
      PROVE  Inv'
    BY <1>5, EndsStep DEF TakeFreed, Endings
<1>6. ASSUME NEW t \in Threads, Give(t)
      PROVE  Inv'
    <2>1. CASE Ends("uaf")
        BY <2>1, EndsStep DEF Endings
    <2>2. CASE ~Ends("uaf")
        BY <1>1, <1>6, <2>2 DEF Give, Inv, TypeOK
    <2> QED
        BY <2>1, <2>2
<1> QED
    BY <1>2, <1>3, <1>4, <1>5, <1>6 DEF Work

LEMMA SignalStep == ASSUME Inv, NEW t \in Threads, Signal(t) PROVE Inv'
<1> USE DEF Signal, RunTo, configVars, threadVars
<1>1. RunOn[t] \in Runs /\ RunOn[t] # "quit" /\ shutdown[RunOn[t]] = "none"
    BY DEF RunOn, Runs, Threads
<1>2. shutdown' = [shutdown EXCEPT ![RunOn[t]] = "peers"]
    OBVIOUS
<1>3. TypeOK'
    BY <1>1, ProcessAssumption DEF Inv, TypeOK, RunPcs
<1>4. ConfigInv' /\ FreedOnce'
    BY DEF Inv, ConfigInv, FreedOnce
<1>5. OrderInv'
    BY <1>1, <1>2 DEF Inv, TypeOK, OrderInv, RunOn, Threads
<1>6. FreedInv'
    BY <1>1, <1>2 DEF Inv, TypeOK, FreedInv, Past, Pointers
<1>7. JoinInv'
    BY <1>1, <1>2 DEF Inv, TypeOK, JoinInv, Joined
<1> QED
    BY <1>3, <1>4, <1>5, <1>6, <1>7 DEF Inv

-----------------------------------------------------------------------------
(* Steps of graceful_shutdown                                                *)

\* Two runs that have begun.
LEMMA TwoBegun ==
    ASSUME NEW r \in Begun, NEW s \in Begun, r # s
    PROVE  Cardinality(Begun) >= 2
<1>1. IsFiniteSet({"quit"}) /\ Cardinality({r}) = 1 /\ IsFiniteSet({r})
    BY FS_Singleton
<1>2. IsFiniteSet({"quit", "on_main", "on_server", "on_handler"})
    <2>1. IsFiniteSet({"quit"} \cup {"on_main"})
        BY <1>1, FS_AddElement
    <2>2. IsFiniteSet(({"quit"} \cup {"on_main"}) \cup {"on_server"})
        BY <2>1, FS_AddElement
    <2>3. IsFiniteSet((({"quit"} \cup {"on_main"}) \cup {"on_server"}) \cup {"on_handler"})
        BY <2>2, FS_AddElement
    <2> QED
        BY <2>3, Zenon
<1>3. IsFiniteSet(Begun)
    BY <1>2, FS_Subset DEF Begun, Runs
<1>4. Cardinality({r} \cup {s}) = 2
    BY <1>1, FS_AddElement
<1>5. {r} \cup {s} \in SUBSET Begun
    OBVIOUS
<1> QED
    BY <1>3, <1>4, <1>5, FS_Subset, FS_CardinalityType

\* Where a run may go on to, one step at a time.
Onward == [peers   |-> {"cancel", "join"}, cancel |-> {"free"}, free |-> {"join"},
           join    |-> {"bpkgs"},          bpkgs  |-> {"destroy", "config"},
           destroy |-> {"config"},         config |-> {"exit"}]

\* A run goes on, and frees nothing or what it has got past.
LEMMA Advance ==
    ASSUME Inv, proc = "running", proc' = "running",
           NEW r \in Runs, NEW next \in RunPcs,
           shutdown[r] \in DOMAIN Onward, next \in Onward[shutdown[r]],
           RunTo(r, next),
           UNCHANGED <<main, configVars, thread, signals>>,
           listed' \in BOOLEAN, cancelled' \in BOOLEAN,
           lock' \in [Locks -> {Nobody} \cup Threads \cup Runs],
           \/ memory' = memory
           \/ \E p \in Pointers : /\ memory' = [memory EXCEPT ![p] = "freed"]
                                  /\ next \in Past[p],
           shutdown[r] = "join" => thread["server"] # "on" \/ r = "on_server"
    PROVE  Inv'
<1> USE DEF RunTo, configVars
<1>1. TypeOK'
    BY DEF Inv, TypeOK
<1>2. ConfigInv' /\ FreedOnce'
    BY DEF Inv, ConfigInv, FreedOnce
<1>3. shutdown[r] # "none" /\ next # "none"
    BY DEF Onward
<1>4. OrderInv'
    BY <1>3 DEF Inv, TypeOK, OrderInv
<1>5. FreedInv'
    <2>1. SUFFICES ASSUME NEW p \in Pointers, memory'[p] = "freed"
                   PROVE  \E s \in Runs : shutdown'[s] \in Past[p]
        BY DEF FreedInv
    <2>2. CASE memory[p] = "freed"
        <3>1. PICK s \in Runs : shutdown[s] \in Past[p]
            BY <2>2 DEF Inv, FreedInv
        <3>2. CASE s # r
            BY <3>1, <3>2 DEF Inv, TypeOK
        <3>3. CASE s = r
            <4>1. next \in Past[p]
                BY <3>1, <3>3 DEF Past, Onward, Pointers
            <4> QED
                BY <4>1 DEF Inv, TypeOK
        <3> QED
            BY <3>2, <3>3
    <2>3. CASE memory[p] # "freed"
        <3>1. next \in Past[p]
            BY <2>1, <2>3 DEF Inv, TypeOK
        <3> QED
            BY <3>1 DEF Inv, TypeOK
    <2> QED
        BY <2>2, <2>3
<1>6. JoinInv'
    <2>1. SUFFICES ASSUME NEW s \in Runs, shutdown'[s] \in Joined
                   PROVE  thread["server"] # "on" \/ shutdown'["on_server"] # "none"
        BY DEF JoinInv
    <2>2. shutdown["on_server"] # "none" => shutdown'["on_server"] # "none"
        BY <1>3 DEF Inv, TypeOK, Runs
    <2>3. CASE shutdown[s] \in Joined
        BY <2>2, <2>3 DEF Inv, JoinInv
    <2>4. CASE shutdown[s] \notin Joined
        <3>1. s = r /\ shutdown[r] = "join"
            BY <2>1, <2>4 DEF Inv, TypeOK, Joined, Onward
        <3> QED
            BY <1>3, <3>1 DEF Inv, TypeOK
    <2> QED
        BY <2>3, <2>4
<1> QED
    BY <1>1, <1>2, <1>4, <1>5, <1>6 DEF Inv

\* A run ends the process, in an access to freed memory, or with a second free
\* of what another run has freed.
LEMMA Crash ==
    ASSUME Inv, proc = "running", proc' \in Endings,
           UNCHANGED <<main, configVars, memory, threadVars, lock, shutdown, signals>>,
           proc' = "double_free" => Cardinality(Begun) >= 2
    PROVE  Inv'
<1> USE DEF configVars, threadVars
<1>1. TypeOK'
    BY DEF Inv, TypeOK
<1>2. ConfigInv' /\ OrderInv' /\ FreedInv' /\ JoinInv' /\ FreedOnce'
    BY DEF Inv, ConfigInv, OrderInv, FreedInv, JoinInv, FreedOnce, Begun
<1> QED
    BY <1>1, <1>2 DEF Inv

LEMMA FreeStep ==
    ASSUME Inv, NEW r \in Runs, NEW p \in Pointers, NEW next \in RunPcs,
           proc = "running", Free(r, p, next),
           shutdown[r] \in DOMAIN Onward, shutdown[r] # "join",
           next \in Onward[shutdown[r]], next \in Past[p], shutdown[r] \notin Past[p]
    PROVE  Inv'
<1>1. CASE memory[p] = "freed"
    <2>1. PICK s \in Runs : shutdown[s] \in Past[p]
        BY <1>1 DEF Inv, FreedInv
    <2>2. s # r /\ s \in Begun /\ r \in Begun
        BY <2>1 DEF Begun, Past, Onward, Pointers
    <2>3. Cardinality(Begun) >= 2
        BY <2>2, TwoBegun
    <2> QED
        BY <1>1, <2>3, Crash DEF Free, Endings, runUnchanged, threadVars
<1>2. CASE memory[p] # "freed"
    BY <1>2, Advance DEF Free, runUnchanged, threadVars, Inv, TypeOK
<1> QED
    BY <1>1, <1>2

LEMMA ShutdownStep ==
    ASSUME Inv, NEW r \in Runs, GracefulShutdown(r)
    PROVE  Inv'
<1> USE DEF RunAt, runUnchanged, threadVars
<1>1. CASE LockPeers(r)
    <2>1. CASE proc' = "uaf"
        BY <1>1, <2>1, Crash DEF LockPeers, Endings
    <2>2. CASE proc' # "uaf"
        <3>1. lock' \in [Locks -> {Nobody} \cup Threads \cup Runs]
            BY <1>1, <2>2 DEF LockPeers, Inv, TypeOK
        <3>2. PICK next \in {"join", "cancel"} : RunTo(r, next)
            BY <1>1, <2>2 DEF LockPeers
        <3> QED
            BY <1>1, <2>2, <3>1, <3>2, Advance DEF LockPeers, Onward, RunPcs, Inv, TypeOK
    <2> QED
        BY <2>1, <2>2
<1>2. CASE CancelPeers(r)
    <2>1. CASE memory["peers"] = "freed"
        BY <1>2, <2>1, Crash DEF CancelPeers, Endings
    <2>2. CASE memory["peers"] # "freed"
        <3>1. lock' \in [Locks -> {Nobody} \cup Threads \cup Runs]
            BY <1>2, <2>2 DEF CancelPeers, Inv, TypeOK
        <3>2. /\ RunTo(r, "free") /\ proc = "running" /\ proc' = proc
              /\ listed' \in BOOLEAN /\ cancelled' \in BOOLEAN /\ memory' = memory
              /\ UNCHANGED <<main, configVars, thread, signals>>
            BY <1>2, <2>2 DEF CancelPeers, Inv, TypeOK
        <3>3. shutdown[r] = "cancel"
            BY <1>2 DEF CancelPeers
        <3>4. /\ "free" \in RunPcs /\ shutdown[r] # "join"
              /\ shutdown[r] \in DOMAIN Onward /\ "free" \in Onward[shutdown[r]]
            BY <3>3 DEF Onward, RunPcs
        <3> QED
            BY <3>1, <3>2, <3>4, Advance
    <2> QED
        BY <2>1, <2>2
<1>3. CASE FreePeers(r)
    BY <1>3, FreeStep DEF FreePeers, Pointers, RunPcs, Onward, Past
<1>4. CASE JoinServer(r)
    <2>1. CASE thread["server"] = "on" /\ ~cancelled /\ cancelled' = TRUE /\ shutdown' = shutdown
        <3>1. TypeOK'
            BY <1>4, <2>1 DEF JoinServer, configVars, Inv, TypeOK
        <3>2. ConfigInv' /\ OrderInv' /\ FreedInv' /\ JoinInv' /\ FreedOnce'
            BY <1>4, <2>1 DEF JoinServer, configVars, Inv, ConfigInv, OrderInv, FreedInv,
                              JoinInv, FreedOnce, Begun
        <3> QED
            BY <3>1, <3>2 DEF Inv
    <2>2. CASE /\ thread["server"] # "on" \/ r = "on_server"
               /\ RunTo(r, "bpkgs") /\ UNCHANGED cancelled
        BY <1>4, <2>2, Advance DEF JoinServer, Onward, RunPcs, Inv, TypeOK
    <2> QED
        BY <1>4, <2>1, <2>2 DEF JoinServer
<1>5. CASE LockBpkgs(r)
    <2>1. CASE proc' = "uaf"
        BY <1>5, <2>1, Crash DEF LockBpkgs, Endings
    <2>2. CASE proc' # "uaf"
        <3>1. lock' \in [Locks -> {Nobody} \cup Threads \cup Runs]
            BY <1>5, <2>2 DEF LockBpkgs, Inv, TypeOK
        <3>2. PICK next \in {"config", "destroy"} : RunTo(r, next)
            BY <1>5, <2>2 DEF LockBpkgs
        <3> QED
            BY <1>5, <2>2, <3>1, <3>2, Advance DEF LockBpkgs, Onward, RunPcs, Inv, TypeOK
    <2> QED
        BY <2>1, <2>2
<1>6. CASE DestroyBpkgs(r)
    <2>1. lock' \in [Locks -> {Nobody} \cup Threads \cup Runs]
        BY <1>6 DEF DestroyBpkgs, Inv, TypeOK
    <2> QED
        BY <1>6, <2>1, Advance DEF DestroyBpkgs, Onward, Past, Pointers, RunPcs, Inv, TypeOK
<1>7. CASE FreeConfig(r)
    <2>1. CASE memory["config"] = "null"
        BY <1>7, <2>1, Advance DEF FreeConfig, Onward, RunPcs, Inv, TypeOK
    <2>2. CASE memory["config"] # "null"
        BY <1>7, <2>2, FreeStep DEF FreeConfig, Pointers, RunPcs, Onward, Past
    <2> QED
        BY <2>1, <2>2
<1>8. CASE Exit(r)
    BY <1>8, EndsStep DEF Exit, Endings
<1> QED
    BY <1>1, <1>2, <1>3, <1>4, <1>5, <1>6, <1>7, <1>8 DEF GracefulShutdown

-----------------------------------------------------------------------------
LEMMA InvStep == Inv /\ [Next]_vars => Inv'
<1> SUFFICES ASSUME Inv, [Next]_vars
             PROVE  Inv'
    OBVIOUS
<1>1. CASE UNCHANGED vars
    <2>1. TypeOK'
        BY <1>1 DEF vars, configVars, threadVars, Inv, TypeOK
    <2>2. ConfigInv' /\ OrderInv' /\ FreedInv' /\ JoinInv' /\ FreedOnce'
        BY <1>1 DEF vars, configVars, threadVars, Inv, ConfigInv, OrderInv, FreedInv,
                    JoinInv, FreedOnce, Begun
    <2> QED
        BY <2>1, <2>2 DEF Inv
<1>2. CASE Startup
    BY <1>2, StartupStep
<1>3. CASE Quit
    BY <1>3, QuitStep
<1>4. CASE Connected \/ ServerEnds \/ \E t \in Threads : Work(t)
    BY <1>4, ThreadStep
<1>5. ASSUME NEW t \in Threads, Signal(t) PROVE Inv'
    BY <1>5, SignalStep
<1>6. ASSUME NEW r \in Runs, GracefulShutdown(r) PROVE Inv'
    BY <1>6, ShutdownStep
<1> QED
    BY <1>1, <1>2, <1>3, <1>4, <1>5, <1>6 DEF Next, Ended

LEMMA Invariance == Spec => []Inv
BY InvInit, InvStep, PTL DEF Spec

\* Every variable of the process has its type, at every point a signal may come.
THEOREM ProcessTypes == Spec => []TypeOK
<1>1. Inv => TypeOK
    BY DEF Inv
<1> QED
    BY <1>1, Invariance, PTL

\* parse_entry refuses a port of more than 16 bits, so that p2p_setup_server
\* binds the port of the file, and a number of peers there are no slots for.
THEOREM ProcessHonoursConfig == Spec => []ConfigHonoured
<1>1. Inv => ConfigHonoured
    <2>1. SUFFICES ASSUME Inv, main \in {"start", "commands"}
                   PROVE  /\ "port" \in given => bound = entry.port
                          /\ "max_peers" \in given => entry.max_peers \in 1..MAX_PEERS
        BY DEF ConfigHonoured
    <2>2. ASSUME "port" \in given PROVE bound = entry.port
        <3>1. bound = sin_port(entry.port) /\ entry.port \in MIN_PORT..MAX_PORT
            BY <2>1, <2>2, Zenon DEF Inv, ConfigInv
        <3>2. \A x \in MIN_PORT..MAX_PORT : x \in Nat /\ x \in 0..MAX_PORT
            BY Limits, SMT
        <3>3. entry.port \in Nat /\ entry.port \in 0..MAX_PORT
            BY <3>1, <3>2, Zenon
        <3> QED
            BY <3>1, <3>3, SixteenBits, Zenon
    <2>3. ASSUME "max_peers" \in given PROVE entry.max_peers \in 1..MAX_PEERS
        BY <2>1, <2>3, Limits DEF Inv, ConfigInv
    <2> QED
        BY <2>2, <2>3
<1> QED
    BY <1>1, Invariance, PTL

\* graceful_shutdown frees what it has freed only when it runs more than once,
\* however many signals there are and wherever they come.
THEOREM ProcessFreesOnce == Spec => []FreedOnce
<1>1. Inv => FreedOnce
    BY DEF Inv
<1> QED
    BY <1>1, Invariance, PTL

\* The packages and the configuration are freed when no listening thread is
\* left, or by the signal handler of that thread.
THEOREM ProcessJoinsFirst == Spec => []JoinedBeforeFreed
<1>1. Inv => JoinedBeforeFreed
    BY DEF Inv, FreedInv, JoinInv, JoinedBeforeFreed, Past, Joined, Pointers
<1> QED
    BY <1>1, Invariance, PTL

=============================================================================
