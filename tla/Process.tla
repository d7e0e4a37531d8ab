-------------------------------- MODULE Process --------------------------------
(***************************************************************************)
(* One btide process from main to exit: the configuration is read, the     *)
(* shared structures are made, the listening thread is started, commands   *)
(* run, and graceful_shutdown takes everything down again.                 *)
(*                                                                         *)
(* graceful_shutdown runs at the end of main, when the configuration is    *)
(* refused, and inside the handler of SIGINT: on whichever thread the      *)
(* signal is delivered to and between any two steps of that thread, which  *)
(* does not go on afterwards.  So there may be several runs of it at once. *)
(* A run is named by where it happens: "quit" is called by main, the       *)
(* others are the signal handlers of the three threads.                    *)
(*                                                                         *)
(* What commands and packets do is left out except for the locks taken.    *)
(* One handler thread stands for all of them.                              *)
(***************************************************************************)
EXTENDS Integers, FiniteSets

CONSTANTS PeersValues,  \* numbers max_peers: is given
          PortValues,   \* numbers port: is given
          PeersGarbage, \* what malloc leaves in max_peers and in port
          PortGarbage,
          MaxSignals    \* bound: SIGINTs

ASSUME ProcessAssumption ==
    /\ PeersValues \subseteq Int /\ PortValues \subseteq Int
    /\ PeersGarbage \subseteq Nat /\ PortGarbage \subseteq Nat
    /\ MaxSignals \in Nat

VARIABLES
    proc,       \* "running", or how the process ended
    main,       \* where main is
    given,      \* entries the lines of the configuration have given
    entry,      \* c_obj: the entries' values
    memory,     \* config, bpkgs, peers: "null", "live" or "freed"
    bound,      \* the port the server socket is bound to; 0: none
    thread,     \* the listening thread and the handler: "off", "on", "ended"
    listed,     \* is the handler's peer in the list?
    lock,       \* who holds peers->lock, bpkgs->lock, the handler's queue lock
    cancelled,  \* has the listening thread been cancelled?
    shutdown,   \* where each run of graceful_shutdown is
    signals     \* SIGINTs delivered

configVars == <<given, entry, bound>>
threadVars == <<thread, listed, cancelled>>
vars == <<proc, main, configVars, memory, threadVars, lock, shutdown, signals>>

Threads == {"main", "server", "handler"}
Runs    == {"quit", "on_main", "on_server", "on_handler"}
RunOn   == [main |-> "on_main", server |-> "on_server", handler |-> "on_handler"]
ThreadOf == [quit |-> "main", on_main |-> "main", on_server |-> "server",
             on_handler |-> "handler"]

Nobody == "nobody"
Locks  == {"peers", "bpkgs", "queue"}
Keys   == {"directory", "max_peers", "port"}
Pointers == {"config", "bpkgs", "peers"}

MainPcs == {"parse", "check", "bpkgs", "peers", "listen", "start", "commands",
            "stopping"}
RunPcs  == {"none", "peers", "cancel", "free", "join", "bpkgs", "destroy",
            "config", "exit"}
Endings == {"exited",       \* exit(EXIT_SUCCESS) of graceful_shutdown
            "exit_1",       \* exit(EXIT_FAILURE): the port cannot be bound
            "exit_3",       \* exit(3): the directory is a file
            "double_free",
            "uaf"}          \* read of freed memory

Init ==
    /\ proc = "running" /\ main = "parse"
    /\ given = {} /\ bound = 0
    /\ entry \in [directory : {0, 1}, max_peers : PeersGarbage, port : PortGarbage]
    /\ memory = [p \in Pointers |-> "null"]
    /\ thread = [t \in {"server", "handler"} |-> "off"]
    /\ listed = FALSE
    /\ lock = [l \in Locks |-> Nobody]
    /\ cancelled = FALSE
    /\ shutdown = [r \in Runs |-> "none"]
    /\ signals = 0

\* The code of thread t runs: it is neither in a signal handler nor has it ended.
Executes(t) ==
    /\ proc = "running"
    /\ shutdown[RunOn[t]] = "none"
    /\ IF t = "main" THEN main # "stopping" ELSE thread[t] = "on"

MainAt(pc) == main = pc /\ Executes("main")

Ends(how) ==
    /\ proc' = how
    /\ UNCHANGED <<main, configVars, memory, threadVars, lock, shutdown, signals>>

-----------------------------------------------------------------------------
(* config_load                                                               *)

MAX_PEERS == 2048
MAX_PORT  == 65535
MIN_PEERS == 1
MIN_PORT  == 1024

\* Not the code, like every definition marked so below: a plausible mistake in
\* the definition that follows, in whose place it breaks a property.
PermittedWide(key, v) ==
    \/ key = "directory"
    \/ key = "max_peers" /\ v \in MIN_PEERS..MAX_PEERS
    \/ key = "port" /\ v \in MIN_PORT..(MAX_PORT + 1)

\* A directory that is there or can be made, or a number within its range.
Permitted(key, v) ==
    \/ key = "directory"
    \/ key = "max_peers" /\ v \in MIN_PEERS..MAX_PEERS
    \/ key = "port" /\ v \in MIN_PORT..MAX_PORT

Values(key) == CASE key = "directory" -> {1}
                 [] key = "max_peers" -> PeersValues
                 [] key = "port"      -> PortValues

\* parse_entry of a line that is in order.
ParseEntry(key, v) ==
    /\ MainAt("parse")
    /\ Permitted(key, v)
    /\ given' = given \cup {key}
    /\ entry' = [entry EXCEPT ![key] = v]
    /\ UNCHANGED <<proc, main, bound, memory, threadVars, lock, shutdown, signals>>

\* Not the code: config_load returns the object it has freed.
RefuseFreed ==
    /\ main' = "stopping"
    /\ shutdown' = [shutdown EXCEPT !["quit"] = "peers"]
    /\ memory' = [memory EXCEPT !["config"] = "freed"]
    /\ UNCHANGED <<proc, configVars, threadVars, lock, signals>>

\* config_load frees its object and returns NULL: init_server shuts down.
Refuse ==
    /\ main' = "stopping"
    /\ shutdown' = [shutdown EXCEPT !["quit"] = "peers"]
    /\ UNCHANGED <<proc, configVars, memory, threadVars, lock, signals>>

\* The file cannot be opened, a line has no key or an unknown one, the
\* directory cannot be made, or a number is out of its range.
ConfigFails == MainAt("parse") /\ Refuse

\* check_directory: there is such a path, and it is no directory.
NotADirectory == MainAt("parse") /\ Ends("exit_3")

\* The end of the file.  An entry that was not given is whatever malloc left.
ConfigRead ==
    /\ MainAt("parse")
    /\ \/ /\ \E k \in Keys : entry[k] = 0
          /\ Refuse
       \/ /\ \A k \in Keys : entry[k] # 0
          /\ main' = "bpkgs"
          /\ memory' = [memory EXCEPT !["config"] = "live"]
          /\ UNCHANGED <<proc, configVars, threadVars, lock, shutdown, signals>>

-----------------------------------------------------------------------------
(* init_server and main                                                      *)

\* pkgs_init and peer_list_create
Create(p, next) ==
    /\ MainAt(p)
    /\ memory' = [memory EXCEPT ![p] = "live"]
    /\ main' = next
    /\ UNCHANGED <<proc, configVars, threadVars, lock, shutdown, signals>>

\* Not the code: the port is not cut to 16 bits.
ListenWide ==
    /\ MainAt("listen")
    /\ bound' = entry.port
    /\ main' = "start"
    /\ UNCHANGED <<proc, given, entry, memory, threadVars, lock, shutdown, signals>>

\* p2p_setup_server takes the port as 16 bits.  Binding fails if the port is
\* taken.
sin_port(port) == port % 65536

Listen ==
    /\ MainAt("listen")
    /\ bound' = sin_port(entry.port)
    /\ main' = "start"
    /\ UNCHANGED <<proc, given, entry, memory, threadVars, lock,
                   shutdown, signals>>

ListenFails == MainAt("listen") /\ Ends("exit_1")

\* create_p2p_server_thread
StartServer ==
    /\ MainAt("start")
    /\ thread' = [thread EXCEPT !["server"] = "on"]
    /\ main' = "commands"
    /\ UNCHANGED <<proc, configVars, memory, listed, cancelled, lock, shutdown,
                   signals>>

\* cli_run returns: QUIT, end of input, or `stop` is seen after a command.
Quit ==
    /\ MainAt("commands")
    /\ \A l \in Locks : lock[l] # "main"
    /\ main' = "stopping"
    /\ shutdown' = [shutdown EXCEPT !["quit"] = "peers"]
    /\ UNCHANGED <<proc, configVars, memory, threadVars, lock, signals>>

Startup ==
    \/ \E k \in Keys : \E v \in Values(k) : ParseEntry(k, v)
    \/ ConfigFails \/ NotADirectory \/ ConfigRead
    \/ Create("bpkgs", "peers") \/ Create("peers", "listen")
    \/ Listen \/ ListenFails \/ StartServer

-----------------------------------------------------------------------------
(* What the threads do with the shared structures                            *)

\* The locks each thread takes: commands take all of them (PEERS and
\* DISCONNECT a queue's), the listening thread adds peers, a handler takes
\* requests from its queue and removes its peer.
Takes == [main    |-> {"peers", "bpkgs", "queue"},
          server  |-> {"peers"},
          handler |-> {"peers", "queue"}]

\* The structure a lock is part of; a queue lives as long as its handler here.
Freed(l) == l \in Pointers /\ memory[l] = "freed"

Busy(t) == \E l \in Locks : lock[l] = t

\* A thread holds one lock at a time, but for PEERS, which takes the queues'
\* under peers->lock.
MayTake(t, l) ==
    /\ Executes(t) /\ l \in Takes[t]
    /\ t = "main" => main = "commands"
    /\ l = "queue" => thread["handler"] = "on" /\ (t = "main" => listed)
    /\ ~Busy(t) \/ (t = "main" /\ l = "queue" /\ lock["peers"] = t
                    /\ lock["bpkgs"] # t)

Take(t, l) ==
    /\ MayTake(t, l) /\ ~Freed(l)
    /\ lock[l] = Nobody
    /\ lock' = [lock EXCEPT ![l] = t]
    /\ UNCHANGED <<proc, main, configVars, memory, threadVars, shutdown, signals>>

TakeFreed(t, l) ==
    /\ MayTake(t, l) /\ Freed(l)
    /\ Ends("uaf")

\* A thread releases what it holds; where PEERS holds two locks, it has done
\* with the queue of the last peer.
Give(t) ==
    /\ Executes(t) /\ Busy(t)
    /\ \/ /\ \E l \in Locks : lock[l] = t /\ Freed(l)
          /\ Ends("uaf")
       \/ /\ \A l \in Locks : lock[l] = t => ~Freed(l)
          /\ lock' = [l \in Locks |-> IF lock[l] = t THEN Nobody ELSE lock[l]]
          /\ UNCHANGED <<proc, main, configVars, memory, threadVars, shutdown,
                         signals>>

\* A connection: the listening thread, or CONNECT, adds a peer and starts its
\* handler.
Connected ==
    /\ \E t \in {"main", "server"} : Executes(t) /\ ~Busy(t)
    /\ main = "commands"
    /\ thread["handler"] = "off"
    /\ memory["peers"] = "live" /\ lock["peers"] = Nobody
    /\ thread' = [thread EXCEPT !["handler"] = "on"]
    /\ listed' = TRUE
    /\ UNCHANGED <<proc, main, configVars, memory, cancelled, lock, shutdown, signals>>

\* The listening thread reaches accept or pthread_testcancel, or the join of
\* its own signal handler, and ends.
ServerEnds ==
    /\ proc = "running" /\ cancelled
    /\ thread["server"] = "on"
    /\ ~Busy("server")
    /\ shutdown["on_server"] \in {"none", "join"}
    /\ thread' = [thread EXCEPT !["server"] = "ended"]
    /\ UNCHANGED <<proc, main, configVars, memory, listed, cancelled, lock,
                   shutdown, signals>>

Work(t) == Give(t) \/ \E l \in Locks : Take(t, l) \/ TakeFreed(t, l)

-----------------------------------------------------------------------------
(* graceful_shutdown                                                         *)

\* Run r goes on: its thread has not ended, and no signal handler runs over it.
RunAt(r, pc) ==
    /\ proc = "running"
    /\ shutdown[r] = pc
    /\ r = "quit" => shutdown["on_main"] = "none"
    /\ r = "on_server" => thread["server"] = "on"

RunTo(r, pc) == shutdown' = [shutdown EXCEPT ![r] = pc]
runUnchanged == UNCHANGED <<main, configVars, signals>>

\* cancel_all_peers takes peers->lock, ...
LockPeers(r) ==
    /\ RunAt(r, "peers")
    /\ \/ memory["peers"] = "null" /\ RunTo(r, "join") /\ UNCHANGED <<proc, lock>>
       \/ /\ memory["peers"] = "live" /\ lock["peers"] = Nobody
          /\ lock' = [lock EXCEPT !["peers"] = r]
          /\ RunTo(r, "cancel")
          /\ UNCHANGED proc
       \/ /\ memory["peers"] = "freed"
          /\ proc' = "uaf"
          /\ UNCHANGED <<lock, shutdown>>
    /\ UNCHANGED <<memory, threadVars>>
    /\ runUnchanged

\* ... queues a DSN for the peers it finds, under their queues' locks, ...
CancelPeers(r) ==
    /\ RunAt(r, "cancel")
    /\ listed => lock["queue"] = Nobody
    /\ IF memory["peers"] = "freed"
       THEN proc' = "uaf" /\ UNCHANGED <<lock, shutdown, listed>>
       ELSE /\ listed' = FALSE
            /\ lock' = [lock EXCEPT !["peers"] = Nobody]
            /\ RunTo(r, "free")
            /\ UNCHANGED proc
    /\ UNCHANGED <<memory, thread, cancelled>>
    /\ runUnchanged

\* free, which ends the process if somebody else has freed it.
Free(r, p, next) ==
    /\ IF memory[p] = "freed"
       THEN proc' = "double_free" /\ UNCHANGED <<memory, shutdown>>
       ELSE /\ memory' = [memory EXCEPT ![p] = "freed"]
            /\ RunTo(r, next)
            /\ UNCHANGED proc
    /\ UNCHANGED <<threadVars, lock>>
    /\ runUnchanged

\* ... and frees the list; the pointer to it stays.
FreePeers(r) == RunAt(r, "free") /\ Free(r, "peers", "join")

\* Not the code: the listening thread is cancelled and not waited for.
JoinNobody(r) ==
    /\ RunAt(r, "join")
    /\ cancelled' = (thread["server"] # "off")
    /\ RunTo(r, "bpkgs")
    /\ UNCHANGED <<proc, memory, thread, listed, lock>>
    /\ runUnchanged

\* Not the code: the listening thread is waited for and not cancelled.
JoinWithoutCancel(r) ==
    /\ RunAt(r, "join")
    /\ thread["server"] # "on"
    /\ RunTo(r, "bpkgs")
    /\ UNCHANGED <<proc, memory, threadVars, lock>>
    /\ runUnchanged

\* The listening thread is cancelled and waited for.  To wait for oneself is
\* an error, unless the cancellation is noticed first (ServerEnds).
JoinServer(r) ==
    /\ RunAt(r, "join")
    /\ \/ /\ thread["server"] = "on" /\ ~cancelled
          /\ cancelled' = TRUE
          /\ UNCHANGED shutdown
       \/ /\ \/ thread["server"] # "on"
             \/ cancelled /\ r = "on_server"
          /\ RunTo(r, "bpkgs")
          /\ UNCHANGED cancelled
    /\ UNCHANGED <<proc, memory, thread, listed, lock>>
    /\ runUnchanged

\* pkgs_destroy
LockBpkgs(r) ==
    /\ RunAt(r, "bpkgs")
    /\ \/ memory["bpkgs"] = "null" /\ RunTo(r, "config") /\ UNCHANGED <<proc, lock>>
       \/ /\ memory["bpkgs"] = "live" /\ lock["bpkgs"] = Nobody
          /\ lock' = [lock EXCEPT !["bpkgs"] = r]
          /\ RunTo(r, "destroy")
          /\ UNCHANGED proc
       \/ /\ memory["bpkgs"] = "freed"
          /\ proc' = "uaf"
          /\ UNCHANGED <<lock, shutdown>>
    /\ UNCHANGED <<memory, threadVars>>
    /\ runUnchanged

DestroyBpkgs(r) ==
    /\ RunAt(r, "destroy")
    /\ lock' = [lock EXCEPT !["bpkgs"] = Nobody]
    /\ memory' = [memory EXCEPT !["bpkgs"] = "freed"]
    /\ RunTo(r, "config")
    /\ UNCHANGED <<proc, threadVars>>
    /\ runUnchanged

FreeConfig(r) ==
    /\ RunAt(r, "config")
    /\ \/ memory["config"] = "null" /\ RunTo(r, "exit")
          /\ UNCHANGED <<proc, memory, threadVars, lock>> /\ runUnchanged
       \/ memory["config"] # "null" /\ Free(r, "config", "exit")

Exit(r) == RunAt(r, "exit") /\ Ends("exited")

GracefulShutdown(r) ==
    \/ LockPeers(r) \/ CancelPeers(r) \/ FreePeers(r) \/ JoinServer(r)
    \/ LockBpkgs(r) \/ DestroyBpkgs(r) \/ FreeConfig(r) \/ Exit(r)

\* SIGINT is delivered to thread t, wherever it is.  While it is handled there
\* it is blocked there, and only there.
Signal(t) ==
    /\ proc = "running"
    /\ signals < MaxSignals
    /\ t # "main" => thread[t] = "on"
    /\ shutdown[RunOn[t]] = "none"
    /\ RunTo(RunOn[t], "peers")
    /\ signals' = signals + 1
    /\ UNCHANGED <<proc, main, configVars, memory, threadVars, lock>>

-----------------------------------------------------------------------------
Ended == proc # "running" /\ UNCHANGED vars

Next ==
    \/ Startup \/ Quit \/ Connected \/ ServerEnds
    \/ \E t \in Threads : Work(t) \/ Signal(t)
    \/ \E r \in Runs : GracefulShutdown(r)
    \/ Ended

Spec == Init /\ [][Next]_vars

\* Threads run, and give up the locks they hold; who waits for a lock that is
\* free again and again gets it; the listening thread reaches a cancellation
\* point again and again.  Nobody has to type, to call or to interrupt.
Fairness ==
    /\ \A r \in Runs : SF_vars(GracefulShutdown(r))
    /\ \A t \in Threads : WF_vars(Give(t))
    /\ SF_vars(ServerEnds)

FairSpec == Spec /\ Fairness

-----------------------------------------------------------------------------
(* Properties                                                                *)

\* Types: a lock is held by a thread or by a run of the shutdown.
TypeOK ==
    /\ proc \in {"running"} \cup Endings
    /\ main \in MainPcs
    /\ signals \in 0..MaxSignals
    /\ given \subseteq Keys
    /\ entry \in [directory : Nat, max_peers : Nat, port : Nat]
    /\ bound \in 0..MAX_PORT
    /\ memory \in [Pointers -> {"null", "live", "freed"}]
    /\ thread \in [{"server", "handler"} -> {"off", "on", "ended"}]
    /\ listed \in BOOLEAN /\ cancelled \in BOOLEAN
    /\ lock \in [Locks -> {Nobody} \cup Threads \cup Runs]
    /\ shutdown \in [Runs -> RunPcs]

Begun == {r \in Runs : shutdown[r] # "none"}

\* The port that is listened on is the one in the file: p2p_setup_server takes
\* 16 bits of it, and parse_entry must have refused what does not fit; and so
\* many peers have slots as the file says.
ConfigHonoured ==
    main \in {"start", "commands"} =>
        /\ "port" \in given => bound = entry.port
        /\ "max_peers" \in given => entry.max_peers \in 1..MAX_PEERS

\* graceful_shutdown leaves its pointers dangling.  That is harmless as long as
\* it runs once: memory is freed twice only by two runs of it.
FreedOnce == proc = "double_free" => Cardinality(Begun) >= 2

\* The packages and the configuration outlive the listening thread, which is
\* joined first, unless the signal came to that thread itself.
JoinedBeforeFreed ==
    \A p \in {"bpkgs", "config"} : memory[p] = "freed" =>
        thread["server"] # "on" \/ shutdown["on_server"] # "none"

\* Did a signal find its thread inside a critical section, or a shutdown that
\* main had begun inside one?
Caught ==
    \E t \in Threads, l \in Locks :
        /\ shutdown[RunOn[t]] # "none"
        /\ lock[l] = t \/ (t = "main" /\ lock[l] = "quit")

\* Did the shutdown cancel the thread it ran on?
CancelledItself == shutdown["on_server"] = "join" /\ thread["server"] = "ended"

\* A shutdown that has begun comes to an end, wherever it runs and however many
\* there are, unless SIGINT interrupted a thread that holds a lock or came to
\* the listening thread.
ShutdownEnds == (Begun # {}) ~> (proc # "running" \/ Caught \/ CancelledItself)

=============================================================================
