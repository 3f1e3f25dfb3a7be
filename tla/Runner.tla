-------------------------------- MODULE Runner --------------------------------
(***************************************************************************)
(* mdrunner.cpp: main loads a gateway library per configured connection,   *)
(* creates, initializes and starts the gateway, sleeps until a signal      *)
(* arrives and lets the destructor of MDResource stop and release them.    *)
(*                                                                         *)
(* Each call into the dynamic linker or into a gateway may fail where the  *)
(* code expects it to.  dlopen counts references: two connections may name *)
(* the same library.  The signal handler runs in any thread, at any        *)
(* moment.                                                                 *)
(*                                                                         *)
(* Of a gateway (Binance_MD, see Gateway for its inside) the module keeps  *)
(* what its owner meets.  Its print thread locks m_stats_mutex twice once  *)
(* it has found m_print_running set, and never ends: stop() joins it and   *)
(* does not return.  Its io threads run library code and are never joined: *)
(* from stop() on, or after initialize() threw, they may end the process.  *)
(***************************************************************************)
EXTENDS Integers, Sequences, FiniteSets

CONSTANTS
    Libs,
    LibPath,       \* the connections array: a sequence of libraries
    MaxSignals     \* bound on the signals of a behaviour

ASSUME RunnerAssumption ==
    /\ LibPath \in Seq(Libs)
    /\ MaxSignals \in Nat

Conns == DOMAIN LibPath

VARIABLES
    pc,              \* the step main is at
    i,               \* the connection being loaded, or the resource being released
    md_resources,    \* the vector of MDResource, as connection numbers
    refs,            \* library -> handles the process holds on it
    released,        \* gateways whose own handle was closed (history)
    alive,           \* gateways created and not destroyed
    running,         \* gateways with m_running set
    io,              \* gateways that ever had io threads: nothing ever joins them
    printing,        \* gateways whose print thread has not looked at m_print_running
    stuck,           \* gateways whose print thread found it set
    g_should_exit,
    handler,         \* the step signal_handler is at
    signals          \* signals received

mainVars == <<pc, i, md_resources>>
handleVars == <<refs, released>>
gatewayVars == <<alive, running, io, printing, stuck>>
signalVars == <<g_should_exit, handler, signals>>
vars == <<mainVars, handleVars, gatewayVars, signalVars>>

Init ==
    /\ pc = "load"
    /\ i = 1
    /\ md_resources = <<>>
    /\ refs = [l \in Libs |-> 0]
    /\ released = {}
    /\ alive = {} /\ running = {} /\ io = {} /\ printing = {} /\ stuck = {}
    /\ g_should_exit = FALSE
    /\ handler = "idle"
    /\ signals = 0

-----------------------------------------------------------------------------
(* The loop over the connections.                                          *)

Lib == LibPath[i]
Open(l) == refs' = [refs EXCEPT ![l] = @ + 1]
Close(l) == refs' = [refs EXCEPT ![l] = @ - 1]
NextConn == i' = i + 1 /\ pc' = "load"

\* No lib_path, or dlopen fails: continue.
Skip ==
    /\ pc = "load" /\ i \in Conns
    /\ NextConn
    /\ UNCHANGED <<md_resources, handleVars, gatewayVars, signalVars>>

DlOpen ==
    /\ pc = "load" /\ i \in Conns
    /\ Open(Lib)
    /\ pc' = "create"
    /\ UNCHANGED <<i, md_resources, released, gatewayVars, signalVars>>

\* dlsym fails or create_mdlib returns null: dlclose(handle); continue.
GiveUp ==
    /\ pc = "create"
    /\ Close(Lib)
    /\ NextConn
    /\ UNCHANGED <<md_resources, released, gatewayVars, signalVars>>

CreateMdlib ==
    /\ pc = "create"
    /\ alive' = alive \cup {i}
    /\ pc' = "init_shm"
    /\ UNCHANGED <<i, md_resources, handleVars, running, io, printing, stuck, signalVars>>

\* create_mdlib, init_shm or initialize throws (shm_open, ftruncate, mmap; making a
\* client): the unwinding destroys the gateway, whose io threads, if it had some
\* by then, go on, and the handler of the loop goes on with the next connection.
Throw ==
    /\ pc \in {"create", "init_shm"}
    /\ alive' = alive \ {i}
    /\ io' \in {io} \cup (IF pc = "init_shm" THEN {io \cup {i}} ELSE {})
    /\ NextConn
    /\ UNCHANGED <<md_resources, handleVars, running, printing, stuck, signalVars>>

\* init_shm(), then initialize(), whose result is not looked at.  It makes an io
\* thread for each websocket connection that is configured, and the print thread.
Initialize ==
    /\ pc = "init_shm"
    /\ io' \in {io, io \cup {i}}
    /\ printing' = printing \cup {i}
    /\ pc' = "start"
    /\ UNCHANGED <<i, md_resources, handleVars, alive, running, stuck, signalVars>>

Start ==
    /\ pc = "start"
    /\ running' = running \cup {i}
    /\ pc' = "save"
    /\ UNCHANGED <<i, md_resources, handleVars, alive, io, printing, stuck, signalVars>>

\* What the destructor of the local MDResource does after the move: nothing, since
\* the move took both members.  A move that left the handle would have it closed.
ReleaseMovedHandle == Close(Lib)
ReleaseMoved == UNCHANGED refs

\* A gateway that is kept only if its initialize() succeeded.
SaveOnSuccess == md_resources' = Append(md_resources, i) \/ UNCHANGED md_resources
Keep == md_resources' = Append(md_resources, i)

\* res.handle, res.md_instance, md_resources.emplace_back(std::move(res))
Save ==
    /\ pc = "save"
    /\ Keep
    /\ ReleaseMoved
    /\ NextConn
    /\ UNCHANGED <<released, gatewayVars, signalVars>>

\* A wait that sleeps before it looks at the flag.
LoadDoneSleepFirst ==
    /\ pc = "load" /\ i \notin Conns
    /\ pc' = "block"
    /\ UNCHANGED <<i, md_resources, handleVars, gatewayVars, signalVars>>

LoadDone ==
    /\ pc = "load" /\ i \notin Conns
    /\ pc' = "wait"
    /\ UNCHANGED <<i, md_resources, handleVars, gatewayVars, signalVars>>

-----------------------------------------------------------------------------
(* g_exit_cv.wait(lock, predicate): the predicate, then the sleep.         *)

CheckExit ==
    /\ pc = "wait"
    /\ IF g_should_exit THEN pc' = "stop" /\ i' = 1
                        ELSE pc' = "block" /\ UNCHANGED i
    /\ UNCHANGED <<md_resources, handleVars, gatewayVars, signalVars>>

Block ==
    /\ pc = "block"
    /\ pc' = "asleep"
    /\ UNCHANGED <<i, md_resources, handleVars, gatewayVars, signalVars>>

\* A condition variable may wake without being notified.
SpuriousWake ==
    /\ pc = "asleep"
    /\ pc' = "wait"
    /\ UNCHANGED <<i, md_resources, handleVars, gatewayVars, signalVars>>

\* signal_handler: the flag, then notify_all, without the mutex.
Signal ==
    /\ pc # "dead" /\ handler = "idle"
    /\ signals < MaxSignals
    /\ g_should_exit' = TRUE
    /\ handler' = "notify"
    /\ signals' = signals + 1
    /\ UNCHANGED <<mainVars, handleVars, gatewayVars>>

Notify ==
    /\ pc # "dead" /\ handler = "notify"
    /\ handler' = "idle"
    /\ pc' = IF pc = "asleep" THEN "wait" ELSE pc
    /\ UNCHANGED <<i, md_resources, handleVars, gatewayVars, g_should_exit, signals>>

-----------------------------------------------------------------------------
(* The end of main: ~vector, and ~MDResource on each element in turn.      *)

Instance == md_resources[i]

\* md_instance->stop() up to the join of the work thread, which ends by itself.
StopInstance == running' = running \ {Instance}

Stop ==
    /\ pc = "stop" /\ i \in DOMAIN md_resources
    /\ StopInstance
    /\ pc' = "join_work"
    /\ UNCHANGED <<i, md_resources, handleVars, alive, io, printing, stuck, signalVars>>

\* on_stop clears m_print_running: a print thread that looks from now on ends.
OnStop ==
    /\ pc = "join_work"
    /\ printing' = printing \ {Instance}
    /\ pc' = "on_stop"
    /\ UNCHANGED <<i, md_resources, handleVars, alive, running, io, stuck, signalVars>>

\* It joins the print thread, closes the clients and drops them; stop() returns.
StopReturns ==
    /\ pc = "on_stop"
    /\ Instance \notin stuck
    /\ pc' = "close"
    /\ UNCHANGED <<i, md_resources, handleVars, gatewayVars, signalVars>>

\* dlclose(handle)
DlClose ==
    /\ pc = "close"
    /\ Close(LibPath[Instance])
    /\ released' = released \cup {Instance}
    /\ pc' = "destroy"
    /\ UNCHANGED <<i, md_resources, gatewayVars, signalVars>>

\* The members of MDResource go after the body of its destructor.
Destroy ==
    /\ pc = "destroy"
    /\ alive' = alive \ {Instance}
    /\ i' = i + 1
    /\ pc' = "stop"
    /\ UNCHANGED <<md_resources, handleVars, running, io, printing, stuck, signalVars>>

Return ==
    /\ pc = "stop" /\ i \notin DOMAIN md_resources
    /\ pc' = "done"
    /\ UNCHANGED <<i, md_resources, handleVars, gatewayVars, signalVars>>

-----------------------------------------------------------------------------
(* The threads of the gateways, as far as the runner depends on them.      *)

\* while (m_print_running): the thread found it set, and will print.
PrintCheck(c) ==
    /\ pc # "dead" /\ c \in printing
    /\ printing' = printing \ {c}
    /\ stuck' = stuck \cup {c}
    /\ UNCHANGED <<mainVars, handleVars, alive, running, io, signalVars>>

\* Gateways with io threads whose clients were closed and dropped, or destroyed with
\* the gateway.
Abandoned ==
    {c \in io \ running :
        /\ pc = "start" => c # i
        /\ pc \in {"join_work", "on_stop"} => c # Instance}

\* An io thread that drops the last reference to a client (its m_work is joinable),
\* calls into a destroyed gateway or returns to unmapped code ends the process; and
\* so may the destructor of a gateway whose library is gone.
Die ==
    /\ pc \notin {"done", "dead"}
    /\ \/ Abandoned # {}
       \/ pc = "destroy" /\ refs[LibPath[Instance]] = 0
    /\ pc' = "dead"
    /\ UNCHANGED <<i, md_resources, handleVars, gatewayVars, signalVars>>

-----------------------------------------------------------------------------
Main ==
    \/ Skip \/ DlOpen \/ GiveUp \/ CreateMdlib \/ Throw \/ Initialize \/ Start
    \/ Save \/ LoadDone \/ CheckExit \/ Block
    \/ Stop \/ OnStop \/ StopReturns \/ DlClose \/ Destroy \/ Return

Next ==
    \/ Main \/ SpuriousWake \/ Signal \/ Notify
    \/ \E c \in Conns : PrintCheck(c)
    \/ Die

\* main runs when it does not sleep or join, and a handler that began finishes.
\* Signals, spurious wakings and the end of the process may never come, and a print
\* thread may look at its flag early or late.
Spec == Init /\ [][Next]_vars /\ WF_vars(Main) /\ WF_vars(Notify)

-----------------------------------------------------------------------------
(* Properties.                                                             *)

TypeOK ==
    /\ pc \in {"load", "create", "init_shm", "start", "save", "wait", "block",
               "asleep", "stop", "join_work", "on_stop", "close", "destroy",
               "done", "dead"}
    /\ i \in 1 .. Len(LibPath) + 1
    /\ md_resources \in Seq(Conns)
    /\ refs \in [Libs -> 0 .. Len(LibPath)]
    /\ alive \subseteq Conns /\ running \subseteq alive
    /\ released \subseteq Conns /\ io \subseteq Conns
    /\ printing \subseteq Conns /\ stuck \subseteq Conns
    /\ g_should_exit \in BOOLEAN
    /\ handler \in {"idle", "notify"}
    /\ signals \in 0 .. MaxSignals

\* Until its own handle is closed, a gateway that runs or has io threads holds a
\* reference of its own on its library, whatever connections fail to load (with a
\* leaked handle if initialize threw) and whatever else is being released.  After
\* its dlclose nothing keeps the code of its io threads mapped: see Die.
MappedUntilReleased ==
    \A l \in Libs :
        refs[l] >= Cardinality({c \in (running \cup io) \ released : LibPath[c] = l})

\* No gateway that was started is lost: once its connection is done with, it is
\* among the resources main will stop, once.
StartedIsManaged ==
    pc \in {"load", "wait", "block", "asleep"} =>
        /\ running = {md_resources[k] : k \in DOMAIN md_resources}
        /\ Cardinality(running) = Len(md_resources)

\* A signal that arrives while connections are being loaded is not lost: the program
\* ends, or main is where a gateway that has begun to print keeps it, in the join of
\* its print thread (binance_md.cpp:160).
EarlySignalHeard ==
    g_should_exit /\ pc \in {"load", "create", "init_shm", "start", "save"}
        ~> pc \in {"done", "dead"} \/ (pc = "on_stop" /\ Instance \in stuck)

\* The comment of the handler (mdrunner.cpp:99): notify_all wakes the main thread
\* that waits.  After a signal main leaves the wait, whatever happens to it then.
SignalWakes ==
    g_should_exit ~>
        pc \in {"stop", "join_work", "on_stop", "close", "destroy", "done", "dead"}
=============================================================================
