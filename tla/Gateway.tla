------------------------------- MODULE Gateway -------------------------------
(***************************************************************************)
(* One Binance_MD (binance_md.cpp) with its base RT_CryptoMDBase, as its   *)
(* owner (mdrunner's main thread) drives it: initialize, start, stop,      *)
(* destruction.  Beside the owner run the work thread of the base, the     *)
(* thread that prints latencies, and one io thread per websocket           *)
(* connection (K4_WsSslClient.h), which reconnects by itself and calls     *)
(* back into the gateway.                                                  *)
(*                                                                         *)
(* m_stats_mutex is the only lock.  print_latency_stats locks it and calls *)
(* print_product_stats, which locks it again: std::mutex is not recursive, *)
(* and with the default (normal) pthread mutex that waits for ever, so the *)
(* rest of the print is unreachable.                                       *)
(***************************************************************************)
EXTENDS Integers, FiniteSets

CONSTANT NumConns     \* m_spot_conn_count + m_ubase_conn_count

ASSUME GatewayAssumption == NumConns \in Nat \ {0}

Conns == 1 .. NumConns

VARIABLES
    opc,                \* the step the owner is at
    c,                  \* the connection it is at
    m_conns,            \* connections kept in m_spot_conns and m_ubase_conns
    m_running,
    m_print_running,
    onStopCalled,       \* Binance_MD::on_stop ran (history)
    work,               \* the work thread of start()
    print,              \* the print thread
    m_stats_mutex,      \* who holds it: "free" or "print"
    io,                 \* connection -> the step its io thread is at
    ready_,
    stop_,
    closed,             \* connections the gateway called close() on (history)
    terminated          \* std::terminate was called

ownerVars == <<opc, c, m_conns, onStopCalled>>
threadVars == <<m_running, m_print_running, work, print, m_stats_mutex>>
connVars == <<io, ready_, stop_, closed, terminated>>
vars == <<ownerVars, threadVars, connVars>>

Init ==
    /\ opc = "constructed"
    /\ c = 1
    /\ m_conns = {}
    /\ m_running = FALSE
    /\ m_print_running = TRUE
    /\ onStopCalled = FALSE
    /\ work = "none"
    /\ print = "none"
    /\ m_stats_mutex = "free"
    /\ io = [k \in Conns |-> "none"]
    /\ ready_ = [k \in Conns |-> FALSE]
    /\ stop_ = [k \in Conns |-> TRUE]
    /\ closed = {}
    /\ terminated = FALSE

OwnerGoes(from, to) == opc = from /\ opc' = to
restVars == <<onStopCalled, threadVars>>

-----------------------------------------------------------------------------
(* initialize and start.                                                   *)

\* A request_connect that starts the print thread before the connections.
PrintFirst ==
    /\ OwnerGoes("constructed", "init_conn_stats")
    /\ print' = "check"
    /\ UNCHANGED <<c, m_conns, onStopCalled, m_running, m_print_running, work,
                   m_stats_mutex, connVars>>

RequestConnect ==
    /\ OwnerGoes("constructed", "init_conn_stats")
    /\ UNCHANGED <<c, m_conns, restVars, connVars>>

\* init_conn_stats, and a ws_ssl_client whose io thread starts to connect.
Dial ==
    /\ OwnerGoes("init_conn_stats", "poll")
    /\ m_stats_mutex = "free"
    /\ io' = [io EXCEPT ![c] = "resolve"]
    /\ UNCHANGED <<c, m_conns, restVars, ready_, stop_, closed, terminated>>

NextConn ==
    IF c < NumConns THEN opc' = "init_conn_stats" /\ c' = c + 1
                    ELSE opc' = "print_thread" /\ UNCHANGED c

\* is_ready within 30 rounds: the connection is kept, and subscribed on.
KeepConn ==
    /\ opc = "poll"
    /\ ready_[c]
    /\ m_conns' = m_conns \cup {c}
    /\ NextConn
    /\ UNCHANGED <<restVars, connVars>>

\* 30 rounds without: return nullptr; the io thread goes on trying.
GiveUp ==
    /\ opc = "poll"
    /\ ~ready_[c]
    /\ NextConn
    /\ UNCHANGED <<m_conns, restVars, connVars>>

\* Then return 1, on which the initialize of the base returns: it takes it for a
\* failure, and does not wait for its m_bDoneConnect, which nothing sets (the one
\* that request_connect sets is a member of Binance_MD by the same name).
StartPrint ==
    /\ OwnerGoes("print_thread", "initialized")
    /\ print' = "check"
    /\ UNCHANGED <<c, m_conns, onStopCalled, m_running, m_print_running, work,
                   m_stats_mutex, connVars>>

Start ==
    /\ OwnerGoes("initialized", "started")
    /\ m_running' = TRUE
    /\ work' = "loop"
    /\ UNCHANGED <<c, m_conns, onStopCalled, m_print_running, print,
                   m_stats_mutex, connVars>>

-----------------------------------------------------------------------------
(* stop, on_stop and destruction.                                          *)

\* A stop that does not tell the work thread.
StopUnmarked ==
    /\ OwnerGoes("started", "join_work")
    /\ UNCHANGED <<c, m_conns, restVars, connVars>>

Stop ==
    /\ OwnerGoes("started", "join_work")
    /\ m_running' = FALSE
    /\ UNCHANGED <<c, m_conns, onStopCalled, m_print_running, work, print,
                   m_stats_mutex, connVars>>

\* joinable() stays true, so after a second of polling it the thread is joined.
JoinWork ==
    /\ OwnerGoes("join_work", "on_stop")
    /\ work = "done"
    /\ UNCHANGED <<c, m_conns, restVars, connVars>>

OnStop ==
    /\ OwnerGoes("on_stop", "join_print")
    /\ onStopCalled' = TRUE
    /\ m_print_running' = FALSE
    /\ UNCHANGED <<c, m_conns, m_running, work,
                   print, m_stats_mutex, connVars>>

JoinPrint ==
    /\ OwnerGoes("join_print", "close")
    /\ print = "done"
    /\ UNCHANGED <<c, m_conns, restVars, connVars>>

\* close(): its io thread is not joined (only disconnect(), not called, does that).
Close(k) ==
    /\ opc = "close"
    /\ k \in m_conns \ closed
    /\ \A j \in m_conns \ closed : k <= j
    /\ stop_' = [stop_ EXCEPT ![k] = TRUE]
    /\ closed' = closed \cup {k}
    /\ UNCHANGED <<ownerVars, threadVars, io, ready_, terminated>>

\* The containers drop their references.  A client that its io thread has no more
\* handlers for is destroyed, with m_work joinable.
Clear ==
    /\ OwnerGoes("close", "clear_stats")
    /\ m_conns \subseteq closed
    /\ m_conns' = {}
    /\ terminated' = \E k \in m_conns : io[k] = "ended"
    /\ UNCHANGED <<c, restVars, io, ready_, stop_, closed>>

ClearStats ==
    /\ OwnerGoes("clear_stats", "stopped")
    /\ m_stats_mutex = "free"
    /\ UNCHANGED <<c, m_conns, restVars, connVars>>

\* After stop; or while an exception unwinds: from init_shm before initialize, or
\* from the start of the print thread, with connections already made.  The stop()
\* of the base destructor finds m_running clear and returns.
Destroy ==
    /\ opc \in {"constructed", "print_thread", "stopped"}
    /\ opc' = "destroyed"
    /\ m_conns' = {}
    /\ UNCHANGED <<c, restVars, connVars>>

-----------------------------------------------------------------------------
(* The work thread and the print thread.                                   *)

WorkEnds ==
    /\ work = "loop"
    /\ ~m_running
    /\ work' = "done"
    /\ UNCHANGED <<ownerVars, m_running, m_print_running, print,
                   m_stats_mutex, connVars>>

\* while (m_print_running) sleep_for(...)
PrintCheck ==
    /\ print = "check"
    /\ print' = IF m_print_running THEN "sleep" ELSE "done"
    /\ UNCHANGED <<ownerVars, m_running, m_print_running, work,
                   m_stats_mutex, connVars>>

\* print_latency_stats locks; print_product_stats is where the thread stays.
PrintLatencyStats ==
    /\ print = "sleep"
    /\ m_stats_mutex = "free"
    /\ m_stats_mutex' = "print"
    /\ print' = "print_product_stats"
    /\ UNCHANGED <<ownerVars, m_running, m_print_running, work, connVars>>

-----------------------------------------------------------------------------
(* The io thread of a connection.                                          *)

IoGoes(k, from, to) == io[k] = from /\ io' = [io EXCEPT ![k] = to]

\* What on_connected does with stop_.
LeaveStopped(k) == UNCHANGED stop_
ClearStop(k) == stop_' = [stop_ EXCEPT ![k] = FALSE]

\* on_resolved, on_connected
Connected(k) ==
    /\ IoGoes(k, "resolve", "handshake")
    /\ ClearStop(k)
    /\ UNCHANGED <<ownerVars, threadVars, ready_, closed, terminated>>

\* on_ready
OnReady(k) ==
    /\ IoGoes(k, "handshake", "up")
    /\ ready_' = [ready_ EXCEPT ![k] = TRUE]
    /\ UNCHANGED <<ownerVars, threadVars, stop_, closed, terminated>>

\* The start of re_connect, when an attempt fails or the connection is lost.  A read
\* and a write that fail with the same connection make one re_connect: whichever
\* handler comes second finds stop_ set.
ReConnect(k) ==
    /\ \/ io[k] \in {"resolve", "handshake"}
       \/ io[k] = "up" /\ ~stop_[k]
    /\ io' = [io EXCEPT ![k] = "on_reconn"]
    /\ ready_' = [ready_ EXCEPT ![k] = FALSE]
    /\ UNCHANGED <<ownerVars, threadVars, stop_, closed, terminated>>

\* A read that fails on a stopped connection: no handler is left, and a client
\* that nobody else refers to is destroyed by its own thread.
ReadEnds(k) ==
    /\ IoGoes(k, "up", "ended")
    /\ stop_[k]
    /\ terminated' = (k \notin m_conns)
    /\ UNCHANGED <<ownerVars, threadVars, ready_, stop_, closed>>

\* on_reconn is called two or three times, and resets the statistics each time:
\* at once; if stop_ is clear, before the connection is closed; after two seconds.
\* Nothing holds the gateway for it: after its destruction it may well crash.
OnReconn(k) ==
    /\ m_stats_mutex = "free"
    /\ \/ /\ IoGoes(k, "on_reconn", IF stop_[k] THEN "again" ELSE "not_stopped")
          /\ UNCHANGED stop_
       \/ /\ IoGoes(k, "not_stopped", "again")
          /\ stop_' = [stop_ EXCEPT ![k] = TRUE]
       \/ /\ IoGoes(k, "again", "resolve")
          /\ UNCHANGED stop_
    /\ terminated' \in IF opc = "destroyed" THEN BOOLEAN ELSE {FALSE}
    /\ UNCHANGED <<ownerVars, threadVars, ready_, closed>>

Io(k) ==
    Connected(k) \/ OnReady(k) \/ ReConnect(k) \/ ReadEnds(k) \/ OnReconn(k)

-----------------------------------------------------------------------------
OwnerStep ==
    \/ RequestConnect \/ Dial \/ KeepConn \/ GiveUp \/ StartPrint
    \/ Start \/ JoinWork \/ OnStop \/ JoinPrint \/ (\E k \in Conns : Close(k))
    \/ Clear \/ ClearStats

Next ==
    /\ ~terminated
    /\ \/ OwnerStep \/ Stop \/ Destroy
       \/ WorkEnds \/ PrintCheck \/ PrintLatencyStats
       \/ \E k \in Conns : Io(k)

\* Every thread runs when it can; when to stop is the owner's choice, and when a
\* connection comes up or is lost is the network's.
Spec ==
    /\ Init /\ [][Next]_vars
    /\ WF_vars(~terminated /\ OwnerStep)
    /\ WF_vars(~terminated /\ WorkEnds)
    /\ WF_vars(~terminated /\ (PrintCheck \/ PrintLatencyStats))
    /\ \A k \in Conns : WF_vars(~terminated /\ OnReconn(k))

-----------------------------------------------------------------------------
(* Properties.                                                             *)

TypeOK ==
    /\ opc \in {"constructed", "init_conn_stats", "poll", "print_thread",
                "initialized", "started", "join_work", "on_stop",
                "join_print", "close", "clear_stats", "stopped", "destroyed"}
    /\ c \in Conns
    /\ m_conns \subseteq Conns /\ closed \subseteq Conns
    /\ {m_running, m_print_running, onStopCalled, terminated} \subseteq BOOLEAN
    /\ work \in {"none", "loop", "done"}
    /\ print \in {"none", "check", "sleep", "print_product_stats", "done"}
    /\ m_stats_mutex = IF print = "print_product_stats" THEN "print" ELSE "free"
    /\ io \in [Conns -> {"none", "resolve", "handshake", "up", "on_reconn",
                         "not_stopped", "again", "ended"}]
    /\ ready_ \in [Conns -> BOOLEAN] /\ stop_ \in [Conns -> BOOLEAN]

\* initialize and start always come to an end, whatever the connections do: the
\* lock is taken per connection before the print thread exists to keep it.
InitEnds == opc = "init_conn_stats" ~> opc \in {"started", "destroyed"}

\* The first three steps of stop always get done: the work thread is joined.
StopReachesOnStop == opc = "join_work" ~> (onStopCalled \/ terminated)

\* A connection that is ready and was not closed by the gateway has stop_ clear,
\* through any number of reconnections: send() and the next read depend on it.
ReadyNotStopped == \A k \in Conns : ready_[k] /\ k \notin closed => ~stop_[k]

\* binance_md.cpp:542, on the lock in print_product_stats: it makes the print safe
\* with threads; and :161, on_stop joins the print thread.  A stop completes.
StopReleases == opc = "join_work" ~> (opc = "stopped" \/ terminated)
=============================================================================
