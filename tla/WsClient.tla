------------------------------- MODULE WsClient -------------------------------
(***************************************************************************)
(* ws_ssl_client (K4_WsSslClient.h): a websocket client whose send() is    *)
(* called by any thread, while its io thread runs the handlers of          *)
(* Boost.Asio: the connection attempts, on_read, on_write and, from any of *)
(* them, re_connect.                                                       *)
(*                                                                         *)
(* Streams are numbered: re_connect replaces ws_ by a new one, and the     *)
(* operations outstanding on the old one still end, with an error or, when *)
(* they had ended before, without.  Two facts of Boost.Asio and one of     *)
(* timing are built in: handlers run one at a time, on the io thread; the  *)
(* handlers of an old stream, and those of operations begun on a stream    *)
(* that is not connected, are posted at once and so run before the new     *)
(* stream is connected; no sender stays between the unlock of do_write and *)
(* async_write for the two seconds that re_connect sleeps.                 *)
(***************************************************************************)
EXTENDS Integers, Sequences, FiniteSets

CONSTANTS
    Senders,        \* the threads that call send()
    MaxSends,       \* bound: pushes begun
    MaxFailures     \* bound: attempts that fail and connections that are lost

ASSUME WsAssumption ==
    /\ MaxSends \in Nat
    /\ MaxFailures \in Nat
    /\ "io" \notin Senders

Threads == Senders \cup {"io"}

VARIABLES
    ws_,                    \* the number of the current stream
    stream,                 \* and what it is: "new", "open" or "broken"
    failures,
    ready_,
    stop_,
    closed,                 \* the owner called close() (history)
    m_send_queue,           \* messages [id, on]: on is the stream its send() found ready
    m_write_in_progress,
    pushes,                 \* messages pushed so far
    pending,                \* operations [op, on, ok, msg] outstanding at Boost.Asio
    written,                \* the last message given to async_write (history)
    pc,                     \* the step each thread is at
    local                   \* the stream, then the message, a thread is at work on

connVars == <<ws_, stream, failures>>
flagVars == <<ready_, stop_, closed>>
sendVars == <<m_send_queue, m_write_in_progress, pushes>>
opVars == <<pending, written>>
vars == <<connVars, flagVars, sendVars, opVars, pc, local>>

\* ok: the operation was begun on a stream that was open once, so it may succeed.
Op(op, m) == [op |-> op, on |-> ws_, ok |-> stream # "new", msg |-> m]

\* create_single_ws_conn: the client is constructed, connect() called, the io
\* thread started.
Init ==
    /\ ws_ = 1
    /\ stream = "new"
    /\ failures = 0
    /\ ready_ = FALSE
    /\ stop_ = TRUE
    /\ closed = FALSE
    /\ m_send_queue = <<>>
    /\ m_write_in_progress = FALSE
    /\ pushes = 0
    /\ pending = {[op |-> "resolve", on |-> 1, ok |-> FALSE, msg |-> 0]}
    /\ written = 0
    /\ pc = [t \in Threads |-> "run"]
    /\ local = [t \in Threads |-> 0]

Goes(t, from, to) == pc[t] = from /\ pc' = [pc EXCEPT ![t] = to]

\* The io thread runs the handler of an operation and goes on to step "to".
Handles(p, op, to) ==
    /\ p \in pending
    /\ p.op = op
    /\ Goes("io", "run", to)

-----------------------------------------------------------------------------
(* send and do_write.                                                      *)

\* The stream that ready_ is about: re_connect replaces ws_ before it clears ready_.
ReadyStream == IF stream = "new" THEN ws_ - 1 ELSE ws_

Send(t) ==
    /\ pushes < MaxSends
    /\ ready_
    /\ ~stop_
    /\ Goes(t, "run", "push")
    /\ local' = [local EXCEPT ![t] = ReadyStream]
    /\ UNCHANGED <<connVars, flagVars, sendVars, opVars>>

\* A send that writes whether or not another thread does.
PushAnyway(t) ==
    /\ m_send_queue' = Append(m_send_queue, [id |-> pushes + 1, on |-> local[t]])
    /\ pushes' = pushes + 1
    /\ m_write_in_progress' = TRUE
    /\ Goes(t, "push", "do_write")
    /\ UNCHANGED <<connVars, flagVars, opVars, local>>

Push(t) ==
    /\ m_send_queue' = Append(m_send_queue, [id |-> pushes + 1, on |-> local[t]])
    /\ pushes' = pushes + 1
    /\ m_write_in_progress' = TRUE
    /\ Goes(t, "push", IF m_write_in_progress THEN "run" ELSE "do_write")
    /\ UNCHANGED <<connVars, flagVars, opVars, local>>

StopWriting(t) ==
    /\ m_send_queue = <<>> \/ ~ready_
    /\ m_write_in_progress' = FALSE
    /\ Goes(t, "do_write", "run")
    /\ UNCHANGED <<connVars, flagVars, m_send_queue, pushes, opVars, local>>

\* data = std::move(m_send_queue.front()), which stays in the queue until on_write.
TakeFront(t) ==
    /\ m_send_queue # <<>>
    /\ ready_
    /\ local' = [local EXCEPT ![t] = Head(m_send_queue).id]
    /\ Goes(t, "do_write", "async_write")
    /\ UNCHANGED <<connVars, flagVars, sendVars, opVars>>

\* On whatever ws_ is by now.
AsyncWrite(t) ==
    /\ Goes(t, "async_write", "run")
    /\ pending' = pending \cup {Op("write", local[t])}
    /\ written' = local[t]
    /\ local' = [local EXCEPT ![t] = 0]
    /\ UNCHANGED <<connVars, flagVars, sendVars>>

DoWrite(t) == StopWriting(t) \/ TakeFront(t) \/ AsyncWrite(t)

-----------------------------------------------------------------------------
(* on_write and on_read.                                                   *)

\* The end of a write: it pops whatever is in front.
WriteEnds(p) ==
    /\ pending' = pending \ {p}
    /\ m_send_queue' = IF m_send_queue = <<>> THEN <<>> ELSE Tail(m_send_queue)
    /\ UNCHANGED <<connVars, flagVars, m_write_in_progress, pushes, written, local>>

\* An on_write that leaves the rest of the queue to the next send().
OnWriteIdle(p) ==
    /\ p.ok
    /\ Handles(p, "write", "run")
    /\ pending' = pending \ {p}
    /\ m_send_queue' = IF m_send_queue = <<>> THEN <<>> ELSE Tail(m_send_queue)
    /\ m_write_in_progress' = FALSE
    /\ UNCHANGED <<connVars, flagVars, pushes, written, local>>

OnWrite(p) ==
    /\ p.ok
    /\ Handles(p, "write", "do_write")
    /\ WriteEnds(p)

Broken(p) == p.on # ws_ \/ stream # "open"

\* A failed write whose message stays in front, to be written again.
OnWriteErrorKept(p) ==
    /\ Broken(p)
    /\ Handles(p, "write", "clear_flag")
    /\ pending' = pending \ {p}
    /\ UNCHANGED <<connVars, flagVars, sendVars, written, local>>

OnWriteError(p) ==
    /\ Broken(p)
    /\ Handles(p, "write", "clear_flag")
    /\ WriteEnds(p)

\* A write error that reconnects although a reconnect is under way.
ClearFlagReconnect ==
    /\ Goes("io", "clear_flag", "replace")
    /\ m_write_in_progress' = FALSE
    /\ UNCHANGED <<connVars, flagVars, m_send_queue, pushes, opVars, local>>

ClearFlag ==
    /\ Goes("io", "clear_flag", IF stop_ THEN "run" ELSE "replace")
    /\ m_write_in_progress' = FALSE
    /\ UNCHANGED <<connVars, flagVars, m_send_queue, pushes, opVars, local>>

OnRead(p) ==
    /\ p.ok
    /\ Handles(p, "read", "run")
    /\ pending' = IF stop_ THEN pending \ {p} ELSE (pending \ {p}) \cup {Op("read", 0)}
    /\ UNCHANGED <<connVars, flagVars, sendVars, written, local>>

OnReadError(p) ==
    /\ Broken(p)
    /\ Handles(p, "read", IF stop_ THEN "run" ELSE "replace")
    /\ pending' = pending \ {p}
    /\ UNCHANGED <<connVars, flagVars, sendVars, written, local>>

-----------------------------------------------------------------------------
(* re_connect, on the io thread, from the handler that found the failure.  *)

\* ws_ssl_client::re_connect.
Replace ==
    /\ Goes("io", "replace", "re_connect")
    /\ ws_' = ws_ + 1
    /\ stream' = "new"
    /\ UNCHANGED <<failures, flagVars, sendVars, opVars, local>>

\* A re_connect that also drops the messages of the lost connection.
ReConnectDrops ==
    /\ Goes("io", "re_connect", "sleep")
    /\ ready_' = FALSE
    /\ stop_' = TRUE
    /\ m_send_queue' = <<>>
    /\ UNCHANGED <<connVars, closed, m_write_in_progress, pushes, opVars, local>>

\* ws_client_base::re_connect up to the sleep; stop_ is set in either case.
ReConnect ==
    /\ Goes("io", "re_connect", "sleep")
    /\ ready_' = FALSE
    /\ stop_' = TRUE
    /\ UNCHANGED <<connVars, closed, sendVars, opVars, local>>

Redial ==
    /\ \A t \in Senders : pc[t] # "async_write"     \* see the head of the module
    /\ Goes("io", "sleep", "run")
    /\ pending' = pending \cup {Op("resolve", 0)}
    /\ UNCHANGED <<connVars, flagVars, sendVars, written, local>>

-----------------------------------------------------------------------------
(* The handlers of a connection attempt, each of which acts on ws_.        *)

OnResolved(p) ==
    /\ Handles(p, "resolve", "run")
    /\ pending' = (pending \ {p}) \cup {Op("connect", 0)}
    /\ UNCHANGED <<connVars, flagVars, sendVars, written, local>>

\* on_connected, and on_ssl_handshake, which starts the handshake of the websocket
\* whether or not that of TLS succeeded.
OnConnected(p) ==
    /\ \A q \in pending : q.op \notin {"read", "write"}     \* see the head of the module
    /\ Handles(p, "connect", "run")
    /\ stop_' = FALSE
    /\ pending' = (pending \ {p}) \cup {Op("handshake", 0)}
    /\ UNCHANGED <<connVars, ready_, closed, sendVars, written, local>>

\* A connection that is ready before anything is read from it.
OnReadyUnread(p) ==
    /\ Handles(p, "handshake", "run")
    /\ stream' = "open"
    /\ ready_' = TRUE
    /\ pending' = pending \ {p}
    /\ UNCHANGED <<ws_, failures, stop_, closed, sendVars, written, local>>

OnReady(p) ==
    /\ Handles(p, "handshake", "run")
    /\ stream' = "open"
    /\ ready_' = TRUE
    /\ pending' = (pending \ {p}) \cup {[op |-> "read", on |-> ws_, ok |-> TRUE, msg |-> 0]}
    /\ UNCHANGED <<ws_, failures, stop_, closed, sendVars, written, local>>

\* on_resolved, on_connected and on_ready with an error.
AttemptFails(p) ==
    /\ failures < MaxFailures
    /\ \E op \in {"resolve", "connect", "handshake"} : Handles(p, op, "replace")
    /\ failures' = failures + 1
    /\ pending' = pending \ {p}
    /\ UNCHANGED <<ws_, stream, flagVars, sendVars, written, local>>

\* The connection is lost; the client learns of it from its reads and writes.
Drop ==
    /\ failures < MaxFailures
    /\ stream = "open"
    /\ stream' = "broken"
    /\ failures' = failures + 1
    /\ UNCHANGED <<ws_, flagVars, sendVars, opVars, pc, local>>

\* close() of the owner: ws_->close ends the connection only when there is one.
Close ==
    /\ ~closed
    /\ closed' = TRUE
    /\ stop_' = TRUE
    /\ stream' = IF stream = "open" THEN "broken" ELSE stream
    /\ UNCHANGED <<ws_, failures, ready_, sendVars, opVars, pc, local>>

Sender(t) == Push(t) \/ DoWrite(t)

Handler ==
    \E p \in pending :
        \/ OnWrite(p) \/ OnWriteError(p) \/ OnReadError(p)
        \/ OnResolved(p) \/ OnConnected(p) \/ OnReady(p)

Io == ClearFlag \/ Replace \/ ReConnect \/ Redial \/ DoWrite("io") \/ Handler

Next ==
    \/ \E t \in Senders : Send(t) \/ Sender(t)
    \/ Io
    \/ \E p \in pending : OnRead(p) \/ AttemptFails(p)
    \/ Drop
    \/ Close

\* Threads go on, the io thread runs what is posted, and an attempt that may no
\* longer fail succeeds.
Fairness ==
    /\ \A t \in Senders : WF_vars(Sender(t))
    /\ WF_vars(Io)

Spec == Init /\ [][Next]_vars /\ Fairness

-----------------------------------------------------------------------------
(* Properties.                                                             *)

TypeOK ==
    /\ ws_ \in Nat \ {0}
    /\ stream \in {"new", "open", "broken"}
    /\ failures \in 0 .. MaxFailures
    /\ ready_ \in BOOLEAN /\ stop_ \in BOOLEAN /\ closed \in BOOLEAN
    /\ m_send_queue \in Seq([id : Nat \ {0}, on : Nat \ {0}])
    /\ m_write_in_progress \in BOOLEAN
    /\ pushes \in Nat /\ written \in Nat
    /\ \A p \in pending :
        /\ p.op \in {"resolve", "connect", "handshake", "read", "write"}
        /\ p.on \in 1 .. ws_
        /\ p.ok \in BOOLEAN
        /\ p.msg \in Nat
    /\ pc \in [Threads -> {"run", "push", "do_write", "async_write", "clear_flag",
                           "replace", "re_connect", "sleep"}]
    /\ local \in [Threads -> Nat]

Writes == {p \in pending : p.op = "write"}
AtWrite == {t \in Threads : pc[t] \in {"do_write", "async_write", "clear_flag"}}

\* The flag is set exactly while one write, or one thread on its way to the next, is
\* under way, whatever connections were lost meanwhile: never two async_writes at
\* once, which Boost.Beast forbids, and never a flag that nobody will clear, after
\* which every send() would only queue (m_write_in_progress, 97-99 and 131-165).
FlagOwned ==
    Cardinality(Writes) + Cardinality(AtWrite) = (IF m_write_in_progress THEN 1 ELSE 0)

\* The message being written is the one in front, so that the pop of on_write, which
\* looks at no message, removes that one and loses no other, although handlers of
\* streams that were replaced run too (on_write 135-138, do_write 161).
WritesFront ==
    /\ \A p \in Writes : m_send_queue # <<>> /\ Head(m_send_queue).id = p.msg
    /\ \A t \in Threads :
        pc[t] = "async_write" => m_send_queue # <<>> /\ Head(m_send_queue).id = local[t]

\* Messages are handed to async_write in the order of the pushes and none twice, also
\* across connections (send, do_write, on_write).
WrittenInOrder == [][\A p \in Writes' \ Writes : p.msg > written]_vars

Attempts == {p \in pending : p.op \in {"resolve", "connect", "handshake"}}
ReConnecting == pc["io"] \in {"replace", "re_connect", "sleep"}

\* One connection at a time: at most one attempt, none while a reconnect is prepared or
\* the client is ready, and one read at most (a read error and a write error of the same loss
\* both reach re_connect; stop_, which it sets, holds the second off).
OneConnection ==
    /\ Cardinality(Attempts) <= 1
    /\ ReConnecting => Attempts = {}
    /\ ready_ => Attempts = {}
    /\ Cardinality({p \in pending : p.op = "read" /\ p.on = ws_}) <= 1

\* Unless the owner closes it, a client that is not ready becomes so again: no order
\* of late handlers ends with neither a read, an attempt nor a reconnect (re_connect).
\* That each lost connection and each attempt is reported to its handler at some time
\* is assumed: the client sets no timeout, and one lost in silence stays as it is.
ComesBack == (~ready_ \/ stream = "broken") ~> ((ready_ /\ stream = "open") \/ closed)

Waits(m) == \E k \in DOMAIN m_send_queue : m_send_queue[k] = [id |-> m, on |-> ws_]

\* A message pushed is written, unless the connection its send() found ready is
\* replaced or closed (then it may stay until another send()).
SentUnlessLost == \A m \in 1 .. MaxSends + Cardinality(Senders) : Waits(m) ~> (~Waits(m) \/ closed)
===============================================================================
