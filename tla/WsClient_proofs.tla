---------------------------- MODULE WsClient_proofs ----------------------------
(***************************************************************************)
(* Who writes, what is in front, and how many connections there are, for   *)
(* any number of threads, messages and lost connections.  The invariant    *)
(* has two parts that meet only in what begins a write: Sending follows    *)
(* the flag and the queue, Connecting the attempts, the reads and stop_.   *)
(***************************************************************************)
EXTENDS WsClient, SequenceTheorems, FiniteSetTheorems, TLAPS

\* One write, or one thread on its way to the next, while the flag is set.
OneWriter ==
    /\ \A p, q \in Writes : p = q
    /\ \A t, u \in AtWrite : t = u
    /\ Writes = {} \/ AtWrite = {}
    /\ m_write_in_progress <=> (Writes # {} \/ AtWrite # {})

\* The messages that on_write took from the queue.
Popped == pushes - Len(m_send_queue)

\* The queue holds the last messages pushed, in their order.
Queued ==
    /\ Len(m_send_queue) <= pushes
    /\ \A k \in 1 .. Len(m_send_queue) : m_send_queue[k].id = Popped + k

\* What was written last was popped, or its write is pending and it is in front.
WrittenLast ==
    /\ Writes = {} => written <= Popped
    /\ \A p \in Writes : m_send_queue # <<>> /\ p.msg = Popped + 1 /\ written = Popped + 1

\* What a thread is about to write is in front.
AboutToWrite ==
    \A t \in Threads :
        pc[t] = "async_write" => m_send_queue # <<>> /\ local[t] = Popped + 1

\* A send() began on a stream that was ready.
SentOn == \A t \in Threads : pc[t] = "push" => local[t] # 0

Sending == OneWriter /\ Queued /\ WrittenLast /\ AboutToWrite /\ SentOn

\* While there is an attempt, which is then the only one, nothing is ready, nobody is
\* about to write, and stop_ keeps the handlers of older streams from a second one;
\* there are none of these when it is cleared.
OneAttempt ==
    /\ \A p, q \in Attempts : p = q
    /\ \A p \in Attempts :
        /\ ~ready_ /\ stream = "new" /\ ~ReConnecting
        /\ \A t \in Threads : pc[t] # "async_write"
        /\ p.op # "handshake" => stop_
        /\ p.op = "handshake" =>
            pc["io"] # "clear_flag" /\ \A q \in pending : q.op \notin {"read", "write"}

\* The steps of re_connect.
Stopping ==
    /\ pc["io"] \in {"re_connect", "sleep"} => stream = "new"
    /\ pc["io"] = "sleep" => stop_ /\ ~ready_
    /\ ready_ /\ stream = "new" => ws_ > 1

Reads == {p \in pending : p.op = "read"}

\* The reads of the current stream, and those of older ones while stop_ is set.
OneRead ==
    /\ \A p, q \in Reads : p.on = ws_ /\ q.on = ws_ => p = q
    /\ stream = "new" => \A p \in Reads : p.on # ws_
    /\ ~stop_ /\ pc["io"] # "re_connect" => \A p \in Reads : p.on = ws_

Connecting == OneAttempt /\ Stopping /\ OneRead

IInv == TypeOK /\ Sending /\ Connecting

-----------------------------------------------------------------------------
(* The steps of Next, each with what it leaves alone.                      *)

Message == [id : Nat \ {0}, on : Nat \ {0}]
Steps == {"run", "push", "do_write", "async_write", "clear_flag", "replace", "re_connect", "sleep"}
AtWriteSteps == {"do_write", "async_write", "clear_flag"}
ReConnectSteps == {"replace", "re_connect", "sleep"}

\* TypeOK by its parts: booleans and numbers ask for different provers.
FlagTypes == /\ ready_ \in BOOLEAN /\ stop_ \in BOOLEAN /\ closed \in BOOLEAN
             /\ m_write_in_progress \in BOOLEAN
ConnTypes == /\ ws_ \in Nat \ {0} /\ stream \in {"new", "open", "broken"}
             /\ failures \in 0 .. MaxFailures
QueueTypes == m_send_queue \in Seq(Message) /\ pushes \in Nat /\ written \in Nat
ThreadTypes == pc \in [Threads -> Steps] /\ local \in [Threads -> Nat]
PendingTypes == \A p \in pending :
    /\ p.op \in {"resolve", "connect", "handshake", "read", "write"}
    /\ p.on \in 1 .. ws_
    /\ p.ok \in BOOLEAN
    /\ p.msg \in Nat

LEMMA TypeParts ==
    TypeOK <=> FlagTypes /\ ConnTypes /\ QueueTypes /\ ThreadTypes /\ PendingTypes
BY Zenon DEF TypeOK, FlagTypes, ConnTypes, QueueTypes, ThreadTypes, PendingTypes, Message, Steps

LEMMA ThreadSet == /\ "io" \in Threads
                   /\ \A t \in Senders : t \in Threads /\ t # "io"
                   /\ \A t \in Threads : t # "io" => t \in Senders
BY WsAssumption DEF Threads

LEMMA Popping ==
    ASSUME NEW S, NEW q \in Seq(S), q # <<>>
    PROVE  /\ Head(q) \in S /\ Head(q) = q[1]
           /\ Tail(q) \in Seq(S) /\ Len(q) > 0 /\ Len(Tail(q)) = Len(q) - 1
           /\ \A k \in 1 .. Len(q) - 1 : Tail(q)[k] = q[k + 1]
OBVIOUS

LEMMA Pushing ==
    ASSUME NEW S, NEW q \in Seq(S), NEW e \in S
    PROVE  /\ Append(q, e) \in Seq(S) /\ Append(q, e) # <<>> /\ Len(Append(q, e)) = Len(q) + 1
           /\ \A k \in 1 .. Len(q) : Append(q, e)[k] = q[k]
           /\ Append(q, e)[Len(q) + 1] = e
OBVIOUS

LEMMA InitIInv == Init => IInv
<1> SUFFICES ASSUME Init PROVE IInv OBVIOUS
<1> USE DEF Init
<1>1. TypeOK
  <2>1. \A p \in pending : /\ p.op = "resolve" /\ p.on = 1 /\ p.ok = FALSE /\ p.msg = 0 OBVIOUS
  <2>2. ws_ \in Nat \ {0} /\ failures \in 0 .. MaxFailures BY WsAssumption
  <2>3. ready_ \in BOOLEAN /\ stop_ \in BOOLEAN /\ closed \in BOOLEAN
        /\ m_write_in_progress \in BOOLEAN OBVIOUS
  <2>4. m_send_queue \in Seq([id : Nat \ {0}, on : Nat \ {0}]) OBVIOUS
  <2>5. stream \in {"new", "open", "broken"} /\ pushes \in Nat /\ written \in Nat OBVIOUS
  <2>6. local \in [Threads -> Nat] OBVIOUS
  <2>7. pc \in [Threads -> {"run", "push", "do_write", "async_write", "clear_flag",
                            "replace", "re_connect", "sleep"}]
    OBVIOUS
  <2>8. \A p \in pending :
          /\ p.op \in {"resolve", "connect", "handshake", "read", "write"}
          /\ p.on \in 1 .. ws_ /\ p.ok \in BOOLEAN /\ p.msg \in Nat
    <3>1. 1 \in 1 .. ws_ /\ 0 \in Nat BY <2>2
    <3> QED BY <2>1, <3>1, Zenon
  <2> QED BY ONLY <2>2, <2>3, <2>4, <2>5, <2>6, <2>7, <2>8 DEF TypeOK
<1>2. Writes = {} /\ AtWrite = {} /\ Reads = {}
  BY ThreadSet DEF Writes, AtWrite, Reads
<1>3. Sending
  BY <1>2 DEF Sending, OneWriter, Queued, Popped, WrittenLast, AboutToWrite, SentOn
<1>4. pc["io"] = "run" BY ThreadSet
<1>5. OneAttempt
  <2>1. Attempts = pending BY DEF Attempts
  <2> QED BY <1>4, <2>1 DEF OneAttempt, ReConnecting
<1>6. Stopping /\ OneRead BY <1>2, <1>4 DEF Stopping, OneRead
<1> QED BY <1>1, <1>3, <1>5, <1>6 DEF IInv, Connecting

-----------------------------------------------------------------------------
(* What most steps leave as it is.                                         *)

LEMMA Moves ==
    ASSUME TypeOK, NEW t \in Threads, NEW from, NEW to \in Steps, Goes(t, from, to)
    PROVE  /\ pc \in [Threads -> Steps] /\ pc' \in [Threads -> Steps]
           /\ pc[t] = from /\ pc'[t] = to
           /\ \A u \in Threads : u # t => pc'[u] = pc[u]
BY DEF TypeOK, Goes, Steps

LEMMA TypesKept ==
    ASSUME TypeOK
    PROVE  /\ UNCHANGED <<ready_, stop_, closed, m_write_in_progress>> => FlagTypes'
           /\ UNCHANGED <<ws_, stream, failures>> => ConnTypes'
           /\ UNCHANGED <<m_send_queue, pushes, written>> => QueueTypes'
           /\ UNCHANGED <<ws_, pending>> => PendingTypes'
           /\ FlagTypes' /\ ConnTypes' /\ QueueTypes' /\ ThreadTypes' /\ PendingTypes' => TypeOK'
<1>1. FlagTypes /\ ConnTypes /\ QueueTypes /\ PendingTypes BY TypeParts
<1>2. UNCHANGED <<ready_, stop_, closed, m_write_in_progress>> => FlagTypes'
  BY <1>1, Zenon DEF FlagTypes
<1>3. UNCHANGED <<ws_, stream, failures>> => ConnTypes' BY <1>1, Zenon DEF ConnTypes
<1>4. UNCHANGED <<m_send_queue, pushes, written>> => QueueTypes' BY <1>1, Zenon DEF QueueTypes
<1>5. UNCHANGED <<ws_, pending>> => PendingTypes' BY <1>1, Zenon DEF PendingTypes
<1>6. FlagTypes' /\ ConnTypes' /\ QueueTypes' /\ ThreadTypes' /\ PendingTypes' => TypeOK'
  BY TypeParts, PTL
<1> QED BY <1>2, <1>3, <1>4, <1>5, <1>6, Zenon

LEMMA OpFields ==
    ASSUME NEW op, NEW m
    PROVE  Op(op, m).op = op /\ Op(op, m).on = ws_ /\ Op(op, m).msg = m
           /\ Op(op, m).ok \in BOOLEAN
BY DEF Op

\* A step that neither begins nor ends a write.
LEMMA SendingKept ==
    ASSUME Sending, UNCHANGED <<sendVars, written>>, Writes' = Writes,
           \A t \in Threads : pc[t] \in AtWriteSteps \/ pc'[t] \in AtWriteSteps =>
                                  pc'[t] = pc[t] /\ local'[t] = local[t],
           \A t \in Threads : pc'[t] = "push" => local'[t] # 0
    PROVE  Sending'
<1>0. UNCHANGED <<m_send_queue, m_write_in_progress, pushes, written>> BY DEF sendVars
<1>1. AtWrite' = AtWrite BY DEF AtWrite, AtWriteSteps
<1>2. OneWriter' BY <1>0, <1>1 DEF Sending, OneWriter
<1>3. Queued' /\ WrittenLast' BY <1>0 DEF Sending, Queued, WrittenLast, Popped
<1>4. AboutToWrite' /\ SentOn'
  BY <1>0 DEF Sending, AboutToWrite, SentOn, Popped, AtWriteSteps
<1> QED BY <1>2, <1>3, <1>4 DEF Sending

\* A step that neither makes nor loses a connection.
SameConnection == UNCHANGED <<ws_, stream, ready_, stop_>>
FewerReads == Attempts' = Attempts /\ Reads' \subseteq Reads
NoWritesBegun ==
    \A p \in Attempts :
        /\ \A t \in Threads : pc'[t] # "async_write"
        /\ p.op = "handshake" =>
               pc'["io"] # "clear_flag" /\ \A q \in pending' : q.op \notin {"read", "write"}

LEMMA ConnectingKept ==
    ASSUME Connecting, SameConnection, FewerReads, NoWritesBegun,
           \/ pc'["io"] = pc["io"]
           \/ pc["io"] \notin ReConnectSteps /\ pc'["io"] \notin ReConnectSteps
    PROVE  Connecting'
<1> USE DEF SameConnection, FewerReads, NoWritesBegun
<1>1. ReConnecting' <=> ReConnecting BY DEF ReConnecting, ReConnectSteps
<1>2. OneAttempt' BY <1>1 DEF Connecting, OneAttempt
<1>3. Stopping' BY DEF Connecting, Stopping, ReConnectSteps
<1>4. OneRead'
  BY DEF Connecting, OneRead, ReConnectSteps
<1> QED BY <1>2, <1>3, <1>4 DEF Connecting

-----------------------------------------------------------------------------
(* send and do_write.                                                      *)

\* Nobody is about to write, and io is not in re_connect, if t goes from run or push.
LEMMA SendStep == ASSUME IInv, NEW t \in Senders, Send(t) PROVE IInv'
<1>0. t \in Threads /\ t # "io" /\ "io" \in Threads /\ TypeOK BY ThreadSet DEF IInv
<1>1. Goes(t, "run", "push") BY DEF Send
<1>2. UNCHANGED <<ws_, stream, failures, ready_, stop_, closed, m_send_queue, m_write_in_progress,
                  pushes, pending, written>>
  BY DEF Send, connVars, flagVars, sendVars, opVars
<1>3. ReadyStream \in Nat \ {0}
  BY DEF Send, ReadyStream, IInv, TypeOK, Connecting, Stopping
<1>4. /\ local' \in [Threads -> Nat] /\ local'[t] = ReadyStream
      /\ \A u \in Threads : u # t => local'[u] = local[u]
  BY <1>0, <1>3 DEF Send, TypeOK
<1>5. /\ pc \in [Threads -> Steps] /\ pc' \in [Threads -> Steps] /\ pc[t] = "run" /\ pc'[t] = "push"
      /\ \A u \in Threads : u # t => pc'[u] = pc[u]
  BY <1>0, <1>1, Moves DEF Steps
<1>6. TypeOK' BY <1>0, <1>2, <1>4, <1>5, TypesKept DEF ThreadTypes
<1>7. Sending'
  <2>1. UNCHANGED <<sendVars, written>> /\ Writes' = Writes BY <1>2 DEF sendVars, Writes
  <2>2. Sending BY DEF IInv
  <2> QED BY <1>3, <1>4, <1>5, <2>1, <2>2, SendingKept DEF AtWriteSteps, Sending, SentOn
<1>8. Connecting'
  <2>1. Connecting BY DEF IInv
  <2>2. SameConnection /\ FewerReads BY <1>2 DEF SameConnection, FewerReads, Attempts, Reads
  <2>3. NoWritesBegun BY <1>0, <1>2, <1>5, <2>1 DEF Connecting, OneAttempt, NoWritesBegun
  <2> QED BY <1>0, <1>5, <2>1, <2>2, <2>3, ConnectingKept
<1> QED BY <1>6, <1>7, <1>8 DEF IInv

LEMMA PushStep == ASSUME IInv, NEW t \in Senders, Push(t) PROVE IInv'
<1>0. t \in Threads /\ t # "io" /\ "io" \in Threads /\ TypeOK BY ThreadSet DEF IInv
<1> DEFINE to == IF m_write_in_progress THEN "run" ELSE "do_write"
           e == [id |-> pushes + 1, on |-> local[t]]
<1>1. Goes(t, "push", to) BY DEF Push
<1>2. /\ UNCHANGED <<ws_, stream, failures, ready_, stop_, closed, pending, written, local>>
      /\ m_send_queue' = Append(m_send_queue, e) /\ pushes' = pushes + 1
      /\ m_write_in_progress' = TRUE
  BY DEF Push, connVars, flagVars, opVars
<1>3. /\ pc \in [Threads -> Steps] /\ pc' \in [Threads -> Steps] /\ pc[t] = "push" /\ pc'[t] = to
      /\ \A u \in Threads : u # t => pc'[u] = pc[u]
  <2>1. to \in Steps BY DEF Steps
  <2> HIDE DEF to
  <2> QED BY <1>0, <1>1, <2>1, Moves
<1>4. m_send_queue \in Seq(Message) /\ pushes \in Nat /\ e \in Message /\ Len(m_send_queue) \in Nat
  <2>1. local[t] \in Nat \ {0} /\ pushes + 1 \in Nat \ {0}
    BY <1>0, <1>3 DEF IInv, Sending, SentOn, TypeOK
  <2> QED BY <2>1 DEF IInv, TypeOK, Message
<1>e. e.id = pushes + 1 OBVIOUS
<1> HIDE DEF e, to
<1>5. /\ m_send_queue' \in Seq(Message) /\ m_send_queue' # <<>>
      /\ Len(m_send_queue') = Len(m_send_queue) + 1
      /\ \A k \in 1 .. Len(m_send_queue) : m_send_queue'[k] = m_send_queue[k]
      /\ m_send_queue'[Len(m_send_queue) + 1] = e
  BY <1>2, <1>4, Pushing
<1>6. Popped' = Popped /\ Popped \in Int BY <1>2, <1>4, <1>5 DEF Popped
<1>7. TypeOK'
  <2>1. FlagTypes' BY <1>0, <1>2, TypeParts, Zenon DEF FlagTypes
  <2>2. QueueTypes' BY <1>0, <1>2, <1>4, <1>5, TypeParts DEF QueueTypes
  <2>3. ThreadTypes' BY <1>0, <1>2, <1>3, TypeParts DEF ThreadTypes
  <2> QED BY <1>0, <1>2, <2>1, <2>2, <2>3, TypesKept
<1>8. Writes' = Writes BY <1>2 DEF Writes
<1>9. OneWriter'
  <2>1. CASE m_write_in_progress
    <3>1. AtWrite' = AtWrite BY <1>0, <1>3, <2>1 DEF AtWrite, to
    <3> QED BY <1>2, <1>8, <2>1, <3>1 DEF IInv, Sending, OneWriter
  <2>2. CASE ~m_write_in_progress
    <3>1. Writes = {} /\ AtWrite = {} BY <2>2 DEF IInv, Sending, OneWriter
    <3>2. AtWrite' = {t} BY <1>0, <1>3, <2>2, <3>1 DEF AtWrite, to
    <3> QED BY <1>2, <1>8, <3>1, <3>2 DEF OneWriter
  <2> QED BY <2>1, <2>2
<1>10. Queued'
  <2>1. Len(m_send_queue') <= pushes'
    BY <1>2, <1>4, <1>5 DEF IInv, Sending, Queued
  <2>2. ASSUME NEW k \in 1 .. Len(m_send_queue') PROVE m_send_queue'[k].id = Popped + k
    <3>1. CASE k \in 1 .. Len(m_send_queue)
      BY <1>5, <3>1 DEF IInv, Sending, Queued
    <3>2. CASE k = Len(m_send_queue) + 1 BY <1>e, <1>4, <1>5, <3>2 DEF Popped
    <3> QED BY <1>4, <1>5, <3>1, <3>2
  <2> QED BY <1>6, <2>1, <2>2 DEF Queued
<1>11. WrittenLast'
  BY <1>2, <1>5, <1>6, <1>8 DEF IInv, Sending, WrittenLast
<1>12. AboutToWrite' /\ SentOn'
  BY <1>2, <1>3, <1>5, <1>6 DEF IInv, Sending, AboutToWrite, SentOn, to
<1>13. Connecting'
  <2>1. Connecting BY DEF IInv
  <2>2. SameConnection /\ FewerReads BY <1>2 DEF SameConnection, FewerReads, Attempts, Reads
  <2>3. NoWritesBegun BY <1>0, <1>2, <1>3, <2>1 DEF Connecting, OneAttempt, NoWritesBegun, to
  <2> QED BY <1>0, <1>3, <2>1, <2>2, <2>3, ConnectingKept
<1> QED BY <1>7, <1>9, <1>10, <1>11, <1>12, <1>13 DEF IInv, Sending

\* The thread in do_write is the only one that writes.
LEMMA OnlyOne ==
    ASSUME IInv, NEW t \in Threads, pc[t] \in AtWriteSteps
    PROVE  AtWrite = {t} /\ Writes = {} /\ m_write_in_progress
BY DEF IInv, Sending, OneWriter, AtWrite, AtWriteSteps

LEMMA StopWritingStep == ASSUME IInv, NEW t \in Threads, StopWriting(t) PROVE IInv'
<1>0. TypeOK BY DEF IInv
<1>1. Goes(t, "do_write", "run") BY DEF StopWriting
<1>2. /\ UNCHANGED <<ws_, stream, failures, ready_, stop_, closed, m_send_queue, pushes, pending,
                     written, local>>
      /\ m_write_in_progress' = FALSE
  BY DEF StopWriting, connVars, flagVars, opVars
<1>3. /\ pc' \in [Threads -> Steps] /\ pc[t] = "do_write" /\ pc'[t] = "run"
      /\ \A u \in Threads : u # t => pc'[u] = pc[u]
  BY <1>0, <1>1, Moves DEF Steps
<1>4. AtWrite = {t} /\ Writes = {} BY <1>3, OnlyOne DEF AtWriteSteps
<1>5. AtWrite' = {} BY <1>3, <1>4 DEF AtWrite
<1>6. Writes' = {} BY <1>2, <1>4 DEF Writes
<1>7. TypeOK'
  <2>1. FlagTypes' BY <1>0, <1>2, TypeParts, Zenon DEF FlagTypes
  <2>2. ThreadTypes' BY <1>0, <1>2, <1>3, TypeParts DEF ThreadTypes
  <2> QED BY <1>0, <1>2, <2>1, <2>2, TypesKept
<1>8. Sending'
  <2>1. OneWriter' BY <1>2, <1>5, <1>6 DEF OneWriter
  <2>2. Queued' /\ WrittenLast'
    BY <1>2, <1>4, <1>6 DEF IInv, Sending, Queued, WrittenLast, Popped
  <2>3. AboutToWrite' /\ SentOn'
    BY <1>2, <1>3 DEF IInv, Sending, AboutToWrite, SentOn, Popped
  <2> QED BY <2>1, <2>2, <2>3 DEF Sending
<1>9. Connecting'
  <2>1. Connecting BY DEF IInv
  <2>2. SameConnection /\ FewerReads BY <1>2 DEF SameConnection, FewerReads, Attempts, Reads
  <2>3. NoWritesBegun BY ThreadSet, <1>2, <1>3, <2>1 DEF Connecting, OneAttempt, NoWritesBegun
  <2> QED BY ThreadSet, <1>3, <2>1, <2>2, <2>3, ConnectingKept DEF ReConnectSteps
<1> QED BY <1>7, <1>8, <1>9 DEF IInv

LEMMA TakeFrontStep == ASSUME IInv, NEW t \in Threads, TakeFront(t) PROVE IInv'
<1>0. TypeOK BY DEF IInv
<1>1. Goes(t, "do_write", "async_write") BY DEF TakeFront
<1>2. /\ UNCHANGED <<ws_, stream, failures, ready_, stop_, closed, m_send_queue,
                     m_write_in_progress, pushes, pending, written>>
      /\ m_send_queue # <<>> /\ ready_
      /\ local' = [local EXCEPT ![t] = Head(m_send_queue).id]
  BY DEF TakeFront, connVars, flagVars, sendVars, opVars
<1>3. /\ pc' \in [Threads -> Steps] /\ pc[t] = "do_write" /\ pc'[t] = "async_write"
      /\ \A u \in Threads : u # t => pc'[u] = pc[u]
  BY <1>0, <1>1, Moves DEF Steps
<1>4. AtWrite = {t} /\ Writes = {} BY <1>3, OnlyOne DEF AtWriteSteps
<1>5. AtWrite' = {t} BY <1>3, <1>4 DEF AtWrite
<1>6. Writes' = {} BY <1>2, <1>4 DEF Writes
<1>7. Head(m_send_queue).id = Popped + 1 /\ Head(m_send_queue).id \in Nat
  <2>1. m_send_queue \in Seq(Message) BY <1>0, TypeParts DEF QueueTypes
  <2>2. /\ Head(m_send_queue) = m_send_queue[1] /\ Len(m_send_queue) > 0
        /\ Head(m_send_queue) \in Message /\ Len(m_send_queue) \in Nat
    BY <1>2, <2>1, Popping
  <2>3. 1 \in 1 .. Len(m_send_queue) BY <2>2
  <2> QED BY <2>2, <2>3 DEF IInv, Sending, Queued, Message
<1>8. /\ local' \in [Threads -> Nat] /\ local'[t] = Popped + 1
      /\ \A u \in Threads : u # t => local'[u] = local[u]
  BY <1>0, <1>2, <1>7 DEF TypeOK
<1>9. TypeOK' BY <1>0, <1>2, <1>3, <1>8, TypesKept DEF ThreadTypes
<1>10. Sending'
  <2>1. OneWriter' BY <1>2, <1>4, <1>5, <1>6 DEF OneWriter, IInv, Sending
  <2>2. Queued' /\ WrittenLast' /\ Popped' = Popped
    BY <1>2, <1>4, <1>6 DEF IInv, Sending, Queued, WrittenLast, Popped
  <2>3. AboutToWrite' /\ SentOn'
    BY <1>2, <1>3, <1>8, <2>2 DEF IInv, Sending, AboutToWrite, SentOn
  <2> QED BY <2>1, <2>2, <2>3 DEF Sending
<1>11. Connecting'
  <2>1. Connecting /\ Attempts = {} BY <1>2 DEF IInv, Connecting, OneAttempt
  <2>2. SameConnection /\ FewerReads BY <1>2 DEF SameConnection, FewerReads, Attempts, Reads
  <2>3. NoWritesBegun BY <2>1 DEF NoWritesBegun
  <2> QED BY ThreadSet, <1>3, <2>1, <2>2, <2>3, ConnectingKept DEF ReConnectSteps
<1> QED BY <1>9, <1>10, <1>11 DEF IInv

LEMMA AsyncWriteStep == ASSUME IInv, NEW t \in Threads, AsyncWrite(t) PROVE IInv'
<1>0. TypeOK BY DEF IInv
<1> DEFINE w == Op("write", local[t])
<1>1. Goes(t, "async_write", "run") BY DEF AsyncWrite
<1>2. /\ UNCHANGED <<ws_, stream, failures, ready_, stop_, closed, m_send_queue,
                     m_write_in_progress, pushes>>
      /\ pending' = pending \cup {w} /\ written' = local[t]
      /\ local' = [local EXCEPT ![t] = 0]
  BY DEF AsyncWrite, connVars, flagVars, sendVars
<1>3. /\ pc' \in [Threads -> Steps] /\ pc[t] = "async_write" /\ pc'[t] = "run"
      /\ \A u \in Threads : u # t => pc'[u] = pc[u]
  BY <1>0, <1>1, Moves DEF Steps
<1>w. w.op = "write" /\ w.on = ws_ /\ w.msg = local[t] /\ w.ok \in BOOLEAN BY OpFields
<1> HIDE DEF w
<1>4. AtWrite = {t} /\ Writes = {} /\ m_write_in_progress BY <1>3, OnlyOne DEF AtWriteSteps
<1>5. AtWrite' = {} BY <1>3, <1>4 DEF AtWrite
<1>6. Writes' = {w} BY <1>2, <1>4, <1>w DEF Writes
<1>7. m_send_queue # <<>> /\ local[t] = Popped + 1 /\ Popped' = Popped
  BY <1>2, <1>3 DEF IInv, Sending, AboutToWrite, Popped
<1>8. /\ local' \in [Threads -> Nat]
      /\ \A u \in Threads : u # t => local'[u] = local[u]
  BY <1>0, <1>2 DEF TypeOK
<1>9. TypeOK'
  <2>1. ThreadTypes' BY <1>3, <1>8 DEF ThreadTypes
  <2>2. QueueTypes' BY <1>0, <1>2, TypeParts DEF QueueTypes, TypeOK
  <2>3. PendingTypes'
    <3>1. PendingTypes BY <1>0, TypeParts
    <3>2. w.msg \in Nat /\ w.on \in 1 .. ws_ BY <1>0, <1>w DEF TypeOK
    <3>3. ws_' = ws_ BY <1>2
    <3> QED BY <1>2, <1>w, <3>1, <3>2, <3>3, Zenon DEF PendingTypes
  <2> QED BY <1>0, <1>2, <2>1, <2>2, <2>3, TypesKept
<1>10. Sending'
  <2>1. OneWriter' BY <1>2, <1>4, <1>5, <1>6 DEF OneWriter
  <2>2. Queued' BY <1>2, <1>7 DEF IInv, Sending, Queued
  <2>3. WrittenLast' BY <1>2, <1>6, <1>7, <1>w DEF WrittenLast
  <2>4. AboutToWrite' /\ SentOn'
    BY <1>2, <1>3, <1>7, <1>8 DEF IInv, Sending, AboutToWrite, SentOn
  <2> QED BY <2>1, <2>2, <2>3, <2>4 DEF Sending
<1>11. Connecting'
  <2>1. Connecting /\ Attempts = {} BY <1>3 DEF IInv, Connecting, OneAttempt
  <2>2. SameConnection /\ FewerReads
    BY <1>2, <1>w DEF SameConnection, FewerReads, Attempts, Reads
  <2>3. NoWritesBegun BY <2>1 DEF NoWritesBegun
  <2> QED BY ThreadSet, <1>3, <2>1, <2>2, <2>3, ConnectingKept DEF ReConnectSteps
<1> QED BY <1>9, <1>10, <1>11 DEF IInv

-----------------------------------------------------------------------------
(* on_write and on_read.                                                   *)

\* Either on_write: the one in front is popped, and io goes on at do_write or clear_flag.
LEMMA WriteEndsStep ==
    ASSUME IInv, NEW p \in pending, NEW to \in {"do_write", "clear_flag"},
           Handles(p, "write", to), WriteEnds(p)
    PROVE  IInv'
<1>0. TypeOK /\ "io" \in Threads BY ThreadSet DEF IInv
<1>1. Goes("io", "run", to) /\ p.op = "write" BY DEF Handles
<1>2. /\ UNCHANGED <<ws_, stream, failures, ready_, stop_, closed, m_write_in_progress, pushes,
                     written, local>>
      /\ pending' = pending \ {p}
      /\ m_send_queue' = IF m_send_queue = <<>> THEN <<>> ELSE Tail(m_send_queue)
  BY DEF WriteEnds, connVars, flagVars
<1>3. /\ pc' \in [Threads -> Steps] /\ pc["io"] = "run" /\ pc'["io"] = to
      /\ \A u \in Threads : u # "io" => pc'[u] = pc[u]
  <2>1. to \in Steps BY DEF Steps
  <2> QED BY <1>0, <1>1, <2>1, Moves
<1>4. Writes = {p} /\ AtWrite = {} /\ m_write_in_progress
  BY <1>1 DEF IInv, Sending, OneWriter, Writes
<1>5. AtWrite' = {"io"} BY <1>0, <1>3, <1>4 DEF AtWrite
<1>6. Writes' = {} BY <1>2, <1>4 DEF Writes
<1>7. /\ m_send_queue # <<>> /\ written = Popped + 1
      /\ Popped \in Int /\ written \in Nat /\ pushes \in Nat
      /\ m_send_queue \in Seq(Message)
  BY <1>0, <1>4, TypeParts DEF IInv, Sending, WrittenLast, QueueTypes, Popped
<1>8. /\ m_send_queue' = Tail(m_send_queue) /\ m_send_queue' \in Seq(Message)
      /\ Len(m_send_queue) \in Nat
      /\ Len(m_send_queue') = Len(m_send_queue) - 1 /\ Len(m_send_queue) > 0
      /\ \A k \in 1 .. Len(m_send_queue) - 1 : m_send_queue'[k] = m_send_queue[k + 1]
  BY <1>2, <1>7, Popping
<1>9. Popped' = Popped + 1 BY <1>2, <1>7, <1>8 DEF Popped
<1>10. TypeOK'
  <2>1. ThreadTypes' BY <1>0, <1>2, <1>3, TypeParts DEF ThreadTypes
  <2>2. QueueTypes' BY <1>2, <1>7, <1>8 DEF QueueTypes
  <2>3. PendingTypes' BY <1>0, <1>2, TypeParts, Zenon DEF PendingTypes
  <2> QED BY <1>0, <1>2, <2>1, <2>2, <2>3, TypesKept
<1>11. Sending'
  <2>1. OneWriter' BY <1>2, <1>4, <1>5, <1>6 DEF OneWriter
  <2>2. Queued'
    <3>1. Len(m_send_queue') <= pushes'
      BY <1>2, <1>7, <1>8 DEF IInv, Sending, Queued
    <3>2. ASSUME NEW k \in 1 .. Len(m_send_queue') PROVE m_send_queue'[k].id = Popped + 1 + k
      <4>1. k + 1 \in 1 .. Len(m_send_queue) /\ m_send_queue'[k] = m_send_queue[k + 1]
        BY <1>8
      <4>2. m_send_queue[k + 1].id = Popped + (k + 1) BY <4>1 DEF IInv, Sending, Queued
      <4> QED BY <1>7, <4>1, <4>2
    <3> QED BY <1>9, <3>1, <3>2 DEF Queued
  <2>3. WrittenLast' BY <1>2, <1>6, <1>7, <1>9 DEF WrittenLast
  <2>4. AboutToWrite' /\ SentOn'
    BY <1>2, <1>3, <1>4 DEF IInv, Sending, AboutToWrite, SentOn, AtWrite
  <2> QED BY <2>1, <2>2, <2>3, <2>4 DEF Sending
<1>12. Connecting'
  <2>1. Connecting BY DEF IInv
  <2>2. SameConnection /\ FewerReads
    BY <1>1, <1>2 DEF SameConnection, FewerReads, Attempts, Reads
  <2>3. \A q \in Attempts : q.op # "handshake"
    BY <1>1, <2>1 DEF Connecting, OneAttempt
  <2>4. NoWritesBegun BY <1>0, <1>3, <2>1, <2>3 DEF Connecting, OneAttempt, NoWritesBegun
  <2>5. pc["io"] \notin ReConnectSteps /\ pc'["io"] \notin ReConnectSteps
    BY <1>3 DEF ReConnectSteps
  <2> QED BY <2>1, <2>2, <2>4, <2>5, ConnectingKept
<1> QED BY <1>10, <1>11, <1>12 DEF IInv

\* To run while stop_ is set, else to re_connect: then there is no attempt.
LEMMA ClearFlagStep == ASSUME IInv, ClearFlag PROVE IInv'
<1>0. TypeOK /\ "io" \in Threads BY ThreadSet DEF IInv
<1> DEFINE to == IF stop_ THEN "run" ELSE "replace"
<1>1. Goes("io", "clear_flag", to) BY DEF ClearFlag
<1>2. /\ UNCHANGED <<ws_, stream, failures, ready_, stop_, closed, m_send_queue, pushes, pending,
                     written, local>>
      /\ m_write_in_progress' = FALSE
  BY DEF ClearFlag, connVars, flagVars, opVars
<1>t. to \in Steps BY DEF Steps
<1>r. /\ stop_ => to = "run"
      /\ ~stop_ => to = "replace"
  OBVIOUS
<1> HIDE DEF to
<1>3. /\ pc' \in [Threads -> Steps] /\ pc["io"] = "clear_flag" /\ pc'["io"] = to
      /\ \A u \in Threads : u # "io" => pc'[u] = pc[u]
  BY <1>0, <1>1, <1>t, Moves
<1>4. AtWrite = {"io"} /\ Writes = {} BY <1>0, <1>3, OnlyOne DEF AtWriteSteps
<1>n. to \in {"run", "replace"} BY <1>r
<1>5. AtWrite' = {} BY <1>3, <1>4, <1>n DEF AtWrite
<1>6. Writes' = {} BY <1>2, <1>4 DEF Writes
<1>7. TypeOK'
  <2>1. FlagTypes' BY <1>0, <1>2, TypeParts, Zenon DEF FlagTypes
  <2>2. ThreadTypes' BY <1>0, <1>2, <1>3, TypeParts DEF ThreadTypes
  <2> QED BY <1>0, <1>2, <2>1, <2>2, TypesKept
<1>8. Sending'
  <2>1. OneWriter' BY <1>2, <1>5, <1>6 DEF OneWriter
  <2>2. Queued' /\ WrittenLast'
    BY <1>2, <1>4, <1>6 DEF IInv, Sending, Queued, WrittenLast, Popped
  <2>3. AboutToWrite' /\ SentOn'
    BY <1>2, <1>3, <1>n DEF IInv, Sending, AboutToWrite, SentOn, Popped
  <2> QED BY <2>1, <2>2, <2>3 DEF Sending
<1>9. Connecting'
  <2>1. Connecting BY DEF IInv
  <2>2. SameConnection /\ FewerReads BY <1>2 DEF SameConnection, FewerReads, Attempts, Reads
  <2>3. CASE stop_
    <3>1. NoWritesBegun
      BY <1>0, <1>2, <1>3, <1>r, <2>1, <2>3 DEF Connecting, OneAttempt, NoWritesBegun
    <3>2. pc["io"] \notin ReConnectSteps /\ pc'["io"] \notin ReConnectSteps
      BY <1>3, <1>r, <2>3 DEF ReConnectSteps
    <3> QED BY <2>1, <2>2, <3>1, <3>2, ConnectingKept
  <2>4. CASE ~stop_
    <3>1. Attempts = {} BY <1>3, <2>1, <2>4 DEF Connecting, OneAttempt
    <3>2. OneAttempt' BY <2>2, <3>1 DEF OneAttempt, FewerReads
    <3>3. Stopping' /\ OneRead'
      BY <1>2, <1>3, <1>r, <2>1, <2>2, <2>4 DEF Connecting, Stopping, OneRead, FewerReads
    <3> QED BY <3>2, <3>3 DEF Connecting
  <2> QED BY <2>3, <2>4
<1> QED BY <1>7, <1>8, <1>9 DEF IInv

\* The other steps of io write nothing.
IoElsewhere(from, to) ==
    /\ Goes("io", from, to)
    /\ UNCHANGED <<sendVars, written, local>>
    /\ Writes' = Writes

LEMMA IoStep ==
    ASSUME IInv, NEW from \in {"run"} \cup ReConnectSteps, NEW to \in {"run"} \cup ReConnectSteps,
           IoElsewhere(from, to)
    PROVE  /\ Sending' /\ ThreadTypes' /\ QueueTypes'
           /\ m_write_in_progress' = m_write_in_progress
           /\ pc["io"] = from /\ pc'["io"] = to
           /\ \A t \in Threads : t # "io" => pc'[t] = pc[t]
           /\ \A t \in Threads : pc'[t] = "async_write" => pc[t] = "async_write"
<1> USE DEF IoElsewhere
<1>0. TypeOK /\ "io" \in Threads BY ThreadSet DEF IInv
<1>1. /\ UNCHANGED <<m_send_queue, m_write_in_progress, pushes, written, local>>
  BY DEF sendVars
<1>2. /\ pc' \in [Threads -> Steps] /\ pc["io"] = from /\ pc'["io"] = to
      /\ \A u \in Threads : u # "io" => pc'[u] = pc[u]
  <2>1. to \in Steps BY DEF Steps, ReConnectSteps
  <2> QED BY <1>0, <2>1, Moves
<1>3. from \notin AtWriteSteps /\ to \notin AtWriteSteps /\ to # "push"
  BY DEF AtWriteSteps, ReConnectSteps
<1>4. Sending'
  <2>1. Sending BY DEF IInv
  <2>2. \A t \in Threads : pc[t] \in AtWriteSteps \/ pc'[t] \in AtWriteSteps =>
                               pc'[t] = pc[t] /\ local'[t] = local[t]
    BY <1>1, <1>2, <1>3
  <2>3. \A t \in Threads : pc'[t] = "push" => local'[t] # 0
    BY <1>1, <1>2, <1>3, <2>1 DEF Sending, SentOn
  <2> QED BY <2>1, <2>2, <2>3, SendingKept
<1>5. ThreadTypes' BY <1>0, <1>1, <1>2, TypeParts DEF ThreadTypes
<1>6. QueueTypes' BY <1>0, <1>1, TypesKept
<1>7. to # "async_write" BY <1>3 DEF AtWriteSteps
<1> QED BY <1>0, <1>1, <1>2, <1>4, <1>5, <1>6, <1>7

\* A read that ends well is followed by the next one of the same stream.
LEMMA OnReadStep == ASSUME IInv, NEW p \in pending, OnRead(p) PROVE IInv'
<1>0. TypeOK /\ Connecting /\ "io" \in Threads BY ThreadSet DEF IInv
<1> DEFINE r == Op("read", 0)
<1>r. r.op = "read" /\ r.on = ws_ /\ r.msg = 0 /\ r.ok \in BOOLEAN BY OpFields
<1> HIDE DEF r
<1>1. /\ UNCHANGED <<ws_, stream, failures, ready_, stop_, closed, sendVars, written, local>>
      /\ pending' = IF stop_ THEN pending \ {p} ELSE (pending \ {p}) \cup {r}
      /\ p.op = "read" /\ Goes("io", "run", "run")
  BY DEF OnRead, Handles, connVars, flagVars, r
<1>2. Writes' = Writes BY <1>1, <1>r DEF Writes
<1>3. IoElsewhere("run", "run") BY <1>1, <1>2 DEF IoElsewhere
<1>4. /\ Sending' /\ ThreadTypes' /\ QueueTypes' /\ m_write_in_progress' = m_write_in_progress
      /\ pc["io"] = "run" /\ pc'["io"] = "run"
      /\ \A t \in Threads : pc'[t] = "async_write" => pc[t] = "async_write"
  BY <1>3, IoStep
<1>5. TypeOK'
  <2>1. PendingTypes'
    <3>1. PendingTypes BY <1>0, TypeParts
    <3>2. r.msg \in Nat /\ r.on \in 1 .. ws_ BY <1>0, <1>r DEF TypeOK
    <3>3. ws_' = ws_ /\ \A q \in pending' : q \in pending \/ q = r BY <1>1
    <3> QED BY <1>r, <3>1, <3>2, <3>3, Zenon DEF PendingTypes
  <2> QED BY <1>0, <1>1, <1>4, <2>1, TypesKept
<1>6. Connecting'
  <2>1. Attempts' = Attempts BY <1>1, <1>r DEF Attempts
  <2>2. CASE stop_
    <3>1. SameConnection /\ FewerReads
      BY <1>1, <2>1, <2>2 DEF SameConnection, FewerReads, Reads
    <3>2. \A q \in Attempts : q.op # "handshake" BY <1>0, <1>1 DEF Connecting, OneAttempt
    <3>3. NoWritesBegun BY <1>0, <1>4, <3>2 DEF Connecting, OneAttempt, NoWritesBegun
    <3> QED BY <1>0, <1>4, <3>1, <3>3, ConnectingKept
  <2>3. CASE ~stop_
    <3>1. Attempts = {} BY <1>0, <1>1, <2>3 DEF Connecting, OneAttempt
    <3>2. p \in Reads /\ \A q \in Reads : q.on = ws_
      BY <1>0, <1>1, <1>4, <2>3 DEF Connecting, OneRead, Reads
    <3>3. Reads = {p} BY <1>0, <3>2 DEF Connecting, OneRead
    <3>4. Reads' = {r} /\ stream # "new"
      BY <1>0, <1>1, <1>r, <2>3, <3>2, <3>3 DEF Reads, Connecting, OneRead
    <3>5. OneAttempt' BY <2>1, <3>1 DEF OneAttempt
    <3>6. Stopping' BY <1>0, <1>1, <1>4 DEF Connecting, Stopping
    <3>7. OneRead' BY <1>1, <1>r, <3>4 DEF OneRead
    <3> QED BY <3>5, <3>6, <3>7 DEF Connecting
  <2> QED BY <2>2, <2>3
<1> QED BY <1>4, <1>5, <1>6 DEF IInv

LEMMA OnReadErrorStep == ASSUME IInv, NEW p \in pending, OnReadError(p) PROVE IInv'
<1>0. TypeOK /\ Connecting /\ "io" \in Threads BY ThreadSet DEF IInv
<1> DEFINE to == IF stop_ THEN "run" ELSE "replace"
<1>1. /\ UNCHANGED <<ws_, stream, failures, ready_, stop_, closed, sendVars, written, local>>
      /\ pending' = pending \ {p}
      /\ p.op = "read" /\ Goes("io", "run", to)
  BY DEF OnReadError, Handles, connVars, flagVars
<1>r. /\ stop_ => to = "run"
      /\ ~stop_ => to = "replace"
      /\ to \in {"run"} \cup ReConnectSteps
  BY DEF ReConnectSteps
<1> HIDE DEF to
<1>2. Writes' = Writes BY <1>1 DEF Writes
<1>3. IoElsewhere("run", to) BY <1>1, <1>2 DEF IoElsewhere
<1>4. /\ Sending' /\ ThreadTypes' /\ QueueTypes' /\ m_write_in_progress' = m_write_in_progress
      /\ pc["io"] = "run" /\ pc'["io"] = to
      /\ \A t \in Threads : pc'[t] = "async_write" => pc[t] = "async_write"
  BY <1>r, <1>3, IoStep
<1>5. TypeOK'
  <2>1. PendingTypes' BY <1>0, <1>1, TypeParts, Zenon DEF PendingTypes
  <2> QED BY <1>0, <1>1, <1>4, <2>1, TypesKept
<1>6. Connecting'
  <2>1. SameConnection /\ FewerReads
    BY <1>1 DEF SameConnection, FewerReads, Attempts, Reads
  <2>2. CASE stop_
    <3>1. \A q \in Attempts : q.op # "handshake" BY <1>0, <1>1 DEF Connecting, OneAttempt
    <3>2. NoWritesBegun BY <1>0, <1>4, <3>1 DEF Connecting, OneAttempt, NoWritesBegun
    <3> QED BY <1>0, <1>4, <1>r, <2>1, <2>2, <3>2, ConnectingKept
  <2>3. CASE ~stop_
    <3>1. Attempts = {} BY <1>0, <1>1, <2>3 DEF Connecting, OneAttempt
    <3>2. OneAttempt' BY <2>1, <3>1 DEF OneAttempt, FewerReads
    <3>3. Stopping' /\ OneRead'
      BY <1>0, <1>1, <1>4, <1>r, <2>1, <2>3 DEF Connecting, Stopping, OneRead, FewerReads
    <3> QED BY <3>2, <3>3 DEF Connecting
  <2> QED BY <2>2, <2>3
<1> QED BY <1>4, <1>5, <1>6 DEF IInv

-----------------------------------------------------------------------------
(* re_connect.                                                             *)

LEMMA ReplaceStep == ASSUME IInv, Replace PROVE IInv'
<1>0. TypeOK /\ Connecting /\ "io" \in Threads BY ThreadSet DEF IInv
<1>1. /\ UNCHANGED <<failures, ready_, stop_, closed, sendVars, pending, written, local>>
      /\ ws_' = ws_ + 1 /\ stream' = "new" /\ Goes("io", "replace", "re_connect")
  BY DEF Replace, flagVars, opVars
<1>2. IoElsewhere("replace", "re_connect") BY <1>1 DEF IoElsewhere, Writes
<1>3. /\ Sending' /\ ThreadTypes' /\ QueueTypes' /\ m_write_in_progress' = m_write_in_progress
      /\ pc["io"] = "replace" /\ pc'["io"] = "re_connect"
  BY <1>2, IoStep DEF ReConnectSteps
<1>4. ws_ \in Nat \ {0} /\ ws_' \in Nat \ {0} /\ ws_' > 1 /\ ws_' > ws_ BY <1>0, <1>1 DEF TypeOK
<1>5. \A q \in pending : q.on \in Nat /\ q.on <= ws_ BY <1>0, <1>4 DEF TypeOK
<1>6. TypeOK'
  <2>1. ConnTypes' BY <1>0, <1>1, <1>4, TypeParts DEF ConnTypes
  <2>2. PendingTypes'
    <3>1. 1 .. ws_ \subseteq 1 .. ws_' BY <1>4
    <3>2. pending' = pending /\ PendingTypes BY <1>0, <1>1, TypeParts
    <3> QED BY <3>1, <3>2, Zenon DEF PendingTypes
  <2> QED BY <1>0, <1>1, <1>3, <2>1, <2>2, TypesKept
<1>7. Connecting'
  <2>1. Attempts = {} BY <1>0, <1>3 DEF Connecting, OneAttempt, ReConnecting
  <2>2. Attempts' = {} BY <1>1, <2>1 DEF Attempts
  <2>3. OneAttempt' BY <2>2 DEF OneAttempt
  <2>4. Stopping' BY <1>1, <1>3, <1>4 DEF Stopping
  <2>5. \A q \in Reads' : q.on # ws_' BY <1>1, <1>4, <1>5 DEF Reads
  <2>6. OneRead' BY <1>3, <2>5 DEF OneRead
  <2> QED BY <2>3, <2>4, <2>6 DEF Connecting
<1> QED BY <1>3, <1>6, <1>7 DEF IInv

LEMMA ReConnectStep == ASSUME IInv, ReConnect PROVE IInv'
<1>0. TypeOK /\ Connecting /\ "io" \in Threads BY ThreadSet DEF IInv
<1>1. /\ UNCHANGED <<ws_, stream, failures, closed, sendVars, pending, written, local>>
      /\ ready_' = FALSE /\ stop_' = TRUE /\ Goes("io", "re_connect", "sleep")
  BY DEF ReConnect, connVars, opVars
<1>2. IoElsewhere("re_connect", "sleep") BY <1>1 DEF IoElsewhere, Writes
<1>3. /\ Sending' /\ ThreadTypes' /\ QueueTypes' /\ m_write_in_progress' = m_write_in_progress
      /\ pc["io"] = "re_connect" /\ pc'["io"] = "sleep"
  BY <1>2, IoStep DEF ReConnectSteps
<1>4. TypeOK'
  <2>1. FlagTypes' BY <1>0, <1>1, <1>3, TypeParts, Zenon DEF FlagTypes
  <2> QED BY <1>0, <1>1, <1>3, <2>1, TypesKept
<1>5. Connecting'
  <2>1. Attempts' = {} BY <1>0, <1>1, <1>3 DEF Connecting, OneAttempt, ReConnecting, Attempts
  <2>2. OneAttempt' BY <2>1 DEF OneAttempt
  <2>3. Stopping' BY <1>0, <1>1, <1>3 DEF Connecting, Stopping
  <2>4. OneRead' BY <1>0, <1>1, <1>3 DEF Connecting, OneRead, Reads
  <2> QED BY <2>2, <2>3, <2>4 DEF Connecting
<1> QED BY <1>3, <1>4, <1>5 DEF IInv

LEMMA RedialStep == ASSUME IInv, Redial PROVE IInv'
<1>0. TypeOK /\ Connecting /\ "io" \in Threads BY ThreadSet DEF IInv
<1> DEFINE a == Op("resolve", 0)
<1>a. a.op = "resolve" /\ a.on = ws_ /\ a.msg = 0 /\ a.ok \in BOOLEAN BY OpFields
<1> HIDE DEF a
<1>1. /\ UNCHANGED <<ws_, stream, failures, ready_, stop_, closed, sendVars, written, local>>
      /\ pending' = pending \cup {a} /\ Goes("io", "sleep", "run")
      /\ \A t \in Senders : pc[t] # "async_write"
  BY DEF Redial, connVars, flagVars, a
<1>2. Writes' = Writes BY <1>1, <1>a DEF Writes
<1>3. IoElsewhere("sleep", "run") BY <1>1, <1>2 DEF IoElsewhere
<1>4. /\ Sending' /\ ThreadTypes' /\ QueueTypes' /\ m_write_in_progress' = m_write_in_progress
      /\ pc["io"] = "sleep" /\ pc'["io"] = "run"
      /\ \A t \in Threads : pc'[t] = "async_write" => pc[t] = "async_write"
  BY <1>3, IoStep DEF ReConnectSteps
<1>5. TypeOK'
  <2>1. PendingTypes'
    <3>1. PendingTypes BY <1>0, TypeParts
    <3>2. a.msg \in Nat /\ a.on \in 1 .. ws_ BY <1>0, <1>a DEF TypeOK
    <3>3. ws_' = ws_ /\ \A q \in pending' : q \in pending \/ q = a BY <1>1
    <3> QED BY <1>a, <3>1, <3>2, <3>3, Zenon DEF PendingTypes
  <2> QED BY <1>0, <1>1, <1>4, <2>1, TypesKept
<1>6. Connecting'
  <2>1. Attempts = {} BY <1>0, <1>4 DEF Connecting, OneAttempt, ReConnecting
  <2>2. Attempts' = {a} BY <1>1, <1>a, <2>1 DEF Attempts
  <2>3. ~ready_' /\ stop_' /\ stream' = "new" BY <1>0, <1>1, <1>4 DEF Connecting, Stopping
  <2>4. \A t \in Threads : pc'[t] # "async_write" BY ThreadSet, <1>1, <1>4
  <2>5. OneAttempt' BY <1>4, <1>a, <2>2, <2>3, <2>4 DEF OneAttempt, ReConnecting
  <2>6. Stopping' BY <1>4, <2>3 DEF Stopping
  <2>7. Reads' = Reads BY <1>1, <1>a DEF Reads
  <2>8. OneRead' BY <1>0, <1>1, <1>4, <2>3, <2>7 DEF Connecting, OneRead
  <2> QED BY <2>5, <2>6, <2>8 DEF Connecting
<1> QED BY <1>4, <1>5, <1>6 DEF IInv

-----------------------------------------------------------------------------
(* The connection attempts.                                                *)

\* The attempt in p is the only one; after its handler it is gone.
LEMMA Attempting ==
    ASSUME IInv, NEW p \in pending, p.op \in {"resolve", "connect", "handshake"}
    PROVE  /\ Attempts = {p} /\ ~ready_ /\ stream = "new" /\ ~ReConnecting
           /\ \A t \in Threads : pc[t] # "async_write"
           /\ p.op # "handshake" => stop_
           /\ p.op = "handshake" => \A q \in pending : q.op \notin {"read", "write"}
<1>1. p \in Attempts BY DEF Attempts
<1> QED BY <1>1 DEF IInv, Connecting, OneAttempt

\* A handler of an attempt that goes on with operation a.
LEMMA GoesOn ==
    ASSUME IInv, NEW p \in pending, NEW a, p.op \in {"resolve", "connect", "handshake"},
           a.op # "write", a.op \in {"connect", "handshake", "read"},
           a.on = ws_, a.msg = 0, a.ok \in BOOLEAN,
           pending' = (pending \ {p}) \cup {a}, Goes("io", "run", "run"),
           UNCHANGED <<ws_, sendVars, written, local>>
    PROVE  /\ Sending' /\ ThreadTypes' /\ QueueTypes' /\ PendingTypes'
           /\ m_write_in_progress' = m_write_in_progress
           /\ pc["io"] = "run" /\ pc'["io"] = "run"
           /\ \A t \in Threads : pc'[t] # "async_write"
           /\ Attempts' = IF a.op = "read" THEN {} ELSE {a}
           /\ Reads' = IF a.op = "read" THEN Reads \cup {a} ELSE Reads
<1>1. Writes' = Writes BY DEF Writes
<1>2. IoElsewhere("run", "run") BY <1>1 DEF IoElsewhere
<1>3. /\ Sending' /\ ThreadTypes' /\ QueueTypes' /\ m_write_in_progress' = m_write_in_progress
      /\ pc["io"] = "run" /\ pc'["io"] = "run"
      /\ \A t \in Threads : pc'[t] # "async_write"
  BY <1>2, IoStep, Attempting
<1>4. PendingTypes'
  <2>1. PendingTypes BY TypeParts DEF IInv
  <2>2. a.msg \in Nat /\ a.on \in 1 .. ws_ BY DEF IInv, TypeOK
  <2>3. ws_' = ws_ /\ \A q \in pending' : q \in pending \/ q = a OBVIOUS
  <2>4. a.op \in {"resolve", "connect", "handshake", "read", "write"} OBVIOUS
  <2> QED BY <2>1, <2>2, <2>3, <2>4, Zenon DEF PendingTypes
<1>5. Attempts = {p} BY Attempting
<1>6. Attempts' = IF a.op = "read" THEN {} ELSE {a} BY <1>5 DEF Attempts
<1>7. Reads' = IF a.op = "read" THEN Reads \cup {a} ELSE Reads BY DEF Reads
<1> QED BY <1>3, <1>4, <1>6, <1>7

LEMMA OnResolvedStep == ASSUME IInv, NEW p \in pending, OnResolved(p) PROVE IInv'
<1>0. TypeOK /\ Connecting BY DEF IInv
<1> DEFINE a == Op("connect", 0)
<1>a. a.op = "connect" /\ a.on = ws_ /\ a.msg = 0 /\ a.ok \in BOOLEAN BY OpFields
<1> HIDE DEF a
<1>1. /\ UNCHANGED <<ws_, stream, failures, ready_, stop_, closed, sendVars, written, local>>
      /\ pending' = (pending \ {p}) \cup {a}
      /\ p.op = "resolve" /\ Goes("io", "run", "run")
  BY DEF OnResolved, Handles, connVars, flagVars, a
<1>2. ~ready_ /\ stream = "new" /\ stop_ BY <1>1, Attempting
<1>3. /\ Sending' /\ ThreadTypes' /\ QueueTypes' /\ PendingTypes'
      /\ m_write_in_progress' = m_write_in_progress
      /\ pc["io"] = "run" /\ pc'["io"] = "run"
      /\ \A t \in Threads : pc'[t] # "async_write"
      /\ Attempts' = {a} /\ Reads' = Reads
  BY <1>1, <1>a, GoesOn
<1>4. TypeOK' BY <1>0, <1>1, <1>3, TypesKept
<1>5. OneAttempt' BY <1>1, <1>2, <1>3, <1>a DEF OneAttempt, ReConnecting
<1>6. Stopping' /\ OneRead' BY <1>0, <1>1, <1>2, <1>3 DEF Connecting, Stopping, OneRead
<1> QED BY <1>3, <1>4, <1>5, <1>6 DEF IInv, Connecting

LEMMA OnConnectedStep == ASSUME IInv, NEW p \in pending, OnConnected(p) PROVE IInv'
<1>0. TypeOK /\ Connecting BY DEF IInv
<1> DEFINE a == Op("handshake", 0)
<1>a. a.op = "handshake" /\ a.on = ws_ /\ a.msg = 0 /\ a.ok \in BOOLEAN BY OpFields
<1> HIDE DEF a
<1>1. /\ UNCHANGED <<ws_, stream, failures, ready_, closed, sendVars, written, local>>
      /\ stop_' = FALSE
      /\ pending' = (pending \ {p}) \cup {a}
      /\ p.op = "connect" /\ Goes("io", "run", "run")
      /\ \A q \in pending : q.op \notin {"read", "write"}
  BY DEF OnConnected, Handles, connVars, a
<1>2. ~ready_ /\ stream = "new" /\ stop_ BY <1>1, Attempting
<1>3. /\ Sending' /\ ThreadTypes' /\ QueueTypes' /\ PendingTypes'
      /\ m_write_in_progress' = m_write_in_progress
      /\ pc["io"] = "run" /\ pc'["io"] = "run"
      /\ \A t \in Threads : pc'[t] # "async_write"
      /\ Attempts' = {a} /\ Reads' = Reads
  BY <1>1, <1>a, GoesOn
<1>4. TypeOK'
  <2>1. FlagTypes' BY <1>0, <1>1, <1>3, TypeParts, Zenon DEF FlagTypes
  <2> QED BY <1>0, <1>1, <1>3, <2>1, TypesKept
<1>5. \A q \in pending' : q.op \notin {"read", "write"} BY <1>1, <1>a
<1>6. OneAttempt' BY <1>1, <1>2, <1>3, <1>5, <1>a DEF OneAttempt, ReConnecting
<1>7. Stopping' BY <1>1, <1>2, <1>3 DEF Stopping
<1>8. OneRead' BY <1>5 DEF OneRead, Reads
<1> QED BY <1>3, <1>4, <1>6, <1>7, <1>8 DEF IInv, Connecting

LEMMA OnReadyStep == ASSUME IInv, NEW p \in pending, OnReady(p) PROVE IInv'
<1>0. TypeOK /\ Connecting BY DEF IInv
<1> DEFINE a == [op |-> "read", on |-> ws_, ok |-> TRUE, msg |-> 0]
<1>a. a.op = "read" /\ a.on = ws_ /\ a.msg = 0 /\ a.ok \in BOOLEAN OBVIOUS
<1> HIDE DEF a
<1>1. /\ UNCHANGED <<ws_, failures, stop_, closed, sendVars, written, local>>
      /\ stream' = "open" /\ ready_' = TRUE
      /\ pending' = (pending \ {p}) \cup {a}
      /\ p.op = "handshake" /\ Goes("io", "run", "run")
  BY DEF OnReady, Handles, a
<1>2. \A q \in pending : q.op \notin {"read", "write"} BY <1>1, Attempting
<1>3. /\ Sending' /\ ThreadTypes' /\ QueueTypes' /\ PendingTypes'
      /\ m_write_in_progress' = m_write_in_progress
      /\ pc["io"] = "run" /\ pc'["io"] = "run"
      /\ Attempts' = {} /\ Reads' = Reads \cup {a}
  BY <1>1, <1>a, GoesOn
<1>4. TypeOK'
  <2>1. FlagTypes' BY <1>0, <1>1, <1>3, TypeParts, Zenon DEF FlagTypes
  <2>2. ConnTypes' BY <1>0, <1>1, TypeParts DEF ConnTypes
  <2> QED BY <1>0, <1>3, <2>1, <2>2, TypesKept
<1>5. OneAttempt' BY <1>3 DEF OneAttempt
<1>6. Stopping' BY <1>1, <1>3 DEF Stopping
<1>7. Reads' = {a} BY <1>2, <1>3 DEF Reads
<1>8. OneRead' BY <1>1, <1>7, <1>a DEF OneRead
<1> QED BY <1>3, <1>4, <1>5, <1>6, <1>8 DEF IInv, Connecting

LEMMA AttemptFailsStep == ASSUME IInv, NEW p \in pending, AttemptFails(p) PROVE IInv'
<1>0. TypeOK /\ Connecting BY DEF IInv
<1>1. /\ UNCHANGED <<ws_, stream, ready_, stop_, closed, sendVars, written, local>>
      /\ failures < MaxFailures /\ failures' = failures + 1
      /\ pending' = pending \ {p}
      /\ p.op \in {"resolve", "connect", "handshake"} /\ Goes("io", "run", "replace")
  BY DEF AttemptFails, Handles, flagVars
<1>2. Writes' = Writes BY <1>1 DEF Writes
<1>3. IoElsewhere("run", "replace") BY <1>1, <1>2 DEF IoElsewhere
<1>4. /\ Sending' /\ ThreadTypes' /\ QueueTypes' /\ m_write_in_progress' = m_write_in_progress
      /\ pc["io"] = "run" /\ pc'["io"] = "replace"
  BY <1>3, IoStep DEF ReConnectSteps
<1>5. TypeOK'
  <2>1. PendingTypes' BY <1>0, <1>1, TypeParts, Zenon DEF PendingTypes
  <2>2. failures' \in 0 .. MaxFailures BY <1>0, <1>1, WsAssumption DEF TypeOK
  <2>3. ConnTypes' BY <1>0, <1>1, <2>2, TypeParts, Zenon DEF ConnTypes
  <2> QED BY <1>0, <1>1, <1>4, <2>1, <2>3, TypesKept
<1>6. Connecting'
  <2>1. Attempts' = {} BY <1>1, Attempting DEF Attempts
  <2>2. OneAttempt' BY <2>1 DEF OneAttempt
  <2>3. Reads' = Reads BY <1>1 DEF Reads
  <2>4. Stopping' /\ OneRead' BY <1>0, <1>1, <1>4, <2>3 DEF Connecting, Stopping, OneRead
  <2> QED BY <2>2, <2>4 DEF Connecting
<1> QED BY <1>4, <1>5, <1>6 DEF IInv

-----------------------------------------------------------------------------
(* The network and the owner.                                              *)

LEMMA OutsideStep == ASSUME IInv, Drop \/ Close PROVE IInv'
<1>0. TypeOK /\ Sending /\ Connecting BY DEF IInv
<1>1. UNCHANGED <<ws_, ready_, m_send_queue, m_write_in_progress, pushes, pending, written, pc,
                  local>>
  BY DEF Drop, Close, flagVars, sendVars, opVars
<1>2. stream' \in {stream, "broken"} /\ (stream = "new" => stream' = "new")
      /\ (stream # "new" => stream' # "new")
  BY <1>0 DEF Drop, Close, TypeOK
<1>3. stop_' = stop_ \/ stop_' = TRUE BY DEF Drop, Close, flagVars
<1>4. FlagTypes'
  <2>1. FlagTypes /\ (closed' = closed \/ closed' = TRUE)
    BY <1>0, TypeParts DEF Drop, Close, flagVars
  <2> QED BY <1>1, <1>3, <2>1, Zenon DEF FlagTypes
<1>5. ConnTypes'
  <2>1. failures' \in 0 .. MaxFailures BY <1>0, WsAssumption DEF Drop, Close, TypeOK
  <2>2. stream' \in {"new", "open", "broken"} BY <1>0, <1>2 DEF TypeOK
  <2> QED BY <1>0, <1>1, <2>1, <2>2, TypeParts, Zenon DEF ConnTypes
<1>6. ThreadTypes' BY <1>0, <1>1, TypeParts, Zenon DEF ThreadTypes
<1>7. TypeOK' BY <1>0, <1>1, <1>4, <1>5, <1>6, TypesKept
<1>8. Writes' = Writes /\ Attempts' = Attempts /\ Reads' = Reads
  BY <1>1 DEF Writes, Attempts, Reads
<1>9. Sending'
  <2>1. UNCHANGED <<sendVars, written>> BY <1>1 DEF sendVars
  <2>2. \A t \in Threads : pc'[t] = "push" => local'[t] # 0 BY <1>0, <1>1 DEF Sending, SentOn
  <2> QED BY <1>0, <1>1, <1>8, <2>1, <2>2, SendingKept
<1>10. OneAttempt' BY <1>0, <1>1, <1>2, <1>3, <1>8 DEF Connecting, OneAttempt, ReConnecting
<1>11. Stopping' BY <1>0, <1>1, <1>2, <1>3 DEF Connecting, Stopping
<1>12. OneRead' BY <1>0, <1>1, <1>2, <1>3, <1>8 DEF Connecting, OneRead
<1> QED BY <1>7, <1>9, <1>10, <1>11, <1>12 DEF IInv, Connecting

-----------------------------------------------------------------------------
(* The theorems.                                                           *)

LEMMA SenderSteps == ASSUME IInv, NEW t \in Senders, Send(t) \/ Sender(t) PROVE IInv'
<1>1. t \in Threads BY ThreadSet
<1> QED BY <1>1, SendStep, PushStep, StopWritingStep, TakeFrontStep, AsyncWriteStep
    DEF Sender, DoWrite

LEMMA HandlerSteps == ASSUME IInv, Handler \/ \E p \in pending : OnRead(p) \/ AttemptFails(p)
                      PROVE IInv'
<1>1. PICK p \in pending : \/ OnWrite(p) \/ OnWriteError(p) \/ OnReadError(p) \/ OnRead(p)
                           \/ OnResolved(p) \/ OnConnected(p) \/ OnReady(p) \/ AttemptFails(p)
  BY DEF Handler
<1>2. CASE OnWrite(p) \/ OnWriteError(p) BY <1>2, WriteEndsStep DEF OnWrite, OnWriteError
<1> QED BY <1>1, <1>2, OnReadErrorStep, OnReadStep, OnResolvedStep, OnConnectedStep, OnReadyStep,
           AttemptFailsStep

\* What the flag, the queue, the attempts and the reads have to do with each other holds always.
THEOREM Invariance == Spec => []IInv
<1>1. ASSUME IInv, [Next]_vars PROVE IInv'
  <2>1. CASE UNCHANGED vars
    <3>1. UNCHANGED <<ws_, stream, failures, ready_, stop_, closed, m_send_queue,
                      m_write_in_progress, pushes, pending, written, pc, local>>
      BY <2>1 DEF vars, connVars, flagVars, sendVars, opVars
    <3> QED BY <1>1, <3>1
        DEF IInv, TypeOK, Sending, OneWriter, Queued, WrittenLast, AboutToWrite, SentOn, Popped,
            Connecting, OneAttempt, Stopping, OneRead, Reads, Writes, AtWrite, Attempts,
            ReConnecting
  <2>2. CASE \E t \in Senders : Send(t) \/ Sender(t) BY <1>1, <2>2, SenderSteps
  <2>3. CASE Io
    <3>1. "io" \in Threads BY ThreadSet
    <3> QED BY <1>1, <2>3, <3>1, ClearFlagStep, ReplaceStep, ReConnectStep, RedialStep,
               StopWritingStep, TakeFrontStep, AsyncWriteStep, HandlerSteps DEF Io, DoWrite
  <2>4. CASE \E p \in pending : OnRead(p) \/ AttemptFails(p) BY <1>1, <2>4, HandlerSteps
  <2>5. CASE Drop \/ Close BY <1>1, <2>5, OutsideStep
  <2> QED BY <1>1, <2>1, <2>2, <2>3, <2>4, <2>5 DEF Next
<1> QED BY InitIInv, <1>1, PTL DEF Spec

\* The variables keep their types: among them, operations are of streams there were, and every
\* message pushed has the number of one.
THEOREM TypeCorrect == Spec => []TypeOK
<1>1. IInv => TypeOK BY DEF IInv
<1> QED BY Invariance, <1>1, PTL

\* For any number of threads, messages and lost connections: one async_write at most, and the
\* flag is cleared by whoever is the last to write (K4_WsSslClient.h:95-103, 134-166).
THEOREM FlagIsOwned == Spec => []FlagOwned
<1>1. IInv => FlagOwned
  <2> SUFFICES ASSUME IInv PROVE FlagOwned OBVIOUS
  <2>1. Cardinality({}) = 0 BY FS_EmptySet
  <2>3. CASE Writes # {}
    <3>1. PICK p \in Writes : Writes = {p} BY <2>3 DEF IInv, Sending, OneWriter
    <3>2. AtWrite = {} /\ m_write_in_progress BY <2>3 DEF IInv, Sending, OneWriter
    <3>3. Cardinality(Writes) = 1 BY <3>1, FS_Singleton, Zenon
    <3>4. Cardinality(AtWrite) = 0 BY <2>1, <3>2
    <3> QED BY <3>2, <3>3, <3>4 DEF FlagOwned
  <2>4. CASE AtWrite # {}
    <3>1. PICK t \in AtWrite : AtWrite = {t} BY <2>4 DEF IInv, Sending, OneWriter
    <3>2. Writes = {} /\ m_write_in_progress BY <2>4 DEF IInv, Sending, OneWriter
    <3>3. Cardinality(AtWrite) = 1 BY <3>1, FS_Singleton, Zenon
    <3>4. Cardinality(Writes) = 0 BY <2>1, <3>2
    <3> QED BY <3>2, <3>3, <3>4 DEF FlagOwned
  <2>5. CASE Writes = {} /\ AtWrite = {}
    <3>1. ~m_write_in_progress BY <2>5 DEF IInv, Sending, OneWriter
    <3>2. Cardinality(Writes) = 0 /\ Cardinality(AtWrite) = 0 BY <2>1, <2>5
    <3> QED BY <3>1, <3>2 DEF FlagOwned
  <2> QED BY <2>3, <2>4, <2>5
<1> QED BY Invariance, <1>1, PTL

\* The pop of on_write removes the message that was written.
THEOREM FrontIsWritten == Spec => []WritesFront
<1>1. IInv => WritesFront
  <2> SUFFICES ASSUME IInv PROVE WritesFront OBVIOUS
  <2>1. m_send_queue # <<>> => Head(m_send_queue).id = Popped + 1
    <3>1. m_send_queue \in Seq(Message) BY TypeParts DEF IInv, QueueTypes
    <3> SUFFICES ASSUME m_send_queue # <<>> PROVE Head(m_send_queue).id = Popped + 1 OBVIOUS
    <3>2. /\ Head(m_send_queue) = m_send_queue[1] /\ Len(m_send_queue) > 0
          /\ Len(m_send_queue) \in Nat
      BY <3>1, Popping
    <3>3. 1 \in 1 .. Len(m_send_queue) BY <3>2
    <3> QED BY <3>2, <3>3 DEF IInv, Sending, Queued
  <2> QED BY <2>1 DEF WritesFront, IInv, Sending, WrittenLast, AboutToWrite
<1> QED BY Invariance, <1>1, PTL

\* At most one attempt and one read, and no attempt beside a reconnect or a client that is
\* ready (re_connect, on_read, on_write and the handlers of connecting).
THEOREM ConnectionIsOne == Spec => []OneConnection
<1>1. IInv => OneConnection
  <2> SUFFICES ASSUME IInv PROVE OneConnection OBVIOUS
  <2>1. ASSUME NEW S, S = {} \/ \E p : S = {p} PROVE Cardinality(S) <= 1
    <3>1. S = {} => Cardinality(S) = 0 BY FS_EmptySet, Zenon
    <3>2. (\E p : S = {p}) => Cardinality(S) = 1 BY FS_Singleton, Zenon
    <3> QED BY <2>1, <3>1, <3>2
  <2>2. Attempts = {} \/ \E p : Attempts = {p} BY DEF IInv, Connecting, OneAttempt
  <2>3. Cardinality(Attempts) <= 1 BY <2>1, <2>2
  <2>4. (ReConnecting => Attempts = {}) /\ (ready_ => Attempts = {})
    BY DEF IInv, Connecting, OneAttempt
  <2> DEFINE R == {p \in pending : p.op = "read" /\ p.on = ws_}
  <2>5. R = {} \/ \E p : R = {p} BY DEF IInv, Connecting, OneRead, Reads
  <2>6. Cardinality(R) <= 1
    <3> HIDE DEF R
    <3> QED BY <2>1, <2>5
  <2> QED BY <2>3, <2>4, <2>6 DEF OneConnection
<1> QED BY Invariance, <1>1, PTL

\* Only do_write begins a write.
LEMMA WritesBegin ==
    ASSUME [Next]_vars
    PROVE  Writes' \subseteq Writes \/ \E t \in Threads : AsyncWrite(t)
<1> USE DEF Writes
<1>0. "io" \in Threads /\ Senders \subseteq Threads BY ThreadSet
<1>1. CASE UNCHANGED vars BY <1>1 DEF vars, opVars
<1>2. CASE \E t \in Senders : Send(t) \/ Push(t) BY <1>2 DEF Send, Push, opVars
<1>3. CASE \E t \in Threads : DoWrite(t) BY <1>3 DEF DoWrite, StopWriting, TakeFront, opVars
<1>4. CASE ClearFlag \/ Replace \/ ReConnect \/ Drop \/ Close
  BY <1>4 DEF ClearFlag, Replace, ReConnect, Drop, Close, opVars
<1>5. CASE Redial BY <1>5, OpFields DEF Redial
<1>6. CASE \E p \in pending : OnWrite(p) \/ OnWriteError(p) \/ OnReadError(p) \/ AttemptFails(p)
  BY <1>6 DEF OnWrite, OnWriteError, WriteEnds, OnReadError, AttemptFails
<1>7. CASE \E p \in pending : OnRead(p) \/ OnResolved(p) \/ OnConnected(p)
  BY <1>7, OpFields DEF OnRead, OnResolved, OnConnected
<1>8. CASE \E p \in pending : OnReady(p) BY <1>8 DEF OnReady
<1> QED BY <1>0, <1>1, <1>2, <1>3, <1>4, <1>5, <1>6, <1>7, <1>8 DEF Next, Sender, Io, Handler

\* Messages leave in the order of the pushes and none twice, whatever connections are lost.
THEOREM OrderOfWrites == Spec => WrittenInOrder
<1>1. ASSUME IInv, [Next]_vars PROVE [\A p \in Writes' \ Writes : p.msg > written]_vars
  <2> SUFFICES ASSUME NEW p \in Writes' \ Writes PROVE p.msg > written OBVIOUS
  <2>1. PICK t \in Threads : AsyncWrite(t) BY <1>1, WritesBegin
  <2>2. pc[t] = "async_write" /\ pending' = pending \cup {Op("write", local[t])}
    BY <2>1 DEF AsyncWrite, Goes
  <2>3. p.msg = local[t] BY <2>2, OpFields DEF Writes
  <2>4. local[t] = Popped + 1 /\ Writes = {}
    BY <1>1, <2>2, OnlyOne DEF IInv, Sending, AboutToWrite, AtWriteSteps
  <2>5. written <= Popped /\ written \in Nat /\ Popped \in Int
    <3>1. m_send_queue \in Seq(Message) /\ pushes \in Nat /\ written \in Nat
      BY <1>1, TypeParts DEF IInv, QueueTypes
    <3>2. Len(m_send_queue) \in Nat BY <3>1
    <3> QED BY <1>1, <2>4, <3>1, <3>2 DEF IInv, Sending, WrittenLast, Popped
  <2> QED BY <2>3, <2>4, <2>5
<1> QED BY Invariance, <1>1, PTL DEF Spec, WrittenInOrder
===============================================================================
