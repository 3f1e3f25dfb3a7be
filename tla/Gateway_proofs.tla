---------------------------- MODULE Gateway_proofs ----------------------------
(***************************************************************************)
(* Proofs about Gateway: its types, and that a connection which is ready   *)
(* and was not closed by the gateway can send and read, for any number of  *)
(* connections.                                                            *)
(***************************************************************************)
EXTENDS Gateway, TLAPS

\* Before the print thread is started there is none, and the mutex is free.
NoPrintYet ==
    opc \in {"constructed", "init_conn_stats", "poll", "print_thread"} => print = "none"

\* The connections from here on were not dialled.
Undialled ==
    /\ opc = "constructed" => c = 1
    /\ \A k \in Conns :
        /\ opc \in {"constructed", "init_conn_stats"} /\ k >= c => io[k] = "none"
        /\ opc = "poll" /\ k > c => io[k] = "none"

\* From on_connected until the next re_connect stop_ is clear, unless close() set it.
ClearSinceConnected ==
    \A k \in Conns :
        /\ ready_[k] => io[k] \in {"up", "ended"}
        /\ io[k] \in {"handshake", "up"} /\ k \notin closed => ~stop_[k]
        /\ io[k] = "ended" => k \in closed

IInv == TypeOK /\ NoPrintYet /\ Undialled /\ ClearSinceConnected

-----------------------------------------------------------------------------
LEMMA InitIInv == Init => IInv
<1> SUFFICES ASSUME Init PROVE IInv OBVIOUS
<1> USE DEF Init
<1>1. 1 \in Conns BY GatewayAssumption DEF Conns
<1>2. TypeOK BY <1>1 DEF TypeOK
<1>3. NoPrintYet /\ Undialled BY DEF NoPrintYet, Undialled
<1>4. ClearSinceConnected BY DEF ClearSinceConnected
<1> QED BY <1>2, <1>3, <1>4 DEF IInv

\* The owner moves on: what it dials was not dialled before, and what it closes is
\* no longer expected to have stop_ clear.
LEMMA OwnerKeeps == ASSUME IInv, OwnerStep \/ Stop \/ Destroy PROVE IInv'
<1> USE DEF IInv, OwnerGoes, restVars, threadVars, connVars, ownerVars
<1>c. Conns \subseteq Int /\ NumConns \in Nat BY GatewayAssumption DEF Conns
<1>1. CASE RequestConnect
  BY <1>c, <1>1 DEF RequestConnect, TypeOK, NoPrintYet, Undialled, ClearSinceConnected
<1>2. CASE Dial
  <2>1. c \in Conns /\ io[c] = "none" /\ ~ready_[c]
    BY <1>c, <1>2 DEF Dial, Undialled, ClearSinceConnected, TypeOK
  <2>2. \A k \in Conns : io'[k] = IF k = c THEN "resolve" ELSE io[k]
    BY <1>2, <2>1 DEF Dial, TypeOK
  <2>3. TypeOK' BY <1>2, <2>1 DEF Dial, TypeOK
  <2>4. NoPrintYet' BY <1>2 DEF Dial, NoPrintYet
  <2>5. Undialled' BY <1>c, <1>2, <2>1, <2>2 DEF Dial, Undialled
  <2>6. ClearSinceConnected' BY <1>2, <2>1, <2>2 DEF Dial, ClearSinceConnected
  <2> QED BY <2>3, <2>4, <2>5, <2>6
<1>3. CASE KeepConn \/ GiveUp
  <2>1. /\ opc = "poll" /\ c \in Conns
        /\ \/ c < NumConns /\ opc' = "init_conn_stats" /\ c' = c + 1
           \/ opc' = "print_thread" /\ c' = c
    BY <1>3 DEF KeepConn, GiveUp, NextConn, TypeOK
  <2>2. m_conns' \subseteq Conns BY <1>3, <2>1 DEF KeepConn, GiveUp, TypeOK
  <2>3. UNCHANGED <<restVars, connVars>> BY <1>3 DEF KeepConn, GiveUp
  <2>4. c' \in Conns BY <2>1, <1>c DEF Conns
  <2>5. TypeOK' BY <2>1, <2>2, <2>3, <2>4 DEF TypeOK
  <2>6. NoPrintYet' BY <2>1, <2>3 DEF NoPrintYet
  <2>7. Undialled' BY <1>c, <2>1, <2>3 DEF Undialled
  <2>8. ClearSinceConnected' BY <2>3 DEF ClearSinceConnected
  <2> QED BY <2>5, <2>6, <2>7, <2>8
<1>4. CASE StartPrint
  BY <1>4 DEF StartPrint, TypeOK, NoPrintYet, Undialled, ClearSinceConnected
<1>5. CASE Start \/ Stop \/ JoinWork \/ OnStop \/ JoinPrint
  BY <1>5 DEF Start, Stop, JoinWork, OnStop, JoinPrint, TypeOK, NoPrintYet, Undialled,
              ClearSinceConnected
<1>6. ASSUME NEW k \in Conns, Close(k) PROVE IInv'
  <2>1. /\ opc = "close" /\ UNCHANGED <<ownerVars, threadVars, io, ready_, terminated>>
        /\ closed' = closed \cup {k} /\ stop_' = [stop_ EXCEPT ![k] = TRUE]
    BY <1>6 DEF Close
  <2>2. TypeOK' BY <2>1 DEF TypeOK
  <2>3. NoPrintYet' /\ Undialled' BY <2>1 DEF NoPrintYet, Undialled
  <2>4. ClearSinceConnected' BY <2>1 DEF ClearSinceConnected, TypeOK
  <2> QED BY <2>2, <2>3, <2>4
<1>7. CASE Clear \/ ClearStats
  BY <1>7 DEF Clear, ClearStats, TypeOK, NoPrintYet, Undialled, ClearSinceConnected
<1>8. CASE Destroy
  BY <1>8 DEF Destroy, TypeOK, NoPrintYet, Undialled, ClearSinceConnected
<1> QED BY <1>1, <1>2, <1>3, <1>4, <1>5, <1>6, <1>7, <1>8 DEF OwnerStep

\* The work thread and the print thread touch no connection.
LEMMA ThreadsKeep == ASSUME IInv, WorkEnds \/ PrintCheck \/ PrintLatencyStats PROVE IInv'
<1> USE DEF IInv, ownerVars, connVars
<1>1. UNCHANGED <<ownerVars, connVars>> BY DEF WorkEnds, PrintCheck, PrintLatencyStats
<1>2. TypeOK' BY <1>1 DEF WorkEnds, PrintCheck, PrintLatencyStats, TypeOK
<1>3. NoPrintYet' BY <1>1 DEF WorkEnds, PrintCheck, PrintLatencyStats, NoPrintYet
<1>4. Undialled' /\ ClearSinceConnected' BY <1>1 DEF Undialled, ClearSinceConnected
<1> QED BY <1>2, <1>3, <1>4

\* The io thread of connection k.
LEMMA IoKeeps == ASSUME IInv, NEW k \in Conns, Io(k) PROVE IInv'
<1> USE DEF IInv, IoGoes, ownerVars, threadVars
<1>1. UNCHANGED <<ownerVars, threadVars, closed>>
  BY DEF Io, Connected, OnReady, ReConnect, ReadEnds, OnReconn
<1>2. NoPrintYet' BY <1>1 DEF NoPrintYet
<1>3. /\ io[k] # "none"
      /\ \A j \in Conns : j # k => io'[j] = io[j] /\ ready_'[j] = ready_[j]
                                                 /\ stop_'[j] = stop_[j]
  BY DEF Io, Connected, OnReady, ReConnect, ReadEnds, OnReconn, ClearStop, TypeOK
<1>4. Undialled' BY <1>1, <1>3 DEF Undialled
<1>5. TypeOK'
  <2>1. CASE Connected(k) BY <1>1, <2>1 DEF Connected, ClearStop, TypeOK
  <2>2. CASE OnReady(k) BY <1>1, <2>2 DEF OnReady, TypeOK
  <2>3. CASE ReConnect(k) BY <1>1, <2>3 DEF ReConnect, TypeOK
  <2>4. CASE ReadEnds(k) BY <1>1, <2>4 DEF ReadEnds, TypeOK
  <2>5. CASE OnReconn(k) BY <1>1, <2>5 DEF OnReconn, TypeOK
  <2> QED BY <2>1, <2>2, <2>3, <2>4, <2>5 DEF Io
<1>6. /\ ready_'[k] => io'[k] \in {"up", "ended"}
      /\ io'[k] \in {"handshake", "up"} /\ k \notin closed => ~stop_'[k]
      /\ io'[k] = "ended" => k \in closed
  <2> USE DEF TypeOK, ClearSinceConnected
  <2>1. CASE Connected(k) BY <2>1 DEF Connected, ClearStop
  <2>2. CASE OnReady(k) BY <2>2 DEF OnReady
  <2>3. CASE ReConnect(k) BY <2>3 DEF ReConnect
  <2>4. CASE ReadEnds(k) BY <2>4 DEF ReadEnds
  <2>5. CASE OnReconn(k) BY <2>5 DEF OnReconn
  <2> QED BY <2>1, <2>2, <2>3, <2>4, <2>5 DEF Io
<1>7. ClearSinceConnected' BY <1>1, <1>3, <1>6 DEF ClearSinceConnected
<1> QED BY <1>2, <1>4, <1>5, <1>7

\* The inductive invariant of the gateway.
THEOREM Invariance == Spec => []IInv
<1>1. ASSUME IInv, [Next]_vars PROVE IInv'
  <2>1. CASE OwnerStep \/ Stop \/ Destroy BY <1>1, <2>1, OwnerKeeps
  <2>2. CASE WorkEnds \/ PrintCheck \/ PrintLatencyStats BY <1>1, <2>2, ThreadsKeep
  <2>3. CASE \E k \in Conns : Io(k) BY <1>1, <2>3, IoKeeps
  <2>4. CASE UNCHANGED vars
    BY <1>1, <2>4 DEF IInv, TypeOK, NoPrintYet, Undialled, ClearSinceConnected,
                      vars, ownerVars, threadVars, connVars
  <2> QED BY <1>1, <2>1, <2>2, <2>3, <2>4 DEF Next
<1> QED BY InitIInv, <1>1, PTL DEF Spec

\* The variables keep their types; among them, the mutex is held exactly by a print
\* thread that is at its second lock.
THEOREM TypeCorrect == Spec => []TypeOK
<1>1. IInv => TypeOK BY DEF IInv
<1> QED BY <1>1, Invariance, PTL

\* A ready connection that the gateway did not close has stop_ clear, however many
\* connections there are and however often they were made again (K4_WsSslClient.h:77, 286).
THEOREM ReadyCanSend == Spec => []ReadyNotStopped
<1>1. IInv => ReadyNotStopped BY DEF IInv, ClearSinceConnected, ReadyNotStopped
<1> QED BY <1>1, Invariance, PTL
===============================================================================
