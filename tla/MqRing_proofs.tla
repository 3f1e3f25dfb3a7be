---------------------------- MODULE MqRing_proofs ----------------------------
(***************************************************************************)
(* Proofs about MqRing, for every set of producers no larger than the      *)
(* ring, every ring length, both modes of push, any mix of push and        *)
(* get_new with callers that come back at any time, and every bound.       *)
(***************************************************************************)
EXTENDS MqRing, FiniteSetTheorems, TLAPS

\* Numbers less than a ring apart have different slots.
LEMMA ModDistinct ==
    ASSUME NEW a \in Nat, NEW b \in Nat, NEW n \in Nat \ {0}, a < b, b < a + n
    PROVE  a % n # b % n
<1>1. \A c \in Nat : c = n * (c \div n) + (c % n) /\ c \div n \in Nat /\ c % n \in 0 .. n - 1
  BY SMTT(30)
<1>2. ASSUME NEW p \in Int, NEW q \in Int, p < q PROVE n * p + n <= n * q
  <2>1. n * (p + 1) <= n * q BY <1>2, SMTT(30)
  <2> QED BY <2>1, SMTT(30)
<1>3. a \div n \in Nat /\ b \div n \in Nat /\ a % n \in Int BY <1>1
<1>4. ASSUME a % n = b % n PROVE FALSE
  <2> DEFINE p == a \div n
             q == b \div n
             m == a % n
  <2>1. a = n * p + m /\ b = n * q + m /\ p \in Nat /\ q \in Nat /\ m \in Int
    BY <1>1, <1>3, <1>4
  <2> HIDE DEF p, q, m
  <2>2. n * p \in Int /\ n * q \in Int BY <2>1
  <2>3. CASE p < q BY <1>2, <2>1, <2>2, <2>3
  <2>4. CASE q < p BY <1>2, <2>1, <2>2, <2>4
  <2> QED BY <2>1, <2>3, <2>4
<1> QED BY <1>4

-----------------------------------------------------------------------------
(* Slots.                                                                  *)

LEMMA SlotType == ASSUME NEW n \in Nat PROVE Slot(n) \in Slots
BY MqRingAssumption, SMTT(30) DEF Slot, Slots

LEMMA SlotsDiffer ==
    ASSUME NEW a \in Nat, NEW b \in Nat, a # b, a < b + RingSize, b < a + RingSize
    PROVE  Slot(a) # Slot(b)
<1>0. RingSize \in Nat \ {0} BY MqRingAssumption
<1>1. CASE a < b BY <1>0, <1>1, ModDistinct DEF Slot
<1>2. CASE b < a BY <1>0, <1>2, ModDistinct DEF Slot
<1> QED BY <1>1, <1>2

-----------------------------------------------------------------------------
(* At most one message per producer is in flight.                          *)

LEMMA OwnersBoundFlight == TypeOK /\ InFlightOwned => InFlightBounded
<1> SUFFICES ASSUME TypeOK, InFlightOwned PROVE InFlightBounded OBVIOUS
<1> DEFINE S == tail + 1 .. head
           owner == [n \in S |-> CHOOSE p \in Producers : Claimed(p) /\ prod_next(p) = n]
<1>1. head \in Nat /\ tail \in Nat /\ tail <= head BY DEF TypeOK, InFlightOwned
<1>2. \A n \in S : owner[n] \in Producers /\ prod_next(owner[n]) = n
  BY DEF InFlightOwned
<1>3. owner \in Injection(S, Producers)
  <2>1. owner \in [S -> Producers] BY <1>2
  <2>2. \A m, n \in S : owner[m] = owner[n] => m = n BY <1>2
  <2> QED BY <2>1, <2>2 DEF Injection, IsInjective
<1>4. Cardinality(S) <= Cardinality(Producers)
  BY <1>3, FS_Injection, MqRingAssumption
<1>5. Cardinality(S) = head - tail
  <2>1. tail + 1 \in Int /\ head \in Int BY <1>1
  <2>2. Cardinality(S) = IF tail + 1 > head THEN 0 ELSE head - (tail + 1) + 1
    BY <2>1, FS_Interval
  <2> QED BY <1>1, <2>2
<1> QED BY <1>4, <1>5 DEF InFlightBounded

LEMMA FlightFitsRing ==
    ASSUME TypeOK, InFlightOwned PROVE head - tail <= RingSize
<1>1. Cardinality(Producers) \in Nat BY FS_CardinalityType, MqRingAssumption
<1>2. head \in Nat /\ tail \in Nat BY DEF TypeOK
<1>3. head - tail <= Cardinality(Producers) BY OwnersBoundFlight DEF InFlightBounded
<1> QED BY <1>1, <1>2, <1>3, MqRingAssumption

\* Two messages in flight, or one in flight and one that the window promises, are
\* in different slots.
LEMMA ClaimsApart ==
    ASSUME TypeOK, InFlightOwned, NEW p \in Producers, NEW q \in Producers,
           Claimed(p), Claimed(q), p # q
    PROVE  Slot(prod_next(p)) # Slot(prod_next(q))
<1>1. head \in Nat /\ tail \in Nat /\ RingSize \in Nat
  BY MqRingAssumption DEF TypeOK
<1>2. /\ prod_next(p) \in tail + 1 .. head
      /\ prod_next(q) \in tail + 1 .. head
      /\ prod_next(p) # prod_next(q)
  BY DEF InFlightOwned
<1>3. head - tail <= RingSize BY FlightFitsRing
<1> HIDE DEF prod_next
<1>4. prod_next(p) \in Nat /\ prod_next(q) \in Nat BY <1>1, <1>2
<1>5. prod_next(p) < prod_next(q) + RingSize /\ prod_next(q) < prod_next(p) + RingSize
  BY <1>1, <1>2, <1>3
<1> QED BY <1>2, <1>4, <1>5, SlotsDiffer

LEMMA WindowApart ==
    ASSUME TypeOK, InFlightOwned, NEW p \in Producers, Claimed(p),
           NEW n \in 1 .. tail, n > head - RingSize
    PROVE  Slot(prod_next(p)) # Slot(n)
<1>1. head \in Nat /\ tail \in Nat /\ RingSize \in Nat
  BY MqRingAssumption DEF TypeOK
<1>2. prod_next(p) \in tail + 1 .. head BY DEF InFlightOwned
<1> HIDE DEF prod_next
<1>3. /\ prod_next(p) \in Nat /\ n \in Nat /\ prod_next(p) # n
      /\ prod_next(p) < n + RingSize /\ n < prod_next(p) + RingSize
  BY <1>1, <1>2
<1> QED BY <1>3, SlotsDiffer

-----------------------------------------------------------------------------
(* The inductive invariant.                                                *)

LEMMA InitIInv == Init => IInv
<1> SUFFICES ASSUME Init PROVE IInv OBVIOUS
<1> USE MqRingAssumption DEF Init, Message
<1>1. TypeOK BY DEF TypeOK, Slots
<1>2. InFlightOwned BY DEF InFlightOwned, Claimed
<1>3. PublishedWindow /\ PushProgress /\ FillProgress
  BY DEF PublishedWindow, PushProgress, FillProgress
<1>4. SubProgress /\ CursorBehindTail BY DEF SubProgress, CursorBehindTail
<1>5. HalfCopied /\ Copied BY DEF HalfCopied, Copied, Trusted
<1> QED BY <1>1, <1>2, <1>3, <1>4, <1>5 DEF IInv

\* The steps of push that only look at the counters.
LEMMA LookStep ==
    ASSUME IInv, NEW p \in Producers,
           LoadHead(p) \/ FullCheck(p) \/ WaitTurn(p)
    PROVE  IInv'
<1> USE DEF IInv
<1>t. TypeOK OBVIOUS
<1>u. UNCHANGED <<head, tail, ring, crashed, callerVars, subVars>>
  BY DEF LoadHead, FullCheck, WaitTurn
<1>1. TypeOK'
  BY <1>t, <1>u DEF LoadHead, FullCheck, WaitTurn, Goto, TypeOK, callerVars, subVars
<1>2. InFlightOwned'
  <2>1. \A q \in Producers : Claimed(q)' <=> Claimed(q)
    BY <1>t DEF LoadHead, FullCheck, WaitTurn, Goto, At, Claimed, TypeOK
  <2>2. \A q \in Producers : Claimed(q) => prod_next(q)' = prod_next(q)
    BY <1>t DEF LoadHead, FullCheck, WaitTurn, Goto, At, Claimed, TypeOK, prod_next
  <2> HIDE DEF Claimed, prod_next
  <2> QED BY <1>u, <2>1, <2>2 DEF InFlightOwned
<1>3. PublishedWindow' /\ FillProgress'
  BY <1>u DEF PublishedWindow, FillProgress, Slot, Message, callerVars
<1>4. PushProgress'
  <2> SUFFICES ASSUME NEW q \in Producers
               PROVE  /\ ppc'[q] \in {"loaded", "cas"} => prod_head'[q] <= head'
                      /\ ppc'[q] = "write_hi" /\ prod_next(q)' \notin spoilt'
                            => ring'[Slot(prod_next(q)')].lo = prod_next(q)'
                      /\ (/\ ppc'[q] \in {"wait", "publish"}
                          /\ prod_next(q)' \notin handed' \cup spoilt')
                            => ring'[Slot(prod_next(q)')] = Message(prod_next(q)')
                      /\ ppc'[q] = "publish" => tail' = prod_head'[q]
    BY DEF PushProgress, Slot, Message
  <2>0. UNCHANGED <<head, tail, ring, handed, spoilt>> BY <1>u DEF callerVars
  <2>1. CASE q # p
    <3>1. ppc'[q] = ppc[q] /\ prod_head'[q] = prod_head[q]
      BY <1>t, <2>1 DEF LoadHead, FullCheck, WaitTurn, Goto, TypeOK
    <3>2. prod_next(q)' = prod_next(q) BY <3>1 DEF prod_next
    <3> HIDE DEF prod_next
    <3> QED BY <2>0, <3>1, <3>2 DEF PushProgress
  <2>2. CASE q = p
    <3>1. CASE LoadHead(p) \/ FullCheck(p)
      <4>1. ppc'[p] \in {"idle", "loaded", "cas"} /\ prod_head'[p] <= head
        BY <1>t, <3>1 DEF LoadHead, FullCheck, Goto, At, TypeOK, PushProgress
      <4> QED BY <2>0, <2>2, <4>1
    <3>2. CASE WaitTurn(p)
      <4>1. /\ ppc[p] = "wait" /\ ppc'[p] = "publish" /\ tail = prod_head[p]
            /\ prod_head'[p] = prod_head[p]
        BY <1>t, <3>2 DEF WaitTurn, Goto, At, TypeOK
      <4>2. prod_next(q)' = prod_next(q) BY <2>2, <4>1 DEF prod_next
      <4> HIDE DEF prod_next
      <4> QED BY <2>0, <2>2, <4>1, <4>2 DEF PushProgress
    <3> QED BY <3>1, <3>2
  <2> QED BY <2>1, <2>2
<1>5. SubProgress' /\ CursorBehindTail' /\ HalfCopied' /\ Copied'
  BY <1>u DEF SubProgress, CursorBehindTail, HalfCopied, Copied, Trusted, callerVars,
             subVars, Message
<1> QED BY <1>1, <1>2, <1>3, <1>4, <1>5

\* With a single producer, nothing is in flight between two pushes.
LEMMA SingleIdle ==
    ASSUME TypeOK, InFlightOwned, IsSingleP, NEW p \in Producers, ~Claimed(p)
    PROVE  tail = head
<1>1. \A q \in Producers : q = p BY FS_Singleton, MqRingAssumption
<1>2. head \in Nat /\ tail \in Nat /\ tail <= head BY DEF TypeOK, InFlightOwned
<1>3. CASE tail < head
  <2>1. head \in tail + 1 .. head BY <1>2, <1>3
  <2> QED BY <1>1, <2>1 DEF InFlightOwned
<1> QED BY <1>2, <1>3

\* The two ways of claiming the next number.
LEMMA ClaimStep ==
    ASSUME IInv, NEW p \in Producers, Cas(p) \/ ClaimSingle(p)
    PROVE  IInv'
<1> USE DEF IInv
<1>t. TypeOK OBVIOUS
<1>c. head \in Nat /\ tail \in Nat /\ tail <= head /\ RingSize \in Nat
  BY <1>t, MqRingAssumption DEF TypeOK, InFlightOwned
<1>u. UNCHANGED <<tail, ring, crashed, callerVars, subVars>> BY DEF Cas, ClaimSingle
<1>n. ~Claimed(p) BY DEF Cas, ClaimSingle, At, Claimed
<1>1. CASE head' = head /\ ppc' = [ppc EXCEPT ![p] = "idle"] /\ prod_head' = prod_head
  <2>1. TypeOK' BY <1>1, <1>t, <1>u DEF TypeOK, callerVars, subVars
  <2>2. InFlightOwned'
    <3>1. \A q \in Producers : Claimed(q)' <=> Claimed(q)
      BY <1>1, <1>t, <1>n DEF Claimed, TypeOK
    <3>2. \A q \in Producers : prod_next(q)' = prod_next(q) BY <1>1 DEF prod_next
    <3> HIDE DEF Claimed, prod_next
    <3> QED BY <1>1, <1>u, <3>1, <3>2 DEF InFlightOwned
  <2>3. PublishedWindow' /\ FillProgress'
    BY <1>1, <1>u DEF PublishedWindow, FillProgress, Slot, Message, callerVars
  <2>4. PushProgress'
    BY <1>1, <1>t, <1>u DEF PushProgress, Slot, Message, prod_next, TypeOK, callerVars
  <2>5. SubProgress' /\ CursorBehindTail' /\ HalfCopied' /\ Copied'
    BY <1>1, <1>u DEF SubProgress, CursorBehindTail, HalfCopied, Copied, Trusted,
                      callerVars, subVars, Message
  <2> QED BY <2>1, <2>2, <2>3, <2>4, <2>5
<1>2. CASE /\ head' = head + 1
           /\ ppc' = [ppc EXCEPT ![p] = "write_lo"]
           /\ prod_head' = [prod_head EXCEPT ![p] = head]
  <2>1. TypeOK' BY <1>2, <1>t, <1>c, <1>u DEF TypeOK, callerVars, subVars
  <2>2. InFlightOwned'
    <3>1. \A q \in Producers : Claimed(q)' <=> (Claimed(q) \/ q = p)
      BY <1>2, <1>t DEF Claimed, TypeOK
    <3>2. \A q \in Producers : q # p => prod_next(q)' = prod_next(q)
      BY <1>2, <1>t DEF prod_next, TypeOK
    <3>3. prod_next(p)' = head + 1 BY <1>2, <1>t DEF prod_next, TypeOK
    <3>4. /\ \A n \in tail + 1 .. head :
                \E q \in Producers : Claimed(q) /\ prod_next(q) = n
          /\ \A q \in Producers : Claimed(q) => prod_next(q) \in tail + 1 .. head
          /\ \A q, r \in Producers :
                Claimed(q) /\ Claimed(r) /\ prod_next(q) = prod_next(r) => q = r
      BY DEF InFlightOwned
    <3> HIDE DEF Claimed, prod_next
    <3>5. \A n \in tail + 1 .. head + 1 :
             \E q \in Producers : Claimed(q)' /\ prod_next(q)' = n
      <4> SUFFICES ASSUME NEW n \in tail + 1 .. head + 1
                   PROVE  \E q \in Producers : Claimed(q)' /\ prod_next(q)' = n
        OBVIOUS
      <4>1. CASE n = head + 1 BY <3>1, <3>3, <4>1
      <4>2. CASE n # head + 1
        <5>1. n \in tail + 1 .. head BY <1>c, <4>2
        <5>2. PICK q \in Producers : Claimed(q) /\ prod_next(q) = n BY <3>4, <5>1
        <5>3. q # p BY <1>n, <5>2
        <5> QED BY <3>1, <3>2, <5>2, <5>3
      <4> QED BY <4>1, <4>2
    <3>6. \A q \in Producers : Claimed(q)' => prod_next(q)' \in tail + 1 .. head + 1
      <4> SUFFICES ASSUME NEW q \in Producers, Claimed(q)'
                   PROVE  prod_next(q)' \in tail + 1 .. head + 1
        OBVIOUS
      <4>1. CASE q = p BY <1>c, <3>3, <4>1
      <4>2. CASE q # p
        <5>1. prod_next(q) \in tail + 1 .. head BY <3>1, <3>4, <4>2
        <5> QED BY <1>c, <3>2, <4>2, <5>1
      <4> QED BY <4>1, <4>2
    <3>7. \A q, r \in Producers :
             Claimed(q)' /\ Claimed(r)' /\ prod_next(q)' = prod_next(r)' => q = r
      <4>1. \A q \in Producers : Claimed(q) => prod_next(q) # head + 1
        BY <1>c, <3>4
      <4> QED BY <3>1, <3>2, <3>3, <3>4, <4>1
    <3> QED BY <1>2, <1>c, <1>u, <3>5, <3>6, <3>7 DEF InFlightOwned
  <2>3. PublishedWindow' /\ FillProgress'
    <3>1. half \subseteq Nat BY <1>t DEF TypeOK
    <3> QED
      BY <3>1, <1>2, <1>c, <1>u DEF PublishedWindow, FillProgress, Slot, Message, callerVars
  <2>4. PushProgress'
    BY <1>2, <1>t, <1>c, <1>u DEF PushProgress, Slot, Message, prod_next, TypeOK,
                                  callerVars
  <2>5. SubProgress' /\ CursorBehindTail'
    BY <1>u DEF SubProgress, CursorBehindTail, subVars
  <2>6. HalfCopied' /\ Copied'
    BY <1>2, <1>t, <1>c, <1>u DEF HalfCopied, Copied, Trusted, callerVars, subVars,
                                  Message, TypeOK
  <2> QED BY <2>1, <2>2, <2>3, <2>4, <2>5, <2>6
<1>3. Cas(p) => prod_head[p] = head \/ head' = head
  BY DEF Cas
<1> QED
  <2>1. CASE Cas(p) /\ head = prod_head[p]
    <3>1. prod_head = [prod_head EXCEPT ![p] = head] BY <1>t, <2>1 DEF TypeOK
    <3> QED BY <1>2, <2>1, <3>1 DEF Cas, Goto, prod_next
  <2>2. CASE Cas(p) /\ head # prod_head[p] BY <1>1, <2>2 DEF Cas, Goto
  <2>3. CASE ClaimSingle(p) BY <1>2, <2>3 DEF ClaimSingle, Goto
  <2> QED BY <2>1, <2>2, <2>3

\* With a single producer, the number claimed is the next one to publish.
LEMMA SingleTurn ==
    ASSUME TypeOK, InFlightOwned, IsSingleP, NEW p \in Producers, Claimed(p)
    PROVE  tail = prod_head[p]
<1>1. \A q \in Producers : q = p BY FS_Singleton, MqRingAssumption
<1>2. head \in Nat /\ tail \in Nat /\ prod_head[p] \in Nat BY DEF TypeOK
<1>3. prod_next(p) \in tail + 1 .. head BY DEF InFlightOwned
<1>4. tail + 1 \in tail + 1 .. head BY <1>2, <1>3
<1>5. prod_next(p) = tail + 1 BY <1>1, <1>4 DEF InFlightOwned
<1> QED BY <1>2, <1>5 DEF prod_next

\* The two steps that fill the slot of a claimed number.
LEMMA WriteStep ==
    ASSUME IInv, NEW p \in Producers, WriteLo(p) \/ WriteHi(p)
    PROVE  IInv'
<1> USE DEF IInv
<1>t. TypeOK OBVIOUS
<1> DEFINE c == prod_next(p)
<1>c. /\ head \in Nat /\ tail \in Nat /\ tail <= head /\ RingSize \in Nat
      /\ c \in Nat /\ Slot(c) \in Slots /\ ring[Slot(c)] \in [lo : Nat, hi : Nat]
  <2>1. c \in Nat BY <1>t DEF TypeOK, prod_next
  <2>2. Slot(c) \in Slots BY <2>1, SlotType
  <2> QED BY <1>t, <2>1, <2>2, MqRingAssumption DEF TypeOK, InFlightOwned
<1>u. UNCHANGED <<head, tail, prod_head, crashed, callerVars, subVars>>
  BY DEF WriteLo, WriteHi
<1>p. Claimed(p) BY DEF WriteLo, WriteHi, At, Claimed
<1>o. \A k \in Slots : k # Slot(c) => ring'[k] = ring[k]
  BY <1>t, <1>c DEF WriteLo, WriteHi, TypeOK
<1>1. TypeOK'
  <2>1. \E e \in [lo : Nat, hi : Nat] : ring' = [ring EXCEPT ![Slot(c)] = e]
    <3>1. CASE WriteLo(p)
      <4>1. [lo |-> c, hi |-> ring[Slot(c)].hi] \in [lo : Nat, hi : Nat] BY <1>c
      <4> QED BY <3>1, <4>1 DEF WriteLo
    <3>2. CASE WriteHi(p)
      <4>1. [lo |-> ring[Slot(c)].lo, hi |-> c] \in [lo : Nat, hi : Nat] BY <1>c
      <4> QED BY <3>2, <4>1 DEF WriteHi
    <3> QED BY <3>1, <3>2
  <2>2. \E s \in {"write_hi", "wait", "publish"} : ppc' = [ppc EXCEPT ![p] = s]
    BY DEF WriteLo, WriteHi, Goto
  <2> HIDE DEF c
  <2> QED BY <1>t, <1>c, <1>u, <2>1, <2>2 DEF TypeOK, callerVars, subVars
<1>2. InFlightOwned'
  <2>1. \A q \in Producers : Claimed(q)' <=> Claimed(q)
    BY <1>t DEF WriteLo, WriteHi, Goto, At, Claimed, TypeOK
  <2>2. \A q \in Producers : prod_next(q)' = prod_next(q) BY <1>u DEF prod_next
  <2> HIDE DEF Claimed, prod_next
  <2> QED BY <1>u, <2>1, <2>2 DEF InFlightOwned
<1>w. ASSUME NEW n \in 1 .. tail, n > head - RingSize
      PROVE  ring'[Slot(n)] = ring[Slot(n)]
  <2>1. Slot(c) # Slot(n) BY <1>p, <1>w, WindowApart
  <2>2. Slot(n) \in Slots BY <1>c, SlotType
  <2> QED BY <1>o, <2>1, <2>2
<1>3. PublishedWindow' /\ FillProgress'
  BY <1>u, <1>w DEF PublishedWindow, FillProgress, Slot, Message, callerVars
<1>4. PushProgress'
  <2>1. ASSUME NEW q \in Producers, q # p
        PROVE  /\ ppc'[q] = ppc[q] /\ prod_head'[q] = prod_head[q]
               /\ Claimed(q) => ring'[Slot(prod_next(q))] = ring[Slot(prod_next(q))]
    <3>1. ppc'[q] = ppc[q] /\ prod_head'[q] = prod_head[q]
      BY <1>t, <1>u, <2>1 DEF WriteLo, WriteHi, Goto, TypeOK
    <3>2. ASSUME Claimed(q)
          PROVE  ring'[Slot(prod_next(q))] = ring[Slot(prod_next(q))]
      <4>1. Slot(prod_next(q)) # Slot(c) BY <1>p, <2>1, <3>2, ClaimsApart
      <4>2. prod_next(q) \in Nat BY <1>t DEF TypeOK, prod_next
      <4> QED BY <1>o, <4>1, <4>2, SlotType
    <3> QED BY <3>1, <3>2
  <2>2. CASE WriteLo(p)
    <3>1. ring'[Slot(c)].lo = c BY <1>t, <1>c, <2>2 DEF WriteLo, TypeOK
    <3>2. ppc'[p] = "write_hi" BY <1>t, <2>2 DEF WriteLo, Goto, TypeOK
    <3> QED BY <1>u, <2>1, <3>1, <3>2
            DEF PushProgress, Claimed, prod_next, Slot, Message, callerVars
  <2>3. CASE WriteHi(p)
    <3>1. c \notin spoilt => ring'[Slot(c)] = Message(c)
      <4>1. c \notin spoilt => ring[Slot(c)].lo = c BY <2>3 DEF WriteHi, At, PushProgress
      <4> QED BY <1>t, <1>c, <2>3, <4>1 DEF WriteHi, TypeOK, Message
    <3>2. ppc'[p] = IF IsSingleP THEN "publish" ELSE "wait"
      BY <1>t, <2>3 DEF WriteHi, Goto, TypeOK
    <3>3. IsSingleP => tail = prod_head[p] BY <1>t, <1>p, SingleTurn
    <3>4. /\ tail' = tail /\ head' = head /\ prod_head' = prod_head
          /\ handed' = handed /\ spoilt' = spoilt
      BY <1>u DEF callerVars
    <3>5. ppc'[p] \in {"publish", "wait"} /\ (ppc'[p] = "publish" => tail = prod_head[p])
      BY <3>2, <3>3
    <3> QED BY <2>1, <3>1, <3>4, <3>5
            DEF PushProgress, Claimed, prod_next, Slot, Message
  <2> QED BY <2>2, <2>3
<1>5. SubProgress' /\ CursorBehindTail' /\ HalfCopied' /\ Copied'
  BY <1>u DEF SubProgress, CursorBehindTail, HalfCopied, Copied, Trusted, callerVars,
             subVars, Message
<1> QED BY <1>1, <1>2, <1>3, <1>4, <1>5

LEMMA PublishStep == ASSUME IInv, NEW p \in Producers, PublishTail(p) PROVE IInv'
<1> USE DEF IInv, PublishTail
<1>t. TypeOK OBVIOUS
<1>c. head \in Nat /\ tail \in Nat /\ tail <= head /\ RingSize \in Nat
  BY <1>t, MqRingAssumption DEF TypeOK, InFlightOwned
<1>p. Claimed(p) BY DEF At, Claimed
<1>n. tail' = tail + 1 /\ prod_next(p) = tail + 1 /\ tail + 1 <= head
  <2>1. tail = prod_head[p] BY DEF At, PushProgress
  <2>2. prod_next(p) \in tail + 1 .. head BY <1>p DEF InFlightOwned
  <2> QED BY <1>c, <2>1, <2>2 DEF prod_next
<1>1. TypeOK' BY <1>t, <1>c, <1>n DEF TypeOK, subVars, Goto
<1>e. empty \cup half \subseteq Nat BY <1>t DEF TypeOK
<1>2. InFlightOwned'
  <2>1. \A q \in Producers : Claimed(q)' <=> (Claimed(q) /\ q # p)
    BY <1>t DEF Claimed, TypeOK, Goto
  <2>2. \A q \in Producers : prod_next(q)' = prod_next(q) BY DEF prod_next
  <2>3. /\ \A n \in tail + 1 .. head :
              \E q \in Producers : Claimed(q) /\ prod_next(q) = n
        /\ \A q \in Producers : Claimed(q) => prod_next(q) \in tail + 1 .. head
        /\ \A q, r \in Producers :
              Claimed(q) /\ Claimed(r) /\ prod_next(q) = prod_next(r) => q = r
    BY DEF InFlightOwned
  <2> HIDE DEF Claimed, prod_next
  <2>4. \A n \in tail + 2 .. head :
           \E q \in Producers : Claimed(q)' /\ prod_next(q)' = n
    <3> SUFFICES ASSUME NEW n \in tail + 2 .. head
                 PROVE  \E q \in Producers : Claimed(q)' /\ prod_next(q)' = n
      OBVIOUS
    <3>1. n \in tail + 1 .. head /\ n # tail + 1 BY <1>c
    <3>2. PICK q \in Producers : Claimed(q) /\ prod_next(q) = n BY <2>3, <3>1
    <3>3. q # p BY <1>n, <3>1, <3>2
    <3> QED BY <2>1, <2>2, <3>2, <3>3
  <2>5. \A q \in Producers : Claimed(q)' => prod_next(q)' \in tail + 2 .. head
    <3> SUFFICES ASSUME NEW q \in Producers, Claimed(q)'
                 PROVE  prod_next(q)' \in tail + 2 .. head
      OBVIOUS
    <3>1. Claimed(q) /\ q # p BY <2>1
    <3>2. prod_next(q) \in tail + 1 .. head /\ prod_next(q) # tail + 1
      BY <1>p, <1>n, <2>3, <3>1
    <3> QED BY <1>c, <2>2, <3>2
  <2>6. tail' + 1 = tail + 2 /\ head' = head /\ tail' <= head' BY <1>c, <1>n
  <2> QED BY <2>1, <2>2, <2>3, <2>4, <2>5, <2>6 DEF InFlightOwned
<1>3. PublishedWindow'
  <2> SUFFICES ASSUME NEW n \in 1 .. tail + 1, n > head - RingSize,
                      n \notin empty' \cup half \cup spoilt
               PROVE  ring[Slot(n)] = Message(n)
    BY <1>n DEF PublishedWindow, Slot, Message
  <2>1. CASE n = tail + 1
    <3>1. n \notin handed BY <1>n, <2>1
    <3> QED BY <1>n, <2>1, <3>1 DEF PushProgress, At
  <2>2. CASE n # tail + 1
    <3>1. n \in 1 .. tail /\ n \notin empty BY <1>c, <2>2
    <3> QED BY <3>1 DEF PublishedWindow
  <2> QED BY <2>1, <2>2
<1>f. FillProgress'
  <2>1. \A n \in empty' \cup half : n \in empty \cup half \/ n = tail + 1 BY <1>n
  <2>2. empty' \cup half \subseteq 1 .. tail + 1
    BY <1>c, <2>1 DEF FillProgress
  <2> QED BY <1>n, <2>2 DEF FillProgress, Slot
<1>4. PushProgress'
  <2> SUFFICES ASSUME NEW q \in Producers, ppc'[q] # "idle"
               PROVE  /\ ppc'[q] \in {"loaded", "cas"} => prod_head'[q] <= head'
                      /\ ppc'[q] = "write_hi" /\ prod_next(q)' \notin spoilt'
                            => ring'[Slot(prod_next(q)')].lo = prod_next(q)'
                      /\ (/\ ppc'[q] \in {"wait", "publish"}
                          /\ prod_next(q)' \notin handed' \cup spoilt')
                            => ring'[Slot(prod_next(q)')] = Message(prod_next(q)')
                      /\ ppc'[q] = "publish" => tail' = prod_head'[q]
    BY DEF PushProgress, Slot, Message
  <2>1. q # p /\ ppc'[q] = ppc[q] BY <1>t DEF TypeOK, Goto
  <2>2. ppc[q] # "publish"
    <3> SUFFICES ASSUME ppc[q] = "publish" PROVE FALSE OBVIOUS
    <3>1. tail = prod_head[q] /\ tail = prod_head[p] BY DEF PushProgress, At
    <3>2. Claimed(q) /\ prod_next(q) = prod_next(p) BY <3>1 DEF Claimed, prod_next
    <3> QED BY <1>p, <2>1, <3>2 DEF InFlightOwned
  <2>3. prod_next(q)' = prod_next(q) /\ prod_head'[q] = prod_head[q] BY DEF prod_next
  <2>4. UNCHANGED <<head, ring, handed, spoilt>> OBVIOUS
  <2> HIDE DEF prod_next, PublishTail
  <2> QED BY <2>1, <2>2, <2>3, <2>4 DEF PushProgress
<1>5. SubProgress' /\ CursorBehindTail'
  BY <1>t, <1>c, <1>n DEF SubProgress, CursorBehindTail, subVars, TypeOK
<1>6. HalfCopied' /\ Copied' BY DEF HalfCopied, Copied, Trusted, subVars, Message
<1> QED BY <1>1, <1>2, <1>3, <1>f, <1>4, <1>5, <1>6

\* get_new goes on to wait with nothing in the slot.
LEMMA HandOutStep == ASSUME IInv, NEW p \in Producers, HandOut(p) PROVE IInv'
<1> USE DEF IInv, HandOut
<1>t. TypeOK OBVIOUS
<1>p. Claimed(p) /\ prod_next(p) \in Nat BY <1>t DEF At, Claimed, prod_next, TypeOK
<1>1. TypeOK'
  <2>1. handed' \subseteq Nat BY <1>t, <1>p DEF TypeOK
  <2>2. ppc' \in [Producers -> {"idle", "loaded", "cas", "write_lo", "write_hi",
                                "wait", "publish"}]
    BY <1>t DEF TypeOK, Goto
  <2>3. empty' \subseteq handed' /\ half' \subseteq handed' BY <1>t DEF TypeOK
  <2> QED BY <1>t, <2>1, <2>2, <2>3 DEF TypeOK, subVars
<1>2. InFlightOwned'
  <2>1. \A q \in Producers : Claimed(q)' <=> Claimed(q)
    BY <1>t DEF Goto, At, Claimed, TypeOK
  <2>2. \A q \in Producers : prod_next(q)' = prod_next(q) BY DEF prod_next
  <2> HIDE DEF Claimed, prod_next
  <2> QED BY <2>1, <2>2 DEF InFlightOwned
<1>3. PublishedWindow' /\ FillProgress' BY DEF PublishedWindow, FillProgress, Slot, Message
<1>4. PushProgress'
  <2> SUFFICES ASSUME NEW q \in Producers
               PROVE  /\ ppc'[q] \in {"loaded", "cas"} => prod_head'[q] <= head'
                      /\ ppc'[q] = "write_hi" /\ prod_next(q)' \notin spoilt'
                            => ring'[Slot(prod_next(q)')].lo = prod_next(q)'
                      /\ (/\ ppc'[q] \in {"wait", "publish"}
                          /\ prod_next(q)' \notin handed' \cup spoilt')
                            => ring'[Slot(prod_next(q)')] = Message(prod_next(q)')
                      /\ ppc'[q] = "publish" => tail' = prod_head'[q]
    BY DEF PushProgress, Slot, Message
  <2>1. CASE q # p
    <3>1. ppc'[q] = ppc[q] BY <1>t, <2>1 DEF Goto, TypeOK
    <3>2. prod_next(q)' = prod_next(q) BY DEF prod_next
    <3>3. UNCHANGED <<head, tail, ring, spoilt, prod_head>> /\ handed \subseteq handed'
      OBVIOUS
    <3> HIDE DEF prod_next, HandOut
    <3> QED BY <3>1, <3>2, <3>3 DEF PushProgress
  <2>2. CASE q = p
    <3>1. ppc'[p] = IF IsSingleP THEN "publish" ELSE "wait" BY <1>t DEF Goto, TypeOK
    <3>2. IsSingleP => tail = prod_head[p] BY <1>t, <1>p, SingleTurn
    <3>3. prod_next(p)' \in handed' BY DEF prod_next
    <3> QED BY <2>2, <3>1, <3>2, <3>3
  <2> QED BY <2>1, <2>2
<1>5. SubProgress' /\ CursorBehindTail' /\ HalfCopied' /\ Copied'
  BY DEF SubProgress, CursorBehindTail, HalfCopied, Copied, Trusted, subVars, Message
<1> QED BY <1>1, <1>2, <1>3, <1>4, <1>5

\* A producer that dies changes nothing but its being alive.
LEMMA CrashStep == ASSUME IInv, NEW p \in Producers, Crash(p) PROVE IInv'
<1> USE DEF IInv, Crash
<1>t. TypeOK OBVIOUS
<1>1. TypeOK' BY <1>t DEF TypeOK, callerVars, subVars
<1>2. InFlightOwned' BY DEF InFlightOwned, Claimed, prod_next
<1>3. PublishedWindow' /\ PushProgress' /\ FillProgress'
  BY DEF PublishedWindow, PushProgress, FillProgress, Slot, Message, prod_next, callerVars
<1>4. SubProgress' /\ CursorBehindTail' /\ HalfCopied' /\ Copied'
  BY DEF SubProgress, CursorBehindTail, HalfCopied, Copied, Trusted, callerVars, subVars,
         Message
<1> QED BY <1>1, <1>2, <1>3, <1>4

\* What a caller of get_new writes reaches the slot of its own number and, when it is
\* late, the later numbers of that slot, which are then marked.
LEMMA FillStep ==
    ASSUME IInv, NEW c \in handed, FillLo(c) \/ FillHi(c)
    PROVE  IInv'
<1> USE DEF IInv
<1>t. TypeOK OBVIOUS
<1>c. /\ head \in Nat /\ tail \in Nat /\ tail <= head /\ RingSize \in Nat
      /\ c \in 1 .. tail /\ c \in Nat
      /\ Slot(c) \in Slots /\ ring[Slot(c)] \in [lo : Nat, hi : Nat]
  <2>1. tail \in Nat /\ c \in 1 .. tail BY <1>t DEF FillLo, FillHi, FillProgress, TypeOK
  <2>2. c \in Nat BY <2>1
  <2>3. Slot(c) \in Slots BY <2>2, SlotType
  <2> QED BY <1>t, <2>1, <2>2, <2>3, MqRingAssumption DEF TypeOK, InFlightOwned
<1>u. UNCHANGED <<head, tail, ppc, prod_head, crashed, handed, subVars>>
  BY DEF FillLo, FillHi
<1>s. spoilt' = spoilt \cup Overrun(c) BY DEF FillLo, FillHi
<1>o. \A k \in Slots : k # Slot(c) => ring'[k] = ring[k]
  BY <1>t, <1>c DEF FillLo, FillHi, TypeOK
<1>l. ring'[Slot(c)].lo = IF FillLo(c) THEN c ELSE ring[Slot(c)].lo
  <2>1. CASE FillLo(c) BY <1>t, <1>c, <2>1 DEF FillLo, TypeOK
  <2>2. CASE ~FillLo(c) /\ FillHi(c) BY <1>t, <1>c, <2>2 DEF FillHi, TypeOK
  <2> QED BY <2>1, <2>2
<1>k. ASSUME NEW n \in 1 .. head, n > head - RingSize, n # c, n \notin spoilt'
      PROVE  ring'[Slot(n)] = ring[Slot(n)]
  <2>1. n \in Nat /\ Slot(n) \in Slots BY <1>c, SlotType
  <2>2. Slot(n) # Slot(c)
    <3>1. CASE n > c
      <4>1. n \in c + 1 .. head BY <1>c, <3>1
      <4> QED BY <1>k, <1>s, <4>1 DEF Overrun
    <3>2. CASE n < c
      <4>1. c < n + RingSize /\ n < c + RingSize BY <1>c, <1>k, <3>2
      <4> QED BY <1>c, <1>k, <2>1, <4>1, SlotsDiffer
    <3> QED BY <1>c, <1>k, <3>1, <3>2
  <2> QED BY <1>o, <2>1, <2>2
<1>1. TypeOK'
  <2>1. \E e \in [lo : Nat, hi : Nat] : ring' = [ring EXCEPT ![Slot(c)] = e]
    <3>1. CASE FillLo(c)
      <4>1. [lo |-> c, hi |-> ring[Slot(c)].hi] \in [lo : Nat, hi : Nat] BY <1>c
      <4> QED BY <3>1, <4>1 DEF FillLo
    <3>2. CASE FillHi(c)
      <4>1. [lo |-> ring[Slot(c)].lo, hi |-> c] \in [lo : Nat, hi : Nat] BY <1>c
      <4> QED BY <3>2, <4>1 DEF FillHi
    <3> QED BY <3>1, <3>2
  <2>2. ring' \in [Slots -> [lo : Nat, hi : Nat]] BY <1>t, <1>c, <2>1 DEF TypeOK
  <2>3. spoilt' \subseteq Nat
    <3>1. Overrun(c) \subseteq Nat
      <4>1. \A k \in c + 1 .. head : k \in Nat BY <1>c
      <4> QED BY <4>1 DEF Overrun
    <3> QED BY <1>t, <1>s, <3>1 DEF TypeOK
  <2>4. empty' \subseteq handed' /\ half' \subseteq handed'
    BY <1>t, <1>u DEF TypeOK, FillLo, FillHi
  <2> QED BY <1>t, <1>u, <2>2, <2>3, <2>4 DEF TypeOK, subVars
<1>2. InFlightOwned'
  <2>1. \A q \in Producers : Claimed(q)' <=> Claimed(q) BY <1>u DEF Claimed
  <2>2. \A q \in Producers : prod_next(q)' = prod_next(q) BY <1>u DEF prod_next
  <2> HIDE DEF Claimed, prod_next
  <2> QED BY <1>u, <2>1, <2>2 DEF InFlightOwned
<1>3. PublishedWindow'
  <2> SUFFICES ASSUME NEW n \in 1 .. tail, n > head - RingSize,
                      n \notin empty' \cup half' \cup spoilt'
               PROVE  ring'[Slot(n)] = Message(n)
    BY <1>u DEF PublishedWindow, Slot, Message
  <2>1. CASE n = c
    <3>1. FillHi(c) /\ c \in half BY <2>1 DEF FillLo, FillHi
    <3>2. ring[Slot(c)].lo = c BY <1>s, <2>1, <3>1 DEF FillProgress
    <3>3. ring'[Slot(c)] = [lo |-> ring[Slot(c)].lo, hi |-> c]
      BY <1>t, <1>c, <3>1 DEF FillHi, TypeOK
    <3> QED BY <2>1, <3>2, <3>3 DEF Message
  <2>2. CASE n # c
    <3>1. n \notin empty \cup half \cup spoilt BY <1>s, <2>2 DEF FillLo, FillHi
    <3>2. n \in 1 .. head BY <1>c
    <3>3. ring'[Slot(n)] = ring[Slot(n)] BY <1>k, <2>2, <3>2
    <3> QED BY <3>1, <3>3 DEF PublishedWindow
  <2> QED BY <2>1, <2>2
<1>4. FillProgress'
  <2>1. empty' \cup half' \subseteq empty \cup half BY DEF FillLo, FillHi
  <2> SUFFICES ASSUME NEW n \in half', n > head - RingSize, n \notin spoilt'
               PROVE  ring'[Slot(n)].lo = n
    BY <1>u, <2>1 DEF FillProgress, Slot
  <2>2. CASE n = c
    <3>1. FillLo(c) BY <2>2 DEF FillLo, FillHi
    <3> QED BY <1>l, <2>2, <3>1
  <2>3. CASE n # c
    <3>1. n \in half /\ n \notin spoilt BY <1>s, <2>3 DEF FillLo, FillHi
    <3>2. n \in 1 .. head BY <1>c, <3>1 DEF FillProgress
    <3>3. ring'[Slot(n)] = ring[Slot(n)] BY <1>k, <2>3, <3>2
    <3> QED BY <3>1, <3>3 DEF FillProgress
  <2> QED BY <2>2, <2>3
<1>5. PushProgress'
  <2>1. ASSUME NEW q \in Producers, Claimed(q), prod_next(q) \notin spoilt'
        PROVE  ring'[Slot(prod_next(q))] = ring[Slot(prod_next(q))]
    <3>1. prod_next(q) \in tail + 1 .. head BY <2>1 DEF InFlightOwned
    <3>2. head - tail <= RingSize BY <1>t, FlightFitsRing
    <3> HIDE DEF prod_next
    <3>3. /\ prod_next(q) \in 1 .. head /\ prod_next(q) > head - RingSize
          /\ prod_next(q) # c
      BY <1>c, <3>1, <3>2
    <3> QED BY <1>k, <2>1, <3>3
  <2>2. spoilt \subseteq spoilt' BY <1>s
  <2> QED BY <1>u, <2>1, <2>2 DEF PushProgress, Claimed, prod_next, Slot, Message
<1>6. SubProgress' /\ CursorBehindTail' BY <1>u DEF SubProgress, CursorBehindTail, subVars
<1>7. HalfCopied' /\ Copied'
  BY <1>u, <1>s DEF HalfCopied, Copied, Trusted, subVars, Message
<1> QED BY <1>1, <1>2, <1>3, <1>4, <1>5, <1>6, <1>7

-----------------------------------------------------------------------------
(* The subscribers.                                                        *)

LEMMA ProducersUnchanged ==
    IInv /\ UNCHANGED producerVars
        => InFlightOwned' /\ PublishedWindow' /\ PushProgress' /\ FillProgress'
<1> SUFFICES ASSUME IInv, UNCHANGED producerVars
             PROVE  InFlightOwned' /\ PublishedWindow' /\ PushProgress' /\ FillProgress'
  OBVIOUS
<1> USE DEF IInv, producerVars, callerVars
<1>1. InFlightOwned' BY DEF InFlightOwned, Claimed, prod_next
<1>2. PublishedWindow' BY DEF PublishedWindow, Slot, Message
<1>3. PushProgress' /\ FillProgress'
  BY DEF PushProgress, FillProgress, Slot, Message, prod_next
<1> QED BY <1>1, <1>2, <1>3

\* What the slot of a number that the tail vouches for holds when a subscriber looks
\* at it.
LEMMA SlotContents ==
    ASSUME IInv, NEW n \in 1 .. tail, Trusted(n), head < n + RingSize
    PROVE  ring[Slot(n)] = Message(n)
<1>1. head \in Nat /\ RingSize \in Nat BY MqRingAssumption DEF IInv, TypeOK
<1>2. n > head - RingSize BY <1>1
<1>3. n \notin empty \cup half \cup spoilt BY DEF IInv, TypeOK, Trusted
<1> QED BY <1>2, <1>3 DEF IInv, PublishedWindow

LEMMA SubStep ==
    ASSUME IInv, NEW s \in Subs, Take(s) \/ Peek(s) \/ Seek(s)
    PROVE  IInv'
<1> USE DEF IInv
<1>t. TypeOK OBVIOUS
<1>u. UNCHANGED producerVars
  BY DEF Take, Peek, Seek, TryReadNew, GetAllPending, ReadLo, ReadHi, GetCurrent,
         GetAll, SkipMessage, ResetToBeginning
<1>w. InFlightOwned' /\ PublishedWindow' /\ PushProgress' /\ FillProgress'
  BY <1>u, ProducersUnchanged
<1>x. handed' = handed /\ spoilt' = spoilt BY <1>u DEF producerVars, callerVars
<1>c. /\ head' = head /\ tail' = tail /\ ring' = ring
      /\ head \in Nat /\ tail \in Nat /\ RingSize \in Nat
      /\ at[s] \in Nat /\ cur[s] \in Nat /\ m_current_index[s] \in Nat
      /\ read[s] \in Nat /\ got[s] \in [lo : Nat, hi : Nat]
  BY <1>t, <1>u, MqRingAssumption DEF TypeOK, producerVars
<1>v. UNCHANGED <<head, tail, ring, ppc, prod_head, crashed, empty, half, handed, spoilt>>
  BY <1>u DEF producerVars, callerVars
<1>1. ASSUME NEW method \in {"try_read_new", "get_all_pending", "get_current", "get_all"},
             NEW first \in 0 .. tail, StartRead(s, method, first), spc[s] = "idle",
             m_current_index' = m_current_index
                \/ /\ m_current_index' = [m_current_index EXCEPT ![s] = @ + 1]
                   /\ m_current_index[s] < tail,
             method = "get_all_pending"
                => first > m_current_index[s] /\ m_current_index' = m_current_index
      PROVE  IInv'
  <2>1. TypeOK' BY <1>t, <1>v, <1>c, <1>1 DEF TypeOK, StartRead, Message
  <2>2. SubProgress' BY <1>t, <1>c, <1>1 DEF SubProgress, StartRead, TypeOK
  <2>3. CursorBehindTail' BY <1>t, <1>c, <1>1 DEF CursorBehindTail, TypeOK
  <2>4. HalfCopied' /\ Copied'
    BY <1>t, <1>c, <1>x, <1>1 DEF HalfCopied, Copied, Trusted, StartRead, TypeOK, Message
  <2> QED BY <1>w, <2>1, <2>2, <2>3, <2>4
<1>2. CASE TryReadNew(s)
  <2>1. m_current_index[s] + 1 \in 0 .. tail BY <1>c, <1>2 DEF TryReadNew
  <2> QED BY <1>1, <1>2, <2>1 DEF TryReadNew
<1>3. CASE GetAllPending(s)
  <2>1. m_current_index[s] + 1 \in 0 .. tail /\ m_current_index[s] + 1 > m_current_index[s]
    BY <1>c, <1>3 DEF GetAllPending
  <2> QED BY <1>1, <1>3, <2>1 DEF GetAllPending
<1>4. CASE GetCurrent(s)
  <2>1. tail \in 0 .. tail BY <1>c
  <2> QED BY <1>1, <1>4, <2>1 DEF GetCurrent
<1>5. CASE GetAll(s)
  <2>1. 0 \in 0 .. tail BY <1>c
  <2> QED BY <1>1, <1>5, <2>1 DEF GetAll
<1>6. CASE ReadLo(s)
  <2> USE <1>6 DEF ReadLo
  <2>1. Slot(at[s]) \in Slots /\ ring[Slot(at[s])] \in [lo : Nat, hi : Nat]
    BY <1>t, <1>c, SlotType DEF TypeOK
  <2>2. TypeOK' BY <1>t, <1>v, <1>c, <2>1 DEF TypeOK
  <2>3. SubProgress' /\ CursorBehindTail'
    BY <1>t, <1>c DEF SubProgress, CursorBehindTail, TypeOK
  <2>4. /\ got'[s].lo = ring[Slot(at[s])].lo
        /\ \A q \in Subs : q # s => got'[q] = got[q] /\ read'[q] = read[q]
        /\ read'[s] = 0
    BY <1>t DEF TypeOK
  <2>5. Trusted(at[s]) /\ head < at[s] + RingSize => got'[s].lo = at[s]
    <3> SUFFICES ASSUME Trusted(at[s]), head < at[s] + RingSize
                 PROVE  got'[s].lo = at[s]
      OBVIOUS
    <3>1. at[s] \in 1 .. tail BY <1>t, <1>c DEF SubProgress, Trusted
    <3>2. ring[Slot(at[s])] = Message(at[s]) BY <3>1, SlotContents
    <3> QED BY <2>4, <3>2 DEF Message
  <2>6. HalfCopied' BY <1>t, <1>c, <1>x, <2>4, <2>5 DEF HalfCopied, Trusted, TypeOK
  <2>7. Copied'
    <3> SUFFICES ASSUME NEW q \in Subs, Trusted(read[q])', head' < read'[q] + RingSize
                 PROVE  got'[q] = Message(read'[q])
      BY DEF Copied, Trusted, Message
    <3>1. q # s BY <2>4 DEF Trusted
    <3>2. got'[q] = got[q] /\ read'[q] = read[q] BY <2>4, <3>1
    <3>3. Trusted(read[q]) BY <1>x, <3>2 DEF Trusted
    <3> QED BY <1>c, <3>2, <3>3 DEF Copied
  <2> QED BY <1>w, <2>2, <2>3, <2>6, <2>7
<1>7. CASE ReadHi(s)
  <2> USE <1>7 DEF ReadHi
  <2>1. Slot(at[s]) \in Slots /\ ring[Slot(at[s])] \in [lo : Nat, hi : Nat]
    BY <1>t, <1>c, SlotType DEF TypeOK
  <2>2. TypeOK' BY <1>t, <1>v, <1>c, <2>1 DEF TypeOK
  <2>3. SubProgress' BY <1>t, <1>c DEF SubProgress, TypeOK
  <2>4. CursorBehindTail'
    BY <1>t, <1>c DEF CursorBehindTail, SubProgress, TypeOK
  <2>5. /\ got'[s] = [lo |-> got[s].lo, hi |-> ring[Slot(at[s])].hi]
        /\ \A q \in Subs : q # s => got'[q] = got[q]
    BY <1>t DEF TypeOK
  <2>6. Trusted(at[s]) /\ head < at[s] + RingSize => got'[s] = Message(at[s])
    <3> SUFFICES ASSUME Trusted(at[s]), head < at[s] + RingSize
                 PROVE  got'[s] = Message(at[s])
      OBVIOUS
    <3>1. at[s] \in 1 .. tail BY <1>t, <1>c DEF SubProgress, Trusted
    <3>2. ring[Slot(at[s])] = Message(at[s]) BY <3>1, SlotContents
    <3>3. got[s].lo = at[s] BY DEF HalfCopied
    <3> QED BY <2>5, <3>2, <3>3 DEF Message
  <2>7. HalfCopied' BY <1>t, <1>c, <1>x DEF HalfCopied, Trusted, TypeOK
  <2>8. Copied'
    <3>1. read'[s] = at[s] /\ \A q \in Subs : q # s => read'[q] = read[q] BY <1>t DEF TypeOK
    <3> QED BY <1>c, <1>x, <2>5, <2>6, <3>1 DEF Copied, Trusted, Message
  <2> QED BY <1>w, <2>2, <2>3, <2>4, <2>7, <2>8
<1>8. ASSUME NEW index \in 0 .. MaxMessages, SkipMessage(s, index) PROVE IInv'
  <2>0. index \in Nat BY <1>8, MqRingAssumption
  <2>1. TypeOK' BY <1>t, <1>v, <1>8, <2>0 DEF SkipMessage, TypeOK
  <2>2. SubProgress' BY <1>t, <1>c, <1>8 DEF SkipMessage, SubProgress, TypeOK
  <2>3. CursorBehindTail' BY <1>t, <1>c, <1>8 DEF SkipMessage, CursorBehindTail, TypeOK
  <2>4. HalfCopied' /\ Copied'
    BY <1>c, <1>x, <1>8 DEF SkipMessage, HalfCopied, Copied, Trusted, Message
  <2> QED BY <1>w, <2>1, <2>2, <2>3, <2>4
<1>9. CASE ResetToBeginning(s)
  <2> USE <1>9 DEF ResetToBeginning
  <2>1. TypeOK' BY <1>t, <1>v DEF TypeOK
  <2>2. SubProgress' BY <1>t, <1>c DEF SubProgress, TypeOK
  <2>3. CursorBehindTail' BY <1>t, <1>c DEF CursorBehindTail, TypeOK
  <2>4. HalfCopied' /\ Copied' BY <1>c, <1>x DEF HalfCopied, Copied, Trusted, Message
  <2> QED BY <1>w, <2>1, <2>2, <2>3, <2>4
<1> QED BY <1>2, <1>3, <1>4, <1>5, <1>6, <1>7, <1>8, <1>9 DEF Take, Peek, Seek

-----------------------------------------------------------------------------
(* What the specification satisfies.                                       *)

LEMMA NextIInv == IInv /\ [Next]_vars => IInv'
<1> SUFFICES ASSUME IInv, [Next]_vars PROVE IInv' OBVIOUS
<1>1. ASSUME NEW p \in Producers, Push(p) PROVE IInv'
  BY <1>1, LookStep, ClaimStep, WriteStep, HandOutStep, PublishStep DEF Push
<1>2. ASSUME NEW p \in Producers, Crash(p) PROVE IInv' BY <1>2, CrashStep
<1>3. ASSUME NEW s \in Subs, Take(s) \/ Peek(s) \/ Seek(s) PROVE IInv'
  BY <1>3, SubStep
<1>4. CASE Fill BY <1>4, FillStep DEF Fill
<1>5. CASE UNCHANGED vars
  <2> USE <1>5 DEF IInv, vars, subVars
  <2>1. TypeOK' BY DEF TypeOK, producerVars, callerVars
  <2>2. InFlightOwned' /\ PublishedWindow' /\ PushProgress' /\ FillProgress'
    BY ProducersUnchanged
  <2>3. SubProgress' /\ CursorBehindTail' /\ HalfCopied' /\ Copied'
    BY DEF SubProgress, CursorBehindTail, HalfCopied, Copied, Trusted, Message,
           producerVars, callerVars
  <2> QED BY <2>1, <2>2, <2>3
<1> QED BY <1>1, <1>2, <1>3, <1>4, <1>5 DEF Next

\* Every reachable state of the queue satisfies IInv.
THEOREM Invariance == SafeSpec => []IInv
<1>1. Init => IInv BY InitIInv
<1>2. IInv /\ [Next]_vars => IInv' BY NextIInv
<1> QED BY <1>1, <1>2, PTL DEF SafeSpec

\* The variables keep their types.
THEOREM TypeCorrect == SafeSpec => []TypeOK
<1>1. IInv => TypeOK BY DEF IInv
<1> QED BY <1>1, Invariance, PTL

\* Claims have one owner each, and never outnumber the producers.
THEOREM ClaimsOwned == SafeSpec => [](InFlightOwned /\ InFlightBounded)
<1>1. IInv => InFlightOwned /\ InFlightBounded BY OwnersBoundFlight DEF IInv
<1> QED BY <1>1, Invariance, PTL

\* A published message stays whole until its slot is claimed again: one of push from
\* its publication, one of get_new from when its caller has written it, and either
\* unless a late caller of get_new writes over it.
THEOREM WindowKept == SafeSpec => []PublishedWindow
<1>1. IInv => PublishedWindow BY DEF IInv
<1> QED BY <1>1, Invariance, PTL

\* A subscriber that sees the tail close enough can trust its copy of a number that
\* push published and no late caller of get_new wrote over.
THEOREM CopyIntact == SafeSpec => []Intact
<1>1. ASSUME IInv PROVE Intact
  <2> USE <1>1 DEF IInv
  <2> SUFFICES ASSUME NEW s \in Subs, Trusted(read[s]),
                      tail + Cardinality(Producers) < read[s] + RingSize
               PROVE  got[s] = Message(read[s])
    BY DEF Intact
  <2>1. head - tail <= Cardinality(Producers)
    BY OwnersBoundFlight DEF InFlightBounded
  <2>2. /\ Cardinality(Producers) \in Nat /\ head \in Nat /\ tail \in Nat
        /\ read[s] \in Nat /\ RingSize \in Nat
    BY FS_CardinalityType, MqRingAssumption DEF TypeOK
  <2>3. head < read[s] + RingSize BY <2>1, <2>2
  <2> QED BY <2>3 DEF Copied
<1> QED BY <1>1, Invariance, PTL

\* No call moves a cursor past the tail.
THEOREM CursorBounded == SafeSpec => []CursorBehindTail
<1>1. IInv => CursorBehindTail BY DEF IInv
<1> QED BY <1>1, Invariance, PTL

\* The tail moves by one, whichever producer stores it.
THEOREM TailInOrder == SafeSpec => PublishedInOrder
<1>1. ASSUME IInv, [Next]_vars PROVE tail' = tail + 1 \/ tail' = tail
  <2> USE <1>1 DEF IInv
  <2>1. ASSUME NEW p \in Producers, PublishTail(p) PROVE tail' = tail + 1
    BY <2>1 DEF PublishTail, At, PushProgress, prod_next
  <2>2. ASSUME NEW p \in Producers, Push(p), ~PublishTail(p) PROVE tail' = tail
    BY <2>2 DEF Push, LoadHead, FullCheck, Cas, ClaimSingle, WriteLo, WriteHi, HandOut,
                WaitTurn
  <2>3. ASSUME NEW p \in Producers, Crash(p) PROVE tail' = tail BY <2>3 DEF Crash
  <2>4. ASSUME NEW s \in Subs, Take(s) \/ Peek(s) \/ Seek(s) PROVE tail' = tail
    BY <2>4 DEF Take, Peek, Seek, TryReadNew, GetAllPending, ReadLo, ReadHi,
                GetCurrent, GetAll, SkipMessage, ResetToBeginning, producerVars
  <2>5. CASE Fill BY <2>5 DEF Fill, FillLo, FillHi
  <2>6. CASE UNCHANGED vars BY <2>6 DEF vars, producerVars
  <2> QED BY <2>1, <2>2, <2>3, <2>4, <2>5, <2>6 DEF Next
<1>2. IInv /\ [Next]_vars => [tail' = tail + 1]_tail BY <1>1
<1> QED BY <1>2, Invariance, PTL DEF SafeSpec, PublishedInOrder

LogSafety == Log!Init /\ [][Log!Next]_Log!vars

\* For subscribers that only take messages, every step of the queue is a Publish,
\* a Consume or nothing of the log; the fairness of Log!Spec is left to TLC.
THEOREM ImplementsLog == TakingSpec => LogSafety
<1>1. Init => Log!Init BY DEF Init, Log!Init
<1>2. ASSUME IInv, [TakingNext]_vars PROVE [Log!Next]_Log!vars
  <2> USE <1>2 DEF IInv
  <2>t. TypeOK OBVIOUS
  <2>s. tail' = tail /\ m_current_index' = m_current_index => UNCHANGED Log!vars
    BY DEF Log!vars
  <2>1. ASSUME NEW p \in Producers, PublishTail(p) PROVE Log!Publish
    <3>1. tail = prod_head[p] BY <2>1 DEF PublishTail, At, PushProgress
    <3> QED BY <2>1, <3>1 DEF PublishTail, prod_next, subVars, Log!Publish
  <2>2. ASSUME NEW p \in Producers, Push(p), ~PublishTail(p)
        PROVE  UNCHANGED Log!vars
    BY <2>2, <2>s DEF Push, LoadHead, FullCheck, Cas, ClaimSingle, WriteLo, WriteHi,
                      HandOut, WaitTurn, subVars
  <2>3. ASSUME NEW p \in Producers, Crash(p) PROVE UNCHANGED Log!vars
    BY <2>3, <2>s DEF Crash, subVars
  <2>4. ASSUME NEW s \in Subs, Take(s) PROVE [Log!Next]_Log!vars
    <3>1. tail' = tail
      BY <2>4 DEF Take, TryReadNew, GetAllPending, ReadLo, ReadHi, producerVars
    <3>2. tail \in Nat /\ cur[s] \in Nat /\ m_current_index[s] \in Nat /\ cur[s] <= tail
      BY <2>t DEF TypeOK, SubProgress
    <3>3. CASE m_current_index' = m_current_index BY <2>s, <3>1, <3>3
    <3>4. CASE TryReadNew(s)
      <4>1. m_current_index[s] + 1 \in m_current_index[s] + 1 .. tail
        BY <3>2, <3>4 DEF TryReadNew
      <4>2. Log!Consume(s) BY <3>1, <3>4, <4>1 DEF TryReadNew, Log!Consume
      <4> QED BY <4>2 DEF Log!Next
    <3>5. CASE ReadHi(s) /\ call[s] = "get_all_pending"
                         /\ m_current_index' = [m_current_index EXCEPT ![s] = cur[s]]
      <4>1. at[s] \in Nat BY <2>t DEF TypeOK
      <4>2. at[s] <= cur[s] /\ at[s] > m_current_index[s]
        BY <3>5 DEF ReadHi, SubProgress
      <4>3. cur[s] \in m_current_index[s] + 1 .. tail BY <3>2, <4>1, <4>2
      <4>4. Log!Consume(s) BY <3>1, <3>5, <4>3 DEF Log!Consume
      <4> QED BY <4>4 DEF Log!Next
    <3>6. ReadHi(s) => \/ m_current_index' = m_current_index
                       \/ /\ call[s] = "get_all_pending"
                          /\ m_current_index' = [m_current_index EXCEPT ![s] = cur[s]]
      <4>1. m_current_index = [m_current_index EXCEPT ![s] = m_current_index[s]]
        BY <2>t DEF TypeOK
      <4> QED BY <4>1 DEF ReadHi
    <3> QED BY <2>4, <3>3, <3>4, <3>5, <3>6 DEF Take, GetAllPending, ReadLo
  <2>5. CASE Fill BY <2>5, <2>s DEF Fill, FillLo, FillHi, subVars
  <2>6. CASE UNCHANGED vars BY <2>6, <2>s DEF vars, producerVars, subVars
  <2> QED BY <2>1, <2>2, <2>3, <2>4, <2>5, <2>6 DEF TakingNext, Log!Next
<1>3. Init => IInv BY InitIInv
<1>4. IInv /\ [TakingNext]_vars => IInv'
  <2>1. [TakingNext]_vars => [Next]_vars BY DEF TakingNext, Next
  <2> QED BY <2>1, NextIInv
<1> QED BY <1>1, <1>2, <1>3, <1>4, PTL DEF TakingSpec, LogSafety
=============================================================================
