---------------------------- MODULE ShmQueue_proofs ----------------------------
(***************************************************************************)
(* Proofs about ShmQueue, for any number of consumers, any length of the   *)
(* queue and any number of deaths: what waits is whole, what is taken is   *)
(* taken once, and when a copy can be trusted.                             *)
(***************************************************************************)
EXTENDS ShmQueue, TLAPS

\* Numbers less than a ring apart have different slots.
LEMMA ModDistinct ==
    ASSUME NEW a \in Nat, NEW b \in Nat, NEW n \in Nat \ {0}, a < b, b < a + n
    PROVE  a % n # b % n
<1>1. \A c \in Nat : c = n * (c \div n) + (c % n) /\ c \div n \in Nat /\ c % n \in 0 .. n - 1
  BY SMTT(30)
<1>2. ASSUME NEW p \in Int, NEW q \in Int, p < q PROVE n * p + n <= n * q
  <2>1. n * (p + 1) <= n * q BY <1>2, SMTT(30)
  <2> QED BY <2>1, SMTT(30)
<1>3. a \div n \in Nat /\ b \div n \in Nat /\ a % n \in Int BY <1>1
<1>4. ASSUME a % n = b % n PROVE FALSE
  <2> DEFINE p == a \div n
             q == b \div n
             m == a % n
  <2>1. a = n * p + m /\ b = n * q + m /\ p \in Nat /\ q \in Nat /\ m \in Int
    BY <1>1, <1>3, <1>4
  <2> HIDE DEF p, q, m
  <2>2. n * p \in Int /\ n * q \in Int BY <2>1
  <2>3. CASE p < q BY <1>2, <2>1, <2>2, <2>3
  <2>4. CASE q < p BY <1>2, <2>1, <2>2, <2>4
  <2> QED BY <2>1, <2>3, <2>4
<1> QED BY <1>4

Slots == 0 .. Size - 1
Creating == {"truncate", "magic", "tail", "head"}
Pushing == {"write_lo", "write_hi", "publish"}
Popping == {"load_head", "load_tail", "cas", "read_lo", "read_hi"}

TypeOK ==
    /\ file \in {"none", "empty", "sized"}
    /\ magic \in BOOLEAN /\ early \in BOOLEAN
    /\ head \in Nat /\ tail \in Nat /\ cur_tail \in Nat
    /\ items \in [Slots -> [lo : Int, hi : Int]]
    /\ step \in [Processes -> {"start", "join", "dead", "idle"} \cup Creating \cup Pushing
                                                                \cup Popping]
    /\ step[Producer] \notin Popping
    /\ \A c \in Consumers : step[c] \notin Pushing
    /\ cur_head \in [Consumers -> Int]
    /\ _head \in [TryPoppers -> Int]
    /\ got \in [Consumers -> [lo : Int, hi : Int]]
    /\ popped \in [Consumers -> SUBSET Nat]

\* One process creates the queue, before anyone calls, and until it has done so nothing is
\* in the queue: it resets indices that are 0.
OneCreator ==
    /\ file = "none" => ~magic /\ \A x \in Processes : step[x] = "start"
    /\ \A x, y \in Processes : step[x] \in Creating /\ step[y] \in Creating => x = y
    /\ ~magic => \A x \in Processes : step[x] \in {"start", "join", "dead", "truncate", "magic"}
    /\ \A x \in Processes : step[x] \in {"truncate", "magic"} => ~magic
    /\ \A x, y \in Processes :
        ~early /\ step[x] \in Creating => step[y] \notin Pushing \cup Popping
    /\ file = "none" \/ ~magic \/ (~early /\ Initializing) => head = 0 /\ tail = 0

\* How far the producer is with the item it stores under the number tail.
PushProgress ==
    /\ step[Producer] \in Pushing => cur_tail = tail /\ tail < head + Size
    /\ step[Producer] = "write_hi" => items[Slot(tail)].lo = tail
    /\ step[Producer] = "publish" => items[Slot(tail)] = Item(tail)

\* The last Size - 1 items are whole, popped or not, and so is a full queue.
Held ==
    /\ tail <= head + Size
    /\ \A n \in 0 .. tail - 1 : n > tail - Size => items[Slot(n)] = Item(n)

\* A consumer that is about to take a number saw that there is an item of that number.
PopProgress ==
    \A c \in Consumers :
        /\ step[c] = "cas" => cur_head[c] < tail
        /\ step[c] \in {"start", "join", "dead"} \cup Creating => got[c] = Item(-1)

\* What the first half of a copy is worth, under the same condition as the whole.
CopyHalf ==
    \A c \in Consumers :
        step[c] = "read_hi" /\ cur_head[c] \in popped[c] /\ tail < cur_head[c] + Size
            => got[c].lo = cur_head[c]

IInv ==
    /\ TypeOK /\ OneCreator /\ PushProgress /\ Held /\ PopProgress /\ CopyHalf
    /\ WaitingWhole /\ PoppedOnce /\ CopyWhole

-----------------------------------------------------------------------------
LEMMA SlotType == ASSUME NEW n \in Int PROVE Slot(n) \in Slots
<1>1. \A m \in Nat \ {0} : n % m \in 0 .. m - 1 BY SMTT(30)
<1> QED BY <1>1, ShmQueueAssumption DEF Slot, Slots

LEMMA SlotsDiffer ==
    ASSUME NEW n \in Nat, NEW m \in Nat, n < m, m < n + Size
    PROVE  Slot(n) # Slot(m)
BY ModDistinct, ShmQueueAssumption DEF Slot

LEMMA InitIInv == Init => IInv
<1> SUFFICES ASSUME Init PROVE IInv OBVIOUS
<1> USE DEF Init
<1>s. Size \in Nat \ {0} BY ShmQueueAssumption
<1>1. TypeOK
  <2>1. items \in [Slots -> [lo : Int, hi : Int]] BY DEF Item, Slots
  <2>2. _head \in [TryPoppers -> Int] BY ShmQueueAssumption
  <2>3. /\ step \in [Processes -> {"start"}] /\ \A x \in Processes : step[x] = "start"
        /\ Producer \in Processes /\ Consumers \subseteq Processes
    BY DEF Processes
  <2>4. got \in [Consumers -> [lo : Int, hi : Int]] BY DEF Item
  <2>5. \A x \in Processes : step[x] \notin Pushing \cup Popping
    BY <2>3 DEF Pushing, Popping
  <2>6. /\ popped \in [Consumers -> SUBSET Nat] /\ cur_head \in [Consumers -> Int]
        /\ head \in Nat /\ tail \in Nat /\ cur_tail \in Nat
    OBVIOUS
  <2>7. step \in [Processes -> {"start", "join", "dead", "idle"} \cup Creating \cup Pushing
                                                                \cup Popping]
    BY <2>3
  <2>8. file \in {"none", "empty", "sized"} /\ magic \in BOOLEAN /\ early \in BOOLEAN
    OBVIOUS
  <2>9. step[Producer] \notin Popping /\ \A c \in Consumers : step[c] \notin Pushing
    BY <2>3, <2>5
  <2> HIDE DEF Init
  <2> QED BY <2>1, <2>2, <2>4, <2>6, <2>7, <2>8, <2>9 DEF TypeOK
<1>2. \A x \in Processes : step[x] = "start" OBVIOUS
<1>3. Producer \in Processes /\ Consumers \subseteq Processes BY DEF Processes
<1>4. OneCreator BY <1>2 DEF OneCreator, Creating, Pushing, Popping
<1>5. PushProgress BY <1>2, <1>3 DEF PushProgress, Pushing
<1>6. Held BY <1>s DEF Held
<1>7. PopProgress BY <1>2, <1>3 DEF PopProgress
<1>8. CopyHalf /\ CopyWhole BY <1>2, <1>3 DEF CopyHalf, CopyWhole
<1>9. WaitingWhole BY DEF WaitingWhole
<1>10. PoppedOnce
  <2>1. UNION {popped[c] : c \in Consumers} = {} OBVIOUS
  <2> QED BY <2>1 DEF PoppedOnce
<1> QED BY <1>1, <1>4, <1>5, <1>6, <1>7, <1>8, <1>9, <1>10 DEF IInv

-----------------------------------------------------------------------------
(* The steps, for a state in which no call has begun too early.            *)

\* The construction and the death of a process.
LEMMA ConstructStep ==
    ASSUME IInv, ~early, NEW x \in Processes, Construct(x)
    PROVE  IInv'
<1> USE DEF IInv, Goes
<1>p. Producer \in Processes /\ Consumers \subseteq Processes BY DEF Processes
<1>1. /\ step[x] \in {"start", "join"} \cup Creating
      /\ step' = [step EXCEPT ![x] = step'[x]]
      /\ step'[x] \in {"join", "dead", "idle"} \cup Creating
      /\ step[x] \in Creating => file # "none"
      /\ UNCHANGED <<items, consumerVars, cur_tail, early, crashes>>
  BY DEF Construct, Open, Truncate, SetMagic, SetTail, SetHead, Join, Creating, OneCreator,
         consumerVars, fileVars, TypeOK
<1>2. head' = head /\ tail' = tail
  <2>1. CASE step[x] \in {"tail", "head"}
    <3>1. head = 0 /\ tail = 0 BY <2>1 DEF OneCreator, Initializing
    <3> QED BY <2>1, <3>1 DEF Construct, Open, Truncate, SetMagic, SetTail, SetHead, Join
  <2>2. CASE step[x] \notin {"tail", "head"}
    BY <2>2 DEF Construct, Open, Truncate, SetMagic, SetTail, SetHead, Join, fileVars
  <2> QED BY <2>1, <2>2
<1>3. \A y \in Processes : y # x => step'[y] = step[y] BY <1>1 DEF TypeOK
<1>4. magic' \in BOOLEAN /\ file' \in {"none", "empty", "sized"}
  BY DEF Construct, Open, Truncate, SetMagic, SetTail, SetHead, Join, fileVars, TypeOK, WriteMagic
<1>5. TypeOK'
  <2>1. step' \in [Processes -> {"start", "join", "dead", "idle"} \cup Creating \cup Pushing
                                                                  \cup Popping]
    BY <1>1 DEF TypeOK
  <2>2. step'[x] \notin Pushing \cup Popping BY <1>1 DEF Pushing, Popping, Creating
  <2>3. step'[Producer] \notin Popping /\ \A c \in Consumers : step'[c] \notin Pushing
    BY <1>3, <1>p, <2>2 DEF TypeOK
  <2> QED BY <1>1, <1>2, <1>4, <2>1, <2>3 DEF TypeOK, consumerVars
<1>6. OneCreator'
  <2> USE DEF OneCreator, Creating, Initializing, Pushing, Popping
  <2>1. CASE Open(x) BY <1>1, <1>2, <1>3, <2>1 DEF Open, TypeOK
  <2>2. CASE Truncate(x) BY <1>1, <1>2, <1>3, <2>2 DEF Truncate, TypeOK
  <2>3. CASE SetMagic(x) BY <1>1, <1>2, <1>3, <2>3 DEF SetMagic, WriteMagic, TypeOK
  <2>4. CASE SetTail(x) BY <1>1, <1>2, <1>3, <2>4 DEF SetTail, TypeOK
  <2>5. CASE SetHead(x) BY <1>1, <1>2, <1>3, <2>5 DEF SetHead, TypeOK
  <2>6. CASE Join(x) BY <1>1, <1>2, <1>3, <2>6 DEF Join, fileVars, TypeOK
  <2> QED BY <2>1, <2>2, <2>3, <2>4, <2>5, <2>6 DEF Construct
<1>7. PushProgress'
  <2>1. step'[Producer] \in Pushing => step'[Producer] = step[Producer]
    BY <1>1, <1>3, <1>p DEF Pushing, Creating
  <2> QED BY <1>1, <1>2, <2>1 DEF PushProgress, Pushing, Item, Slot
<1>8. Held' /\ WaitingWhole' /\ PoppedOnce'
  BY <1>1, <1>2 DEF Held, WaitingWhole, PoppedOnce, Item, Slot, consumerVars
<1>9. ASSUME NEW c \in Consumers
      PROVE  /\ step'[c] = "cas" => step[c] = "cas"
             /\ step'[c] = "read_hi" => step[c] = "read_hi"
             /\ step'[c] = "idle" => step[c] = "idle" \/ got[c] = Item(-1)
             /\ step'[c] \in {"start", "join", "dead"} \cup Creating => got[c] = Item(-1)
  BY <1>1, <1>3, <1>p DEF PopProgress, Creating
<1>10. PopProgress' BY <1>1, <1>2, <1>9 DEF PopProgress, Item, consumerVars
<1>11. CopyHalf' /\ CopyWhole'
  BY <1>1, <1>2, <1>9 DEF CopyHalf, CopyWhole, Item, consumerVars
<1> QED BY <1>5, <1>6, <1>7, <1>8, <1>10, <1>11

LEMMA CrashStep ==
    ASSUME IInv, ~early, NEW x \in Processes, Crash(x)
    PROVE  IInv'
<1> USE DEF IInv
<1>p. Producer \in Processes /\ Consumers \subseteq Processes BY DEF Processes
<1>1. /\ step' = [step EXCEPT ![x] = "start"] /\ step[x] # "start"
      /\ got' = [c \in Consumers |-> IF c = x THEN Item(-1) ELSE got[c]]
      /\ cur_head' = [c \in Consumers |-> IF c = x THEN 0 ELSE cur_head[c]]
      /\ UNCHANGED <<fileVars, popped, cur_tail, early>>
  BY DEF Crash
<1>2. /\ step'[x] = "start" /\ \A y \in Processes : y # x => step'[y] = step[y]
      /\ \A c \in Consumers : c # x => got'[c] = got[c] /\ cur_head'[c] = cur_head[c]
      /\ \A c \in Consumers : c = x => got'[c] = Item(-1)
  BY <1>1 DEF TypeOK
<1>3. TypeOK'
  <2>1. step' \in [Processes -> {"start", "join", "dead", "idle"} \cup Creating \cup Pushing
                                                                  \cup Popping]
    BY <1>1 DEF TypeOK
  <2>2. step'[Producer] \notin Popping /\ \A c \in Consumers : step'[c] \notin Pushing
    BY <1>2, <1>p DEF TypeOK, Pushing, Popping
  <2>3. _head' \in [TryPoppers -> Int] BY ShmQueueAssumption DEF Crash, TypeOK
  <2>4. got' \in [Consumers -> [lo : Int, hi : Int]] BY <1>1 DEF TypeOK, Item
  <2>5. cur_head' \in [Consumers -> Int] BY <1>1 DEF TypeOK
  <2> QED BY <1>1, <2>1, <2>2, <2>3, <2>4, <2>5 DEF TypeOK, fileVars
<1>4. OneCreator'
  BY <1>1, <1>2 DEF OneCreator, Creating, Initializing, Pushing, Popping, fileVars
<1>5. PushProgress' BY <1>1, <1>2, <1>p DEF PushProgress, Pushing, Item, Slot, fileVars
<1>6. Held' /\ WaitingWhole' /\ PoppedOnce'
  BY <1>1 DEF Held, WaitingWhole, PoppedOnce, Item, Slot, fileVars
<1>7. PopProgress' BY <1>1, <1>2, <1>p DEF PopProgress, Item, fileVars
<1>8. CopyHalf' /\ CopyWhole'
  BY <1>1, <1>2, <1>p DEF CopyHalf, CopyWhole, Item, fileVars
<1> QED BY <1>3, <1>4, <1>5, <1>6, <1>7, <1>8

\* What a step of push or of a pop leaves as it is, and what OneCreator needs of it: the
\* process has been constructed, nobody constructs unless the call begins too early, and
\* the step ends in push or pop or in idle.
LEMMA CallStep ==
    ASSUME IInv, ~early, NEW x \in Processes, NEW to,
           step' = [step EXCEPT ![x] = to],
           step[x] \in {"idle"} \cup Pushing \cup Popping,
           to \in {"idle"} \cup Pushing \cup Popping,
           x = Producer => to \notin Popping,
           x \in Consumers => to \notin Pushing,
           UNCHANGED <<file, magic>>, early' \in BOOLEAN,
           step[x] = "idle" => UNCHANGED <<head, tail>> /\ (Initializing => early')
    PROVE  /\ step' \in [Processes -> {"start", "join", "dead", "idle"} \cup Creating
                                        \cup Pushing \cup Popping]
           /\ step'[Producer] \notin Popping
           /\ \A c \in Consumers : step'[c] \notin Pushing
           /\ step'[x] = to /\ \A y \in Processes : y # x => step'[y] = step[y]
           /\ OneCreator'
<1> USE DEF IInv
<1>p. Producer \in Processes /\ Consumers \subseteq Processes BY DEF Processes
<1>1. /\ step' \in [Processes -> {"start", "join", "dead", "idle"} \cup Creating
                                  \cup Pushing \cup Popping]
      /\ step'[x] = to /\ \A y \in Processes : y # x => step'[y] = step[y]
  BY DEF TypeOK
<1>2. step'[Producer] \notin Popping /\ \A c \in Consumers : step'[c] \notin Pushing
  BY <1>1, <1>p DEF TypeOK
<1>3. magic /\ file # "none"
  BY DEF OneCreator, Pushing, Popping
<1>4. \A y \in Processes : step'[y] \in Creating => step[y] \in Creating /\ step'[y] = step[y]
  BY <1>1 DEF Creating, Pushing, Popping
<1>5. \A y \in Processes : step'[y] \in Creating => step'[y] \in {"tail", "head"}
  BY <1>3, <1>4 DEF OneCreator, Creating
<1>6. \A y \in Processes : step'[y] \in Creating => early' \/ step[x] \in Pushing \cup Popping
  BY <1>4, <1>5 DEF Initializing
<1>7. \A y \in Processes : ~(~early' /\ step'[y] \in Creating)
  BY <1>4, <1>6 DEF OneCreator
<1>8. OneCreator'
  BY <1>1, <1>3, <1>4, <1>7 DEF OneCreator, Initializing, Creating
<1> QED BY <1>1, <1>2, <1>8

LEMMA PushStep ==
    ASSUME IInv, ~early, Push
    PROVE  IInv'
<1> USE DEF IInv
<1>p. Producer \in Processes /\ Consumers \subseteq Processes /\ Producer \notin Consumers
  BY ShmQueueAssumption DEF Processes
<1>s. Size \in Nat \ {0} BY ShmQueueAssumption
<1>t. head \in Nat /\ tail \in Nat /\ cur_tail \in Nat BY DEF TypeOK
<1>1. PICK to \in {"idle"} \cup Pushing : step' = [step EXCEPT ![Producer] = to]
  BY DEF Push, PushCheck, WriteLo, WriteHi, Publish, Goes, Pushing
<1>2. /\ step[Producer] \in {"idle"} \cup Pushing
      /\ UNCHANGED <<file, magic, head, consumerVars>>
      /\ early' \in BOOLEAN
      /\ step[Producer] = "idle" => UNCHANGED <<head, tail>> /\ (Initializing => early')
  BY DEF Push, PushCheck, WriteLo, WriteHi, Publish, Goes, Pushing, BeginCall, fileVars,
         consumerVars, TypeOK, Initializing
<1>3. to \notin Popping BY <1>1 DEF Pushing, Popping
<1>4. /\ step' \in [Processes -> {"start", "join", "dead", "idle"} \cup Creating
                                  \cup Pushing \cup Popping]
      /\ step'[Producer] \notin Popping
      /\ \A c \in Consumers : step'[c] \notin Pushing
      /\ step'[Producer] = to /\ \A y \in Processes : y # Producer => step'[y] = step[y]
      /\ OneCreator'
  BY <1>p, <1>1, <1>2, <1>3, CallStep
<1>5. \A c \in Consumers : step'[c] = step[c] BY <1>4, <1>p
<1>6. Slot(tail) \in Slots /\ \A n \in 0 .. tail - 1 : n > tail - Size => Slot(n) # Slot(tail)
  BY <1>t, <1>s, SlotType, SlotsDiffer
\* It is enough to follow the tail and the items.
<1>7. SUFFICES /\ tail' \in Nat /\ cur_tail' \in Nat /\ tail' >= tail
               /\ items' \in [Slots -> [lo : Int, hi : Int]]
               /\ PushProgress' /\ Held' /\ WaitingWhole'
  <2>1. TypeOK' BY <1>2, <1>4, <1>7 DEF TypeOK, consumerVars
  <2>2. PopProgress' BY <1>2, <1>5, <1>7, <1>t DEF PopProgress, Item, consumerVars, TypeOK
  <2>3. PoppedOnce' BY <1>2, <1>7, <1>t DEF PoppedOnce, consumerVars
  <2>4. \A c \in Consumers : tail' < cur_head[c] + Size => tail < cur_head[c] + Size
    BY <1>7, <1>t, <1>s DEF TypeOK
  <2>5. CopyHalf' /\ CopyWhole'
    BY <1>2, <1>5, <2>4 DEF CopyHalf, CopyWhole, Item, consumerVars
  <2> QED BY <1>4, <1>7, <2>1, <2>2, <2>3, <2>5
<1>8. CASE PushCheck
  <2>1. UNCHANGED <<head, tail, items>> /\ cur_tail' = tail /\ to = step'[Producer]
    BY <1>8, <1>4 DEF PushCheck, fileVars
  <2>2. step'[Producer] \in {"idle", "write_lo"}
        /\ (step'[Producer] = "write_lo" => tail < head + Size)
    BY <1>8, <1>4, <1>p, <1>t, <1>s DEF PushCheck, Goes, Full, TypeOK
  <2>3. PushProgress' BY <2>1, <2>2 DEF PushProgress, Pushing
  <2>4. Held' /\ WaitingWhole' BY <2>1 DEF Held, WaitingWhole, Item, Slot
  <2> QED BY <2>1, <2>3, <2>4, <1>t DEF TypeOK
<1>9. CASE WriteLo \/ WriteHi
  <2>1. /\ UNCHANGED <<head, tail, cur_tail>> /\ step[Producer] \in {"write_lo", "write_hi"}
        /\ cur_tail = tail /\ tail < head + Size
    BY <1>9 DEF WriteLo, WriteHi, Goes, PushProgress, Pushing
  <2>2. items' \in [Slots -> [lo : Int, hi : Int]]
    <3>1. items[Slot(tail)] \in [lo : Int, hi : Int] BY <1>6 DEF TypeOK
    <3>2. /\ [items[Slot(tail)] EXCEPT !.lo = tail] \in [lo : Int, hi : Int]
          /\ [items[Slot(tail)] EXCEPT !.hi = tail] \in [lo : Int, hi : Int]
      BY <3>1, <1>t
    <3>3. \E i \in [lo : Int, hi : Int] : items' = [items EXCEPT ![Slot(tail)] = i]
      BY <1>9, <2>1, <3>2 DEF WriteLo, WriteHi
    <3> QED BY <3>3 DEF TypeOK
  <2>3. \A k \in Slots : k # Slot(tail) => items'[k] = items[k]
    BY <1>9, <2>1 DEF WriteLo, WriteHi, TypeOK
  <2>4. \A n \in 0 .. tail - 1 : n > tail - Size => items'[Slot(n)] = items[Slot(n)]
    BY <1>6, <1>t, <2>3, SlotType
  <2>5. Held' BY <2>1, <2>4 DEF Held, Item, Slot
  <2>6. WaitingWhole'
    <3>1. \A n \in head .. tail - 1 : n \in 0 .. tail - 1 /\ n > tail - Size
      BY <1>t, <1>s, <2>1
    <3> QED BY <2>1, <2>4, <3>1 DEF WaitingWhole, Held, Item, Slot
  <2>7. CASE WriteLo
    <3>1. step'[Producer] = "write_hi" BY <2>7, <1>p DEF WriteLo, Goes, TypeOK
    <3>2. items'[Slot(tail)].lo = tail
      BY <2>7, <2>1, <1>6 DEF WriteLo, TypeOK
    <3>3. PushProgress' BY <2>1, <3>1, <3>2 DEF PushProgress, Pushing, Slot
    <3> QED BY <1>t, <2>1, <2>2, <2>5, <2>6, <3>3
  <2>8. CASE WriteHi
    <3>1. step'[Producer] = "publish" /\ step[Producer] = "write_hi"
      BY <2>8, <1>p DEF WriteHi, Goes, TypeOK
    <3>2. items[Slot(tail)].lo = tail BY <3>1 DEF PushProgress
    <3>3. items'[Slot(tail)] = Item(tail)
      BY <2>8, <2>1, <1>6, <3>2 DEF WriteHi, TypeOK, Item
    <3>4. PushProgress' BY <2>1, <3>1, <3>3 DEF PushProgress, Pushing, Slot, Item
    <3> QED BY <1>t, <2>1, <2>2, <2>5, <2>6, <3>4
  <2> QED BY <1>9, <2>7, <2>8
<1>10. CASE Publish
  <2>1. /\ step[Producer] = "publish" /\ step'[Producer] = "idle"
        /\ UNCHANGED <<head, items, cur_tail>> /\ tail' = cur_tail + 1
    BY <1>10, <1>4, <1>p DEF Publish, Goes, TypeOK, consumerVars
  <2>2. tail' = tail + 1 /\ tail < head + Size /\ items[Slot(tail)] = Item(tail)
    BY <2>1 DEF PushProgress, Pushing
  <2>3. PushProgress' BY <2>1 DEF PushProgress, Pushing
  <2>4. ASSUME NEW n \in 0 .. tail, n > tail + 1 - Size PROVE items[Slot(n)] = Item(n)
    <3>1. n = tail \/ (n \in 0 .. tail - 1 /\ n > tail - Size) BY <2>4, <1>t, <1>s
    <3> QED BY <2>2, <3>1 DEF Held
  <2>5. tail' - 1 = tail /\ tail' <= head' + Size
    BY <1>t, <1>s, <2>1, <2>2
  <2>6. Held'
    <3>1. \A n \in 0 .. tail : n > tail + 1 - Size => items[Slot(n)] = Item(n) BY <2>4
    <3>2. tail' - 1 = tail /\ tail' - Size = tail + 1 - Size BY <2>2, <1>t, <1>s
    <3>3. \A n \in 0 .. tail' - 1 : n > tail' - Size => items'[Slot(n)] = Item(n)
      BY <2>1, <3>1, <3>2
    <3> QED BY <2>5, <3>3 DEF Held, Item, Slot
  <2>7. ASSUME NEW n \in head .. tail PROVE items[Slot(n)] = Item(n)
    <3>1. n = tail \/ n \in head .. tail - 1 BY <1>t
    <3> QED BY <2>2, <3>1 DEF WaitingWhole
  <2>8. WaitingWhole' BY <2>1, <2>5, <2>7 DEF WaitingWhole, Item, Slot
  <2> QED BY <1>t, <2>1, <2>2, <2>3, <2>6, <2>8 DEF TypeOK
<1> QED BY <1>8, <1>9, <1>10 DEF Push

\* What a step of a consumer on the queue has to leave as it is, and where it may lead.
LEMMA PopStep ==
    ASSUME IInv, ~early, NEW c \in Consumers,
           WaitAndPop(c) \/ Pop(c) \/ (c \in TryPoppers /\ TryPop(c))
    PROVE  IInv'
<1> USE DEF IInv
<1>p. /\ Producer \in Processes /\ Consumers \subseteq Processes /\ Producer \notin Consumers
      /\ c \in Processes /\ c # Producer
  BY ShmQueueAssumption DEF Processes
<1>s. Size \in Nat \ {0} BY ShmQueueAssumption
<1>t. head \in Nat /\ tail \in Nat /\ cur_head[c] \in Int /\ head <= tail /\ tail <= head + Size
  BY DEF TypeOK, PoppedOnce, Held
<1>1. PICK to \in {"idle"} \cup Popping : step' = [step EXCEPT ![c] = to]
  BY DEF WaitAndPop, Pop, TryPop, LoadHead, LoadTail, Cas, ReadLo, ReadHi, Goes, Popping
<1>2. /\ step[c] \in {"idle"} \cup Popping
      /\ UNCHANGED <<file, magic, tail, items, cur_tail>>
      /\ early' \in BOOLEAN
      /\ step[c] = "idle" => UNCHANGED <<head, tail>> /\ (Initializing => early')
  BY DEF WaitAndPop, Pop, TryPop, LoadHead, LoadTail, Cas, ReadLo, ReadHi, Goes, Popping,
         BeginCall, fileVars, consumerVars, TypeOK, Initializing
<1>3. to \notin Pushing BY <1>1 DEF Pushing, Popping
<1>4. /\ step' \in [Processes -> {"start", "join", "dead", "idle"} \cup Creating
                                  \cup Pushing \cup Popping]
      /\ step'[Producer] \notin Popping
      /\ \A d \in Consumers : step'[d] \notin Pushing
      /\ step'[c] = to /\ \A y \in Processes : y # c => step'[y] = step[y]
      /\ OneCreator'
  <2>1. c = Producer => to \notin Popping BY <1>p
  <2> QED BY <1>p, <1>1, <1>2, <1>3, <2>1, CallStep
<1>5. step'[Producer] = step[Producer] BY <1>4, <1>p
<1>6. step'[c] \notin {"start", "join", "dead"} \cup Creating
  BY <1>1, <1>4 DEF Popping, Creating
\* It is enough to follow the head and what this consumer keeps.
<1>7. SUFFICES /\ head' \in Nat /\ head' >= head
               /\ cur_head' \in [Consumers -> Int] /\ _head' \in [TryPoppers -> Int]
               /\ got' \in [Consumers -> [lo : Int, hi : Int]]
               /\ popped' \in [Consumers -> SUBSET Nat]
               /\ PoppedOnce'
               /\ \A d \in Consumers : d # c => /\ cur_head'[d] = cur_head[d]
                                                /\ got'[d] = got[d] /\ popped'[d] = popped[d]
               /\ step'[c] = "cas" => cur_head'[c] < tail
               /\ step'[c] = "read_hi" /\ cur_head'[c] \in popped'[c]
                                       /\ tail < cur_head'[c] + Size => got'[c].lo = cur_head'[c]
               /\ step'[c] = "idle" /\ cur_head'[c] \in popped'[c]
                                    /\ tail < cur_head'[c] + Size => got'[c] = Item(cur_head'[c])
  <2>1. TypeOK' BY <1>2, <1>4, <1>7 DEF TypeOK
  <2>0. head' + Size >= head + Size
    <3>1. head' \in Nat /\ head' >= head BY <1>7
    <3>2. \A a, b, s \in Nat : a >= b => a + s >= b + s OBVIOUS
    <3> QED BY <3>1, <3>2, <1>t, <1>s, Zenon
  <2>2. PushProgress'
    <3>1. step[Producer] \in Pushing => tail < head + Size BY DEF PushProgress
    <3>2. \A a, b, d \in Int : a < b /\ d >= b => a < d OBVIOUS
    <3>3. head' + Size \in Int /\ head + Size \in Int BY <1>7, <1>t, <1>s
    <3>4. step[Producer] \in Pushing => tail < head' + Size
      BY <2>0, <3>1, <3>2, <3>3, <1>t
    <3> QED BY <1>2, <1>5, <3>4 DEF PushProgress, Item, Slot
  <2>3. Held'
    <3>1. \A a, b, d \in Int : a <= b /\ d >= b => a <= d OBVIOUS
    <3>2. head' + Size \in Int /\ head + Size \in Int BY <1>7, <1>t, <1>s
    <3>3. tail <= head' + Size BY <2>0, <3>1, <3>2, <1>t
    <3> QED BY <1>2, <3>3 DEF Held, Item, Slot
  <2>4. WaitingWhole'
    <3>1. \A n \in head' .. tail - 1 : n \in head .. tail - 1 BY <1>7, <1>t
    <3> QED BY <1>2, <3>1 DEF WaitingWhole, Item, Slot
  <2>5. \A d \in Consumers : d # c => step'[d] = step[d] BY <1>4, <1>p
  <2>6. PopProgress' BY <1>2, <1>6, <1>7, <2>5 DEF PopProgress, Item
  <2>7. CopyHalf' BY <1>2, <1>7, <2>5 DEF CopyHalf
  <2>8. CopyWhole' BY <1>2, <1>7, <2>5 DEF CopyWhole, Item
  <2> QED BY <1>4, <1>7, <2>1, <2>2, <2>3, <2>4, <2>6, <2>7, <2>8
\* An item of a number this consumer took is whole as long as the copy can be trusted.
<1>8. cur_head[c] \in popped[c] /\ tail < cur_head[c] + Size
        => items[Slot(cur_head[c])] = Item(cur_head[c])
  <2>1. SUFFICES ASSUME cur_head[c] \in popped[c], tail < cur_head[c] + Size
                 PROVE  items[Slot(cur_head[c])] = Item(cur_head[c])
    OBVIOUS
  <2>2. cur_head[c] \in 0 .. head - 1 BY <2>1 DEF PoppedOnce
  <2>3. cur_head[c] \in 0 .. tail - 1 /\ cur_head[c] > tail - Size
    BY <2>1, <2>2, <1>t, <1>s
  <2> QED BY <2>3 DEF Held
<1>9. CASE WaitAndPop(c) \/ LoadTail(c)
  <2>1. /\ UNCHANGED <<head, cur_head, _head, got, popped>>
        /\ step'[c] \in {"load_head", "load_tail", "cas"}
        /\ step'[c] = "cas" => cur_head[c] < tail
    BY <1>9, <1>4, <1>p DEF WaitAndPop, LoadTail, HasItem, Goes, fileVars, consumerVars, TypeOK
  <2>2. PoppedOnce' BY <1>2, <2>1 DEF PoppedOnce
  <2> QED BY <1>t, <2>1, <2>2 DEF TypeOK
<1>10. CASE LoadHead(c) \/ (c \in TryPoppers /\ TryPop(c))
  <2>1. /\ UNCHANGED <<head, got, popped>>
        /\ step'[c] \in {"load_tail", "read_lo"}
    BY <1>10, <1>4, <1>p DEF LoadHead, TryPop, Goes, fileVars, TypeOK
  <2>2. \E n \in Int : cur_head' = [cur_head EXCEPT ![c] = n]
    BY <1>10, <1>t DEF LoadHead, TryPop, TypeOK
  <2>3. _head' \in [TryPoppers -> Int]
    BY <1>10 DEF LoadHead, TryPop, TypeOK
  <2>4. PoppedOnce' BY <1>2, <2>1 DEF PoppedOnce
  <2> QED BY <1>t, <2>1, <2>2, <2>3, <2>4 DEF TypeOK
<1>11. CASE Cas(c)
  <2>1. CASE Wins(c)
    <3>1. /\ step[c] = "cas" /\ step'[c] = "read_lo" /\ head = cur_head[c]
          /\ head' = head + 1 /\ UNCHANGED <<cur_head, _head, got>>
          /\ popped' = [popped EXCEPT ![c] = @ \cup {head}]
      BY <1>11, <2>1, <1>4, <1>p DEF Cas, Wins, Goes, TypeOK
    <3>2. head < tail BY <3>1 DEF PopProgress
    <3>3. /\ popped' \in [Consumers -> SUBSET Nat] /\ popped'[c] = popped[c] \cup {head}
          /\ \A d \in Consumers : d # c => popped'[d] = popped[d]
      BY <3>1, <1>t DEF TypeOK
    <3>4. \A d \in Consumers : head \notin popped[d] BY <1>t DEF PoppedOnce
    <3>5. UNION {popped'[d] : d \in Consumers} = (UNION {popped[d] : d \in Consumers}) \cup {head}
      <4>1. \A n \in UNION {popped'[d] : d \in Consumers} :
               n \in (UNION {popped[d] : d \in Consumers}) \cup {head}
        BY <3>3
      <4>2. \A n \in (UNION {popped[d] : d \in Consumers}) \cup {head} :
               n \in UNION {popped'[d] : d \in Consumers}
        <5>1. head \in popped'[c] BY <3>3
        <5>2. \A d \in Consumers : popped[d] \subseteq popped'[d] BY <3>3
        <5> QED BY <5>1, <5>2, ZenonT(30)
      <4> QED BY <4>1, <4>2
    <3>6. 0 .. head - 1 \cup {head} = 0 .. head' - 1 BY <3>1, <1>t
    <3>7. PoppedOnce'
      <4>1. head' <= tail' BY <3>1, <3>2, <1>2, <1>t
      <4>2. UNION {popped'[d] : d \in Consumers} = 0 .. head' - 1
        <5>1. UNION {popped[d] : d \in Consumers} = 0 .. head - 1 BY DEF PoppedOnce
        <5> QED BY <5>1, <3>5, <3>6, Zenon
      <4>3. \A d, e \in Consumers : d # e => popped'[d] \cap popped'[e] = {}
        BY <3>3, <3>4 DEF PoppedOnce
      <4> QED BY <4>1, <4>2, <4>3 DEF PoppedOnce
    <3> QED BY <1>t, <3>1, <3>3, <3>7 DEF TypeOK
  <2>2. CASE ~Wins(c)
    <3>1. step'[c] = "load_head" /\ UNCHANGED <<head, cur_head, _head, got, popped>>
      BY <1>11, <2>2, <1>4, <1>p DEF Cas, Goes, TypeOK
    <3>2. PoppedOnce' BY <1>2, <3>1 DEF PoppedOnce
    <3> QED BY <1>t, <3>1, <3>2 DEF TypeOK
  <2> QED BY <2>1, <2>2
<1>12. CASE ReadLo(c) \/ ReadHi(c)
  <2>1. UNCHANGED <<head, cur_head, _head, popped>> BY <1>12 DEF ReadLo, ReadHi, fileVars
  <2>2. PoppedOnce' BY <1>2, <2>1 DEF PoppedOnce
  <2>3. got[c] \in [lo : Int, hi : Int] /\ items[Slot(cur_head[c])] \in [lo : Int, hi : Int]
    BY <1>t, SlotType DEF TypeOK
  <2>4. CASE ReadLo(c)
    <3>1. step'[c] = "read_hi" BY <2>4, <1>4, <1>p DEF ReadLo, Goes, TypeOK
    <3>2. got' = [got EXCEPT ![c] = [got[c] EXCEPT !.lo = items[Slot(cur_head[c])].lo]]
      BY <2>4 DEF ReadLo
    <3>3. [got[c] EXCEPT !.lo = items[Slot(cur_head[c])].lo] \in [lo : Int, hi : Int]
      BY <2>3
    <3>4. /\ got' \in [Consumers -> [lo : Int, hi : Int]]
          /\ \A d \in Consumers : d # c => got'[d] = got[d]
      BY <3>2, <3>3 DEF TypeOK
    <3>5. got'[c].lo = items[Slot(cur_head[c])].lo BY <2>3, <3>2 DEF TypeOK
    <3> QED BY <1>t, <1>8, <2>1, <2>2, <3>1, <3>4, <3>5 DEF TypeOK, Item
  <2>5. CASE ReadHi(c)
    <3>1. step[c] = "read_hi" /\ step'[c] = "idle"
      BY <2>5, <1>4, <1>p DEF ReadHi, Goes, TypeOK
    <3>2. got' = [got EXCEPT ![c] = [got[c] EXCEPT !.hi = items[Slot(cur_head[c])].hi]]
      BY <2>5 DEF ReadHi
    <3>3. [got[c] EXCEPT !.hi = items[Slot(cur_head[c])].hi] \in [lo : Int, hi : Int]
      BY <2>3
    <3>4. /\ got' \in [Consumers -> [lo : Int, hi : Int]]
          /\ \A d \in Consumers : d # c => got'[d] = got[d]
      BY <3>2, <3>3 DEF TypeOK
    <3>5. got'[c] = [lo |-> got[c].lo, hi |-> items[Slot(cur_head[c])].hi]
      BY <2>3, <3>2 DEF TypeOK
    <3>6. cur_head[c] \in popped[c] /\ tail < cur_head[c] + Size
            => got[c].lo = cur_head[c] /\ items[Slot(cur_head[c])].hi = cur_head[c]
      BY <1>8, <3>1 DEF CopyHalf, Item
    <3> QED BY <1>t, <2>1, <2>2, <3>1, <3>4, <3>5, <3>6 DEF TypeOK, Item
  <2> QED BY <1>12, <2>4, <2>5
<1> QED BY <1>9, <1>10, <1>11, <1>12 DEF Pop

-----------------------------------------------------------------------------
\* The strengthening holds always: a call that began too early ends the behaviour.
THEOREM Invariance == Spec => []IInv
<1>1. ASSUME IInv, [Next]_vars PROVE IInv'
  <2>1. CASE UNCHANGED vars
    BY <1>1, <2>1 DEF IInv, vars, fileVars, consumerVars, TypeOK, OneCreator, Initializing,
       PushProgress, Held, PopProgress, CopyHalf, WaitingWhole, PoppedOnce, CopyWhole, Item, Slot
  <2>2. CASE Next
    <3>1. ~early BY <2>2 DEF Next
    <3>2. ASSUME NEW x \in Processes, Construct(x) \/ Crash(x) PROVE IInv'
      BY <1>1, <3>1, <3>2, ConstructStep, CrashStep
    <3>3. ASSUME Push PROVE IInv' BY <1>1, <3>1, <3>3, PushStep
    <3>4. ASSUME NEW c \in Consumers, WaitAndPop(c) \/ Pop(c) PROVE IInv'
      BY <1>1, <3>1, <3>4, PopStep
    <3>5. ASSUME NEW c \in TryPoppers, TryPop(c) PROVE IInv'
      <4>1. c \in Consumers BY ShmQueueAssumption
      <4> QED BY <1>1, <3>1, <3>5, <4>1, PopStep
    <3> QED BY <2>2, <3>2, <3>3, <3>4, <3>5 DEF Next
  <2> QED BY <1>1, <2>1, <2>2
<1> QED BY InitIInv, <1>1, PTL DEF Spec

\* What waits in the queue is whole: push drops an item rather than overwrite one, and a
\* producer that died within push is followed by one that begins the same number again.
THEOREM WaitingStaysWhole == Spec => []WaitingWhole
<1>1. IInv => WaitingWhole BY DEF IInv
<1> QED BY Invariance, <1>1, PTL

\* wait_and_pop gives every number to one consumer and leaves none out, for any number of
\* consumers that race for it and die.
THEOREM TakenOnce == Spec => []PoppedOnce
<1>1. IInv => PoppedOnce BY DEF IInv
<1> QED BY Invariance, <1>1, PTL

\* The copy that wait_and_pop makes after it took the number is the item, as long as the tail
\* has moved less than the length of the queue past it.
THEOREM CopyTrusted == Spec => []CopyWhole
<1>1. IInv => CopyWhole BY DEF IInv
<1> QED BY Invariance, <1>1, PTL
===============================================================================
