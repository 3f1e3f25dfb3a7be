---------------------------- MODULE MdRing_proofs ----------------------------
(***************************************************************************)
(* Proofs about MdRing, for every number of readers, every BlockNum and    *)
(* every MaxUpdates: the inductive invariant IInv, the properties it gives *)
(* and the safety half of the refinement of LatestFeed; and about MdQuery: *)
(* what a query by time answers while the ring is written, for every feed  *)
(* and every question, and the calendar for every year.                    *)
(***************************************************************************)
EXTENDS MdQuery, WellFoundedInduction, TLAPS

\* Numbers less than a ring apart have different slots.
LEMMA ModDistinct ==
    ASSUME NEW a \in Nat, NEW b \in Nat, NEW n \in Nat \ {0}, a < b, b < a + n
    PROVE  a % n # b % n
<1>1. \A c \in Nat : c = n * (c \div n) + (c % n) /\ c \div n \in Nat /\ c % n \in 0 .. n - 1
  BY SMTT(30)
<1>2. ASSUME NEW p \in Int, NEW q \in Int, p < q PROVE n * p + n <= n * q
  <2>1. n * (p + 1) <= n * q BY <1>2, SMTT(30)
  <2> QED BY <2>1, SMTT(30)
<1>3. a \div n \in Nat /\ b \div n \in Nat /\ a % n \in Int BY <1>1
<1>4. ASSUME a % n = b % n PROVE FALSE
  <2> DEFINE p == a \div n
             q == b \div n
             m == a % n
  <2>1. a = n * p + m /\ b = n * q + m /\ p \in Nat /\ q \in Nat /\ m \in Int
    BY <1>1, <1>3, <1>4
  <2> HIDE DEF p, q, m
  <2>2. n * p \in Int /\ n * q \in Int BY <2>1
  <2>3. CASE p < q BY <1>2, <2>1, <2>2, <2>3
  <2>4. CASE q < p BY <1>2, <2>1, <2>2, <2>4
  <2> QED BY <2>1, <2>3, <2>4
<1> QED BY <1>4

-----------------------------------------------------------------------------
(* The slots of the ring.                                                  *)

LEMMA SlotTypes ==
    ASSUME NEW n \in Nat
    PROVE  n % BlockNum \in Slots /\ ReadSlot(n) \in Slots
<1>1. \A k \in Nat : k % BlockNum \in Slots
  BY MdRingAssumption, SMTT(30) DEF Slots
<1>2. CASE n >= 1
  <2>1. n - 1 \in Nat BY <1>2
  <2> QED BY <1>1, <1>2, <2>1 DEF ReadSlot
<1>3. CASE ~(n >= 1)
  <2>1. 0 \in Slots BY MdRingAssumption DEF Slots
  <2> QED BY <1>1, <1>3, <2>1 DEF ReadSlot
<1> QED BY <1>2, <1>3

\* The slot being written holds none of the entries the window still promises.
LEMMA WindowSlotsDiffer ==
    ASSUME NEW c \in Nat, NEW n \in 1 .. c, n > c + 1 - BlockNum
    PROVE  ReadSlot(n) # c % BlockNum
<1>1. ReadSlot(n) = (n - 1) % BlockNum /\ n - 1 \in Nat /\ n - 1 < c
  BY DEF ReadSlot
<1>2. c < (n - 1) + BlockNum BY MdRingAssumption
<1> QED BY <1>1, <1>2, ModDistinct, MdRingAssumption

LEMMA ReadSlotOfNext ==
    ASSUME NEW c \in Nat
    PROVE  ReadSlot(c + 1) = c % BlockNum
BY DEF ReadSlot

-----------------------------------------------------------------------------
(* The inductive invariant.                                                *)

LEMMA InitIInv == Init => IInv
<1> SUFFICES ASSUME Init PROVE IInv OBVIOUS
<1> USE MdRingAssumption DEF Init, Entry, Slots, Readers
<1>1. TypeOK BY DEF TypeOK
<1>2. RingWindow /\ NeverOlder BY DEF RingWindow, NeverOlder
<1>3. WriterSlot BY DEF WriterSlot
<1>4. ReaderProgress /\ MarkBound /\ HalfRead
  BY DEF ReaderProgress, MarkBound, HalfRead, Reading
<1>5. IntactUntilLapped /\ NeverOlderThanTag /\ MarkCovered
  BY DEF IntactUntilLapped, NeverOlderThanTag, MarkCovered
<1> QED BY <1>1, <1>2, <1>3, <1>4, <1>5 DEF IInv

\* The four steps of on_rtn_data.
LEMMA WriterStep == IInv /\ OnRtnData => IInv'
<1> SUFFICES ASSUME IInv, OnRtnData PROVE IInv' OBVIOUS
<1> USE DEF IInv
<1>t. TypeOK OBVIOUS
<1>c. current_index \in Nat /\ WriteSlot \in Slots
  BY <1>t, SlotTypes DEF TypeOK, WriteSlot
<1>1. CASE CopyLo
  <2> USE <1>1 DEF CopyLo, writerVars, readerVars
  <2>1. TypeOK' BY <1>t, <1>c DEF TypeOK
  <2>2. \A s \in Slots : s # WriteSlot => dat'[s] = dat[s]
    BY <1>t, <1>c DEF TypeOK
  <2>3. dat'[WriteSlot] = [lo |-> current_index + 1, hi |-> dat[WriteSlot].hi]
    BY <1>t, <1>c DEF TypeOK
  <2>4. RingWindow'
    <3> SUFFICES ASSUME NEW n \in 1 .. current_index,
                        n > current_index - BlockNum,
                        n # current_index + 1 - BlockNum
                 PROVE  dat'[ReadSlot(n)] = Entry(n)
      BY <1>c DEF RingWindow, Overwriting, ReadSlot
    <3>1. n > current_index + 1 - BlockNum BY <1>c, MdRingAssumption
    <3>2. ReadSlot(n) # WriteSlot BY <3>1, <1>c, WindowSlotsDiffer DEF WriteSlot
    <3>3. ReadSlot(n) \in Slots BY SlotTypes
    <3>4. dat[ReadSlot(n)] = Entry(n) BY DEF RingWindow, Overwriting
    <3> QED BY <2>2, <3>2, <3>3, <3>4
  <2>5. WriterSlot' BY <2>3 DEF WriterSlot, WriteSlot
  <2>6. NeverOlder'
    <3> SUFFICES ASSUME NEW n \in 1 .. current_index
                 PROVE  dat'[ReadSlot(n)].lo >= n /\ dat'[ReadSlot(n)].hi >= n
      BY <1>c DEF NeverOlder, ReadSlot
    <3>1. ReadSlot(n) \in Slots BY SlotTypes
    <3>2. dat[ReadSlot(n)].lo >= n /\ dat[ReadSlot(n)].hi >= n BY DEF NeverOlder
    <3> QED BY <1>c, <2>2, <2>3, <3>1, <3>2
  <2>7. ReaderProgress' /\ MarkBound' /\ HalfRead'
    BY DEF ReaderProgress, MarkBound, HalfRead, Reading
  <2>8. IntactUntilLapped' /\ NeverOlderThanTag' /\ MarkCovered'
    BY DEF IntactUntilLapped, NeverOlderThanTag, MarkCovered
  <2> QED BY <2>1, <2>4, <2>5, <2>6, <2>7, <2>8
<1>2. CASE CopyHi
  <2> USE <1>2 DEF CopyHi, writerVars, readerVars
  <2>1. TypeOK' BY <1>t, <1>c DEF TypeOK
  <2>2. \A s \in Slots : s # WriteSlot => dat'[s] = dat[s]
    BY <1>t, <1>c DEF TypeOK
  <2>3. dat'[WriteSlot] = Entry(current_index + 1)
    <3>1. dat[WriteSlot].lo = current_index + 1 BY DEF WriterSlot
    <3> QED BY <1>t, <1>c, <3>1 DEF TypeOK, Entry
  <2>4. RingWindow'
    <3> SUFFICES ASSUME NEW n \in 1 .. current_index,
                        n > current_index - BlockNum,
                        n # current_index + 1 - BlockNum
                 PROVE  dat'[ReadSlot(n)] = Entry(n)
      BY <1>c DEF RingWindow, Overwriting, ReadSlot
    <3>1. n > current_index + 1 - BlockNum BY <1>c, MdRingAssumption
    <3>2. ReadSlot(n) # WriteSlot BY <3>1, <1>c, WindowSlotsDiffer DEF WriteSlot
    <3>3. ReadSlot(n) \in Slots BY SlotTypes
    <3>4. dat[ReadSlot(n)] = Entry(n) BY DEF RingWindow, Overwriting
    <3> QED BY <2>2, <3>2, <3>3, <3>4
  <2>5. WriterSlot' BY <2>3 DEF WriterSlot, WriteSlot, Entry
  <2>6. NeverOlder'
    <3> SUFFICES ASSUME NEW n \in 1 .. current_index
                 PROVE  dat'[ReadSlot(n)].lo >= n /\ dat'[ReadSlot(n)].hi >= n
      BY <1>c DEF NeverOlder, ReadSlot
    <3>1. ReadSlot(n) \in Slots BY SlotTypes
    <3>2. dat[ReadSlot(n)].lo >= n /\ dat[ReadSlot(n)].hi >= n BY DEF NeverOlder
    <3> QED BY <1>c, <2>2, <2>3, <3>1, <3>2 DEF Entry
  <2>7. ReaderProgress' /\ MarkBound' /\ HalfRead'
    BY DEF ReaderProgress, MarkBound, HalfRead, Reading
  <2>8. IntactUntilLapped' /\ NeverOlderThanTag' /\ MarkCovered'
    BY DEF IntactUntilLapped, NeverOlderThanTag, MarkCovered
  <2> QED BY <2>1, <2>4, <2>5, <2>6, <2>7, <2>8
<1>3. CASE Publish
  <2> USE <1>3 DEF Publish, writerVars, readerVars
  <2>1. TypeOK' BY <1>t DEF TypeOK
  <2>2. dat[ReadSlot(current_index + 1)] = Entry(current_index + 1)
    BY <1>c, ReadSlotOfNext DEF WriterSlot, WriteSlot
  <2>3. RingWindow'
    <3>1. ASSUME NEW n \in 1 .. current_index + 1,
                 n > current_index + 1 - BlockNum
          PROVE  dat[ReadSlot(n)] = Entry(n)
      <4>1. CASE n = current_index + 1 BY <2>2, <4>1
      <4>2. CASE n # current_index + 1
        <5>1. n \in 1 .. current_index /\ n > current_index - BlockNum
          BY <1>c, <3>1, <4>2, MdRingAssumption
        <5>2. n # current_index + 1 - BlockNum BY <1>c, <3>1, MdRingAssumption
        <5> QED BY <5>1, <5>2 DEF RingWindow
      <4> QED BY <4>1, <4>2
    <3>2. /\ current_index' = current_index + 1
          /\ dat' = dat
      OBVIOUS
    <3> QED BY <1>c, <3>1, <3>2, MdRingAssumption DEF RingWindow, ReadSlot, Entry, Overwriting
  <2>4. WriterSlot' BY DEF WriterSlot
  <2>5. NeverOlder'
    <3> SUFFICES ASSUME NEW n \in 1 .. current_index + 1
                 PROVE  dat[ReadSlot(n)].lo >= n /\ dat[ReadSlot(n)].hi >= n
      BY <1>c DEF NeverOlder, ReadSlot
    <3>1. CASE n = current_index + 1 BY <1>c, <2>2, <3>1 DEF Entry
    <3>2. CASE n # current_index + 1
      <4>1. n \in 1 .. current_index BY <1>c, <3>2
      <4> QED BY <4>1 DEF NeverOlder
    <3> QED BY <3>1, <3>2
  <2>6. ReaderProgress'
    BY <1>t, <1>c DEF ReaderProgress, Reading, TypeOK
  <2>7. MarkBound' BY <1>t, <1>c DEF MarkBound, TypeOK, Readers
  <2>8. HalfRead' BY <1>t, <1>c, MdRingAssumption DEF HalfRead, TypeOK
  <2>9. IntactUntilLapped'
    BY <1>t, <1>c, MdRingAssumption DEF IntactUntilLapped, TypeOK
  <2>10. NeverOlderThanTag' /\ MarkCovered'
    BY DEF NeverOlderThanTag, MarkCovered
  <2> QED BY <2>1, <2>3, <2>4, <2>5, <2>6, <2>7, <2>8, <2>9, <2>10
<1>4. CASE CountUpdate
  <2> USE <1>4 DEF CountUpdate, writerVars, readerVars
  <2>1. TypeOK' BY <1>t DEF TypeOK
  <2>2. RingWindow' /\ NeverOlder' /\ WriterSlot'
    BY DEF RingWindow, NeverOlder, WriterSlot, Overwriting, ReadSlot
  <2>3. ReaderProgress' /\ MarkBound' /\ HalfRead'
    BY DEF ReaderProgress, MarkBound, HalfRead, Reading
  <2>4. IntactUntilLapped' /\ NeverOlderThanTag' /\ MarkCovered'
    BY DEF IntactUntilLapped, NeverOlderThanTag, MarkCovered
  <2> QED BY <2>1, <2>2, <2>3, <2>4
<1> QED BY <1>1, <1>2, <1>3, <1>4 DEF OnRtnData

-----------------------------------------------------------------------------
(* The steps of the readers leave the writer's state alone, so the parts   *)
(* of IInv about the ring alone are preserved by all of them.              *)

LEMMA RingUnchanged ==
    IInv /\ UNCHANGED writerVars
        => RingWindow' /\ WriterSlot' /\ NeverOlder'
BY DEF IInv, writerVars, RingWindow, WriterSlot, NeverOlder, Overwriting,
       ReadSlot, WriteSlot

\* What the slot of a published entry holds when it is read.
LEMMA SlotContents ==
    ASSUME IInv, NEW n \in 1 .. current_index
    PROVE  /\ dat[ReadSlot(n)].lo >= n
           /\ dat[ReadSlot(n)].hi >= n
           /\ current_index < n + BlockNum - 1 => dat[ReadSlot(n)] = Entry(n)
<1> USE DEF IInv
<1>1. dat[ReadSlot(n)].lo >= n /\ dat[ReadSlot(n)].hi >= n BY DEF NeverOlder
<1>2. ASSUME current_index < n + BlockNum - 1 PROVE dat[ReadSlot(n)] = Entry(n)
  <2>1. current_index \in Nat BY DEF TypeOK
  <2>2. n > current_index - BlockNum /\ n # current_index + 1 - BlockNum
    BY <1>2, <2>1, MdRingAssumption
  <2> QED BY <2>2 DEF RingWindow
<1> QED BY <1>1, <1>2

LEMMA ReaderStep == ASSUME IInv, NEW r \in Readers, SubMd(r) \/ Read(r) PROVE IInv'
<1> USE DEF IInv
<1>t. TypeOK OBVIOUS
<1>u. UNCHANGED writerVars
  BY DEF SubMd, Read, PollCheck, PollStore, GetCurCheck, GetNum, Resolve, ReadLo, ReadHi
<1>w. RingWindow' /\ WriterSlot' /\ NeverOlder' BY <1>u, RingUnchanged
<1>c. /\ current_index \in Nat /\ current_index' = current_index
      /\ ent[r] \in Nat /\ tag[r] \in Nat /\ mark[r] \in Nat
      /\ delivered[r] \in Int
  BY <1>t, <1>u DEF TypeOK, writerVars
<1>1. CASE SubMd(r)
  <2> USE <1>1 DEF SubMd
  <2>1. TypeOK' BY <1>t, <1>u DEF TypeOK, writerVars
  <2>2. ReaderProgress' BY <1>t, <1>c DEF ReaderProgress, Reading, TypeOK
  <2>3. MarkBound' /\ HalfRead' BY <1>t, <1>c DEF MarkBound, HalfRead, TypeOK, Readers
  <2>4. IntactUntilLapped' BY <1>t, <1>c DEF IntactUntilLapped, ReaderProgress, TypeOK
  <2>5. NeverOlderThanTag'
    <3>1. tag[r] = 0 BY DEF ReaderProgress
    <3>2. got[r].lo \in Nat /\ got[r].hi \in Nat BY <1>t DEF TypeOK
    <3> QED BY <1>t, <3>1, <3>2 DEF NeverOlderThanTag, TypeOK
  <2>6. MarkCovered' BY <1>t, <1>c DEF MarkCovered, TypeOK, Readers
  <2> QED BY <1>w, <2>1, <2>2, <2>3, <2>4, <2>5, <2>6
<1>2. CASE PollCheck(r)
  <2> USE <1>2 DEF PollCheck
  <2>1. TypeOK' BY <1>t, <1>u DEF TypeOK, writerVars
  <2>2. ReaderProgress' BY <1>t, <1>c DEF ReaderProgress, Reading, TypeOK
  <2>3. MarkBound' /\ HalfRead' BY <1>t, <1>c DEF MarkBound, HalfRead, TypeOK, Readers
  <2>4. IntactUntilLapped' /\ NeverOlderThanTag' /\ MarkCovered'
    BY <1>t, <1>c DEF IntactUntilLapped, NeverOlderThanTag, MarkCovered, TypeOK, Readers
  <2> QED BY <1>w, <2>1, <2>2, <2>3, <2>4
<1>3. CASE PollStore(r)
  <2> USE <1>3 DEF PollStore
  <2>1. TypeOK' BY <1>t, <1>u DEF TypeOK, writerVars
  <2>2. ReaderProgress' BY <1>t, <1>c DEF ReaderProgress, Reading, TypeOK
  <2>3. MarkBound' /\ HalfRead' BY <1>t, <1>c DEF MarkBound, HalfRead, TypeOK, Readers
  <2>4. IntactUntilLapped' /\ NeverOlderThanTag' /\ MarkCovered'
    BY <1>t, <1>c DEF IntactUntilLapped, NeverOlderThanTag, MarkCovered, TypeOK, Readers
  <2> QED BY <1>w, <2>1, <2>2, <2>3, <2>4
<1>4. CASE GetCurCheck(r)
  <2> USE <1>4 DEF GetCurCheck
  <2>1. TypeOK' BY <1>t, <1>u DEF TypeOK, writerVars
  <2>2. ReaderProgress' BY <1>t, <1>c DEF ReaderProgress, Reading, TypeOK
  <2>3. MarkBound' /\ HalfRead' BY <1>t, <1>c DEF MarkBound, HalfRead, TypeOK, Readers
  <2>4. /\ rpc' = [rpc EXCEPT ![r] = rpc'[r]]
        /\ rpc'[r] \in {"resolve", "idle"}
        /\ rpc'[r] = "idle" => current_index = 0
    BY <1>t, <1>c DEF TypeOK
  <2>5. rpc'[r] = "idle" => ent[r] = 0 /\ tag[r] = 0 /\ delivered[r] >= 0
    BY <1>c, <2>4 DEF ReaderProgress
  <2>6. IntactUntilLapped'
    BY <1>t, <1>c, <2>4, <2>5 DEF IntactUntilLapped, TypeOK
  <2>7. NeverOlderThanTag'
    <3>1. got[r].lo \in Nat /\ got[r].hi \in Nat BY <1>t DEF TypeOK
    <3> QED BY <1>t, <2>4, <2>5, <3>1 DEF NeverOlderThanTag, TypeOK
  <2>8. MarkCovered'
    <3>1. r \in Pollers /\ rpc'[r] = "idle" => mark[r] = 0
      BY <1>c, <2>4 DEF MarkBound
    <3> QED BY <1>t, <1>c, <2>4, <2>5, <3>1 DEF MarkCovered, TypeOK, Readers
  <2> QED BY <1>w, <2>1, <2>2, <2>3, <2>6, <2>7, <2>8
<1>5. CASE GetNum(r)
  <2> USE <1>5, MdRingAssumption DEF GetNum
  <2>1. TypeOK' BY <1>t, <1>u DEF TypeOK, writerVars
  <2>2. ReaderProgress' BY <1>t, <1>c DEF ReaderProgress, Reading, TypeOK
  <2>3. MarkBound' /\ HalfRead' BY <1>t, <1>c DEF MarkBound, HalfRead, TypeOK, Readers
  <2>4. IntactUntilLapped' /\ NeverOlderThanTag' /\ MarkCovered'
    BY <1>t, <1>c DEF IntactUntilLapped, NeverOlderThanTag, MarkCovered, TypeOK, Readers
  <2> QED BY <1>w, <2>1, <2>2, <2>3, <2>4
<1>6. CASE Resolve(r)
  <2> USE <1>6 DEF Resolve
  <2>1. TypeOK' BY <1>t, <1>u DEF TypeOK, writerVars
  <2>2. ReaderProgress' BY <1>t, <1>c DEF ReaderProgress, Reading, TypeOK
  <2>3. MarkBound' /\ HalfRead' BY <1>t, <1>c DEF MarkBound, HalfRead, TypeOK, Readers
  <2>4. IntactUntilLapped' /\ NeverOlderThanTag' /\ MarkCovered'
    BY <1>t, <1>c DEF IntactUntilLapped, NeverOlderThanTag, MarkCovered, TypeOK, Readers
  <2> QED BY <1>w, <2>1, <2>2, <2>3, <2>4
<1>7. CASE ReadLo(r)
  <2> USE <1>7 DEF ReadLo
  <2>0. /\ ReadSlot(ent[r]) \in Slots
        /\ dat[ReadSlot(ent[r])] \in [lo : Nat, hi : Nat]
    BY <1>t, <1>c, SlotTypes DEF TypeOK
  <2>1. TypeOK' BY <1>t, <1>u, <2>0 DEF TypeOK, writerVars
  <2>2. ReaderProgress' BY <1>t, <1>c DEF ReaderProgress, Reading, TypeOK
  <2>3. MarkBound' BY <1>t, <1>c DEF MarkBound, TypeOK, Readers
  <2>4. got'[r].lo = dat[ReadSlot(ent[r])].lo
        /\ \A q \in Readers : q # r => got'[q] = got[q]
    BY <1>t DEF TypeOK
  <2>5. got'[r].lo >= ent[r]
        /\ (ent[r] >= 1 /\ current_index < ent[r] + BlockNum - 1 => got'[r].lo = ent[r])
    <3>1. CASE ent[r] = 0 BY <2>0, <2>4, <3>1
    <3>2. CASE ent[r] # 0
      <4>1. ent[r] \in 1 .. current_index BY <1>c, <3>2 DEF ReaderProgress
      <4>2. /\ dat[ReadSlot(ent[r])].lo >= ent[r]
            /\ dat[ReadSlot(ent[r])].hi >= ent[r]
            /\ current_index < ent[r] + BlockNum - 1
                  => dat[ReadSlot(ent[r])] = Entry(ent[r])
        BY <4>1, SlotContents
      <4> QED BY <1>c, <2>4, <4>1, <4>2 DEF Entry
    <3> QED BY <3>1, <3>2
  <2>6. HalfRead' BY <1>t, <1>c, <2>4, <2>5 DEF HalfRead, TypeOK
  <2>7. IntactUntilLapped' /\ NeverOlderThanTag' /\ MarkCovered'
    BY <1>t, <1>c, <2>4 DEF IntactUntilLapped, NeverOlderThanTag, MarkCovered, TypeOK, Readers
  <2> QED BY <1>w, <2>1, <2>2, <2>3, <2>6, <2>7
<1>8. CASE ReadHi(r)
  <2> USE <1>8 DEF ReadHi
  <2>0. /\ ReadSlot(ent[r]) \in Slots
        /\ dat[ReadSlot(ent[r])] \in [lo : Nat, hi : Nat]
    BY <1>t, <1>c, SlotTypes DEF TypeOK
  <2>1. TypeOK' BY <1>t, <1>u, <2>0 DEF TypeOK, writerVars
  <2>2. ReaderProgress' BY <1>t, <1>c DEF ReaderProgress, Reading, TypeOK
  <2>3. MarkBound' BY <1>t, <1>c DEF MarkBound, TypeOK, Readers
  <2>4. /\ got'[r] = [lo |-> got[r].lo, hi |-> dat[ReadSlot(ent[r])].hi]
        /\ \A q \in Readers : q # r => got'[q] = got[q]
    BY <1>t DEF TypeOK
  <2>5. HalfRead' BY <1>t, <1>c, <2>4 DEF HalfRead, TypeOK
  <2>6. /\ got'[r].lo >= ent[r] /\ got'[r].hi >= ent[r]
        /\ ent[r] >= 1 /\ current_index < ent[r] + BlockNum - 1
              => got'[r] = Entry(ent[r])
    <3>1. CASE ent[r] = 0 BY <2>0, <2>4, <3>1 DEF HalfRead
    <3>2. CASE ent[r] # 0
      <4>1. ent[r] \in 1 .. current_index BY <1>c, <3>2 DEF ReaderProgress
      <4>2. /\ dat[ReadSlot(ent[r])].lo >= ent[r]
            /\ dat[ReadSlot(ent[r])].hi >= ent[r]
            /\ current_index < ent[r] + BlockNum - 1
                  => dat[ReadSlot(ent[r])] = Entry(ent[r])
        BY <4>1, SlotContents
      <4> QED BY <1>c, <2>4, <4>1, <4>2 DEF Entry, HalfRead
    <3> QED BY <3>1, <3>2
  <2>7. IntactUntilLapped'
    BY <1>t, <1>c, <2>4, <2>6 DEF IntactUntilLapped, TypeOK, Entry
  <2>8. NeverOlderThanTag'
    <3>1. tag[r] <= ent[r] BY DEF ReaderProgress, Reading
    <3>2. got'[r].lo \in Nat /\ got'[r].hi \in Nat BY <2>1 DEF TypeOK
    <3>3. got'[r].lo >= tag[r] /\ got'[r].hi >= tag[r] BY <1>c, <2>6, <3>1, <3>2
    <3> QED BY <1>t, <1>c, <2>4, <3>3 DEF NeverOlderThanTag, TypeOK
  <2>9. MarkCovered'
    <3>1. r \in Pollers => mark[r] <= ent[r]
      BY <1>c DEF MarkBound, ReaderProgress, Reading
    <3> QED BY <1>t, <1>c, <3>1 DEF MarkCovered, TypeOK, Readers
  <2> QED BY <1>w, <2>1, <2>2, <2>3, <2>5, <2>7, <2>8, <2>9
<1> QED BY <1>1, <1>2, <1>3, <1>4, <1>5, <1>6, <1>7, <1>8 DEF Read

LEMMA NextIInv == IInv /\ [Next]_vars => IInv'
<1> SUFFICES ASSUME IInv, [Next]_vars PROVE IInv' OBVIOUS
<1>1. CASE OnRtnData BY <1>1, WriterStep
<1>2. CASE \E r \in Readers : SubMd(r) \/ Read(r) BY <1>2, ReaderStep
<1>3. CASE StopWork \/ UNCHANGED vars
  <2> USE <1>3 DEF IInv, StopWork, vars, writerVars, readerVars
  <2>1. TypeOK' BY DEF TypeOK
  <2>2. RingWindow' /\ WriterSlot' /\ NeverOlder' BY RingUnchanged
  <2>3. ReaderProgress' /\ MarkBound' /\ HalfRead'
    BY DEF ReaderProgress, MarkBound, HalfRead, Reading
  <2>4. IntactUntilLapped' /\ NeverOlderThanTag' /\ MarkCovered'
    BY DEF IntactUntilLapped, NeverOlderThanTag, MarkCovered
  <2> QED BY <2>1, <2>2, <2>3, <2>4
<1> QED BY <1>1, <1>2, <1>3 DEF Next

-----------------------------------------------------------------------------
(* What the specification satisfies.                                       *)

\* Every reachable state of the ring and of its readers satisfies IInv.
THEOREM Invariance == SafeSpec => []IInv
<1>1. Init => IInv BY InitIInv
<1>2. IInv /\ [Next]_vars => IInv' BY NextIInv
<1> QED BY <1>1, <1>2, PTL DEF SafeSpec

\* The variables keep their types.
THEOREM TypeCorrect == SafeSpec => []TypeOK
<1>1. IInv => TypeOK BY DEF IInv
<1> QED BY <1>1, Invariance, PTL

\* The last BlockNum entries stay whole in their slots, for every ring length.
THEOREM WindowKept == SafeSpec => []RingWindow
<1>1. IInv => RingWindow BY DEF IInv
<1> QED BY <1>1, Invariance, PTL

\* A copy is the entry it was taken for unless the reader was lapped.
THEOREM CopyIntact == SafeSpec => []IntactUntilLapped
<1>1. IInv => IntactUntilLapped BY DEF IInv
<1> QED BY <1>1, Invariance, PTL

\* A read is never older than the update number the reader took for it.
THEOREM ReadNotStale == SafeSpec => []NeverOlderThanTag
<1>1. IInv => NeverOlderThanTag BY DEF IInv
<1> QED BY <1>1, Invariance, PTL

\* The mark never hides an update that was not delivered.
THEOREM PollLosesNothing == SafeSpec => []MarkCovered
<1>1. IInv => MarkCovered BY DEF IInv
<1> QED BY <1>1, Invariance, PTL

\* No reader is sent back to an earlier entry.
THEOREM DeliveryMonotone == SafeSpec => NeverBackwards
<1>1. ASSUME IInv, [Next]_vars
      PROVE  \A r \in Readers : delivered'[r] >= delivered[r]
  <2> USE <1>1 DEF IInv
  <2> SUFFICES ASSUME NEW r \in Readers PROVE delivered'[r] >= delivered[r]
    OBVIOUS
  <2>t. TypeOK OBVIOUS
  <2>d. delivered[r] \in Int /\ ent[r] \in Int /\ current_index \in Nat
    BY <2>t DEF TypeOK
  <2>1. CASE delivered' = delivered BY <2>1, <2>d
  <2>2. ASSUME NEW q \in Readers, SubMd(q) PROVE delivered'[r] >= delivered[r]
    BY <2>2, <2>t, <2>d DEF SubMd, TypeOK, ReaderProgress
  <2>3. ASSUME NEW q \in Readers, ReadHi(q) PROVE delivered'[r] >= delivered[r]
    BY <2>3, <2>t, <2>d DEF ReadHi, TypeOK, ReaderProgress, Reading
  <2>4. CASE OnRtnData
    BY <2>1, <2>4 DEF OnRtnData, CopyLo, CopyHi, Publish, CountUpdate, readerVars
  <2>5. ASSUME NEW q \in Readers, Read(q), ~ReadHi(q)
        PROVE  delivered' = delivered
    BY <2>5 DEF Read, PollCheck, PollStore, GetCurCheck, GetNum, Resolve, ReadLo
  <2>6. CASE StopWork \/ UNCHANGED vars
    BY <2>1, <2>6 DEF StopWork, vars, readerVars
  <2> QED BY <2>1, <2>2, <2>3, <2>4, <2>5, <2>6 DEF Next
<1>2. IInv /\ [Next]_vars => [\A r \in Readers : delivered'[r] >= delivered[r]]_vars
  BY <1>1
<1> QED BY <1>2, Invariance, PTL DEF SafeSpec, NeverBackwards

-----------------------------------------------------------------------------
(* The ring implements the safety of the abstract feed.                    *)

FeedSafety == Feed!Init /\ [][Feed!Next]_Feed!vars

\* Every step of the ring is a Publish, a Subscribe, a Deliver, a Stop or nothing
\* at all of LatestFeed; the fairness half of Feed!Spec is left to TLC.
THEOREM ImplementsFeed == SafeSpec => FeedSafety
<1>1. Init => Feed!Init
  BY DEF Init, Feed!Init, Readers
<1>2. ASSUME IInv, [Next]_vars PROVE [Feed!Next]_Feed!vars
  <2> USE <1>2 DEF IInv
  <2>t. TypeOK OBVIOUS
  <2> DEFINE seen == [r \in Pollers |-> delivered[r]]
  <2>p. \A r \in Pollers : r \in Readers BY DEF Readers
  <2>s. /\ delivered' = delivered
        /\ current_index' = current_index
        /\ m_running' = m_running
        => UNCHANGED Feed!vars
    BY DEF Feed!vars
  <2>1. CASE OnRtnData
    <3>1. CASE Publish
      BY <3>1 DEF Publish, readerVars, Feed!Next, Feed!Publish
    <3>2. CASE CopyLo \/ CopyHi \/ CountUpdate
      BY <2>s, <3>2 DEF CopyLo, CopyHi, CountUpdate, readerVars
    <3> QED BY <2>1, <3>1, <3>2 DEF OnRtnData
  <2>2. ASSUME NEW r \in Readers, SubMd(r) PROVE [Feed!Next]_Feed!vars
    <3>1. current_index' = current_index /\ m_running' = m_running
      BY <2>2 DEF SubMd, writerVars
    <3>2. CASE r \in Pollers /\ delivered[r] = -1
      <4>1. seen' = [seen EXCEPT ![r] = current_index]
        BY <2>2, <2>t, <2>p DEF SubMd, TypeOK
      <4>2. Feed!Subscribe(r) BY <3>1, <3>2, <4>1 DEF Feed!Subscribe
      <4> QED BY <3>2, <4>2 DEF Feed!Next
    <3>3. CASE r \notin Pollers
      <4>1. seen' = seen BY <2>2, <2>t, <2>p, <3>3 DEF SubMd, TypeOK
      <4> QED BY <3>1, <4>1 DEF Feed!vars
    <3>4. rpc[r] = "unsubscribed" => delivered[r] = -1
      BY DEF ReaderProgress
    <3> QED BY <2>2, <3>2, <3>3, <3>4 DEF SubMd
  <2>3. ASSUME NEW r \in Readers, ReadHi(r) PROVE [Feed!Next]_Feed!vars
    <3>1. current_index' = current_index /\ m_running' = m_running
      BY <2>3 DEF ReadHi, writerVars
    <3>2. /\ delivered[r] \in Int /\ ent[r] \in Int /\ current_index \in Int
          /\ delivered[r] >= 0 /\ delivered[r] <= ent[r] /\ ent[r] <= current_index
      BY <2>3, <2>t DEF ReadHi, TypeOK, ReaderProgress, Reading
    <3>3. CASE r \in Pollers /\ delivered[r] < ent[r]
      <4>1. seen' = [seen EXCEPT ![r] = ent[r]]
        BY <2>3, <2>t, <2>p DEF ReadHi, TypeOK
      <4>2. ent[r] \in delivered[r] + 1 .. current_index BY <3>2, <3>3
      <4>3. Feed!Deliver(r)
        BY <3>1, <3>2, <3>3, <4>1, <4>2 DEF Feed!Deliver
      <4> QED BY <3>3, <4>3 DEF Feed!Next
    <3>4. CASE r \notin Pollers \/ delivered[r] = ent[r]
      <4>1. seen' = seen BY <2>3, <2>t, <2>p, <3>4 DEF ReadHi, TypeOK
      <4> QED BY <3>1, <4>1 DEF Feed!vars
    <3> QED BY <3>2, <3>3, <3>4
  <2>4. ASSUME NEW r \in Readers, Read(r), ~ReadHi(r) PROVE [Feed!Next]_Feed!vars
    BY <2>4, <2>s DEF Read, PollCheck, PollStore, GetCurCheck, GetNum, Resolve,
                      ReadLo, writerVars
  <2>5. CASE StopWork
    BY <2>5 DEF StopWork, writerVars, readerVars, Feed!Next, Feed!Stop
  <2>6. CASE UNCHANGED vars
    BY <2>6, <2>s DEF vars, writerVars, readerVars
  <2> QED BY <2>1, <2>2, <2>3, <2>4, <2>5, <2>6 DEF Next
<1> QED BY <1>1, <1>2, Invariance, PTL DEF SafeSpec, FeedSafety

-----------------------------------------------------------------------------
(* The queries by time.  What a load can have returned.                    *)

\* The writer of MdRing writes as it does there; a query leaves the ring alone.
LEMMA QueryNextIInv == IInv /\ [QueryNext]_allVars => IInv'
<1> SUFFICES ASSUME IInv, [QueryNext]_allVars PROVE IInv' OBVIOUS
<1>1. [Next]_vars BY DEF QueryNext, allVars, Next
<1> QED BY <1>1, NextIInv

LEMMA FeedGrows ==
    ASSUME QueryTypeOK, NEW m \in 0 .. MaxUpdates, NEW n \in 0 .. MaxUpdates, m <= n
    PROVE  feed[m] \in Nat /\ feed[n] \in Nat /\ feed[m] <= feed[n]
<1>1. feed \in Feeds BY DEF QueryTypeOK
<1>2. feed \in [0 .. MaxUpdates -> Nat] BY <1>1, QueryAssumption
<1>3. \A a, b \in 0 .. MaxUpdates : a <= b => feed[a] <= feed[b] BY <1>1, QueryAssumption
<1> QED BY <1>2, <1>3

\* Later updates have later times, or the same.
LEMMA TimesOrdered ==
    ASSUME TypeOK, QueryTypeOK, SlotBound,
           NEW i \in 0 .. current_index - 1, NEW j \in 0 .. current_index - 1, i <= j
    PROVE  TimeOf(i) \in Nat /\ TimeOf(j) \in Nat /\ TimeOf(i) <= TimeOf(j)
<1>1. i + 1 \in 0 .. MaxUpdates /\ j + 1 \in 0 .. MaxUpdates /\ i + 1 <= j + 1
  BY MdRingAssumption DEF TypeOK, SlotBound
<1> QED BY <1>1, FeedGrows DEF TimeOf

\* A slot has the update that is looked for or, when the ring has given it up, a later one.
LEMMA TimeRead ==
    ASSUME IInv, QueryTypeOK, SlotBound, NEW i \in 0 .. current_index - 1
    PROVE  /\ Time(i) \in Nat
           /\ TimeOf(i) \in Nat
           /\ TimeOf(i) <= Time(i)
           /\ Holds(i) => Time(i) = TimeOf(i)
<1> USE DEF IInv
<1>t. current_index \in Nat /\ MaxUpdates \in Nat /\ BlockNum \in Nat
  BY MdRingAssumption DEF TypeOK
<1>1. i \in Nat /\ i + 1 \in 1 .. current_index BY <1>t
<1>2. ReadSlot(i + 1) = i % BlockNum BY <1>1 DEF ReadSlot
<1>3. i % BlockNum \in Slots BY <1>1, SlotTypes
<1> DEFINE n == dat[i % BlockNum].lo
<1>4. n \in Nat /\ n >= i + 1 BY <1>1, <1>2, <1>3 DEF TypeOK, NeverOlder
<1>5. n <= MaxUpdates
  <2>1. n <= IF Overwriting THEN current_index + 1 ELSE current_index
    BY <1>3 DEF SlotBound
  <2> QED BY <1>t, <1>4, <2>1 DEF SlotBound
<1>6. Holds(i) => n = i + 1
  <2> SUFFICES ASSUME Holds(i) PROVE n = i + 1 OBVIOUS
  <2>1. i + 1 > current_index - BlockNum /\ (Overwriting => i + 1 # current_index + 1 - BlockNum)
    BY <1>t, <1>1 DEF Holds
  <2>2. dat[ReadSlot(i + 1)] = Entry(i + 1) BY <1>1, <2>1 DEF RingWindow
  <2> QED BY <1>2, <2>2 DEF Entry
<1> HIDE DEF n
<1>7. i + 1 \in 0 .. MaxUpdates /\ n \in 0 .. MaxUpdates /\ i + 1 <= n
  BY <1>t, <1>1, <1>4, <1>5
<1>8. feed[i + 1] \in Nat /\ feed[n] \in Nat /\ feed[i + 1] <= feed[n]
  BY <1>7, FeedGrows
<1> QED BY <1>6, <1>8 DEF Time, TimeOf, n

\* The ring gives up its entries in their order.
LEMMA HoldsLater ==
    ASSUME TypeOK, NEW i \in Int, NEW j \in Int, Holds(i), i <= j, j < current_index
    PROVE  Holds(j)
BY MdRingAssumption DEF TypeOK, Holds

\* What it still holds of the past it held when the query began.
LEMMA HeldWhenAsked ==
    ASSUME TypeOK, QueryTypeOK, AskedOfRing, qpc # "none", NEW i \in Int, Holds(i)
    PROVE  start <= i
BY MdRingAssumption DEF TypeOK, QueryTypeOK, AskedOfRing, Holds

\* A step of the writer gives no entry back, and takes no slot to an earlier time.
LEMMA WriterKeeps ==
    ASSUME IInv, QueryTypeOK, SlotBound, OnRtnData, feed' = feed,
           NEW i \in 0 .. current_index - 1
    PROVE  /\ Time(i) \in Nat /\ Time(i)' \in Nat /\ Time(i) <= Time(i)'
           /\ Holds(i)' => Holds(i)
           /\ i \in 0 .. current_index' - 1
<1> USE DEF IInv
<1>t. current_index \in Nat /\ MaxUpdates \in Nat /\ BlockNum \in Nat \ {0}
  BY MdRingAssumption DEF TypeOK
<1>s. i % BlockNum \in Slots /\ WriteSlot \in Slots BY <1>t, SlotTypes DEF WriteSlot
<1> DEFINE n == dat[i % BlockNum].lo
           m == dat'[i % BlockNum].lo
<1>1. n \in Nat /\ m \in Nat /\ n <= m /\ m <= MaxUpdates
  <2>0. n \in Nat /\ n <= IF Overwriting THEN current_index + 1 ELSE current_index
    BY <1>s DEF TypeOK, SlotBound
  <2>1. CASE CopyLo
    <3>1. dat' = [dat EXCEPT ![WriteSlot].lo = current_index + 1]
          /\ current_index < MaxUpdates /\ ~Overwriting
      BY <2>1 DEF CopyLo, Overwriting
    <3>2. m = n \/ m = current_index + 1 BY <1>s, <3>1 DEF TypeOK
    <3> QED BY <1>t, <2>0, <3>1, <3>2
  <2>2. CASE CopyHi
    <3>1. m = n BY <1>s, <2>2 DEF CopyHi, TypeOK
    <3> QED BY <1>t, <2>0, <3>1 DEF SlotBound
  <2>3. CASE Publish \/ CountUpdate
    <3>1. m = n BY <2>3 DEF Publish, CountUpdate
    <3> QED BY <1>t, <2>0, <3>1 DEF SlotBound
  <2> QED BY <2>1, <2>2, <2>3 DEF OnRtnData
<1>2. Time(i) \in Nat /\ Time(i)' \in Nat /\ Time(i) <= Time(i)'
  <2>1. Time(i) = feed[n] /\ Time(i)' = feed[m] BY DEF Time
  <2> HIDE DEF n, m
  <2>2. n \in 0 .. MaxUpdates /\ m \in 0 .. MaxUpdates BY <1>t, <1>1
  <2>3. feed[n] \in Nat /\ feed[m] \in Nat /\ feed[n] <= feed[m]
    BY <1>1, <2>2, FeedGrows
  <2> QED BY <2>1, <2>3
<1>3. /\ current_index' \in Nat /\ current_index <= current_index'
      /\ Holds(i)' => Holds(i)
      /\ i \in 0 .. current_index' - 1
  <2>1. CASE CopyLo BY <1>t, <2>1 DEF CopyLo, Holds, Overwriting
  <2>2. CASE CopyHi BY <1>t, <2>2 DEF CopyHi, Holds, Overwriting
  <2>3. CASE Publish BY <1>t, <2>3 DEF Publish, Holds, Overwriting
  <2>4. CASE CountUpdate BY <1>t, <2>4 DEF CountUpdate, Holds, Overwriting
  <2> QED BY <2>1, <2>2, <2>3, <2>4 DEF OnRtnData
<1> QED BY <1>2, <1>3

-----------------------------------------------------------------------------
(* The ends of the searches.                                               *)

\* The step back of the search for the end: what it names is right, if the ring holds it.
LEMMA EndSettles ==
    ASSUME IInv, QueryInv, LoopOver("narrow_end", "settle_end"), NEW e \in Nat,
           e = IF Time(right) > asked.end_tp /\ right >= 1 THEN right - 1 ELSE right
    PROVE  /\ e <= end
           /\ Holds(e) => /\ e \in Before
                         /\ \A i \in Before : TimeOf(i) <= TimeOf(e)
<1> USE DEF IInv, QueryInv
<1>t. /\ current_index \in Nat /\ start \in Nat /\ end \in Nat
      /\ left \in Nat /\ right \in Nat /\ asked.end_tp \in Nat
      /\ right <= end /\ end < current_index /\ start <= end /\ qpc # "none"
  BY DEF TypeOK, QueryTypeOK, AskedOfRing, LoopOver, Searching, Between, Met
<1>1. e <= end BY <1>t
<1>2. ASSUME Holds(e)
      PROVE  e \in Before /\ \A i \in Before : TimeOf(i) <= TimeOf(e)
  <2>1. start <= e BY <1>t, <1>2, HeldWhenAsked
  <2>2. \A i \in e .. end : Holds(i) BY <1>t, <1>2, HoldsLater
  <2>3. \A i \in 0 .. end : /\ Time(i) \in Nat /\ TimeOf(i) \in Nat
                            /\ TimeOf(i) <= Time(i)
                            /\ Holds(i) => Time(i) = TimeOf(i)
    BY <1>t, TimeRead
  <2>4. TimeOf(start) <= asked.end_tp BY DEF Checked, LooksForEnd, LoopOver
  <2>5. /\ TimeOf(e) <= asked.end_tp
        /\ TimeOf(e) = asked.end_tp \/ (e < end => TimeOf(e + 1) > asked.end_tp)
    <3>1. CASE qpc = "settle_end"
      <4>1. Met(asked.end_tp) BY <3>1 DEF Searching
      <4>2. right >= e /\ Holds(right) BY <1>t, <2>2
      <4>3. TimeOf(right) = asked.end_tp /\ Time(right) = TimeOf(right)
        BY <1>t, <2>3, <4>1, <4>2 DEF Met
      <4>4. e = right BY <1>t, <4>3
      <4> QED BY <1>t, <4>3, <4>4
    <3>2. CASE qpc = "narrow_end" /\ left >= right
      <4>1. Between(asked.end_tp) BY <3>2 DEF Searching
      <4>2. CASE Time(right) > asked.end_tp /\ right >= 1
        <5>1. e = right - 1 /\ Holds(right) BY <1>t, <2>2, <4>2
        <5>2. TimeOf(right) > asked.end_tp BY <1>t, <2>3, <4>2, <5>1
        <5>3. left = right
          <6>1. CASE left = right + 1
            <7>1. left > start BY <1>t, <2>1, <5>1, <6>1
            <7>2. TimeOf(right) < asked.end_tp BY <1>t, <4>1, <6>1, <7>1 DEF Between
            <7> QED BY <1>t, <2>3, <5>2, <7>2
          <6> QED BY <1>t, <3>2, <4>1, <6>1 DEF Between
        <5>4. TimeOf(e) < asked.end_tp BY <1>t, <2>1, <4>1, <5>1, <5>3 DEF Between
        <5> QED BY <1>t, <1>1, <2>3, <5>1, <5>2, <5>4
      <4>3. CASE ~(Time(right) > asked.end_tp)
        <5>1. e = right BY <1>t, <4>3
        <5>2. TimeOf(e) <= asked.end_tp BY <1>t, <2>3, <4>3, <5>1
        <5>3. e < end => TimeOf(e + 1) > asked.end_tp
          BY <1>t, <2>2, <4>1, <5>1 DEF Between
        <5> QED BY <5>2, <5>3
      <4>4. CASE Time(right) > asked.end_tp /\ right = 0
        <5>1. e = 0 /\ start = 0 BY <1>t, <2>1, <4>4
        <5>2. Time(0) = TimeOf(0) BY <1>t, <1>2, <2>3, <5>1
        <5> QED BY <1>t, <2>3, <2>4, <4>4, <5>1, <5>2
      <4> QED BY <1>t, <4>2, <4>3, <4>4
    <3> QED BY <3>1, <3>2 DEF LoopOver
  <2>6. e \in Before BY <1>t, <1>1, <2>1, <2>5 DEF Before
  <2>7. ASSUME NEW i \in Before PROVE TimeOf(i) <= TimeOf(e)
    <3>1. i \in 0 .. end /\ i \in Nat /\ TimeOf(i) <= asked.end_tp BY <1>t DEF Before
    <3>2. CASE i <= e BY <1>t, <1>1, <3>1, <3>2, TimesOrdered
    <3>3. CASE i > e
      <4>1. e + 1 <= i /\ e < end BY <1>t, <3>1, <3>3
      <4>2. TimeOf(e + 1) <= TimeOf(i) BY <1>t, <3>1, <4>1, TimesOrdered
      <4> QED BY <1>t, <1>1, <2>3, <2>5, <3>1, <4>1, <4>2
    <3> QED BY <3>1, <3>2, <3>3
  <2> QED BY <2>6, <2>7
<1> QED BY <1>1, <1>2

\* The step forward of the search for the first.
LEMMA StartSettles ==
    ASSUME IInv, QueryInv, LoopOver("narrow_start", "settle_start"), NEW e \in Nat,
           e = IF Time(right) < asked.start_tp /\ right < end THEN right + 1 ELSE right
    PROVE  /\ e <= end
           /\ Holds(e) => /\ e \in start .. end
                         /\ TimeOf(e) >= asked.start_tp
                         /\ \A i \in Inside : TimeOf(e) <= TimeOf(i)
<1> USE DEF IInv, QueryInv
<1>t. /\ current_index \in Nat /\ start \in Nat /\ end \in Nat
      /\ left \in Nat /\ right \in Nat /\ asked.start_tp \in Nat
      /\ right <= end /\ end < current_index /\ start <= end /\ qpc # "none"
  BY DEF TypeOK, QueryTypeOK, AskedOfRing, LoopOver, Searching, Between, Met
<1>1. e <= end BY <1>t
<1>2. ASSUME Holds(e)
      PROVE  /\ e \in start .. end
             /\ TimeOf(e) >= asked.start_tp
             /\ \A i \in Inside : TimeOf(e) <= TimeOf(i)
  <2>1. start <= e BY <1>t, <1>2, HeldWhenAsked
  <2>2. \A i \in e .. end : Holds(i) BY <1>t, <1>2, HoldsLater
  <2>3. \A i \in 0 .. end : /\ Time(i) \in Nat /\ TimeOf(i) \in Nat
                            /\ TimeOf(i) <= Time(i)
                            /\ Holds(i) => Time(i) = TimeOf(i)
    BY <1>t, TimeRead
  <2>4. /\ TimeOf(start) < asked.start_tp
        /\ Holds(end) => TimeOf(end) >= asked.start_tp
    BY DEF Checked, LooksForStart, LoopOver
  <2>5. /\ TimeOf(e) >= asked.start_tp
        /\ TimeOf(e) = asked.start_tp \/ (e > start => TimeOf(e - 1) < asked.start_tp)
    <3>1. CASE qpc = "settle_start"
      <4>1. Met(asked.start_tp) BY <3>1 DEF Searching
      <4>2. e = right BY <1>t, <2>3, <4>1 DEF Met
      <4> QED BY <1>t, <1>2, <2>3, <4>1, <4>2 DEF Met
    <3>2. CASE qpc = "narrow_start" /\ left >= right
      <4>1. Between(asked.start_tp) BY <3>2 DEF Searching
      <4>2. CASE Time(right) < asked.start_tp /\ right < end
        <5>1. e = right + 1 BY <4>2
        <5>2. TimeOf(e) > asked.start_tp BY <1>t, <1>2, <4>1, <4>2, <5>1 DEF Between
        <5>3. TimeOf(right) < asked.start_tp BY <1>t, <2>3, <4>2
        <5> QED BY <1>t, <1>1, <2>3, <5>1, <5>2, <5>3
      <4>3. CASE ~(Time(right) < asked.start_tp)
        <5>1. e = right BY <4>3
        <5>2. TimeOf(e) >= asked.start_tp BY <1>t, <1>2, <2>3, <4>3, <5>1
        <5>3. left = right
          <6>1. CASE left = right + 1
            <7>1. left > start BY <1>t, <2>1, <5>1, <6>1
            <7>2. TimeOf(right) < asked.start_tp BY <1>t, <4>1, <6>1, <7>1 DEF Between
            <7> QED BY <1>t, <2>3, <5>1, <5>2, <7>2
          <6> QED BY <1>t, <3>2, <4>1, <6>1 DEF Between
        <5>4. e > start => TimeOf(e - 1) < asked.start_tp
          BY <1>t, <4>1, <5>1, <5>3 DEF Between
        <5> QED BY <5>2, <5>4
      <4>4. CASE Time(right) < asked.start_tp /\ right = end
        <5>1. e = end BY <1>t, <4>4
        <5> QED BY <1>t, <1>2, <2>3, <2>4, <4>4, <5>1
      <4> QED BY <1>t, <4>2, <4>3, <4>4
    <3> QED BY <3>1, <3>2 DEF LoopOver
  <2>6. ASSUME NEW i \in Inside PROVE TimeOf(e) <= TimeOf(i)
    <3>1. i \in 0 .. end /\ i \in Nat /\ TimeOf(i) >= asked.start_tp /\ i >= start
      BY <1>t, <2>3 DEF Inside, Before
    <3>2. CASE i >= e BY <1>t, <1>1, <3>1, <3>2, TimesOrdered
    <3>3. CASE i < e
      <4>1. i <= e - 1 /\ e > start /\ e - 1 \in 0 .. end BY <1>t, <1>1, <3>1, <3>3
      <4>2. TimeOf(i) <= TimeOf(e - 1) BY <1>t, <3>1, <4>1, TimesOrdered
      <4> QED BY <1>t, <1>1, <2>3, <2>5, <3>1, <4>1, <4>2
    <3> QED BY <1>t, <3>1, <3>2, <3>3
  <2> QED BY <1>t, <1>1, <2>1, <2>5, <2>6
<1> QED BY <1>1, <1>2

-----------------------------------------------------------------------------
(* The inductive invariant of a query under way.                           *)

LEMMA QueryInitInv == QueryInit => IInv /\ QueryInv
<1> SUFFICES ASSUME QueryInit PROVE IInv /\ QueryInv OBVIOUS
<1>1. IInv BY InitIInv DEF QueryInit
<1> USE DEF QueryInit, Init
<1>2. QueryTypeOK BY DEF QueryTypeOK, NotAsked
<1>3. SlotBound BY MdRingAssumption DEF SlotBound, Slots, Entry, Overwriting
<1>4. AskedOfRing /\ Checked /\ Searching /\ EndFound /\ ByTpRight /\ RangeRight
  BY DEF AskedOfRing, Checked, Searching, EndFound, ByTpRight, RangeRight,
         LooksForEnd, LooksForStart
<1> QED BY <1>1, <1>2, <1>3, <1>4 DEF QueryInv

\* A step of the writer can only take from what a query has found.
LEMMA QueryOverwritten ==
    ASSUME IInv, QueryInv, OnRtnData, UNCHANGED queryVars
    PROVE  QueryInv'
<1> USE DEF QueryInv, queryVars, locals, answer
<1>t. /\ TypeOK /\ current_index \in Nat /\ MaxUpdates \in Nat
      /\ start \in Nat /\ end \in Nat /\ right \in Nat
      /\ start_index \in Nat /\ end_index \in Nat
  BY MdRingAssumption DEF IInv, TypeOK, QueryTypeOK
<1>1. QueryTypeOK' BY DEF QueryTypeOK
<1>2. current_index' >= current_index /\ current_index' \in Nat
  BY <1>t DEF OnRtnData, CopyLo, CopyHi, Publish, CountUpdate
<1>3. SlotBound'
  <2> USE <1>t DEF SlotBound, Overwriting
  <2>0. WriteSlot \in Slots BY SlotTypes DEF WriteSlot
  <2>1. CASE CopyLo BY <2>0, <2>1 DEF CopyLo, TypeOK
  <2>2. CASE CopyHi BY <2>0, <2>2 DEF CopyHi, TypeOK
  <2>3. CASE Publish BY <2>3 DEF Publish
  <2>4. CASE CountUpdate BY <2>4 DEF CountUpdate
  <2> QED BY <2>1, <2>2, <2>3, <2>4 DEF OnRtnData
<1>4. AskedOfRing' BY <1>t, <1>2 DEF AskedOfRing, ByTp, LooksForStart
<1>5. \A i \in 0 .. current_index - 1 : Holds(i)' => Holds(i)
  BY WriterKeeps
<1>6. \A i \in 0 .. current_index - 1 :
         Time(i) \in Nat /\ Time(i)' \in Nat /\ Time(i) <= Time(i)'
  BY WriterKeeps
<1>7. qpc # "none" => /\ end < current_index /\ start <= end
                      /\ start_index <= end /\ end_index <= end
  BY DEF AskedOfRing
<1>8. Checked' /\ EndFound'
  BY <1>t, <1>5, <1>7 DEF Checked, EndFound, Holds, TimeOf, LooksForEnd, LooksForStart, Before
<1>9. Searching'
  <2>1. ASSUME NEW tp, Between(tp), qpc # "none" PROVE Between(tp)'
    BY <1>t, <1>5, <1>7, <2>1 DEF Between, Holds, TimeOf
  <2>2. ASSUME NEW tp \in Nat, Met(tp), qpc # "none" PROVE Met(tp)'
    BY <1>t, <1>5, <1>6, <1>7, <2>2 DEF Met, Holds, TimeOf, Time
  <2>3. asked.start_tp \in Nat /\ asked.end_tp \in Nat BY DEF QueryTypeOK
  <2> QED BY <2>1, <2>2, <2>3 DEF Searching
<1>10. ByTpRight' /\ RangeRight'
  BY <1>t, <1>5, <1>7 DEF ByTpRight, RangeRight, Holds, TimeOf, ByTp, Before, Inside
<1> QED BY <1>1, <1>3, <1>4, <1>8, <1>9, <1>10

\* What the steps of a query rely on.
LEMMA QueryBounds ==
    ASSUME IInv, QueryInv, qpc # "none"
    PROVE  /\ current_index \in Nat /\ start \in Nat /\ end \in Nat
           /\ left \in Nat /\ right \in Nat
           /\ asked.start_tp \in Nat /\ asked.end_tp \in Nat
           /\ start_index \in Nat /\ end_index \in Nat
           /\ start <= end /\ end < current_index
           /\ start_index <= end /\ end_index <= end
BY DEF IInv, QueryInv, TypeOK, QueryTypeOK, AskedOfRing

LEMMA QueryReads ==
    ASSUME IInv, QueryInv, qpc # "none", NEW i \in 0 .. end
    PROVE  /\ Time(i) \in Nat /\ TimeOf(i) \in Nat
           /\ TimeOf(i) <= Time(i)
           /\ Holds(i) => Time(i) = TimeOf(i)
<1>1. i \in 0 .. current_index - 1 BY QueryBounds
<1> QED BY <1>1, TimeRead DEF QueryInv

\* No step of a query changes what the ring holds.
LEMMA RingStays ==
    ASSUME UNCHANGED vars, feed' = feed
    PROVE  /\ SlotBound => SlotBound'
           /\ \A i \in Int : Holds(i)' <=> Holds(i)
           /\ \A i \in Int : TimeOf(i)' = TimeOf(i) /\ Time(i)' = Time(i)
BY DEF vars, writerVars, SlotBound, Holds, Overwriting, TimeOf, Time

LEMMA CallInv ==
    ASSUME IInv, QueryInv, UNCHANGED vars, Call
    PROVE  QueryInv'
<1> USE DEF QueryInv, answer
<1>1. /\ qpc = "none" /\ current_index > 0
      /\ end' = current_index - 1
      /\ start' = IF current_index >= BlockNum THEN current_index - BlockNum ELSE 0
      /\ feed' = feed /\ UNCHANGED <<left, right>>
      /\ current_index' = current_index
  BY DEF Call, GetMdAll, GetMdByTp, GetMd, Begin, vars, writerVars
<1>t. /\ current_index \in Nat /\ BlockNum \in Nat \ {0} /\ TypeOK
      /\ start' \in Nat /\ end' \in Nat /\ start' <= end' /\ end' < current_index
      /\ start_index \in Nat /\ end_index \in Nat
  BY <1>1, MdRingAssumption DEF IInv, TypeOK, QueryTypeOK
<1>2. SlotBound' BY <1>1, RingStays
<1>3. CASE GetMdAll
  <2> USE <1>3 DEF GetMdAll, Begin
  <2>0. feed[MaxUpdates] \in Nat BY MdRingAssumption, FeedGrows
  <2>1. QueryTypeOK' BY <1>1, <1>t, <2>0 DEF QueryTypeOK
  <2>2. AskedOfRing' BY <1>1, <1>t DEF AskedOfRing, ByTp, LooksForStart
  <2>3. Checked' /\ Searching' /\ EndFound' /\ ByTpRight'
    BY DEF Checked, Searching, EndFound, ByTpRight, ByTp, LooksForEnd, LooksForStart
  <2>4. RangeRight'
    <3>1. \A i \in start' .. end' : feed[i + 1] \in Nat /\ feed[start' + 1] <= feed[i + 1]
                                 /\ feed[i + 1] <= feed[end' + 1]
                                 /\ feed[i + 1] <= feed[MaxUpdates]
      <4> SUFFICES ASSUME NEW i \in start' .. end'
                   PROVE  /\ feed[i + 1] \in Nat /\ feed[start' + 1] <= feed[i + 1]
                          /\ feed[i + 1] <= feed[end' + 1]
                          /\ feed[i + 1] <= feed[MaxUpdates]
        OBVIOUS
      <4>1. /\ start' + 1 \in 0 .. MaxUpdates /\ i + 1 \in 0 .. MaxUpdates
            /\ end' + 1 \in 0 .. MaxUpdates /\ MaxUpdates \in 0 .. MaxUpdates
            /\ start' + 1 <= i + 1 /\ i + 1 <= end' + 1 /\ i + 1 <= MaxUpdates
        BY <1>1, <1>t, MdRingAssumption DEF SlotBound
      <4> QED BY <4>1, FeedGrows
    <3>2. start' \in start' .. end' /\ end' \in start' .. end' BY <1>t
    <3> QED BY <1>1, <1>t, <2>0, <3>1, <3>2 DEF RangeRight, Inside, Before, TimeOf
  <2> QED BY <1>2, <2>1, <2>2, <2>3, <2>4
<1>4. ASSUME NEW end_tp \in Tps, GetMdByTp(end_tp) PROVE QueryInv'
  <2> USE <1>4 DEF GetMdByTp, Begin
  <2>1. QueryTypeOK' BY <1>1, <1>t, QueryAssumption DEF QueryTypeOK
  <2>2. AskedOfRing' BY <1>1, <1>t DEF AskedOfRing, ByTp, LooksForStart
  <2>0. feed[end' + 1] \in Nat
    <3>1. end' + 1 \in 0 .. MaxUpdates BY <1>1, <1>t, MdRingAssumption DEF SlotBound
    <3> QED BY <3>1, FeedGrows
  <2>3. Checked' /\ Searching' /\ EndFound'
    BY <1>1, <2>0 DEF Checked, Searching, EndFound, LooksForEnd, LooksForStart, TimeOf
  <2>4. ByTpRight' BY DEF ByTpRight
  <2>5. RangeRight' BY DEF RangeRight
  <2> QED BY <1>2, <2>1, <2>2, <2>3, <2>4, <2>5
<1>5. ASSUME NEW start_tp \in Tps, NEW end_tp \in Tps, NEW offset_sec \in Offsets,
             GetMd(start_tp, end_tp, offset_sec)
      PROVE  QueryInv'
  <2> USE <1>5 DEF GetMd, Begin
  <2>1. QueryTypeOK' BY <1>1, <1>t, QueryAssumption DEF QueryTypeOK
  <2>2. AskedOfRing' BY <1>1, <1>t DEF AskedOfRing, ByTp, LooksForStart
  <2>3. Checked' /\ Searching' /\ EndFound' /\ ByTpRight'
    BY DEF Checked, Searching, EndFound, ByTpRight, ByTp, LooksForEnd, LooksForStart
  <2>4. RangeRight'
    <3> SUFFICES ASSUME qpc' = "done" PROVE ~ret' /\ Inside' = {} BY DEF RangeRight
    <3>1. ~ret' BY <1>1 DEF AskedOfRing
    <3>2. asked'.start_tp = start_tp /\ asked'.end_tp = end_tp /\ start_tp > end_tp
          /\ start_tp \in Nat /\ end_tp \in Nat
      BY QueryAssumption
    <3>3. \A i \in start' .. end' : feed[i + 1] \in Nat
      <4>1. \A i \in start' .. end' : i + 1 \in 0 .. MaxUpdates
        BY <1>1, <1>t, MdRingAssumption DEF SlotBound
      <4> QED BY <4>1, FeedGrows
    <3> QED BY <1>1, <3>1, <3>2, <3>3 DEF Inside, Before, TimeOf
  <2> QED BY <1>2, <2>1, <2>2, <2>3, <2>4
<1> QED BY <1>3, <1>4, <1>5 DEF Call

LEMMA ChecksInv ==
    ASSUME IInv, QueryInv, UNCHANGED vars, ReadLast \/ ReadFirst \/ ReadEnd \/ ReadStart
    PROVE  QueryInv'
<1>q. qpc # "none" BY DEF ReadLast, ReadFirst, ReadEnd, ReadStart
<1>i. TypeOK BY DEF IInv
<1>n. /\ current_index \in Nat /\ start \in Nat /\ end \in Nat
      /\ asked.start_tp \in Nat /\ asked.end_tp \in Nat
      /\ start <= end /\ end < current_index
  BY <1>q, QueryBounds
<1>g. \A i \in 0 .. end : /\ Time(i) \in Nat /\ TimeOf(i) \in Nat
                          /\ TimeOf(i) <= Time(i)
                          /\ Holds(i) => Time(i) = TimeOf(i)
  BY <1>q, QueryReads
<1> USE DEF QueryInv, locals, answer
<1>r. feed' = feed /\ current_index' = current_index /\ asked' = asked
      /\ start' = start /\ end' = end /\ wpc' = wpc
  BY DEF ReadLast, ReadFirst, ReadEnd, ReadStart, vars, writerVars
<1>h. SlotBound' BY <1>r, RingStays
<1>f. /\ start \in 0 .. end /\ end \in 0 .. end
      /\ Time(start) \in Nat /\ TimeOf(start) \in Nat /\ TimeOf(start) <= Time(start)
      /\ Time(end) \in Nat /\ TimeOf(end) \in Nat /\ TimeOf(end) <= Time(end)
      /\ Holds(start) => Time(start) = TimeOf(start)
      /\ Holds(end) => Time(end) = TimeOf(end)
  BY <1>n, <1>g
<1>1. CASE ReadLast
  <2> USE <1>1 DEF ReadLast
  <2>1. QueryTypeOK' BY DEF QueryTypeOK
  <2>2. AskedOfRing' BY <1>r DEF AskedOfRing, ByTp, LooksForStart
  <2>3. Checked'
    BY <1>q, <1>r, <1>n, <1>f DEF Checked, Holds, Overwriting, TimeOf, LooksForEnd, LooksForStart
  <2>4. Searching' /\ EndFound'
    BY DEF Searching, EndFound, LooksForStart
  <2>5. ByTpRight'
    BY <1>r DEF ByTpRight, ByTp, AskedOfRing
  <2>6. RangeRight'
    <3> SUFFICES ASSUME Time(end) < asked.start_tp PROVE Inside' = {}
      BY <1>r DEF RangeRight, AskedOfRing
    <3>1. ASSUME NEW i \in Inside PROVE FALSE
      <4>1. i \in 0 .. end /\ i <= end /\ TimeOf(i) >= asked.start_tp
        BY <1>n DEF Inside, Before
      <4>2. TimeOf(i) <= TimeOf(end) BY <1>n, <1>i, <4>1, TimesOrdered
      <4> QED BY <1>n, <1>f, <1>g, <4>1, <4>2
    <3> QED BY <1>r, <3>1 DEF Inside, Before, TimeOf
  <2> QED BY <1>h, <2>1, <2>2, <2>3, <2>4, <2>5, <2>6
<1>2. CASE ReadFirst
  <2> USE <1>2 DEF ReadFirst
  <2>1. QueryTypeOK' BY DEF QueryTypeOK
  <2>2. AskedOfRing' BY <1>r DEF AskedOfRing, ByTp, LooksForStart
  <2>3. Checked'
    BY <1>q, <1>r, <1>n, <1>f DEF Checked, Holds, Overwriting, TimeOf, LooksForEnd, LooksForStart
  <2>4. Searching' /\ EndFound'
    BY DEF Searching, EndFound, LooksForStart
  <2>5. Time(start) > asked.end_tp /\ Holds(start) => Before = {}
    <3> SUFFICES ASSUME Time(start) > asked.end_tp, Holds(start), NEW i \in Before
                 PROVE  FALSE
      OBVIOUS
    <3>1. i \in 0 .. end /\ start <= i /\ TimeOf(i) <= asked.end_tp BY <1>n DEF Before
    <3>2. TimeOf(start) <= TimeOf(i) BY <1>n, <1>i, <3>1, TimesOrdered
    <3> QED BY <1>n, <1>f, <1>g, <3>1, <3>2
  <2>6. ByTpRight' /\ RangeRight'
    <3>1. /\ Holds(start)' <=> Holds(start)
          /\ Before' = Before /\ (Before = {} => Inside' = {})
      BY <1>r DEF Holds, Overwriting, Before, Inside, TimeOf
    <3>2. qpc' = "done" => Time(start) > asked.end_tp /\ ~ret'
      BY DEF AskedOfRing
    <3> QED BY <2>5, <3>1, <3>2 DEF ByTpRight, RangeRight
  <2> QED BY <1>h, <2>1, <2>2, <2>3, <2>4, <2>5, <2>6
<1>3. CASE ReadEnd
  <2> USE <1>3 DEF ReadEnd, FoundEnd
  <2>1. QueryTypeOK' BY <1>n DEF QueryTypeOK
  <2>2. AskedOfRing' BY <1>r, <1>n DEF AskedOfRing, ByTp, LooksForStart
  <2>3. Checked'
    BY <1>r, <1>n, <1>f DEF Checked, Holds, Overwriting, TimeOf, LooksForEnd, LooksForStart
  <2>4. Searching'
    BY <1>r, <1>n DEF Searching, Between
  <2>5. /\ asked.end_tp >= Time(end) =>
              end \in Before /\ \A i \in Before : TimeOf(i) <= TimeOf(end)
        /\ ret /\ start \in Before
    <3>1. ret /\ TimeOf(start) <= asked.end_tp BY DEF Checked
    <3>2. \A i \in Before : TimeOf(i) <= TimeOf(end)
      BY <1>i, <1>n, TimesOrdered DEF Before
    <3> QED BY <1>n, <1>f, <3>1, <3>2 DEF Before
  <2>6. Before' = Before /\ \A i \in Before : TimeOf(i)' = TimeOf(i)
    BY <1>r DEF Before, TimeOf
  <2>7. EndFound'
    BY <1>r, <2>5 DEF EndFound, LooksForStart, Before, TimeOf
  <2>8. ByTpRight'
    BY <1>r, <2>5 DEF ByTpRight, ByTp, Before, TimeOf
  <2>9. RangeRight'
    BY <1>r DEF RangeRight, ByTp, AskedOfRing
  <2> QED BY <1>h, <2>1, <2>2, <2>3, <2>4, <2>7, <2>8, <2>9
<1>4. CASE ReadStart
  <2> USE <1>4 DEF ReadStart
  <2>0. ret /\ asked.call = "get_md" /\ Between(asked.start_tp)
    BY DEF Checked, AskedOfRing, LooksForStart, Searching
  <2>1. QueryTypeOK' BY <1>n DEF QueryTypeOK
  <2>2. AskedOfRing' BY <1>r, <1>n DEF AskedOfRing, ByTp, LooksForStart
  <2>3. Checked'
    BY <1>q, <1>r, <1>n, <1>f DEF Checked, Holds, Overwriting, TimeOf, LooksForEnd, LooksForStart
  <2>4. Searching'
    BY <1>r, <2>0 DEF Searching, Between, Holds, Overwriting, TimeOf
  <2>5. Holds(end_index) => /\ end_index \in Before
                            /\ \A i \in Before : TimeOf(i) <= TimeOf(end_index)
    BY DEF EndFound, LooksForStart
  <2>6. EndFound'
    BY <1>r, <2>5 DEF EndFound, Before, Holds, Overwriting, TimeOf
  <2>7. ByTpRight' BY <1>r, <2>0 DEF ByTpRight, ByTp
  <2>8. qpc' = "done" /\ Holds(start) =>
            TimeOf(start) >= asked.start_tp /\ \A i \in Inside : TimeOf(start) <= TimeOf(i)
    <3>1. \A i \in Inside : TimeOf(start) <= TimeOf(i)
      BY <1>i, <1>n, TimesOrdered DEF Inside, Before
    <3> QED BY <1>n, <1>f, <3>1
  <2>9. RangeRight'
    <3> SUFFICES ASSUME qpc' = "done" PROVE RangeRight' BY DEF RangeRight
    <3>1. start_index' = start /\ ret' /\ end_index' = end_index BY <2>0
    <3>2. Before' = Before /\ Inside' = Inside BY <1>r DEF Before, Inside, TimeOf
    <3> QED BY <1>r, <1>n, <2>5, <2>8, <3>1, <3>2
            DEF RangeRight, Inside, Holds, Overwriting, TimeOf
  <2> QED BY <1>h, <2>1, <2>2, <2>3, <2>4, <2>6, <2>7, <2>9
<1> QED BY <1>1, <1>2, <1>3, <1>4

\* Whatever the guess is worth, it leaves nothing out: an entry that reads as earlier is,
\* whether the ring still holds it or not.
LEMMA GuessSkipsEarlier ==
    ASSUME IInv, QueryInv, qpc # "none", NEW tp \in Nat
    PROVE  /\ SearchFrom(tp) \in 0 .. end
           /\ SearchFrom(tp) > start => TimeOf(SearchFrom(tp) - 1) < tp
<1>n. /\ current_index \in Nat /\ start \in Nat /\ end \in Nat
      /\ start <= end /\ end < current_index
  BY QueryBounds
<1>i. TypeOK /\ QueryTypeOK /\ SlotBound BY DEF IInv, QueryInv
<1>1. StartShort \in 0 .. end
  <2> DEFINE k == PerSecond * (asked.offset_sec + 2)
  <2>1. asked.offset_sec \in Nat BY <1>i DEF QueryTypeOK
  <2>2. k \in Nat BY <2>1, QueryAssumption
  <2>3. StartShort = IF end - k < 0 THEN 0 ELSE end - k BY DEF StartShort
  <2> HIDE DEF k
  <2> QED BY <1>n, <2>2, <2>3
<1>2. CASE Time(StartShort) >= tp
  <2>1. SearchFrom(tp) = start BY <1>2 DEF SearchFrom
  <2> QED BY <1>n, <2>1
<1>3. CASE ~(Time(StartShort) >= tp)
  <2> DEFINE g == StartShort
  <2>1. SearchFrom(tp) = g BY <1>3 DEF SearchFrom
  <2>2. Time(g) \in Nat /\ TimeOf(g) \in Nat /\ TimeOf(g) <= Time(g) BY <1>1, QueryReads
  <2>3. g > start => TimeOf(g - 1) \in Nat /\ TimeOf(g - 1) <= TimeOf(g)
    <3> HIDE DEF g
    <3>1. g \in 0 .. end BY <1>1 DEF g
    <3>2. g > start => g - 1 \in 0 .. current_index - 1 /\ g \in 0 .. current_index - 1
                       /\ g - 1 <= g
      BY <1>n, <3>1
    <3> QED BY <1>i, <3>2, TimesOrdered
  <2> QED BY <1>1, <1>3, <2>1, <2>2, <2>3
<1> QED BY <1>2, <1>3

\* A round of the loop.
LEMMA NarrowKeeps ==
    ASSUME IInv, QueryInv, UNCHANGED vars, NEW pc, pc # "none", NEW settle, NEW tp \in Nat,
           Narrow(pc, tp, settle), Between(tp), TimeOf(start) <= tp
    PROVE  /\ left' \in Nat /\ right' \in Nat
           /\ \/ qpc' = pc /\ Between(tp)'
              \/ qpc' = settle /\ Met(tp)'
<1> DEFINE mid == (left + right) \div 2
<1>q. qpc = pc /\ left < right BY DEF Narrow
<1>n. /\ current_index \in Nat /\ start \in Nat /\ end \in Nat
      /\ left \in Nat /\ right \in Nat /\ start <= end /\ end < current_index
  BY <1>q, QueryBounds
<1>1. mid \in Nat /\ left <= mid /\ mid < right BY <1>n, <1>q
<1>2. right <= end BY DEF Between
<1>r. /\ feed' = feed /\ start' = start /\ end' = end
      /\ current_index' = current_index /\ dat' = dat /\ wpc' = wpc
  BY DEF Narrow, vars, writerVars
<1>a. \/ /\ Time(mid) = tp \/ (Time(mid) > tp /\ mid = 0)
         /\ right' = mid /\ qpc' = settle /\ left' = left
      \/ /\ Time(mid) > tp /\ mid > 0
         /\ right' = mid - 1 /\ left' = left /\ qpc' = pc
      \/ /\ Time(mid) < tp
         /\ left' = mid + 1 /\ right' = right /\ qpc' = pc
  BY <1>q DEF Narrow
<1> HIDE DEF mid
<1>3. mid \in 0 .. end BY <1>n, <1>1, <1>2
<1>4. /\ Time(mid) \in Nat /\ TimeOf(mid) \in Nat /\ TimeOf(mid) <= Time(mid)
      /\ Holds(mid) => Time(mid) = TimeOf(mid)
  BY <1>q, <1>3, QueryReads
<1>5. TimeOf(start) \in Nat
  <2>1. start \in 0 .. end BY <1>n
  <2> QED BY <1>q, <2>1, QueryReads
<1>6. CASE Time(mid) = tp \/ (Time(mid) > tp /\ mid = 0)
  <2>1. right' = mid /\ qpc' = settle /\ left' = left BY <1>a, <1>n, <1>4, <1>6
  <2>2. Holds(mid) => TimeOf(mid) = tp
    <3> SUFFICES ASSUME Holds(mid), Time(mid) > tp, mid = 0 PROVE FALSE BY <1>4, <1>6
    <3>1. start <= mid BY <1>1, <1>q, HeldWhenAsked DEF IInv, QueryInv
    <3> QED BY <1>n, <1>4, <1>5, <3>1
  <2>3. Time(mid) >= tp BY <1>4, <1>6
  <2>4. Met(tp)' BY <1>n, <1>r, <1>3, <2>1, <2>2, <2>3 DEF Met, Time, TimeOf, Holds, Overwriting
  <2> QED BY <1>n, <1>1, <2>1, <2>4
<1>7. CASE Time(mid) > tp /\ mid > 0
  <2>1. right' = mid - 1 /\ left' = left /\ qpc' = pc BY <1>a, <1>n, <1>4, <1>7
  <2>2. Holds(mid) => TimeOf(mid) > tp BY <1>4, <1>7
  <2>3. Between(tp)'
    BY <1>n, <1>r, <1>1, <1>2, <2>1, <2>2 DEF Between, TimeOf, Holds, Overwriting
  <2> QED BY <1>n, <1>1, <1>7, <2>1, <2>3
<1>8. CASE Time(mid) < tp
  <2>1. left' = mid + 1 /\ right' = right /\ qpc' = pc BY <1>a, <1>n, <1>4, <1>8
  <2>2. TimeOf(mid) < tp BY <1>4, <1>8
  <2>3. Between(tp)'
    BY <1>n, <1>r, <1>1, <1>2, <2>1, <2>2 DEF Between, TimeOf, Holds, Overwriting
  <2> QED BY <1>n, <1>1, <2>1, <2>3
<1> QED BY <1>a, <1>6, <1>7, <1>8

LEMMA EndSearchInv ==
    ASSUME IInv, QueryInv, UNCHANGED vars, GuessEnd \/ NarrowEnd \/ SettleEnd
    PROVE  QueryInv'
<1>q. qpc # "none"
  BY DEF GuessEnd, Guess, NarrowEnd, Narrow, SettleEnd, LoopOver
<1>n. /\ current_index \in Nat /\ start \in Nat /\ end \in Nat
      /\ left \in Nat /\ right \in Nat
      /\ asked.start_tp \in Nat /\ asked.end_tp \in Nat
      /\ start_index \in Nat /\ end_index \in Nat
      /\ start <= end /\ end < current_index
      /\ start_index <= end /\ end_index <= end
  BY <1>q, QueryBounds
<1>r. /\ feed' = feed /\ asked' = asked /\ start' = start /\ end' = end /\ ret' = ret
      /\ current_index' = current_index /\ dat' = dat /\ wpc' = wpc
  BY DEF GuessEnd, Guess, NarrowEnd, Narrow, SettleEnd, FoundEnd, locals, answer, vars, writerVars
<1>h. SlotBound' BY <1>r, RingStays DEF QueryInv
<1>1. CASE GuessEnd
  <2> USE <1>1 DEF GuessEnd, Guess, answer, QueryInv
  <2>0. /\ SearchFrom(asked.end_tp) \in 0 .. end
        /\ SearchFrom(asked.end_tp) > start
              => TimeOf(SearchFrom(asked.end_tp) - 1) < asked.end_tp
    BY <1>q, <1>n, GuessSkipsEarlier
  <2>1. QueryTypeOK' BY <1>n, <2>0 DEF QueryTypeOK
  <2>2. AskedOfRing' BY <1>r DEF AskedOfRing, ByTp, LooksForStart
  <2>3. Checked' BY <1>r DEF Checked, Holds, Overwriting, TimeOf, LooksForEnd, LooksForStart
  <2>4. Searching' BY <1>n, <1>r, <2>0 DEF Searching, Between, TimeOf
  <2>5. EndFound' /\ ByTpRight' /\ RangeRight'
    BY DEF EndFound, ByTpRight, RangeRight, LooksForStart
  <2> QED BY <1>h, <2>1, <2>2, <2>3, <2>4, <2>5
<1>2. CASE NarrowEnd
  <2> USE <1>2 DEF NarrowEnd
  <2>0. qpc = "narrow_end" /\ start_index' = start_index /\ end_index' = end_index
    BY DEF Narrow, answer
  <2>1. Between(asked.end_tp) /\ TimeOf(start) <= asked.end_tp
    BY <2>0 DEF QueryInv, Searching, Checked, LooksForEnd
  <2>2. /\ left' \in Nat /\ right' \in Nat
        /\ \/ qpc' = "narrow_end" /\ Between(asked.end_tp)'
           \/ qpc' = "settle_end" /\ Met(asked.end_tp)'
    BY <1>n, <1>r, <2>1, NarrowKeeps
  <2> USE DEF QueryInv
  <2>3. QueryTypeOK' BY <1>r, <2>0, <2>2 DEF QueryTypeOK
  <2>4. AskedOfRing' BY <1>r, <2>0, <2>2 DEF AskedOfRing, ByTp, LooksForStart
  <2>5. Checked' BY <1>r, <2>0, <2>2 DEF Checked, Holds, Overwriting, TimeOf, LooksForEnd, LooksForStart
  <2>6. Searching' BY <2>2 DEF Searching
  <2>7. EndFound' /\ ByTpRight' /\ RangeRight'
    BY <2>2 DEF EndFound, ByTpRight, RangeRight, LooksForStart
  <2> QED BY <1>h, <2>3, <2>4, <2>5, <2>6, <2>7
<1>3. CASE SettleEnd
  <2> DEFINE e == IF Time(right) > asked.end_tp /\ right >= 1 THEN right - 1 ELSE right
  <2>0. LoopOver("narrow_end", "settle_end") /\ FoundEnd(e) BY <1>3 DEF SettleEnd
  <2>1. e \in Nat BY <1>n
  <2>2. /\ e <= end
        /\ Holds(e) => e \in Before /\ \A i \in Before : TimeOf(i) <= TimeOf(e)
    BY <2>0, <2>1, EndSettles
  <2>3. LooksForEnd /\ ret /\ TimeOf(start) <= asked.end_tp
    BY <2>0 DEF LoopOver, LooksForEnd, QueryInv, Checked
  <2>4. left' = left /\ right' = right BY <1>3 DEF SettleEnd, locals
  <2> HIDE DEF e
  <2> USE DEF QueryInv, FoundEnd
  <2>5. QueryTypeOK' BY <1>n, <1>r, <2>0, <2>1, <2>4 DEF QueryTypeOK
  <2>6. AskedOfRing'
    BY <1>r, <1>n, <2>0, <2>1, <2>2, <2>3 DEF AskedOfRing, ByTp, LooksForStart, LooksForEnd
  <2>7. Checked'
    BY <1>r, <2>0, <2>3 DEF Checked, Holds, Overwriting, TimeOf, LooksForEnd, LooksForStart
  <2>8. Searching' BY <2>0 DEF Searching
  <2>9. /\ Before' = Before
        /\ \A i \in Before : TimeOf(i)' = TimeOf(i)
        /\ start \in Before
    BY <1>n, <1>r, <2>3 DEF Before, TimeOf, Holds, Overwriting
  <2>10. EndFound'
    BY <1>r, <2>0, <2>2, <2>9 DEF EndFound, LooksForStart, TimeOf, Holds, Overwriting
  <2>11. ByTpRight'
    BY <1>r, <2>0, <2>2, <2>3, <2>9 DEF ByTpRight, ByTp, TimeOf, Holds, Overwriting
  <2>12. RangeRight' BY <1>r, <2>0 DEF RangeRight, ByTp
  <2> QED BY <1>h, <2>5, <2>6, <2>7, <2>8, <2>10, <2>11, <2>12
<1> QED BY <1>1, <1>2, <1>3

LEMMA StartSearchInv ==
    ASSUME IInv, QueryInv, UNCHANGED vars, GuessStart \/ NarrowStart \/ SettleStart
    PROVE  QueryInv'
<1>q. qpc # "none" /\ LooksForStart
  BY DEF GuessStart, Guess, NarrowStart, Narrow, SettleStart, LoopOver, LooksForStart
<1>n. /\ current_index \in Nat /\ start \in Nat /\ end \in Nat
      /\ left \in Nat /\ right \in Nat
      /\ asked.start_tp \in Nat /\ asked.end_tp \in Nat
      /\ start_index \in Nat /\ end_index \in Nat
      /\ start <= end /\ end < current_index
      /\ start_index <= end /\ end_index <= end
  BY <1>q, QueryBounds
<1>r. /\ feed' = feed /\ asked' = asked /\ start' = start /\ end' = end /\ ret' = ret
      /\ current_index' = current_index /\ dat' = dat /\ wpc' = wpc
      /\ end_index' = end_index
  BY DEF GuessStart, Guess, NarrowStart, Narrow, SettleStart, locals, answer, vars, writerVars
<1>h. SlotBound' BY <1>r, RingStays DEF QueryInv
<1>c. asked.call = "get_md" /\ ret /\ TimeOf(start) <= asked.end_tp
  BY <1>q DEF QueryInv, AskedOfRing, Checked
<1>e. Holds(end_index) => /\ end_index \in Before
                          /\ \A i \in Before : TimeOf(i) <= TimeOf(end_index)
  BY <1>q DEF QueryInv, EndFound
<1>s. /\ Before' = Before /\ Inside' = Inside
      /\ Holds(end_index)' <=> Holds(end_index)
      /\ EndFound'
  BY <1>n, <1>r, <1>e DEF Before, Inside, EndFound, Holds, Overwriting, TimeOf
<1>b. ByTpRight' BY <1>r, <1>c DEF ByTpRight, ByTp
<1>1. CASE GuessStart
  <2> USE <1>1 DEF GuessStart, Guess, answer, QueryInv
  <2>0. /\ SearchFrom(asked.start_tp) \in 0 .. end
        /\ SearchFrom(asked.start_tp) > start
              => TimeOf(SearchFrom(asked.start_tp) - 1) < asked.start_tp
    BY <1>q, <1>n, GuessSkipsEarlier
  <2>1. QueryTypeOK' BY <1>n, <2>0 DEF QueryTypeOK
  <2>2. AskedOfRing' BY <1>r, <1>c DEF AskedOfRing, ByTp, LooksForStart
  <2>3. Checked' BY <1>r DEF Checked, Holds, Overwriting, TimeOf, LooksForEnd, LooksForStart
  <2>4. Searching' BY <1>n, <1>r, <2>0 DEF Searching, Between, TimeOf
  <2>5. RangeRight' BY DEF RangeRight
  <2> QED BY <1>h, <1>s, <1>b, <2>1, <2>2, <2>3, <2>4, <2>5
<1>2. CASE NarrowStart
  <2> USE <1>2 DEF NarrowStart
  <2>0. qpc = "narrow_start" /\ start_index' = start_index
    BY DEF Narrow, answer
  <2>1. Between(asked.start_tp) /\ TimeOf(start) < asked.start_tp
    BY <2>0 DEF QueryInv, Searching, Checked
  <2>t. TimeOf(start) <= asked.start_tp
    <3>1. start \in 0 .. end BY <1>n
    <3>2. TimeOf(start) \in Nat BY <1>q, <3>1, QueryReads
    <3> QED BY <1>n, <2>1, <3>2
  <2>2. /\ left' \in Nat /\ right' \in Nat
        /\ \/ qpc' = "narrow_start" /\ Between(asked.start_tp)'
           \/ qpc' = "settle_start" /\ Met(asked.start_tp)'
    BY <1>n, <1>r, <2>1, <2>t, NarrowKeeps
  <2> USE DEF QueryInv
  <2>3. QueryTypeOK' BY <1>r, <2>0, <2>2 DEF QueryTypeOK
  <2>4. AskedOfRing' BY <1>r, <2>0, <2>2 DEF AskedOfRing, ByTp, LooksForStart
  <2>5. Checked' BY <1>r, <2>0, <2>2 DEF Checked, Holds, Overwriting, TimeOf, LooksForEnd, LooksForStart
  <2>6. Searching' BY <2>2 DEF Searching
  <2>7. RangeRight' BY <2>2 DEF RangeRight
  <2> QED BY <1>h, <1>s, <1>b, <2>3, <2>4, <2>5, <2>6, <2>7
<1>3. CASE SettleStart
  <2> DEFINE e == IF Time(right) < asked.start_tp /\ right < end THEN right + 1 ELSE right
  <2>0. /\ LoopOver("narrow_start", "settle_start")
        /\ start_index' = e /\ qpc' = "done" /\ left' = left /\ right' = right
    BY <1>3 DEF SettleStart, locals
  <2>1. e \in Nat BY <1>n
  <2>2. /\ e <= end
        /\ Holds(e) => /\ e \in start .. end
                      /\ TimeOf(e) >= asked.start_tp
                      /\ \A i \in Inside : TimeOf(e) <= TimeOf(i)
    BY <2>0, <2>1, StartSettles
  <2> HIDE DEF e
  <2> USE DEF QueryInv
  <2>5. QueryTypeOK' BY <1>n, <1>r, <2>0, <2>1 DEF QueryTypeOK
  <2>6. AskedOfRing' BY <1>r, <1>n, <1>c, <2>0, <2>1, <2>2, <1>q DEF AskedOfRing, ByTp, LooksForStart
  <2>7. Checked' BY <2>0 DEF Checked, LooksForEnd, LooksForStart
  <2>8. Searching' BY <2>0 DEF Searching
  <2>9. RangeRight'
    BY <1>n, <1>r, <1>c, <1>e, <1>s, <2>0, <2>2
       DEF RangeRight, Inside, Before, Holds, Overwriting, TimeOf
  <2> QED BY <1>h, <1>s, <1>b, <2>5, <2>6, <2>7, <2>8, <2>9
<1> QED BY <1>1, <1>2, <1>3

LEMMA QueryNextInv == IInv /\ QueryInv /\ [QueryNext]_allVars => QueryInv'
<1> SUFFICES ASSUME IInv, QueryInv, [QueryNext]_allVars PROVE QueryInv' OBVIOUS
<1>1. CASE OnRtnData /\ UNCHANGED queryVars BY <1>1, QueryOverwritten
<1>2. CASE Query /\ UNCHANGED vars
  BY <1>2, CallInv, ChecksInv, EndSearchInv, StartSearchInv DEF Query
<1>3. CASE UNCHANGED allVars
  BY <1>3 DEF allVars, vars, writerVars, queryVars, locals, answer, QueryInv, QueryTypeOK,
     SlotBound, AskedOfRing, Checked, Searching, EndFound, ByTpRight, RangeRight, Between, Met,
     Holds, Overwriting, TimeOf, Time, Before, Inside, ByTp, LooksForEnd, LooksForStart
<1> QED BY <1>1, <1>2, <1>3 DEF QueryNext

\* While the oldest entry of the ring of the question is held, a search that began within the
\* ring stays there: at that entry neither loop takes a step down.
LEMMA NarrowStaysInRing ==
    ASSUME IInv, QueryInv, NEW pc, pc # "none", NEW settle, NEW tp \in Nat,
           Narrow(pc, tp, settle), Between(tp),
           Holds(start), TimeOf(start) <= tp, left >= start
    PROVE  left' >= start /\ right' >= start
<1> DEFINE mid == (left + right) \div 2
<1>q. qpc # "none" /\ left < right BY DEF Narrow
<1>n. /\ start \in Nat /\ end \in Nat /\ left \in Nat /\ right \in Nat /\ right <= end
  BY <1>q, QueryBounds DEF Between
<1>1. mid \in Nat /\ left <= mid /\ mid < right BY <1>n, <1>q
<1>a. \/ right' = mid /\ left' = left
      \/ Time(mid) > tp /\ right' = mid - 1 /\ left' = left
      \/ left' = mid + 1 /\ right' = right
  BY DEF Narrow
<1> HIDE DEF mid
<1>2. Time(start) \in Nat /\ Time(start) <= tp
  <2>1. start \in 0 .. end BY <1>q, QueryBounds
  <2> QED BY <1>q, <2>1, QueryReads
<1>3. Time(mid) > tp => mid # start BY <1>2
<1> QED BY <1>n, <1>1, <1>a, <1>3

LEMMA InRingKept == IInv /\ QueryInv /\ InRing /\ [QueryNext]_allVars => InRing'
<1> SUFFICES ASSUME IInv, QueryInv, InRing, [QueryNext]_allVars, WithinRing' PROVE InRing'
  BY DEF InRing
<1>1. CASE OnRtnData /\ UNCHANGED queryVars
  <2> USE <1>1 DEF queryVars, locals, answer
  <2>1. CASE qpc = "none" BY <2>1 DEF InRing, LooksForStart
  <2>2. CASE qpc # "none"
    <3>1. start \in 0 .. current_index - 1 BY <2>2, QueryBounds
    <3>2. Holds(start)' => Holds(start) BY <3>1, WriterKeeps DEF QueryInv, Holds
    <3>3. WithinRing BY <3>2 DEF WithinRing, ByTp, StartShort
    <3> QED BY <3>3 DEF InRing, LooksForStart
  <2> QED BY <2>1, <2>2
<1>2. CASE Call /\ UNCHANGED vars
  <2>1. QueryInv' BY <1>2, CallInv
  <2>2. CASE GetMdAll
    <3>1. /\ qpc' = "done" /\ start_index' = start' /\ end_index' = end'
      BY <2>2 DEF GetMdAll
    <3>2. start' \in Nat /\ end' \in Nat /\ start' <= end'
      BY <2>1, <3>1 DEF QueryInv, QueryTypeOK, AskedOfRing
    <3> QED BY <3>1, <3>2 DEF InRing, LooksForStart
  <2>3. CASE ~GetMdAll
    <3>1. qpc' \in {"first", "last", "done"} /\ ret' = ret /\ qpc = "none"
      BY <1>2, <2>3 DEF Call, GetMdByTp, GetMd, Begin, answer
    <3>2. ~ret' BY <3>1 DEF QueryInv, AskedOfRing
    <3> QED BY <3>1, <3>2 DEF InRing, LooksForStart
  <2> QED BY <2>2, <2>3
<1>3. CASE UNCHANGED vars /\ Query /\ ~Call
  <2> USE <1>3
  <2>q. qpc # "none"
    BY DEF Query, ReadLast, ReadFirst, ReadEnd, ReadStart, GuessEnd, GuessStart, Guess,
           NarrowEnd, NarrowStart, Narrow, SettleEnd, SettleStart, LoopOver
  <2>r. feed' = feed /\ asked' = asked /\ start' = start /\ end' = end
    BY DEF Query, ReadLast, ReadFirst, ReadEnd, ReadStart, GuessEnd, GuessStart, Guess,
           NarrowEnd, NarrowStart, Narrow, SettleEnd, SettleStart, locals
  <2>n. /\ start \in Nat /\ end \in Nat /\ left \in Nat /\ right \in Nat
        /\ asked.start_tp \in Nat /\ asked.end_tp \in Nat
        /\ start_index \in Nat /\ end_index \in Nat /\ start <= end
    BY <2>q, QueryBounds
  <2>w. /\ WithinRing /\ Holds(start)
        /\ ~ByTp => StartShort >= start
        /\ Time(start) \in Nat /\ Time(start) = TimeOf(start)
    <3>1. Holds(start)
      BY <2>r DEF WithinRing, vars, writerVars, Holds, Overwriting
    <3>2. ByTp \/ StartShort >= start
      BY <2>r DEF WithinRing, ByTp, StartShort
    <3>3. start \in 0 .. end BY <2>n
    <3> QED BY <2>q, <3>1, <3>2, <3>3, QueryReads DEF WithinRing
  <2>1. CASE ReadLast \/ ReadFirst
    <3>1. ~ret BY <2>1 DEF ReadLast, ReadFirst, QueryInv, AskedOfRing
    <3>2. qpc' \in {"first", "end"} \/ (qpc' = "done" /\ ret' = ret)
      BY <2>1 DEF ReadLast, ReadFirst, answer
    <3> QED BY <3>1, <3>2 DEF InRing, LooksForStart
  <2>2. CASE ReadEnd
    BY <2>2, <2>n, <2>r DEF ReadEnd, FoundEnd, ByTp, InRing, LooksForStart
  <2>3. CASE ReadStart
    BY <2>3, <2>n, <2>r, <2>w DEF ReadStart, locals, InRing, LooksForStart
  <2>4. CASE GuessEnd
    <3>1. ~ByTp BY <2>4 DEF GuessEnd, Guess, ByTp, QueryInv, AskedOfRing
    <3>2. SearchFrom(asked.end_tp) >= start BY <2>n, <2>w, <3>1 DEF SearchFrom
    <3> QED BY <2>4, <2>n, <2>r, <3>2 DEF GuessEnd, Guess, InRing, LooksForStart
  <2>5. CASE GuessStart
    <3>1. ~ByTp /\ end_index >= start
      BY <2>5, <2>w DEF GuessStart, Guess, ByTp, QueryInv, AskedOfRing, LooksForStart, InRing
    <3>2. SearchFrom(asked.start_tp) >= start BY <2>n, <2>w, <3>1 DEF SearchFrom
    <3> QED BY <2>5, <2>n, <2>r, <3>1, <3>2 DEF GuessStart, Guess, answer, InRing, LooksForStart
  <2>6. CASE NarrowEnd
    <3>1. /\ qpc = "narrow_end" /\ qpc' \in {"narrow_end", "settle_end"}
      BY <2>6 DEF NarrowEnd, Narrow
    <3>2. /\ Between(asked.end_tp) /\ TimeOf(start) <= asked.end_tp /\ left >= start
      BY <2>w, <3>1 DEF QueryInv, Searching, Checked, LooksForEnd, InRing
    <3>3. left' >= start /\ right' >= start
      BY <2>6, <2>n, <2>w, <3>2, NarrowStaysInRing DEF NarrowEnd
    <3> QED BY <2>r, <3>1, <3>3 DEF InRing, LooksForStart
  <2>7. CASE NarrowStart
    <3>1. /\ qpc = "narrow_start" /\ qpc' \in {"narrow_start", "settle_start"}
          /\ end_index' = end_index
      BY <2>7 DEF NarrowStart, Narrow, answer
    <3>2. /\ Between(asked.start_tp) /\ TimeOf(start) <= asked.start_tp
          /\ left >= start /\ end_index >= start
      BY <2>n, <2>w, <3>1 DEF QueryInv, Searching, Checked, LooksForStart, InRing
    <3>3. left' >= start /\ right' >= start
      BY <2>7, <2>n, <2>w, <3>2, NarrowStaysInRing DEF NarrowStart
    <3> QED BY <2>r, <3>1, <3>2, <3>3 DEF InRing, LooksForStart
  <2>8. CASE SettleEnd
    <3>1. LoopOver("narrow_end", "settle_end") /\ LooksForEnd
      BY <2>8 DEF SettleEnd, LoopOver, LooksForEnd
    <3>2. right >= start /\ TimeOf(start) <= asked.end_tp
      BY <2>w, <3>1 DEF LoopOver, InRing, QueryInv, Checked
    <3>3. Time(right) > asked.end_tp => right # start BY <2>n, <2>w, <3>2
    <3>4. /\ end_index' >= start
          /\ (ByTp => start_index' = end_index' /\ qpc' = "done")
          /\ (~ByTp => qpc' = "guess_start")
      BY <2>8, <2>n, <3>2, <3>3 DEF SettleEnd, FoundEnd
    <3> QED BY <2>n, <2>r, <3>4 DEF InRing, LooksForStart
  <2>9. CASE SettleStart
    <3>1. right >= start /\ end_index >= start
      BY <2>9, <2>w DEF SettleStart, LoopOver, InRing, LooksForStart
    <3>2. start_index' >= start /\ end_index' = end_index /\ qpc' = "done"
      BY <2>9, <2>n, <3>1 DEF SettleStart
    <3> QED BY <2>r, <3>1, <3>2 DEF InRing, LooksForStart
  <2> QED
    BY <2>1, <2>2, <2>3, <2>4, <2>5, <2>6, <2>7, <2>8, <2>9 DEF Query
<1>4. CASE UNCHANGED allVars
  <2>1. WithinRing
    BY <1>4 DEF allVars, vars, writerVars, queryVars, locals, WithinRing, Holds, Overwriting, ByTp, StartShort
  <2> QED BY <1>4, <2>1 DEF allVars, queryVars, locals, answer, InRing, LooksForStart
<1> QED BY <1>1, <1>2, <1>3, <1>4 DEF QueryNext

-----------------------------------------------------------------------------
(* What the queries satisfy.                                               *)

\* Every state of a ring that is written while it is asked satisfies IInv and QueryInv, and a
\* search is where InRing says.
THEOREM QueryInvariance == QuerySpec => [](IInv /\ QueryInv /\ InRing)
<1>1. QueryInit => IInv /\ QueryInv /\ InRing
  BY QueryInitInv DEF QueryInit, InRing, LooksForStart
<1>2. IInv /\ QueryInv /\ InRing /\ [QueryNext]_allVars => (IInv /\ QueryInv /\ InRing)'
  BY QueryNextIInv, QueryNextInv, InRingKept
<1> QED BY <1>1, <1>2, PTL DEF QuerySpec

\* get_md_by_tp names the entry it is asked for, or one that is gone if the ring was overwritten
\* meanwhile, for every ring length, every feed and every moment, whatever the writer does.
THEOREM ByTpAnswers == QuerySpec => []ByTpFinds
<1>1. QueryInv /\ InRing => ByTpFinds BY DEF QueryInv, InRing, ByTpFinds, AnswerInRing
<1> QED BY <1>1, QueryInvariance, PTL

\* get_md and get_md_all name the ends of the interval or entries that are gone, whatever
\* the guess get_md starts from.
THEOREM RangeAnswers == QuerySpec => []RangeFinds
<1>1. QueryInv /\ InRing => RangeFinds BY DEF QueryInv, InRing, RangeFinds, AnswerInRing
<1> QED BY <1>1, QueryInvariance, PTL

-----------------------------------------------------------------------------
(* The calendar.  dateToSeconds adds up years and months; what it adds up  *)
(* to is shown in closed form, and that form by its least counterexample.  *)

\* The recursive sum over the years has the value its definition says: a function that
\* satisfies the equation exists, namely the closed form.
LEMMA DaysOfYearsDef ==
    \A y \in Nat :
        DaysOfYears[y] = IF y <= 1970 THEN 0
                         ELSE DaysOfYears[y - 1] + (IF isLeapYear(y - 1) THEN 366 ELSE 365)
<1> DEFINE Days(y) == IF y <= 1970 THEN 0
                      ELSE 365 * (y - 1970) + ((y - 1) \div 4 - 492)
                           - ((y - 1) \div 100 - 19) + ((y - 1) \div 400 - 4)
           sum == [y \in Nat |-> Days(y)]
           Sums(f) == [y \in Nat |-> IF y <= 1970 THEN 0
                            ELSE f[y - 1] + (IF isLeapYear(y - 1) THEN 366 ELSE 365)]
<1>1. ASSUME NEW y \in Nat, y > 1970
      PROVE  Days(y) = Days(y - 1) + (IF isLeapYear(y - 1) THEN 366 ELSE 365)
  BY <1>1, SMTT(60) DEF isLeapYear
<1>2. sum = Sums(sum)
  <2>1. ASSUME NEW y \in Nat PROVE sum[y] = Sums(sum)[y]
    BY <1>1
  <2> QED BY <2>1
<1>3. DaysOfYears = CHOOSE f : f = Sums(f) BY DEF DaysOfYears
<1>4. DaysOfYears = Sums(DaysOfYears) BY <1>2, <1>3
<1> QED BY <1>4

\* The days before a year of the epoch, counted with the rule of leap years.
DaysBefore(year) ==
    IF year <= 1970 THEN 0
    ELSE 365 * (year - 1970) + ((year - 1) \div 4 - 492)
         - ((year - 1) \div 100 - 19) + ((year - 1) \div 400 - 4)

\* The loop over the years of dateToSeconds counts that.
LEMMA DaysOfYearsValue == \A y \in Nat : DaysOfYears[y] = DaysBefore(y)
<1> DEFINE wrong == {y \in Nat : DaysOfYears[y] # DaysBefore(y)}
           less == OpToRel(<, Nat)
<1>1. \A i, j \in Nat : i < j => <<i, j>> \in less BY DEF OpToRel
<1>2. ASSUME wrong # {} PROVE FALSE
  <2>1. IsWellFoundedOn(less, Nat) /\ wrong \subseteq Nat BY NatLessThanWellFounded
  <2> HIDE DEF less
  <2>2. PICK y \in wrong : \A k \in wrong : <<k, y>> \notin less
    <3> HIDE DEF wrong
    <3> QED BY <1>2, <2>1, WFMin
  <2>3. y \in Nat /\ DaysOfYears[y] # DaysBefore(y) OBVIOUS
  <2>4. y > 1970 BY <2>3, DaysOfYearsDef DEF DaysBefore
  <2>5. y - 1 \in Nat /\ y - 1 \notin wrong
    <3>1. y - 1 \in Nat /\ y - 1 < y BY <2>3, <2>4
    <3> QED BY <1>1, <2>2, <2>3, <3>1
  <2>6. DaysOfYears[y - 1] = DaysBefore(y - 1) BY <2>5
  <2>7. DaysOfYears[y] = DaysBefore(y - 1) + (IF isLeapYear(y - 1) THEN 366 ELSE 365)
    BY <2>3, <2>4, <2>6, DaysOfYearsDef
  <2>8. DaysBefore(y) = DaysBefore(y - 1) + (IF isLeapYear(y - 1) THEN 366 ELSE 365)
    BY <2>3, <2>4, SMTT(60) DEF DaysBefore, isLeapYear
  <2> QED BY <2>3, <2>7, <2>8
<1> QED BY <1>2

\* The same of the sum over the months of a year.
LEMMA DaysOfMonthsDef ==
    ASSUME NEW y \in Nat, NEW m \in 1 .. 12
    PROVE  DaysOfMonths(y)[m] = IF m <= 1 THEN 0
                                ELSE DaysOfMonths(y)[m - 1] + DAYS_PER_MONTH(y)[m - 1]
<1> DEFINE leap == IF isLeapYear(y) THEN 1 ELSE 0
           Days(k) == IF k <= 2 THEN 31 * (k - 1)
                      ELSE <<0, 31, 59, 90, 120, 151, 181, 212, 243, 273, 304, 334>>[k] + leap
           sum == [k \in 1 .. 12 |-> Days(k)]
           Sums(f) == [k \in 1 .. 12 |->
                          IF k <= 1 THEN 0 ELSE f[k - 1] + DAYS_PER_MONTH(y)[k - 1]]
<1>1. ASSUME NEW k \in 1 .. 12, k > 1
      PROVE  Days(k) = Days(k - 1) + DAYS_PER_MONTH(y)[k - 1]
  <2>1. k \in {2, 3, 4, 5, 6, 7, 8, 9, 10, 11, 12} BY <1>1
  <2> QED BY <2>1 DEF DAYS_PER_MONTH
<1>2. sum = Sums(sum)
  <2>0. Days(1) = 0 OBVIOUS
  <2> HIDE DEF Days
  <2>1. ASSUME NEW k \in 1 .. 12 PROVE sum[k] = Sums(sum)[k]
    BY <1>1, <2>0
  <2> QED BY <2>1
<1>3. DaysOfMonths(y) = CHOOSE f : f = Sums(f) BY DEF DaysOfMonths
<1>4. DaysOfMonths(y) = Sums(DaysOfMonths(y))
  <2> HIDE DEF Sums, sum
  <2> QED BY <1>2, <1>3
<1> QED BY <1>4

\* January has no day before it, December as many as the year has less 31.
LEMMA DaysOfMonthsValue ==
    ASSUME NEW y \in Nat
    PROVE  /\ DaysOfMonths(y)[1] = 0
           /\ \A m \in 1 .. 12 : DaysOfMonths(y)[m] \in Nat
           /\ DaysOfMonths(y)[12] = IF isLeapYear(y) THEN 335 ELSE 334
<1> DEFINE f == DaysOfMonths(y)
           l == IF isLeapYear(y) THEN 29 ELSE 28
<1>0. DAYS_PER_MONTH(y) = <<31, l, 31, 30, 31, 30, 31, 31, 30, 31, 30, 31>>
  BY DEF DAYS_PER_MONTH
<1>1. \A m \in 1 .. 12 :
         f[m] = IF m <= 1 THEN 0
                ELSE f[m - 1] + <<31, l, 31, 30, 31, 30, 31, 31, 30, 31, 30, 31>>[m - 1]
  BY <1>0, DaysOfMonthsDef
<1> HIDE DEF f
<1>2. f[1] = 0 /\ f[2] = 31 /\ f[3] = 31 + l /\ f[4] = 62 + l BY <1>1
<1>3. f[5] = 92 + l /\ f[6] = 123 + l /\ f[7] = 153 + l BY <1>1, <1>2
<1>4. f[8] = 184 + l /\ f[9] = 215 + l /\ f[10] = 245 + l BY <1>1, <1>3
<1>5. f[11] = 276 + l /\ f[12] = 306 + l BY <1>1, <1>4
<1>6. \A m \in 1 .. 12 : m \in {1, 2, 3, 4, 5, 6, 7, 8, 9, 10, 11, 12} OBVIOUS
<1> QED BY <1>2, <1>3, <1>4, <1>5, <1>6 DEF f

\* The days of a month are as many as the calendar says.
LEMMA MonthLengths ==
    ASSUME NEW y \in Nat, NEW m \in 1 .. 12
    PROVE  DAYS_PER_MONTH(y)[m] = LengthOf(y, m)
<1>1. isLeapYear(y) <=> IF y % 100 = 0 THEN y % 400 = 0 ELSE y % 4 = 0
  BY DEF isLeapYear
<1>2. m \in {1, 2, 3, 4, 5, 6, 7, 8, 9, 10, 11, 12} OBVIOUS
<1> QED BY <1>1, <1>2 DEF DAYS_PER_MONTH, LengthOf

\* From any moment to the same moment of the next day is a day, in every year of the epoch.
LEMMA NextDayIsADay ==
    ASSUME NEW y \in Nat, y >= 1970, NEW m \in 1 .. 12, NEW d \in 1 .. LengthOf(y, m), NEW s \in Nat
    PROVE  LET t == [y |-> y, m |-> m, d |-> d, s |-> s] IN CalOffsetSec(t, NextDay(t)) = 86400
<1> DEFINE t == [y |-> y, m |-> m, d |-> d, s |-> s]
<1> SUFFICES CalOffsetSec(t, NextDay(t)) = 86400 OBVIOUS
<1>l. \A k \in 1 .. 12 : LengthOf(y, k) \in 28 .. 31 /\ DAYS_PER_MONTH(y)[k] = LengthOf(y, k)
  <2>1. ASSUME NEW k \in 1 .. 12 PROVE LengthOf(y, k) \in 28 .. 31 BY DEF LengthOf
  <2> QED BY <2>1, MonthLengths
<1>d. d \in Nat /\ d <= LengthOf(y, m) BY <1>l
<1>m. /\ \A k \in 1 .. 12 : DaysOfMonths(y)[k] \in Nat
      /\ DaysOfYears[y] \in Int
  <2>1. DaysBefore(y) \in Int BY DEF DaysBefore
  <2> QED BY <2>1, DaysOfMonthsValue, DaysOfYearsValue
<1>t. /\ t.s = s
      /\ TotalDays(t) = d - 1 + DaysOfYears[y] + DaysOfMonths(y)[m]
      /\ TotalDays(t) \in Int
  BY <1>d, <1>m DEF TotalDays
\* It is enough that the next moment has the same second and is a day later.
<1>n. ASSUME NEW u, u = NextDay(t), u.s = s, TotalDays(u) = TotalDays(t) + 1
      PROVE  CalOffsetSec(t, NextDay(t)) = 86400
  <2>1. CalOffsetSec(t, u) = (TotalDays(u) - TotalDays(t)) * 86400 + u.s - t.s
    BY DEF CalOffsetSec
  <2> HIDE DEF t
  <2>2. TotalDays(u) - TotalDays(t) = 1 BY <1>n, <1>t
  <2> QED BY <1>n, <1>t, <2>1, <2>2
<1>1. CASE d < LengthOf(y, m)
  <2> DEFINE u == [y |-> y, m |-> m, d |-> d + 1, s |-> s]
  <2>1. u = NextDay(t) BY <1>1 DEF NextDay
  <2>2. TotalDays(u) = (d + 1) - 1 + DaysOfYears[y] + DaysOfMonths(y)[m] BY DEF TotalDays
  <2>3. TotalDays(u) = TotalDays(t) + 1
    <3> HIDE DEF t, u
    <3> QED BY <1>d, <1>m, <1>t, <2>2
  <2> QED BY <1>n, <2>1, <2>3
<1>2. CASE d = LengthOf(y, m) /\ m < 12
  <2> DEFINE u == [t EXCEPT !.m = m + 1, !.d = 1]
  <2>1. u = NextDay(t) BY <1>2 DEF NextDay
  <2>0. u.y = y /\ u.m = m + 1 /\ u.d = 1 /\ u.s = s OBVIOUS
  <2>2. DaysOfMonths(y)[m + 1] = DaysOfMonths(y)[m] + d
    <3>1. m + 1 \in 1 .. 12 /\ ~(m + 1 <= 1) /\ (m + 1) - 1 = m BY <1>2
    <3>2. DaysOfMonths(y)[m + 1] = DaysOfMonths(y)[m] + DAYS_PER_MONTH(y)[m]
      BY <3>1, DaysOfMonthsDef
    <3> QED BY <1>2, <1>l, <3>2
  <2>3. TotalDays(u) = 1 - 1 + DaysOfYears[y] + DaysOfMonths(y)[m + 1] BY <2>0 DEF TotalDays
  <2>4. TotalDays(u) = TotalDays(t) + 1
    <3> HIDE DEF t, u
    <3> QED BY <1>d, <1>m, <1>t, <2>2, <2>3
  <2>8. u.s = s BY <2>0
  <2> HIDE DEF t, u
  <2> QED BY <1>n, <2>1, <2>4, <2>8
<1>3. CASE d = LengthOf(y, m) /\ m = 12
  <2> DEFINE u == [t EXCEPT !.y = y + 1, !.m = 1, !.d = 1]
  <2>1. u = NextDay(t) BY <1>3 DEF NextDay
  <2>0. u.y = y + 1 /\ u.m = 1 /\ u.d = 1 /\ u.s = s OBVIOUS
  <2>2. d = 31 BY <1>3 DEF LengthOf
  <2>3. DaysOfYears[y + 1] = DaysOfYears[y] + (IF isLeapYear(y) THEN 366 ELSE 365)
    <3>1. y + 1 \in Nat /\ ~(y + 1 <= 1970) /\ (y + 1) - 1 = y OBVIOUS
    <3> QED BY <3>1, DaysOfYearsDef
  <2>4. DaysOfMonths(y)[12] = IF isLeapYear(y) THEN 335 ELSE 334 BY DaysOfMonthsValue
  <2>5. DaysOfMonths(y + 1)[1] = 0 BY DaysOfMonthsValue
  <2>6. TotalDays(u) = 1 - 1 + DaysOfYears[y + 1] + DaysOfMonths(y + 1)[1] BY <2>0 DEF TotalDays
  <2>7. TotalDays(u) = TotalDays(t) + 1
    <3> HIDE DEF t, u
    <3> QED BY <1>3, <1>m, <1>t, <2>2, <2>3, <2>4, <2>5, <2>6
  <2>8. u.s = s BY <2>0
  <2> HIDE DEF t, u
  <2> QED BY <1>n, <2>1, <2>7, <2>8
<1> QED BY <1>d, <1>l, <1>1, <1>2, <1>3

\* cal_offset_sec from a moment to the same moment of the next day is 86400 seconds, in every
\* year from 1970 on.
THEOREM DaysAreDays == QuerySpec => []DayIsADay
<1>1. IInv /\ QueryInv /\ InRing => DayIsADay
  <2> SUFFICES ASSUME NEW y \in Years, NEW m \in 1 .. 12, NEW d \in 1 .. LengthOf(y, m)
               PROVE  LET t == [y |-> y, m |-> m, d |-> d, s |-> 0]
                      IN CalOffsetSec(t, NextDay(t)) = 86400
    BY DEF DayIsADay
  <2>1. y \in Nat /\ y >= 1970 /\ 0 \in Nat BY QueryAssumption
  <2> QED BY <2>1, NextDayIsADay
<1> QED BY <1>1, QueryInvariance, PTL
=============================================================================
