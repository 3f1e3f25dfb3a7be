--------------------------- MODULE ShmMdTick_proofs ----------------------------
(***************************************************************************)
(* Proofs about ShmMdTick, for any lists of instruments, any number of     *)
(* heads, readers and updates: what a reader finds when it attaches, and   *)
(* what its copies are worth.                                              *)
(***************************************************************************)
EXTENDS ShmMdTick, TLAPS

Writing == {"copy_lo", "copy_hi", "publish"}
Copying == {"resolve", "read_lo", "read_hi"}
Outside == {"none", "exit"}

\* The first head that nobody has, nor is about to have.
Free == next_empty + (IF wpc = "name" THEN 1 ELSE 0)

\* How far the layout is, and that it leaves no free head that a walk would take.
Layout ==
    /\ ~LaidOut =>
        /\ next_empty <= at /\ next_empty <= Len(Instruments) + 1
        /\ next_empty <= Len(Instruments) => at = next_empty
        /\ \A h \in Heads : next_empty <= h /\ h < at => head[h].current_index = -1
        /\ \A h \in Heads : at <= h => head[h].current_index = 0
    /\ LaidOut => \A h \in Heads : Free <= h => head[h].current_index = -1

\* The heads with a name are those that were given away, and a walk takes them.
Names ==
    \A h \in Heads :
        /\ head[h].instrument_id # NoId <=> h < next_empty
        /\ h < next_empty => head[h].current_index >= 0

\* What the writer has done so far with the head it is at work on.
AtWork ==
    /\ wpc = "name" => at = next_empty /\ at \in Heads /\ head[at] = EmptyHead
                       /\ instrumentID # NoId
    /\ wpc \in Writing => at < next_empty
    /\ wpc = "copy_hi" => head[at].dat[WriteSlot].lo = head[at].current_index + 1
    /\ wpc = "publish" => head[at].dat[WriteSlot] = Entry(head[at].current_index + 1)

\* The newest entry of a head and the one before it are whole, also within an update.
LastTwoWhole ==
    \A h \in Heads : \A k \in Nat :
        k <= head[h].current_index /\ head[h].current_index <= k + 1
            => head[h].dat[k % 3] = Entry(k)

\* No slot goes back to an entry older than one that was published in it.
NeverOlder ==
    \A h \in Heads : \A k \in Nat :
        k <= head[h].current_index
            => head[h].dat[k % 3].lo >= k /\ head[h].dat[k % 3].hi >= k

\* How far the walk of a reader is that came when the layout was done.
Walks ==
    \A r \in Readers \ early :
        /\ rpc[r] \notin Outside => LaidOut
        /\ next[r] <= Free
        /\ rpc[r] = "load" => \A h \in promised[r] : h < next[r]
        /\ rpc[r] = "off" => next[r] > MaxNum

\* What any reader keeps of the region is about heads that were given away.
Keeps ==
    \A r \in Readers :
        /\ rpc[r] = "none" => next[r] = 1
        /\ rpc[r] \notin Copying \cup {"idle"} => mine[r] = 0 /\ tag[r] = 0
        /\ \A h \in promised[r] \cup table[r] : h < next_empty
        /\ mine[r] < next_empty

\* How far a reader is with a copy.
CopyProgress ==
    \A r \in Readers :
        /\ rpc[r] \in Copying => mine[r] # 0
        /\ mine[r] # 0 => tag[r] <= head[mine[r]].current_index
        /\ rpc[r] \in {"read_lo", "read_hi"} =>
            tag[r] <= ent[r] /\ ent[r] <= head[mine[r]].current_index
        /\ rpc[r] = "read_hi" =>
            /\ got[r].lo >= tag[r]
            /\ head[mine[r]].current_index <= ent[r] + 1 => got[r].lo = ent[r]

WInv == Layout /\ Names /\ AtWork /\ LastTwoWhole /\ NeverOlder
RInv == Walks /\ Keeps /\ CopyProgress /\ AttachFinds /\ IntactOneBehind /\ TickNotOlder
IInv == TypeOK /\ WInv /\ RInv

-----------------------------------------------------------------------------
(* Slots and heads.                                                        *)

\* Entries less than three apart are in different slots.
LEMMA ThreeSlots ==
    /\ \A k \in Nat : k % 3 \in Slots
    /\ \A j, k \in Nat : j < k /\ k < j + 3 => j % 3 # k % 3
BY SMTT(30) DEF Slots, MD_BLOCK_NUM

HeadType == [current_index : Nat \cup {-1}, instrument_id : Ids,
             dat : [Slots -> [lo : Nat, hi : Nat]]]

LEMMA InitIInv == Init => IInv
<1> SUFFICES ASSUME Init PROVE IInv OBVIOUS
<1> USE DEF Init
<1>n. MaxNum \in Nat BY TickAssumption
<1>e. EmptyHead \in HeadType BY DEF EmptyHead, HeadType, Entry, Ids
<1>h. head \in [Heads -> HeadType] /\ \A h \in Heads : head[h] = EmptyHead
  BY <1>e
<1>1. TypeOK
  <2>1. Entry(0) \in [lo : Nat, hi : Nat] BY DEF Entry
  <2>2. next_empty \in 1 .. MaxNum + 1 /\ at \in 1 .. MaxNum + 1 BY <1>n
  <2>3. instrumentID \in Ids BY DEF Ids
  <2>4. next \in [Readers -> 1 .. MaxNum + 1] /\ mine \in [Readers -> 0 .. MaxNum] BY <1>n
  <2>5. got \in [Readers -> [lo : Nat, hi : Nat]] BY <2>1
  <2>6. /\ table \in [Readers -> SUBSET Heads] /\ promised \in [Readers -> SUBSET Heads]
        /\ tag \in [Readers -> Nat] /\ ent \in [Readers -> Nat] /\ early \in SUBSET Readers
    OBVIOUS
  <2>7. /\ rpc \in [Readers -> {"none", "exit", "walk", "off", "load", "idle", "resolve",
                                "read_lo", "read_hi"}]
        /\ wpc \in {"create", "layout", "idle", "name", "copy_lo", "copy_hi", "publish"}
    OBVIOUS
  <2> HIDE DEF Init
  <2> QED BY <1>h, <2>2, <2>3, <2>4, <2>5, <2>6, <2>7 DEF TypeOK, HeadType
<1>2. Layout
  <2>1. ~LaidOut BY DEF LaidOut
  <2>2. Len(Instruments) \in Nat BY TickAssumption
  <2>3. \A h \in Heads : head[h].current_index = 0 BY <1>h DEF EmptyHead
  <2> QED BY <2>1, <2>2, <2>3 DEF Layout, Heads
<1>3. Names BY <1>h, <1>n DEF Names, EmptyHead, Heads
<1>4. AtWork BY DEF AtWork, Writing
<1>5. \A h \in Heads : \A k \in Slots : head[h].dat[k] = Entry(0)
  BY <1>h DEF EmptyHead
<1>6. LastTwoWhole /\ NeverOlder
  <2>1. ASSUME NEW h \in Heads, NEW k \in Nat, k <= head[h].current_index
        PROVE  k = 0 /\ head[h].dat[k % 3] = Entry(0)
    <3>1. k = 0 BY <2>1, <1>h DEF EmptyHead
    <3> QED BY <3>1, <1>5, ThreeSlots
  <2> QED BY <2>1 DEF LastTwoWhole, NeverOlder, Entry
<1>7. Walks BY <1>n DEF Walks, Free, Outside
<1>8. Keeps BY DEF Keeps
<1>9. CopyProgress BY DEF CopyProgress, Copying
<1>10. AttachFinds BY DEF AttachFinds
<1>11. IntactOneBehind BY DEF IntactOneBehind
<1>12. TickNotOlder BY DEF TickNotOlder, Entry
<1> QED BY <1>1, <1>2, <1>3, <1>4, <1>6, <1>7, <1>8, <1>9, <1>10, <1>11, <1>12
     DEF IInv, WInv, RInv

-----------------------------------------------------------------------------
(* The writer.                                                             *)

\* What the readers need of a step of the writer: heads that were given away stay so, and
\* their indices do not go back.
Onward ==
    /\ next_empty <= next_empty' /\ Free <= Free'
    /\ LaidOut => LaidOut'
    /\ \A h \in Heads :
        h < next_empty => head'[h].current_index >= head[h].current_index

WriterTypes ==
    /\ head \in [Heads -> HeadType]
    /\ next_empty \in 1 .. MaxNum + 1
    /\ at \in 1 .. MaxNum + 1
    /\ instrumentID \in Ids
    /\ wpc \in {"create", "layout", "idle", "name", "copy_lo", "copy_hi", "publish"}

LEMMA Lengths ==
    /\ MaxNum \in Nat /\ Len(Instruments) \in Nat /\ Len(Instruments) <= MaxNum
    /\ \A i \in Int : 1 <= i /\ i <= Len(Instruments) =>
            Instruments[i] \in Ids /\ Instruments[i] # NoId
<1>1. MaxNum \in Nat /\ Len(Instruments) \in Nat /\ Len(Instruments) <= MaxNum
      /\ DOMAIN Instruments = 1 .. Len(Instruments)
  BY TickAssumption
<1> QED BY <1>1, TickAssumption DEF Ids

\* A step that leaves the heads alone.
LEMMA MoveStep ==
    ASSUME WriterTypes, WInv,
           CreateShmPtr \/ LayoutDone \/ \E id : Update(id)
    PROVE  WriterTypes' /\ WInv' /\ Onward
<1> USE DEF WInv
<1>n. MaxNum \in Nat /\ next_empty \in Nat /\ at \in Nat BY Lengths DEF WriterTypes
<1>1. head' = head /\ next_empty' = next_empty /\ instrumentID' = instrumentID
  BY DEF CreateShmPtr, LayoutDone, Update
<1>2. CASE CreateShmPtr
  <2>1. wpc = "create" /\ wpc' = "layout" /\ at' = at BY <1>2 DEF CreateShmPtr, Writes
  <2>2. WriterTypes' BY <1>1, <2>1 DEF WriterTypes
  <2>3. Layout' BY <1>1, <2>1 DEF Layout, LaidOut
  <2>4. Names' /\ AtWork' /\ LastTwoWhole' /\ NeverOlder'
    BY <1>1, <2>1 DEF Names, AtWork, LastTwoWhole, NeverOlder, Writing, Entry
  <2>5. Onward BY <1>1, <1>n, <2>1 DEF Onward, Free, LaidOut, WriterTypes, HeadType
  <2> QED BY <2>2, <2>3, <2>4, <2>5
<1>3. CASE LayoutDone
  <2>1. /\ wpc = "layout" /\ wpc' = "idle" /\ at' = at
        /\ next_empty > Len(Instruments) /\ at > MaxNum
    BY <1>3 DEF LayoutDone, Writes
  <2>2. WriterTypes' BY <1>1, <2>1 DEF WriterTypes
  <2>3. Layout'
    <3>1. \A h \in Heads : next_empty <= h => head[h].current_index = -1
      BY <2>1, <1>n DEF Layout, LaidOut, Heads
    <3> QED BY <1>1, <1>n, <2>1, <3>1 DEF Layout, LaidOut, Free
  <2>4. Names' /\ AtWork' /\ LastTwoWhole' /\ NeverOlder'
    BY <1>1, <2>1 DEF Names, AtWork, LastTwoWhole, NeverOlder, Writing, Entry
  <2>5. Onward BY <1>1, <1>n, <2>1 DEF Onward, Free, LaidOut, WriterTypes, HeadType
  <2> QED BY <2>2, <2>3, <2>4, <2>5
<1>4. ASSUME NEW id, Update(id) PROVE WriterTypes' /\ WInv' /\ Onward
  <2>1. wpc = "idle" /\ wpc' = "copy_lo" /\ at' \in 1 .. next_empty - 1
    BY <1>4 DEF Update, Writes, Known
  <2>2. at' \in 1 .. MaxNum + 1 /\ at' < next_empty BY <2>1, <1>n DEF WriterTypes
  <2>3. WriterTypes' BY <1>1, <2>1, <2>2 DEF WriterTypes
  <2>4. Layout' BY <1>1, <2>1 DEF Layout, LaidOut, Free
  <2>5. Names' /\ AtWork' /\ LastTwoWhole' /\ NeverOlder'
    BY <1>1, <2>1, <2>2 DEF Names, AtWork, LastTwoWhole, NeverOlder, Writing, Entry
  <2>6. Onward BY <1>1, <1>n, <2>1 DEF Onward, Free, LaidOut, WriterTypes, HeadType
  <2> QED BY <2>3, <2>4, <2>5, <2>6
<1> QED BY <1>2, <1>3, <1>4

\* The layout: instruments first, then the index -1 in the heads that are left.
LEMMA LayoutStep ==
    ASSUME WriterTypes, WInv, InitInstrument \/ MarkTail
    PROVE  WriterTypes' /\ WInv' /\ Onward
<1> USE DEF WInv
<1>n. MaxNum \in Nat /\ next_empty \in Nat \ {0} /\ at \in Nat \ {0}
      /\ Len(Instruments) \in Nat /\ Len(Instruments) <= MaxNum
  BY Lengths DEF WriterTypes
<1>0. /\ wpc = "layout" /\ wpc' = "layout" /\ instrumentID' = instrumentID
      /\ ~LaidOut /\ ~LaidOut' /\ Free = next_empty /\ Free' = next_empty'
  BY DEF InitInstrument, MarkTail, Writes, LaidOut, Free, WriterTypes
<1>1. CASE InitInstrument
  <2>1. /\ next_empty <= Len(Instruments) /\ at = next_empty
        /\ next_empty' = next_empty + 1 /\ at' = next_empty + 1
        /\ head' = [head EXCEPT ![next_empty].instrument_id = Instruments[next_empty]]
    BY <1>0, <1>1, <1>n DEF InitInstrument, Layout
  <2>2. next_empty \in Heads BY <1>n, <2>1 DEF Heads
  <2>3. Instruments[next_empty] \in Ids /\ Instruments[next_empty] # NoId
    BY <1>n, <2>1, Lengths
  <2>4. \A h \in Heads :
           /\ head'[h].current_index = head[h].current_index
           /\ head'[h].dat = head[h].dat
           /\ head'[h].instrument_id =
                  IF h = next_empty THEN Instruments[next_empty] ELSE head[h].instrument_id
    BY <2>1, <2>2 DEF WriterTypes, HeadType
  <2>5. head' \in [Heads -> HeadType]
    BY <2>1, <2>2, <2>3 DEF WriterTypes, HeadType
  <2>6. WriterTypes' BY <1>0, <1>n, <2>1, <2>5 DEF WriterTypes
  <2>7. Layout' BY <1>0, <1>n, <2>1, <2>4 DEF Layout, Heads
  <2>8. head[next_empty].current_index >= 0
    BY <1>0, <2>1, <2>2 DEF Layout
  <2>9. Names' BY <1>n, <2>1, <2>3, <2>4, <2>8 DEF Names, Heads
  <2>10. AtWork' BY <1>0 DEF AtWork, Writing
  <2>11. LastTwoWhole' /\ NeverOlder' BY <2>4 DEF LastTwoWhole, NeverOlder, Entry
  <2>12. Onward BY <1>0, <1>n, <2>1, <2>4 DEF Onward, WriterTypes, HeadType
  <2> QED BY <2>6, <2>7, <2>9, <2>10, <2>11, <2>12
<1>2. CASE MarkTail
  <2>1. /\ next_empty > Len(Instruments) /\ at <= MaxNum /\ next_empty <= at
        /\ next_empty' = next_empty /\ at' = at + 1
        /\ head' = [head EXCEPT ![at].current_index = -1]
    BY <1>0, <1>2 DEF MarkTail, Layout
  <2>2. at \in Heads BY <1>n, <2>1 DEF Heads
  <2>3. \A h \in Heads :
           /\ head'[h].current_index = IF h = at THEN -1 ELSE head[h].current_index
           /\ head'[h].dat = head[h].dat
           /\ head'[h].instrument_id = head[h].instrument_id
    BY <2>1, <2>2 DEF WriterTypes, HeadType
  <2>4. head' \in [Heads -> HeadType] BY <2>1, <2>2 DEF WriterTypes, HeadType
  <2>5. WriterTypes' BY <1>0, <1>n, <2>1, <2>4 DEF WriterTypes
  <2>6. Layout' BY <1>0, <1>n, <2>1, <2>3 DEF Layout, Heads
  <2>7. Names' BY <1>n, <2>1, <2>3 DEF Names, Heads
  <2>8. AtWork' BY <1>0 DEF AtWork, Writing
  <2>9. LastTwoWhole' /\ NeverOlder'
    BY <2>3 DEF LastTwoWhole, NeverOlder, Entry
  <2>10. Onward BY <1>0, <1>n, <2>1, <2>3 DEF Onward, WriterTypes, HeadType, Heads
  <2> QED BY <2>5, <2>6, <2>7, <2>8, <2>9, <2>10
<1> QED BY <1>1, <1>2

\* A new head: it is zeroed before it has a name, and it has its name before it is taken.
LEMMA TakeStep ==
    ASSUME WriterTypes, WInv, Name \/ \E id \in Added : Add(id)
    PROVE  WriterTypes' /\ WInv' /\ Onward
<1> USE DEF WInv
<1>n. MaxNum \in Nat /\ next_empty \in Nat \ {0} /\ at \in Nat \ {0}
  BY Lengths DEF WriterTypes
<1>1. ASSUME NEW id \in Added, Add(id) PROVE WriterTypes' /\ WInv' /\ Onward
  <2>1. /\ next_empty <= MaxNum /\ wpc = "idle" /\ wpc' = "name"
        /\ instrumentID' = id /\ at' = next_empty /\ next_empty' = next_empty
        /\ head' = [head EXCEPT ![next_empty] = EmptyHead]
    BY <1>1 DEF Add, Writes
  <2>2. id \in Ids /\ id # NoId BY TickAssumption DEF Ids
  <2>3. next_empty \in Heads BY <1>n, <2>1 DEF Heads
  <2>4. EmptyHead \in HeadType BY DEF EmptyHead, HeadType, Entry, Ids
  <2>5. /\ head' \in [Heads -> HeadType]
        /\ \A h \in Heads : head'[h] = IF h = next_empty THEN EmptyHead ELSE head[h]
    BY <2>1, <2>3, <2>4 DEF WriterTypes
  <2>6. WriterTypes' BY <1>n, <2>1, <2>2, <2>5 DEF WriterTypes
  <2>7. Layout' BY <1>n, <2>1, <2>5 DEF Layout, LaidOut, Free, Heads
  <2>8. Names'
    <3>1. EmptyHead.instrument_id = NoId BY DEF EmptyHead
    <3> QED BY <1>n, <2>1, <2>3, <2>5, <3>1 DEF Names, Heads
  <2>9. AtWork' BY <2>1, <2>2, <2>3, <2>5 DEF AtWork, Writing, EmptyHead, Entry
  <2>10. \A k \in Nat : k <= EmptyHead.current_index => EmptyHead.dat[k % 3] = Entry(k)
    <3>1. \A k \in Nat : k <= EmptyHead.current_index => k = 0 /\ k % 3 \in Slots
      BY ThreeSlots DEF EmptyHead
    <3>2. \A k \in Slots : EmptyHead.dat[k] = Entry(0) BY DEF EmptyHead
    <3> QED BY <3>1, <3>2
  <2>11. LastTwoWhole' /\ NeverOlder'
    <3>1. \A h \in Heads : h # next_empty => head'[h] = head[h] BY <2>5
    <3>2. head'[next_empty] = EmptyHead BY <2>3, <2>5
    <3>3. \A k \in Nat : Entry(k).lo = k /\ Entry(k).hi = k BY DEF Entry
    <3>4. LastTwoWhole' BY <2>10, <3>1, <3>2 DEF LastTwoWhole, Entry
    <3>5. NeverOlder' BY <2>10, <3>1, <3>2, <3>3 DEF NeverOlder
    <3> QED BY <3>4, <3>5
  <2>12. Onward
    BY <1>n, <2>1, <2>5 DEF Onward, Free, LaidOut, WriterTypes, HeadType, Heads
  <2> QED BY <2>6, <2>7, <2>8, <2>9, <2>11, <2>12
<1>2. CASE Name
  <2>1. /\ wpc = "name" /\ wpc' = "copy_lo" /\ next_empty' = next_empty + 1
        /\ at' = at /\ instrumentID' = instrumentID
        /\ head' = [head EXCEPT ![at].instrument_id = instrumentID]
        /\ at = next_empty /\ at \in Heads /\ head[at] = EmptyHead
        /\ instrumentID # NoId /\ instrumentID \in Ids
    BY <1>2 DEF Name, Writes, AtWork, WriterTypes
  <2>2. /\ \A h \in Heads :
            /\ head'[h].current_index = head[h].current_index
            /\ head'[h].dat = head[h].dat
            /\ head'[h].instrument_id =
                   IF h = at THEN instrumentID ELSE head[h].instrument_id
        /\ head' \in [Heads -> HeadType]
    BY <2>1 DEF WriterTypes, HeadType
  <2>3. WriterTypes' BY <1>n, <2>1, <2>2 DEF WriterTypes, Heads
  <2>4. Layout' BY <1>n, <2>1, <2>2 DEF Layout, LaidOut, Free, Heads
  <2>5. Names'
    <3>1. head[at].current_index = 0 BY <2>1 DEF EmptyHead
    <3> QED BY <1>n, <2>1, <2>2, <3>1 DEF Names, Heads
  <2>6. AtWork' BY <1>n, <2>1 DEF AtWork, Writing
  <2>7. LastTwoWhole' /\ NeverOlder' BY <2>2 DEF LastTwoWhole, NeverOlder, Entry
  <2>8. Onward BY <1>n, <2>1, <2>2 DEF Onward, Free, LaidOut, WriterTypes, HeadType
  <2> QED BY <2>3, <2>4, <2>5, <2>6, <2>7, <2>8
<1> QED BY <1>1, <1>2

\* An entry is written next to the two newest ones, and then becomes the newest.
LEMMA UpdateStep ==
    ASSUME WriterTypes, WInv, CopyLo \/ CopyHi \/ Publish
    PROVE  WriterTypes' /\ WInv' /\ Onward
<1> USE DEF WInv
<1>n. MaxNum \in Nat /\ next_empty \in Nat \ {0} /\ at \in Nat \ {0}
      /\ next_empty <= MaxNum + 1
  BY Lengths DEF WriterTypes
<1>0. /\ wpc \in Writing /\ wpc' \in Writing \cup {"idle"}
      /\ next_empty' = next_empty /\ at' = at /\ instrumentID' = instrumentID
  BY DEF CopyLo, CopyHi, Publish, Writes, Writing
<1>1. LaidOut /\ LaidOut' /\ Free = next_empty /\ Free' = next_empty
  BY <1>0, <1>n DEF LaidOut, Free, Writing
<1>2. at < next_empty /\ at \in Heads BY <1>0, <1>n DEF AtWork, Heads
<1> DEFINE n == head[at].current_index
           old == head[at].dat[WriteSlot]
<1>3. n \in Nat /\ head[at] \in HeadType
  BY <1>2 DEF Names, WriterTypes, HeadType
<1>4. WriteSlot = (n + 1) % 3 /\ WriteSlot \in Slots /\ old \in [lo : Nat, hi : Nat]
  <2>1. WriteSlot = (n + 1) % 3 BY DEF WriteSlot, MD_BLOCK_NUM
  <2>2. WriteSlot \in Slots BY <1>3, <2>1, ThreeSlots
  <2> QED BY <1>3, <2>1, <2>2 DEF HeadType
<1> HIDE DEF n, old
<1>5. CASE CopyLo \/ CopyHi
  <2>1. PICK e \in [lo : Nat, hi : Nat] :
           /\ head' = [head EXCEPT ![at].dat[WriteSlot] = e]
           /\ e.lo \in {old.lo, n + 1} /\ e.hi \in {old.hi, n + 1}
           /\ CopyLo => e.lo = n + 1
           /\ CopyHi => e.hi = n + 1 /\ e.lo = old.lo
    <3>1. CASE CopyLo
      <4>1. head' = [head EXCEPT ![at].dat[WriteSlot] = [old EXCEPT !.lo = n + 1]]
        BY <3>1 DEF CopyLo, n, old
      <4>2. [old EXCEPT !.lo = n + 1] \in [lo : Nat, hi : Nat] BY <1>3, <1>4
      <4>3. ~CopyHi BY <3>1 DEF CopyLo, CopyHi, Writes
      <4> QED BY <1>4, <4>1, <4>2, <4>3
    <3>2. CASE CopyHi
      <4>1. head' = [head EXCEPT ![at].dat[WriteSlot] = [old EXCEPT !.hi = n + 1]]
        BY <3>2 DEF CopyHi, n, old
      <4>2. [old EXCEPT !.hi = n + 1] \in [lo : Nat, hi : Nat] BY <1>3, <1>4
      <4>3. ~CopyLo BY <3>2 DEF CopyLo, CopyHi, Writes
      <4> QED BY <1>4, <4>1, <4>2, <4>3
    <3> QED BY <1>5, <3>1, <3>2
  <2>2. /\ head' \in [Heads -> HeadType]
        /\ \A h \in Heads : h # at => head'[h] = head[h]
        /\ head'[at] = [head[at] EXCEPT !.dat = [head[at].dat EXCEPT ![WriteSlot] = e]]
    <3>1. [head[at].dat EXCEPT ![WriteSlot] = e] \in [Slots -> [lo : Nat, hi : Nat]]
      BY <1>3, <2>1 DEF HeadType
    <3>2. [head[at] EXCEPT !.dat = [head[at].dat EXCEPT ![WriteSlot] = e]] \in HeadType
      BY <1>3, <3>1 DEF HeadType
    <3> QED BY <1>2, <2>1, <3>2 DEF WriterTypes
  <2>3. /\ head'[at].current_index = n /\ head'[at].instrument_id = head[at].instrument_id
        /\ head'[at].dat[WriteSlot] = e
        /\ \A s \in Slots : s # WriteSlot => head'[at].dat[s] = head[at].dat[s]
    BY <1>3, <1>4, <2>2 DEF n, HeadType
  <2>4. \A h \in Heads : /\ head'[h].current_index = head[h].current_index
                         /\ head'[h].instrument_id = head[h].instrument_id
    BY <2>2, <2>3 DEF n
  <2>5. WriterTypes' BY <1>0, <2>2 DEF WriterTypes, Writing
  <2>6. Layout' BY <1>0, <1>1, <2>4 DEF Layout
  <2>7. Names' BY <1>0, <2>4 DEF Names
  <2>8. AtWork'
    <3>1. WriteSlot' = WriteSlot BY <1>0, <2>3 DEF WriteSlot, n
    <3>2. CASE CopyLo
      <4>1. wpc' = "copy_hi" BY <3>2 DEF CopyLo, Writes
      <4> QED BY <1>0, <1>2, <2>1, <2>3, <3>1, <3>2, <4>1 DEF AtWork
    <3>3. CASE CopyHi
      <4>1. wpc = "copy_hi" /\ wpc' = "publish" BY <3>3 DEF CopyHi, Writes
      <4>2. old.lo = n + 1 BY <4>1 DEF AtWork, n, old
      <4>3. e = Entry(n + 1) BY <2>1, <3>3, <4>2 DEF Entry
      <4> QED BY <1>0, <1>2, <2>3, <3>1, <4>1, <4>3 DEF AtWork, Entry
    <3> QED BY <1>5, <3>2, <3>3
  <2>9. ASSUME NEW k \in Nat, k <= n
        PROVE  /\ n <= k + 1 => head'[at].dat[k % 3] = Entry(k)
               /\ head'[at].dat[k % 3].lo >= k /\ head'[at].dat[k % 3].hi >= k
    <3>1. k % 3 \in Slots BY ThreeSlots
    <3>2. /\ n <= k + 1 => head[at].dat[k % 3] = Entry(k)
          /\ head[at].dat[k % 3].lo >= k /\ head[at].dat[k % 3].hi >= k
      BY <1>2, <2>9 DEF LastTwoWhole, NeverOlder, n
    <3>3. n <= k + 1 => k % 3 # WriteSlot
      <4>1. n <= k + 1 => k < n + 1 /\ n + 1 < k + 3 BY <1>3, <2>9
      <4>2. n + 1 \in Nat BY <1>3
      <4> QED BY <1>4, <4>1, <4>2, ThreeSlots
    <3>4. CASE k % 3 # WriteSlot BY <2>3, <3>1, <3>2, <3>4
    <3>5. CASE k % 3 = WriteSlot
      <4>1. old.lo >= k /\ old.hi >= k BY <3>2, <3>5 DEF old
      <4>2. e.lo >= k /\ e.hi >= k BY <1>3, <2>1, <2>9, <4>1
      <4> QED BY <2>3, <3>3, <3>5, <4>2
    <3> QED BY <3>4, <3>5
  <2>10. LastTwoWhole' /\ NeverOlder'
    <3>1. LastTwoWhole'
      <4>1. ASSUME NEW h \in Heads, NEW k \in Nat,
                   k <= head'[h].current_index, head'[h].current_index <= k + 1
            PROVE  head'[h].dat[k % 3] = Entry(k)
        <5>1. CASE h = at BY <2>3, <2>9, <4>1, <5>1
        <5>2. CASE h # at BY <2>2, <4>1, <5>2 DEF LastTwoWhole
        <5> QED BY <5>1, <5>2
      <4> QED BY <4>1 DEF LastTwoWhole, Entry
    <3>2. NeverOlder' BY <2>2, <2>3, <2>9 DEF NeverOlder
    <3> QED BY <3>1, <3>2
  <2>11. Onward
    <3>1. \A h \in Heads : h < next_empty => head[h].current_index \in Nat
      BY DEF Names, WriterTypes, HeadType
    <3> QED BY <1>0, <1>1, <1>n, <2>4, <3>1 DEF Onward
  <2> QED BY <2>5, <2>6, <2>7, <2>8, <2>10, <2>11
<1>6. CASE Publish
  <2>1. /\ wpc = "publish" /\ wpc' = "idle"
        /\ head' = [head EXCEPT ![at].current_index = @ + 1]
    BY <1>6 DEF Publish, Writes
  <2>2. /\ head' \in [Heads -> HeadType]
        /\ \A h \in Heads : /\ head'[h].dat = head[h].dat
                            /\ head'[h].instrument_id = head[h].instrument_id
                            /\ h # at => head'[h] = head[h]
        /\ head'[at].current_index = n + 1
    <3>1. [head[at] EXCEPT !.current_index = @ + 1] \in HeadType
      BY <1>3 DEF HeadType, n
    <3> QED BY <1>2, <1>3, <2>1, <3>1 DEF WriterTypes, HeadType, n
  <2>3. \A h \in Heads : h < next_empty =>
            head[h].current_index \in Nat /\ head'[h].current_index >= head[h].current_index
    BY <1>3, <2>2 DEF Names, WriterTypes, HeadType, n
  <2>4. WriterTypes' BY <1>0, <2>1, <2>2 DEF WriterTypes
  <2>5. Layout' BY <1>0, <1>1, <1>2, <1>n, <2>2 DEF Layout, Heads
  <2>6. Names' BY <1>0, <1>3, <2>2, <2>3 DEF Names
  <2>7. AtWork' BY <2>1 DEF AtWork, Writing
  <2>8. head'[at].dat[(n + 1) % 3] = Entry(n + 1)
    BY <1>2, <1>4, <2>1, <2>2 DEF AtWork, n
  <2>9. ASSUME NEW k \in Nat, k <= n + 1
        PROVE  /\ n + 1 <= k + 1 => head'[at].dat[k % 3] = Entry(k)
               /\ head'[at].dat[k % 3].lo >= k /\ head'[at].dat[k % 3].hi >= k
    <3>1. CASE k = n + 1 BY <2>8, <3>1 DEF Entry
    <3>2. CASE k <= n
      <4>1. /\ n <= k + 1 => head[at].dat[k % 3] = Entry(k)
            /\ head[at].dat[k % 3].lo >= k /\ head[at].dat[k % 3].hi >= k
        BY <1>2, <3>2 DEF LastTwoWhole, NeverOlder, n
      <4>2. n + 1 <= k + 1 => n <= k + 1 BY <1>3
      <4> QED BY <1>2, <2>2, <4>1, <4>2
    <3> QED BY <1>3, <2>9, <3>1, <3>2
  <2>10. LastTwoWhole' BY <2>2, <2>9 DEF LastTwoWhole, Entry
  <2>11. NeverOlder' BY <2>2, <2>9 DEF NeverOlder
  <2>12. Onward BY <1>0, <1>1, <1>n, <2>3 DEF Onward
  <2> QED BY <2>4, <2>5, <2>6, <2>7, <2>10, <2>11, <2>12
<1> QED BY <1>5, <1>6

LEMMA WriterStep ==
    ASSUME IInv, Writer PROVE WriterTypes' /\ WInv' /\ Onward /\ UNCHANGED readersSame
<1>1. WriterTypes /\ WInv BY DEF IInv, TypeOK, WriterTypes, HeadType
<1>2. UNCHANGED readersSame
  BY DEF Writer, CreateShmPtr, InitInstrument, MarkTail, LayoutDone, Update, Add, Name,
         CopyLo, CopyHi, Publish
<1> QED BY <1>1, <1>2, MoveStep, LayoutStep, TakeStep, UpdateStep DEF Writer

-----------------------------------------------------------------------------
(* The readers.                                                            *)

\* What readers have seen of a head stays true while the writer goes on.
LEMMA ReadersKept ==
    ASSUME IInv, WriterTypes', WInv', Onward, UNCHANGED readersSame
    PROVE  IInv'
<1> USE DEF IInv, RInv
<1>n. /\ MaxNum \in Nat /\ next_empty \in Nat \ {0} /\ next_empty' \in Nat \ {0}
      /\ next_empty <= MaxNum + 1 /\ Free \in Nat /\ Free' \in Nat
  <2>1. MaxNum \in Nat /\ next_empty \in 1 .. MaxNum + 1 BY Lengths DEF TypeOK
  <2>2. next_empty' \in 1 .. MaxNum + 1 BY DEF WriterTypes
  <2>3. \A k \in Nat : k + 0 = k /\ k + 1 \in Nat OBVIOUS
  <2>4. Free \in Nat /\ Free' \in Nat
    <3>1. next_empty \in Nat /\ next_empty' \in Nat BY <2>1, <2>2
    <3>2. Free = next_empty \/ Free = next_empty + 1 BY <3>1 DEF Free
    <3>3. Free' = next_empty' \/ Free' = next_empty' + 1
      <4>1. Free' = next_empty' + (IF wpc' = "name" THEN 1 ELSE 0) BY DEF Free
      <4>2. next_empty' + 0 = next_empty' BY <2>3, <3>1
      <4>3. CASE wpc' = "name" BY ONLY <4>1, <4>3
      <4>4. CASE wpc' # "name" BY ONLY <4>1, <4>2, <4>4
      <4> QED BY <4>3, <4>4
    <3> QED BY <2>3, <3>1, <3>2, <3>3
  <2> QED BY <2>1, <2>2, <2>4
<1>u. UNCHANGED <<rpc, next, table, early, promised, mine, tag, ent, got>>
  BY DEF readersSame, attachVars, readVars
<1>1. TypeOK' BY <1>u DEF TypeOK, WriterTypes, HeadType
<1>2. \A r \in Readers : next[r] \in Nat /\ mine[r] \in Nat /\ tag[r] \in Nat /\ ent[r] \in Nat
                         /\ table[r] \subseteq Int /\ promised[r] \subseteq Int
  BY <1>n DEF TypeOK, Heads
<1>3. Walks' BY <1>u, <1>n, <1>2 DEF Walks, Onward
<1>4. Keeps' BY <1>u, <1>n, <1>2 DEF Keeps, Onward
<1>5. ASSUME NEW r \in Readers, mine[r] # 0
      PROVE  /\ mine[r] \in Heads
             /\ head[mine[r]].current_index \in Int /\ head'[mine[r]].current_index \in Int
             /\ head'[mine[r]].current_index >= head[mine[r]].current_index
  <2>1. mine[r] \in Heads /\ mine[r] < next_empty BY <1>2, <1>5 DEF Keeps, TypeOK, Heads
  <2> QED BY <2>1 DEF Onward, WriterTypes, TypeOK, HeadType
<1>6. CopyProgress'
  <2>1. ASSUME NEW r \in Readers
        PROVE  /\ mine[r] # 0 => tag[r] <= head'[mine[r]].current_index
               /\ mine[r] # 0 /\ rpc[r] \in {"read_lo", "read_hi"} =>
                      tag[r] <= ent[r] /\ ent[r] <= head'[mine[r]].current_index
               /\ mine[r] # 0 /\ rpc[r] = "read_hi"
                  /\ head'[mine[r]].current_index <= ent[r] + 1 => got[r].lo = ent[r]
    BY <1>2, <1>5 DEF CopyProgress
  <2> QED BY <1>u, <2>1 DEF CopyProgress, Copying
<1>7. AttachFinds'
  <2>1. AttachFinds /\ \A r \in Readers \ early : rpc[r] = "off" => next[r] <= Free
    BY DEF Walks
  <2>2. \A r \in Readers \ early : rpc[r] = "off" => Free > MaxNum
    BY <1>n, <1>2 DEF Walks
  <2>3. \A r \in Readers \ early : rpc[r] = "off" => Free' > MaxNum
    BY <1>n, <2>2 DEF Onward
  <2> QED BY <1>u, <2>1, <2>3 DEF AttachFinds, Free
<1>8. IntactOneBehind' BY <1>u, <1>2, <1>5 DEF IntactOneBehind, Entry
<1>9. TickNotOlder' BY <1>u DEF TickNotOlder
<1> QED BY <1>1, <1>3, <1>4, <1>6, <1>7, <1>8, <1>9

\* get_shm: the walk of a reader that came when the layout was done ends at the first free
\* head, if there is one, and what it passed has names.
LEMMA AttachStep ==
    ASSUME IInv, NEW r \in Readers,
           GetShmExit(r) \/ GetShm(r) \/ WalkOn(r) \/ WalkEnds(r) \/ WalkOff(r)
               \/ LoadInstruments(r)
    PROVE  IInv'
<1> USE DEF IInv, RInv
<1>n. /\ MaxNum \in Nat /\ next_empty \in Nat \ {0} /\ Free \in Nat /\ next_empty <= Free
      /\ next_empty <= MaxNum + 1 /\ next[r] \in Nat \ {0}
  BY Lengths DEF TypeOK, Free
<1>u. UNCHANGED <<writerVars, readVars>>
  BY DEF GetShmExit, GetShm, WalkOn, WalkEnds, WalkOff, LoadInstruments, attachVars
<1>w. /\ UNCHANGED <<head, next_empty, wpc, at, instrumentID, mine, tag, ent, got>>
      /\ Free' = Free /\ (LaidOut' <=> LaidOut)
  BY <1>u DEF writerVars, readVars, Free, LaidOut
<1>i. WInv'
  BY <1>w DEF WInv, Layout, Names, AtWork, LastTwoWhole, NeverOlder, LaidOut, Free, WriteSlot,
              Entry, EmptyHead
<1>0. PICK to \in {"exit", "walk", "load", "off", "idle"} :
         rpc' = [rpc EXCEPT ![r] = to] /\ rpc[r] \in {"none", "walk", "load"}
  BY DEF GetShmExit, GetShm, WalkOn, WalkEnds, WalkOff, LoadInstruments, Reads
<1>1. /\ rpc' \in [Readers -> {"none", "exit", "walk", "off", "load", "idle", "resolve",
                               "read_lo", "read_hi"}]
      /\ rpc'[r] = to /\ \A q \in Readers : q # r => rpc'[q] = rpc[q]
  BY <1>0 DEF TypeOK
\* It is enough to follow the walk.
<1>2. SUFFICES
        /\ next' \in [Readers -> 1 .. MaxNum + 1] /\ \A q \in Readers : q # r => next'[q] = next[q]
        /\ table' \in [Readers -> SUBSET Heads]
        /\ promised' \in [Readers -> SUBSET Heads]
        /\ \A q \in Readers : q # r => table'[q] = table[q] /\ promised'[q] = promised[q]
        /\ early' \in SUBSET Readers /\ early \subseteq early'
        /\ \A h \in promised'[r] \cup table'[r] : h < next_empty
        /\ r \notin early' =>
            /\ to # "exit" => LaidOut
            /\ next'[r] <= Free
            /\ to = "load" => \A h \in promised'[r] : h < next'[r]
            /\ to = "off" => next'[r] > MaxNum
            /\ to = "idle" => promised'[r] \subseteq table'[r]
  <2>1. TypeOK' BY <1>w, <1>1, <1>2 DEF TypeOK
  <2>2. Walks' BY <1>w, <1>1, <1>2 DEF Walks, Outside
  <2>3. Keeps' BY <1>w, <1>0, <1>1, <1>2 DEF Keeps, Copying
  <2>4. CopyProgress' BY <1>w, <1>0, <1>1 DEF CopyProgress, Copying
  <2>5. mine[r] = 0 /\ tag[r] = 0 BY <1>0 DEF Keeps, Copying
  <2>6. IntactOneBehind' BY <1>w, <1>1, <2>5 DEF IntactOneBehind, Entry
  <2>7. TickNotOlder' BY <1>w, <1>1, <2>5 DEF TickNotOlder, TypeOK
  <2>8. AttachFinds'
    <3>1. r \notin early' /\ to = "off" => Free > MaxNum BY <1>2, <1>n
    <3> QED BY <1>w, <1>0, <1>1, <1>2, <3>1 DEF AttachFinds, Free
  <2> QED BY <1>i, <2>1, <2>2, <2>3, <2>4, <2>6, <2>7, <2>8
<1>3. CASE GetShmExit(r)
  <2>1. to = "exit" /\ next' = next /\ table' = table /\ promised' = promised /\ early' = early
    BY <1>1, <1>3 DEF GetShmExit, Reads, attachVars, TypeOK
  <2> QED BY <2>1, <1>n DEF TypeOK, Keeps, Walks
<1>4. CASE GetShm(r)
  <2>1. /\ rpc[r] = "none" /\ to = "walk" /\ next' = next /\ table' = table
        /\ early' = IF LaidOut THEN early ELSE early \cup {r}
        /\ promised' = [promised EXCEPT ![r] = IF LaidOut THEN 1 .. next_empty - 1 ELSE {}]
    BY <1>1, <1>4 DEF GetShm, Reads, TypeOK
  <2>2. 1 .. next_empty - 1 \subseteq Heads /\ \A h \in 1 .. next_empty - 1 : h < next_empty
    BY <1>n DEF Heads
  <2>3. /\ promised' \in [Readers -> SUBSET Heads] /\ \A h \in promised'[r] : h < next_empty
        /\ \A q \in Readers : q # r => promised'[q] = promised[q]
    BY <2>1, <2>2 DEF TypeOK
  <2>4. next[r] <= Free BY <1>n, <2>1 DEF Keeps
  <2> QED BY <2>1, <2>3, <2>4 DEF TypeOK, Keeps
<1>5. CASE WalkOn(r)
  <2>1. /\ rpc[r] = "walk" /\ to = "walk" /\ table' = table /\ promised' = promised
        /\ early' = early /\ next' = [next EXCEPT ![r] = @ + 1]
        /\ next[r] <= MaxNum /\ head[next[r]].current_index >= 0
    BY <1>1, <1>5 DEF WalkOn, Reads, TypeOK, Taken
  <2>2. /\ next' \in [Readers -> 1 .. MaxNum + 1] /\ next'[r] = next[r] + 1
        /\ \A q \in Readers : q # r => next'[q] = next[q]
    BY <1>n, <2>1 DEF TypeOK
  <2>3. r \notin early => next[r] + 1 <= Free
    <3>1. SUFFICES ASSUME r \notin early PROVE next[r] < Free
      BY <1>n
    <3>2. LaidOut /\ next[r] <= Free BY <2>1, <3>1 DEF Walks, Outside
    <3>3. next[r] \in Heads BY <1>n, <2>1 DEF Heads
    <3>4. next[r] # Free BY <2>1, <3>2, <3>3, <1>n DEF WInv, Layout
    <3> QED BY <1>n, <3>2, <3>4
  <2>4. r \notin early => LaidOut BY <2>1 DEF Walks, Outside
  <2> QED BY <2>1, <2>2, <2>3, <2>4 DEF TypeOK, Keeps
<1>6. CASE WalkEnds(r)
  <2>1. /\ rpc[r] = "walk" /\ to = "load" /\ next' = next /\ table' = table
        /\ promised' = promised /\ early' = early
        /\ next[r] <= MaxNum /\ ~(head[next[r]].current_index >= 0)
    BY <1>1, <1>6 DEF WalkEnds, Reads, TypeOK, Taken, attachVars
  <2>2. next[r] \in Heads BY <1>n, <2>1 DEF Heads
  <2>3. next[r] >= next_empty BY <1>n, <2>1, <2>2 DEF WInv, Names
  <2>4. \A h \in promised[r] : h \in Int /\ h < next_empty BY DEF Keeps, TypeOK, Heads
  <2>5. \A h \in promised[r] : h < next[r] BY <1>n, <2>3, <2>4
  <2>6. r \notin early => LaidOut /\ next[r] <= Free BY <2>1 DEF Walks, Outside
  <2> QED BY <2>1, <2>5, <2>6 DEF TypeOK, Keeps
<1>7. CASE WalkOff(r)
  <2>1. /\ rpc[r] = "walk" /\ to = "off" /\ next' = next /\ table' = table
        /\ promised' = promised /\ early' = early /\ next[r] > MaxNum
    BY <1>1, <1>7 DEF WalkOff, Reads, TypeOK, attachVars
  <2>2. r \notin early => LaidOut /\ next[r] <= Free BY <2>1 DEF Walks, Outside
  <2> QED BY <2>1, <2>2 DEF TypeOK, Keeps
<1>8. CASE LoadInstruments(r)
  <2>1. /\ rpc[r] = "load" /\ to = "idle" /\ next' = next
        /\ promised' = promised /\ early' = early
        /\ table' = [table EXCEPT ![r] = {h \in 1 .. next[r] - 1 : head[h].instrument_id # NoId}]
    BY <1>1, <1>8 DEF LoadInstruments, Reads, TypeOK
  <2>2. table'[r] = {h \in 1 .. next[r] - 1 : head[h].instrument_id # NoId}
    BY <2>1 DEF TypeOK
  <2>3. next[r] <= MaxNum + 1 BY DEF TypeOK
  <2>4. \A h \in 1 .. next[r] - 1 : h \in Heads BY <1>n, <2>3 DEF Heads
  <2>5. table' \in [Readers -> SUBSET Heads] BY <2>1, <2>4 DEF TypeOK
  <2>6. \A h \in table'[r] : h < next_empty BY <2>2, <2>4 DEF WInv, Names
  <2>7. ASSUME r \notin early PROVE promised[r] \subseteq table'[r]
    <3>1. ASSUME NEW h \in promised[r] PROVE h \in table'[r]
      <4>1. h \in Heads /\ h < next_empty /\ h < next[r]
        BY <2>1, <2>7, <3>1 DEF Keeps, Walks, TypeOK
      <4>2. h \in 1 .. next[r] - 1 BY <1>n, <4>1 DEF Heads
      <4>3. head[h].instrument_id # NoId BY <4>1 DEF WInv, Names
      <4> QED BY <2>2, <4>2, <4>3
    <3> QED BY <3>1
  <2>8. r \notin early => LaidOut /\ next[r] <= Free BY <2>1 DEF Walks, Outside
  <2>9. \A q \in Readers : q # r => table'[q] = table[q] BY <2>1 DEF TypeOK
  <2> QED BY <2>1, <2>5, <2>6, <2>7, <2>8, <2>9 DEF TypeOK, Keeps
<1> QED BY <1>3, <1>4, <1>5, <1>6, <1>7, <1>8

\* get_cur_md: the number, then the slot, then the two halves of the copy.
LEMMA CopyStep ==
    ASSUME IInv, NEW r \in Readers, GetNum(r) \/ Resolve(r) \/ ReadLo(r) \/ ReadHi(r)
    PROVE  IInv'
<1> USE DEF IInv, RInv
<1>n. MaxNum \in Nat /\ next_empty \in Nat /\ next_empty <= MaxNum + 1
  BY Lengths DEF TypeOK
<1>u. UNCHANGED <<writerVars, attachVars>>
  BY DEF GetNum, Resolve, ReadLo, ReadHi
<1>w. /\ UNCHANGED <<head, next_empty, wpc, at, instrumentID, next, table, early, promised>>
      /\ Free' = Free /\ (LaidOut' <=> LaidOut)
  BY <1>u DEF writerVars, attachVars, Free, LaidOut
<1>i. WInv'
  BY <1>w DEF WInv, Layout, Names, AtWork, LastTwoWhole, NeverOlder, LaidOut, Free, WriteSlot,
              Entry, EmptyHead
<1>0. PICK to \in {"resolve", "read_lo", "read_hi", "idle"} :
         rpc' = [rpc EXCEPT ![r] = to] /\ rpc[r] \in Copying \cup {"idle"}
  BY DEF GetNum, Resolve, ReadLo, ReadHi, Reads, Copying
<1>1. /\ rpc' \in [Readers -> {"none", "exit", "walk", "off", "load", "idle", "resolve",
                               "read_lo", "read_hi"}]
      /\ rpc'[r] = to /\ \A q \in Readers : q # r => rpc'[q] = rpc[q]
  BY <1>0 DEF TypeOK
\* It is enough to follow the copy.
<1>2. SUFFICES
        /\ mine' \in [Readers -> 0 .. MaxNum] /\ tag' \in [Readers -> Nat]
        /\ ent' \in [Readers -> Nat] /\ got' \in [Readers -> [lo : Nat, hi : Nat]]
        /\ \A q \in Readers : q # r => /\ mine'[q] = mine[q] /\ tag'[q] = tag[q]
                                       /\ ent'[q] = ent[q] /\ got'[q] = got[q]
        /\ mine'[r] # 0 /\ mine'[r] < next_empty /\ tag'[r] <= head[mine'[r]].current_index
        /\ to \in {"read_lo", "read_hi"} =>
               tag'[r] <= ent'[r] /\ ent'[r] <= head[mine'[r]].current_index
        /\ to = "read_hi" =>
               /\ got'[r].lo >= tag'[r]
               /\ head[mine'[r]].current_index <= ent'[r] + 1 => got'[r].lo = ent'[r]
        /\ to = "idle" =>
               /\ got'[r].lo >= tag'[r] /\ got'[r].hi >= tag'[r]
               /\ head[mine'[r]].current_index <= ent'[r] + 1 => got'[r] = Entry(ent'[r])
  <2>1. TypeOK' BY <1>w, <1>1, <1>2 DEF TypeOK
  <2>2. Walks' BY <1>w, <1>0, <1>1 DEF Walks, Outside, Copying
  <2>3. Keeps' BY <1>w, <1>0, <1>1, <1>2 DEF Keeps, Copying
  <2>4. CopyProgress' BY <1>w, <1>1, <1>2 DEF CopyProgress, Copying
  <2>5. AttachFinds'
    BY <1>w, <1>0, <1>1 DEF AttachFinds, Copying, Free
  <2>6. IntactOneBehind' BY <1>w, <1>1, <1>2 DEF IntactOneBehind, Entry
  <2>7. TickNotOlder' BY <1>1, <1>2 DEF TickNotOlder
  <2> QED BY <1>i, <2>1, <2>2, <2>3, <2>4, <2>5, <2>6, <2>7
<1>t. /\ tag[r] \in Nat /\ ent[r] \in Nat /\ mine[r] \in 0 .. MaxNum
      /\ got[r] \in [lo : Nat, hi : Nat] /\ mine[r] < next_empty
  BY DEF TypeOK, Keeps
<1>3. CASE GetNum(r)
  <2>1. PICK h \in table[r] :
           /\ mine' = [mine EXCEPT ![r] = h]
           /\ tag' = [tag EXCEPT ![r] = head[h].current_index]
           /\ to = "resolve" /\ ent' = ent /\ got' = got
    BY <1>1, <1>3 DEF GetNum, Reads, TypeOK
  <2>2. h \in Heads /\ h < next_empty BY DEF TypeOK, Keeps
  <2>3. h \in 1 .. MaxNum /\ head[h].current_index \in Nat
    BY <2>2 DEF TypeOK, WInv, Names, Heads
  <2> QED BY <1>n, <2>1, <2>2, <2>3 DEF TypeOK
<1>4. CASE Resolve(r)
  <2>1. /\ rpc[r] = "resolve" /\ to = "read_lo" /\ UNCHANGED <<mine, tag, got>>
        /\ ent' = [ent EXCEPT ![r] = head[mine[r]].current_index]
    BY <1>1, <1>4 DEF Resolve, Reads, TypeOK
  <2>2. mine[r] # 0 /\ tag[r] <= head[mine[r]].current_index
    BY <2>1 DEF CopyProgress, Copying
  <2>3. mine[r] \in Heads BY <1>t, <2>2 DEF Heads
  <2>4. head[mine[r]].current_index \in Nat BY <1>t, <2>3 DEF TypeOK, WInv, Names
  <2> QED BY <1>t, <2>1, <2>2, <2>4 DEF TypeOK
<1>5. ASSUME mine[r] # 0, ent[r] <= head[mine[r]].current_index, tag[r] <= ent[r]
      PROVE  /\ ReadSlot(r) \in [lo : Nat, hi : Nat]
             /\ ReadSlot(r).lo >= tag[r] /\ ReadSlot(r).hi >= tag[r]
             /\ head[mine[r]].current_index <= ent[r] + 1 => ReadSlot(r) = Entry(ent[r])
  <2>1. mine[r] \in Heads BY <1>t, <1>5 DEF Heads
  <2>2. ent[r] % 3 \in Slots BY <1>t, ThreeSlots
  <2>3. ReadSlot(r) = head[mine[r]].dat[ent[r] % 3] BY DEF ReadSlot, MD_BLOCK_NUM
  <2>4. ReadSlot(r) \in [lo : Nat, hi : Nat] BY <2>1, <2>2, <2>3 DEF TypeOK
  <2>5. ReadSlot(r).lo >= ent[r] /\ ReadSlot(r).hi >= ent[r]
    BY <1>5, <1>t, <2>1, <2>3 DEF WInv, NeverOlder
  <2>6. head[mine[r]].current_index <= ent[r] + 1 => ReadSlot(r) = Entry(ent[r])
    BY <1>5, <1>t, <2>1, <2>3 DEF WInv, LastTwoWhole
  <2> QED BY <1>5, <1>t, <2>4, <2>5, <2>6
<1>6. CASE ReadLo(r)
  <2>1. /\ rpc[r] = "read_lo" /\ to = "read_hi" /\ UNCHANGED <<mine, tag, ent>>
        /\ got' = [got EXCEPT ![r] = [got[r] EXCEPT !.lo = ReadSlot(r).lo]]
    BY <1>1, <1>6 DEF ReadLo, Reads, TypeOK
  <2>2. mine[r] # 0 /\ ent[r] <= head[mine[r]].current_index /\ tag[r] <= ent[r]
        /\ tag[r] <= head[mine[r]].current_index
    BY <2>1 DEF CopyProgress, Copying
  <2>3. [got[r] EXCEPT !.lo = ReadSlot(r).lo] \in [lo : Nat, hi : Nat] BY <1>5, <1>t, <2>2
  <2>4. /\ got' \in [Readers -> [lo : Nat, hi : Nat]] /\ got'[r].lo = ReadSlot(r).lo
        /\ \A q \in Readers : q # r => got'[q] = got[q]
    BY <1>t, <2>1, <2>3 DEF TypeOK
  <2> QED BY <1>5, <1>t, <2>1, <2>2, <2>4 DEF TypeOK, Entry
<1>7. CASE ReadHi(r)
  <2>1. /\ rpc[r] = "read_hi" /\ to = "idle" /\ UNCHANGED <<mine, tag, ent>>
        /\ got' = [got EXCEPT ![r] = [got[r] EXCEPT !.hi = ReadSlot(r).hi]]
    BY <1>1, <1>7 DEF ReadHi, Reads, TypeOK
  <2>2. /\ mine[r] # 0 /\ ent[r] <= head[mine[r]].current_index /\ tag[r] <= ent[r]
        /\ tag[r] <= head[mine[r]].current_index /\ got[r].lo >= tag[r]
        /\ head[mine[r]].current_index <= ent[r] + 1 => got[r].lo = ent[r]
    BY <2>1 DEF CopyProgress, Copying
  <2>3. [got[r] EXCEPT !.hi = ReadSlot(r).hi] \in [lo : Nat, hi : Nat] BY <1>5, <1>t, <2>2
  <2>4. /\ got' \in [Readers -> [lo : Nat, hi : Nat]]
        /\ got'[r] = [lo |-> got[r].lo, hi |-> ReadSlot(r).hi]
        /\ \A q \in Readers : q # r => got'[q] = got[q]
    BY <1>t, <2>1, <2>3 DEF TypeOK
  <2> QED BY <1>5, <1>t, <2>1, <2>2, <2>4 DEF TypeOK, Entry
<1> QED BY <1>3, <1>4, <1>6, <1>7

-----------------------------------------------------------------------------
(* The theorems.                                                           *)

\* The strengthening that follows the layout, the update and each reader holds always.
THEOREM Invariance == Spec => []IInv
<1>1. ASSUME IInv, [Next]_vars PROVE IInv'
  <2>1. CASE UNCHANGED vars
    <3>1. UNCHANGED <<head, next_empty, wpc, at, instrumentID, rpc, next, table, early, promised,
                      mine, tag, ent, got>>
      BY <2>1 DEF vars, writerVars, attachVars, readVars
    <3>2. WInv'
      BY <1>1, <3>1 DEF IInv, WInv, Layout, Names, AtWork, LastTwoWhole, NeverOlder, LaidOut,
                        Free, WriteSlot, Entry, EmptyHead
    <3>3. RInv'
      BY <1>1, <3>1 DEF IInv, RInv, Walks, Keeps, CopyProgress, AttachFinds, IntactOneBehind,
                        TickNotOlder, LaidOut, Free, Entry
    <3>4. TypeOK' BY <1>1, <3>1 DEF IInv, TypeOK
    <3> QED BY <3>2, <3>3, <3>4 DEF IInv
  <2>2. CASE Writer BY <1>1, <2>2, WriterStep, ReadersKept
  <2>3. ASSUME NEW r \in Readers, Reader(r) PROVE IInv'
    BY <1>1, <2>3, AttachStep, CopyStep DEF Reader
  <2> QED BY <1>1, <2>1, <2>2, <2>3 DEF Next
<1> QED BY InitIInv, <1>1, PTL DEF Spec

\* The variables keep their types; among them, the writer stays within the heads of the region
\* and a reader walks no further than one past the last one.
THEOREM TypeCorrect == Spec => []TypeOK
<1>1. IInv => TypeOK BY DEF IInv
<1> QED BY Invariance, <1>1, PTL

\* For any lists of instruments a reader that maps the region once it is laid out finds what is
\* there, and runs past the last head only if on_rtn_data took it (RT_ShmMdTick.h:137-162, 284-294).
THEOREM AttachFindsAll == Spec => []AttachFinds
<1>1. IInv => AttachFinds BY DEF IInv, RInv
<1> QED BY Invariance, <1>1, PTL

\* A copy is the entry it was resolved to if the index is at most one past it afterwards
\* (RT_ShmMdTick.h:230-235, 302-310).
THEOREM CopyIntact == Spec => []IntactOneBehind
<1>1. IInv => IntactOneBehind BY DEF IInv, RInv
<1> QED BY Invariance, <1>1, PTL

\* No copy, torn or not, is of an entry older than its number.
THEOREM CopyNotOlder == Spec => []TickNotOlder
<1>1. IInv => TickNotOlder BY DEF IInv, RInv
<1> QED BY Invariance, <1>1, PTL
===============================================================================
