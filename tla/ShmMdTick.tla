------------------------------ MODULE ShmMdTick -------------------------------
(***************************************************************************)
(* shm_md_tick (RT_ShmMdTick.h): the market-data region with three slots   *)
(* per instrument.  One writer creates it, lays out its first instruments, *)
(* marks the heads that are left with the index -1, and from then on       *)
(* publishes, taking a new head for an instrument it does not know.        *)
(* Readers map the region at any moment, walk its heads until a negative   *)
(* index, look up their instrument and copy the newest entry, with no lock *)
(* and no sign from the writer.                                            *)
(*                                                                         *)
(* As in MdRing an entry is copied in two halves, update k of an           *)
(* instrument is entry k and 0 is zeroed memory.  Heads are numbered; what *)
(* lies behind the last one is not mapped (in the code, up to the end of a *)
(* page, it is zero, and the walk goes on).                                *)
(***************************************************************************)
EXTENDS Integers, Sequences, FiniteSets

CONSTANTS
    Instruments,    \* the instruments of set_shm_addr, in order
    Added,          \* those that on_rtn_data may be called for besides
    MaxNum,         \* m_max_md_num: heads in the region
    Readers,
    MaxUpdates      \* bound: updates of one instrument

\* The name that a head of zeroes has.
NoId == ""

ASSUME TickAssumption ==
    /\ Instruments \in Seq(STRING)
    /\ Added \subseteq STRING \ {NoId}
    /\ \A i \in DOMAIN Instruments : Instruments[i] \notin Added \cup {NoId}
    /\ MaxNum \in Nat
    /\ Len(Instruments) <= MaxNum
    /\ MaxUpdates \in Nat

MD_BLOCK_NUM == 3
Slots == 0 .. MD_BLOCK_NUM - 1
Heads == 1 .. MaxNum

VARIABLES
    head,       \* head -> its current_index, instrument_id and entries
    next_empty, \* m_next_empty_md
    wpc,        \* the step the writer is at
    at,         \* the head it is at work on
    instrumentID, \* the instrument of the on_rtn_data that takes a new head
    rpc,        \* reader -> the step it is at
    next,       \* reader -> its m_next_empty_md
    table,      \* reader -> the heads in its m_instruments_address
    early,      \* readers that came before the layout was done (history)
    promised,   \* reader -> heads that were complete when it came (history)
    mine,       \* reader -> the head it reads
    tag,        \* reader -> the md_update_num it was given
    ent,        \* reader -> the entry its pointer was resolved to
    got         \* reader -> its copy

writerVars == <<head, next_empty, wpc, at, instrumentID>>
attachVars == <<next, table, early, promised>>
readVars == <<mine, tag, ent, got>>
vars == <<writerVars, rpc, attachVars, readVars>>

Entry(n) == [lo |-> n, hi |-> n]
EmptyHead == [current_index |-> 0, instrument_id |-> NoId, dat |-> [s \in Slots |-> Entry(0)]]

Init ==
    /\ head = [h \in Heads |-> EmptyHead]
    /\ next_empty = 1
    /\ wpc = "create"
    /\ at = 1
    /\ instrumentID = NoId
    /\ rpc = [r \in Readers |-> "none"]
    /\ next = [r \in Readers |-> 1]
    /\ table = [r \in Readers |-> {}]
    /\ early = {}
    /\ promised = [r \in Readers |-> {}]
    /\ mine = [r \in Readers |-> 0]
    /\ tag = [r \in Readers |-> 0]
    /\ ent = [r \in Readers |-> 0]
    /\ got = [r \in Readers |-> Entry(0)]

Writes(from, to) == wpc = from /\ wpc' = to
Reads(r, from, to) == rpc[r] = from /\ rpc' = [rpc EXCEPT ![r] = to]
readersSame == <<rpc, attachVars, readVars>>

-----------------------------------------------------------------------------
(* The writer: create_shm_ptr and set_shm_addr.                            *)

\* The file is there from now on, of its full size and zero.
CreateShmPtr ==
    /\ Writes("create", "layout")
    /\ UNCHANGED <<head, next_empty, at, instrumentID, readersSame>>

\* init_instrument_shm for the next of the instruments.
InitInstrument ==
    /\ Writes("layout", "layout")
    /\ next_empty <= Len(Instruments)
    /\ head' = [head EXCEPT ![next_empty].instrument_id = Instruments[next_empty]]
    /\ next_empty' = next_empty + 1
    /\ at' = next_empty + 1
    /\ UNCHANGED <<instrumentID, readersSame>>

\* left = m_max_md_num - instruments.size() heads get the index -1.
MarkTail ==
    /\ Writes("layout", "layout")
    /\ next_empty > Len(Instruments)
    /\ at <= MaxNum
    /\ head' = [head EXCEPT ![at].current_index = -1]
    /\ at' = at + 1
    /\ UNCHANGED <<next_empty, instrumentID, readersSame>>

LayoutDone ==
    /\ Writes("layout", "idle")
    /\ next_empty > Len(Instruments)
    /\ at > MaxNum
    /\ UNCHANGED <<head, next_empty, at, instrumentID, readersSame>>

-----------------------------------------------------------------------------
(* on_rtn_data, for an update that compare, if any, accepts.               *)

Known(id) == {h \in 1 .. next_empty - 1 : head[h].instrument_id = id}

\* An instrument in the map.
Update(id) ==
    /\ Writes("idle", "copy_lo")
    /\ \E h \in Known(id) :
        /\ head[h].current_index < MaxUpdates
        /\ at' = h
    /\ UNCHANGED <<head, next_empty, instrumentID, readersSame>>

\* A new one, while there is a head left (m_md_num < m_max_md_num): memset ...
Add(id) ==
    /\ Known(id) = {}
    /\ next_empty <= MaxNum
    /\ Writes("idle", "name")
    /\ instrumentID' = id
    /\ at' = next_empty
    /\ head' = [head EXCEPT ![next_empty] = EmptyHead]
    /\ UNCHANGED <<next_empty, readersSame>>

\* ... strncpy and md_num, and the head is taken.
Name ==
    /\ Writes("name", "copy_lo")
    /\ head' = [head EXCEPT ![at].instrument_id = instrumentID]
    /\ next_empty' = next_empty + 1
    /\ UNCHANGED <<at, instrumentID, readersSame>>

\* A writer that writes over the newest entry.
WriteSlotNewest == head[at].current_index % MD_BLOCK_NUM

WriteSlot == (head[at].current_index + 1) % MD_BLOCK_NUM

CopyLo ==
    /\ Writes("copy_lo", "copy_hi")
    /\ head' = [head EXCEPT ![at].dat[WriteSlot].lo = head[at].current_index + 1]
    /\ UNCHANGED <<next_empty, at, instrumentID, readersSame>>

CopyHi ==
    /\ Writes("copy_hi", "publish")
    /\ head' = [head EXCEPT ![at].dat[WriteSlot].hi = head[at].current_index + 1]
    /\ UNCHANGED <<next_empty, at, instrumentID, readersSame>>

\* mb(); ++index->current_index; ++m_shm_head->update_num, which nobody reads.
Publish ==
    /\ Writes("publish", "idle")
    /\ head' = [head EXCEPT ![at].current_index = @ + 1]
    /\ UNCHANGED <<next_empty, at, instrumentID, readersSame>>

Writer ==
    \/ CreateShmPtr \/ InitInstrument \/ MarkTail \/ LayoutDone
    \/ \E i \in DOMAIN Instruments : Update(Instruments[i])
    \/ \E id \in Added : Update(id) \/ Add(id)
    \/ Name \/ CopyLo \/ CopyHi \/ Publish

-----------------------------------------------------------------------------
(* The readers: get_shm, with load_instruments_addresses.                  *)

LaidOut == wpc \notin {"create", "layout"}

\* Without the file the process exits.
GetShmExit(r) ==
    /\ wpc = "create"
    /\ Reads(r, "none", "exit")
    /\ UNCHANGED <<writerVars, attachVars, readVars>>

GetShm(r) ==
    /\ wpc # "create"
    /\ Reads(r, "none", "walk")
    /\ early' = IF LaidOut THEN early ELSE early \cup {r}
    /\ promised' = [promised EXCEPT ![r] = IF LaidOut THEN 1 .. next_empty - 1 ELSE {}]
    /\ UNCHANGED <<writerVars, next, table, readVars>>

\* A walk that stops at an instrument without an update.
TakenIfUpdated(h) == head[h].current_index > 0

Taken(h) == head[h].current_index >= 0

\* while (m_next_empty_md->current_index >= 0)
WalkOn(r) ==
    /\ next[r] <= MaxNum
    /\ Taken(next[r])
    /\ Reads(r, "walk", "walk")
    /\ next' = [next EXCEPT ![r] = @ + 1]
    /\ UNCHANGED <<writerVars, table, early, promised, readVars>>

WalkEnds(r) ==
    /\ next[r] <= MaxNum
    /\ ~Taken(next[r])
    /\ Reads(r, "walk", "load")
    /\ UNCHANGED <<writerVars, attachVars, readVars>>

\* No head is left to stop at.
WalkOff(r) ==
    /\ next[r] > MaxNum
    /\ Reads(r, "walk", "off")
    /\ UNCHANGED <<writerVars, attachVars, readVars>>

\* load_instruments_addresses: the heads with a name, by their names.  A head that is still
\* unnamed goes into the table as the instrument NoId.
LoadInstruments(r) ==
    /\ Reads(r, "load", "idle")
    /\ table' = [table EXCEPT ![r] = {h \in 1 .. next[r] - 1 : head[h].instrument_id # NoId}]
    /\ UNCHANGED <<writerVars, next, early, promised, readVars>>

-----------------------------------------------------------------------------
(* get_cur_md(instrument, md_update_num), and the caller's copy.           *)

GetNum(r) ==
    /\ Reads(r, "idle", "resolve")
    /\ \E h \in table[r] :
        /\ mine' = [mine EXCEPT ![r] = h]
        /\ tag' = [tag EXCEPT ![r] = head[h].current_index]
    /\ UNCHANGED <<writerVars, attachVars, ent, got>>

\* A reader that takes the slot after the newest entry.
ResolveNext(r) ==
    /\ Reads(r, "resolve", "read_lo")
    /\ ent' = [ent EXCEPT ![r] = head[mine[r]].current_index + 1]
    /\ UNCHANGED <<writerVars, attachVars, mine, tag, got>>

\* A second read of current_index.
Resolve(r) ==
    /\ Reads(r, "resolve", "read_lo")
    /\ ent' = [ent EXCEPT ![r] = head[mine[r]].current_index]
    /\ UNCHANGED <<writerVars, attachVars, mine, tag, got>>

ReadSlot(r) == head[mine[r]].dat[ent[r] % MD_BLOCK_NUM]

ReadLo(r) ==
    /\ Reads(r, "read_lo", "read_hi")
    /\ got' = [got EXCEPT ![r].lo = ReadSlot(r).lo]
    /\ UNCHANGED <<writerVars, attachVars, mine, tag, ent>>

ReadHi(r) ==
    /\ Reads(r, "read_hi", "idle")
    /\ got' = [got EXCEPT ![r].hi = ReadSlot(r).hi]
    /\ UNCHANGED <<writerVars, attachVars, mine, tag, ent>>

Reader(r) ==
    \/ GetShmExit(r) \/ GetShm(r) \/ WalkOn(r) \/ WalkEnds(r) \/ WalkOff(r)
    \/ LoadInstruments(r)
    \/ GetNum(r) \/ Resolve(r) \/ ReadLo(r) \/ ReadHi(r)

Next == Writer \/ \E r \in Readers : Reader(r)

Spec == Init /\ [][Next]_vars

-----------------------------------------------------------------------------
(* Properties.                                                             *)

Ids == {NoId} \cup Added \cup {Instruments[i] : i \in DOMAIN Instruments}

TypeOK ==
    /\ head \in [Heads -> [current_index : Nat \cup {-1}, instrument_id : Ids,
                           dat : [Slots -> [lo : Nat, hi : Nat]]]]
    /\ next_empty \in 1 .. MaxNum + 1
    /\ at \in 1 .. MaxNum + 1
    /\ instrumentID \in Ids
    /\ wpc \in {"create", "layout", "idle", "name", "copy_lo", "copy_hi", "publish"}
    /\ rpc \in [Readers -> {"none", "exit", "walk", "off", "load", "idle", "resolve",
                            "read_lo", "read_hi"}]
    /\ next \in [Readers -> 1 .. MaxNum + 1]
    /\ table \in [Readers -> SUBSET Heads]
    /\ early \in SUBSET Readers
    /\ promised \in [Readers -> SUBSET Heads]
    /\ mine \in [Readers -> 0 .. MaxNum]
    /\ tag \in [Readers -> Nat]
    /\ ent \in [Readers -> Nat]
    /\ got \in [Readers -> [lo : Nat, hi : Nat]]

\* A reader that maps the region once it is laid out finds every instrument that had its head
\* by then, and its walk ends at a free head unless on_rtn_data took the last one,
\* which it does without keeping one back (get_shm 137-162, on_rtn_data 284-294, init_shm 101-107).
AttachFinds ==
    \A r \in Readers \ early :
        /\ rpc[r] \notin {"none", "exit", "walk", "off", "load"} => promised[r] \subseteq table[r]
        /\ rpc[r] = "off" => next_empty + (IF wpc = "name" THEN 1 ELSE 0) > MaxNum

\* Three slots are enough to copy an entry while the next one is published and even while
\* that next one's successor is not begun: if the index is at most one past the
\* entry when the copy is complete, the copy is that entry, whatever the
\* writer did meanwhile (on_rtn_data 302-310, get_cur_md 230-235).
IntactOneBehind ==
    \A r \in Readers :
        rpc[r] = "idle" /\ mine[r] # 0 /\ head[mine[r]].current_index <= ent[r] + 1
            => got[r] = Entry(ent[r])

\* A copy, torn or not, is of no older entry than the md_update_num that goes with it, although
\* the number and the slot come from two reads of the index (230-235).
TickNotOlder ==
    \A r \in Readers :
        rpc[r] = "idle" => got[r].lo >= tag[r] /\ got[r].hi >= tag[r]
===============================================================================
