------------------------------- MODULE MdRing -------------------------------
(***************************************************************************)
(* One instrument's ring of market data in shared memory: md_head_plus of  *)
(* RT_ShmMdPlus.h, written by shm_md_plus::on_rtn_data and read, with no   *)
(* lock, by                                                                *)
(*   - Pollers: K4BaseStrategy threads (sub_depth10, then poll_depth10 in  *)
(*     a loop, which compares current_index with a mark and calls          *)
(*     md_head_plus::get_cur);                                             *)
(*   - Getters: callers of shm_md_plus::get_cur_md(..., md_update_num).    *)
(*                                                                         *)
(* An entry is written and read in two steps (its low and its high words)  *)
(* so that a copy which overlaps a write is seen as torn.  An entry holds  *)
(* the number of the update that it is: the k-th update of the instrument  *)
(* is entry k, and 0 is the zeroed memory of init_instrument_shm.  Memory  *)
(* is sequentially consistent: x86 stores are not reordered and on_rtn_    *)
(* data puts a full fence between the entry and its index.                 *)
(***************************************************************************)
EXTENDS Integers, FiniteSets

CONSTANTS
    Pollers,      \* strategy threads
    Getters,      \* threads that call get_cur_md
    BlockNum,     \* MD_BLOCK_NUM / buffer_len: entries per instrument
    MaxUpdates    \* bound on the updates published in a behaviour

ASSUME MdRingAssumption ==
    /\ BlockNum \in Nat \ {0}
    /\ MaxUpdates \in Nat
    /\ Pollers \cap Getters = {}

Readers == Pollers \cup Getters
Slots == 0 .. BlockNum - 1

VARIABLES
    current_index,   \* entries published for the instrument
    update_num,      \* md_shm_head_plus::update_num
    dat,             \* slot -> [lo, hi], the two halves of the entry in it
    wpc,             \* the step on_rtn_data is at
    rpc,             \* reader -> the step it is at
    mark,            \* poller -> m_depth10[hdr], the index it polled last
    tag,             \* reader -> the update number its current read goes with
    ent,             \* reader -> the entry its pointer was resolved to
    got,             \* reader -> its copy of the entry
    delivered,       \* reader -> newest entry read to the end (history variable)
    m_running        \* K4BaseStrategy::m_running

writerVars == <<current_index, update_num, dat, wpc>>
readerVars == <<rpc, mark, tag, ent, got, delivered>>
vars == <<writerVars, readerVars, m_running>>

Entry(n) == [lo |-> n, hi |-> n]

-----------------------------------------------------------------------------
(* The slots used by the writer and by the readers.                        *)

\* A writer that starts the slots of a new entry one too far.
WriteSlotAhead == (current_index + 1) % BlockNum
\* dat[current_index % MD_BLOCK_NUM]: where the next entry goes.
WriteSlot == current_index % BlockNum

\* dat[(current_index - 1) % MD_BLOCK_NUM], 0 when that offset is negative.
ReadSlot(n) == IF n >= 1 THEN (n - 1) % BlockNum ELSE 0

-----------------------------------------------------------------------------
Init ==
    /\ current_index = 0
    /\ update_num = 0
    /\ dat = [s \in Slots |-> Entry(0)]
    /\ wpc = "idle"
    /\ rpc = [r \in Readers |-> "unsubscribed"]
    /\ mark = [r \in Readers |-> 0]
    /\ tag = [r \in Readers |-> 0]
    /\ ent = [r \in Readers |-> 0]
    /\ got = [r \in Readers |-> Entry(0)]
    /\ delivered = [r \in Readers |-> -1]
    /\ m_running = TRUE

-----------------------------------------------------------------------------
(* on_rtn_data, for an instrument that is in the map and an update that    *)
(* compare accepts (one that it refuses changes nothing).  One call runs   *)
(* at a time: the module has one writer, as on_rtn_data locks nothing.      *)

CopyLo ==
    /\ wpc = "idle"
    /\ current_index < MaxUpdates
    /\ dat' = [dat EXCEPT ![WriteSlot].lo = current_index + 1]
    /\ wpc' = "copying"
    /\ UNCHANGED <<current_index, update_num, readerVars, m_running>>

CopyHi ==
    /\ wpc = "copying"
    /\ dat' = [dat EXCEPT ![WriteSlot].hi = current_index + 1]
    /\ wpc' = "copied"
    /\ UNCHANGED <<current_index, update_num, readerVars, m_running>>

\* A writer whose index may overtake the second half of the entry.
PublishEarly ==
    /\ wpc \in {"copying", "copied"}
    /\ current_index' = current_index + 1
    /\ wpc' = "published"
    /\ UNCHANGED <<update_num, dat, readerVars, m_running>>

\* mb(); ++index->current_index
Publish ==
    /\ wpc = "copied"
    /\ current_index' = current_index + 1
    /\ wpc' = "published"
    /\ UNCHANGED <<update_num, dat, readerVars, m_running>>

\* ++m_shm_head->update_num
CountUpdate ==
    /\ wpc = "published"
    /\ update_num' = update_num + 1
    /\ wpc' = "idle"
    /\ UNCHANGED <<current_index, dat, readerVars, m_running>>

OnRtnData == CopyLo \/ CopyHi \/ Publish \/ CountUpdate

-----------------------------------------------------------------------------
(* The readers.                                                            *)

\* sub_depth10: the mark starts at the head of the feed and nothing is read.
\* A Getter obtains its pointer the same way and has no use for the mark.
SubMd(r) ==
    /\ rpc[r] = "unsubscribed"
    /\ rpc' = [rpc EXCEPT ![r] = "idle"]
    /\ mark' = [mark EXCEPT ![r] = current_index]
    /\ delivered' = [delivered EXCEPT ![r] = current_index]
    /\ UNCHANGED <<writerVars, tag, ent, got, m_running>>

\* if (it.first->current_index != it.second)
PollCheck(r) ==
    /\ r \in Pollers
    /\ rpc[r] = "idle"
    /\ m_running
    /\ current_index # mark[r]
    /\ rpc' = [rpc EXCEPT ![r] = "store"]
    /\ UNCHANGED <<writerVars, mark, tag, ent, got, delivered, m_running>>

\* it.second = it.first->current_index, a second read of the volatile
PollStore(r) ==
    /\ rpc[r] = "store"
    /\ mark' = [mark EXCEPT ![r] = current_index]
    /\ tag' = [tag EXCEPT ![r] = current_index]
    /\ rpc' = [rpc EXCEPT ![r] = "null_check"]
    /\ UNCHANGED <<writerVars, ent, got, delivered, m_running>>

\* get_cur: if (current_index >= 1), nullptr otherwise
GetCurCheck(r) ==
    /\ rpc[r] = "null_check"
    /\ rpc' = [rpc EXCEPT ![r] = IF current_index >= 1 THEN "resolve" ELSE "idle"]
    /\ UNCHANGED <<writerVars, mark, tag, ent, got, delivered, m_running>>

\* get_cur_md(head, md_update_num): the caller's number is the first read ...
GetNum(r) ==
    /\ r \in Getters
    /\ rpc[r] = "idle"
    /\ tag' = [tag EXCEPT ![r] = current_index]
    /\ rpc' = [rpc EXCEPT ![r] = "resolve"]
    /\ UNCHANGED <<writerVars, mark, ent, got, delivered, m_running>>

\* A reader that takes the entry before the newest one.
ResolveOlder(r) ==
    /\ rpc[r] = "resolve"
    /\ ent' = [ent EXCEPT ![r] = IF current_index > 0 THEN current_index - 1 ELSE 0]
    /\ rpc' = [rpc EXCEPT ![r] = "read_lo"]
    /\ UNCHANGED <<writerVars, mark, tag, got, delivered, m_running>>

\* ... and, like get_cur, it reads current_index again for the slot.
Resolve(r) ==
    /\ rpc[r] = "resolve"
    /\ ent' = [ent EXCEPT ![r] = current_index]
    /\ rpc' = [rpc EXCEPT ![r] = "read_lo"]
    /\ UNCHANGED <<writerVars, mark, tag, got, delivered, m_running>>

\* The caller copies the entry its pointer stands for, half by half.
ReadLo(r) ==
    /\ rpc[r] = "read_lo"
    /\ got' = [got EXCEPT ![r].lo = dat[ReadSlot(ent[r])].lo]
    /\ rpc' = [rpc EXCEPT ![r] = "read_hi"]
    /\ UNCHANGED <<writerVars, mark, tag, ent, delivered, m_running>>

\* A poll that stores its mark when the entry has been read, not before.
ReadHiThenMark(r) ==
    /\ rpc[r] = "read_hi"
    /\ got' = [got EXCEPT ![r].hi = dat[ReadSlot(ent[r])].hi]
    /\ delivered' = [delivered EXCEPT ![r] = ent[r]]
    /\ mark' = [mark EXCEPT ![r] = current_index]
    /\ rpc' = [rpc EXCEPT ![r] = "idle"]
    /\ UNCHANGED <<writerVars, tag, ent, m_running>>

ReadHi(r) ==
    /\ rpc[r] = "read_hi"
    /\ got' = [got EXCEPT ![r].hi = dat[ReadSlot(ent[r])].hi]
    /\ delivered' = [delivered EXCEPT ![r] = ent[r]]
    /\ rpc' = [rpc EXCEPT ![r] = "idle"]
    /\ UNCHANGED <<writerVars, mark, tag, ent, m_running>>

Read(r) ==
    \/ PollCheck(r) \/ PollStore(r) \/ GetCurCheck(r) \/ GetNum(r)
    \/ Resolve(r) \/ ReadLo(r) \/ ReadHi(r)

\* The owner of the strategy clears m_running; a poll under way is finished.
StopWork ==
    /\ m_running
    /\ m_running' = FALSE
    /\ UNCHANGED <<writerVars, readerVars>>

Next ==
    \/ OnRtnData
    \/ \E r \in Readers : SubMd(r) \/ Read(r)
    \/ StopWork

\* work() is a busy loop without a wait: a poller's thread takes its next step.
\* Nothing is assumed of the feed, nor of the threads that call get_cur_md.
Fairness == \A r \in Pollers : WF_vars(Read(r))

SafeSpec == Init /\ [][Next]_vars
Spec == SafeSpec /\ Fairness

-----------------------------------------------------------------------------
(* Properties.                                                             *)

TypeOK ==
    /\ current_index \in Nat
    /\ update_num \in Nat
    /\ dat \in [Slots -> [lo : Nat, hi : Nat]]
    /\ wpc \in {"idle", "copying", "copied", "published"}
    /\ rpc \in [Readers -> {"unsubscribed", "idle", "store", "null_check",
                            "resolve", "read_lo", "read_hi"}]
    /\ mark \in [Readers -> Nat]
    /\ tag \in [Readers -> Nat]
    /\ ent \in [Readers -> Nat]
    /\ got \in [Readers -> [lo : Nat, hi : Nat]]
    /\ delivered \in [Readers -> Nat \cup {-1}]
    /\ m_running \in BOOLEAN

\* on_rtn_data has stored (or is storing) into the slot of the next entry.
Overwriting == wpc \in {"copying", "copied"}

\* The last BlockNum entries that were published are in the ring, whole, each in
\* the slot where the readers look for it; the oldest of them is given up only
\* while its successor is being copied over it.
RingWindow ==
    \A n \in 1 .. current_index :
        /\ n > current_index - BlockNum
        /\ Overwriting => n # current_index + 1 - BlockNum
        => dat[ReadSlot(n)] = Entry(n)

\* The feed is lock free and readers do not check for being lapped.  What makes
\* a copy trustworthy is this: if, when the copy is complete, the index is still
\* less than BlockNum - 1 past the entry the pointer was taken for, the copy is
\* exactly that entry, however the writer's steps fell between the reader's.
IntactUntilLapped ==
    \A r \in Readers :
        rpc[r] = "idle" /\ ent[r] >= 1 /\ current_index < ent[r] + BlockNum - 1
            => got[r] = Entry(ent[r])

\* A finished read never shows data older than the update number that goes with
\* it (the mark that poll_depth10 stored, the md_update_num get_cur_md returned),
\* although that number and the slot come from different reads of the index, and
\* even when the copy is torn.
NeverOlderThanTag ==
    \A r \in Readers :
        rpc[r] = "idle" => /\ got[r].lo >= tag[r]
                           /\ got[r].hi >= tag[r]

\* When a poller is about to compare again, whatever its mark makes it skip it has
\* been given already: storing the mark before reading the entry loses no update.
MarkCovered ==
    \A r \in Pollers : rpc[r] = "idle" => mark[r] <= delivered[r]

\* A reader that asks again is never sent back to an earlier entry.
NeverBackwards ==
    [][\A r \in Readers : delivered'[r] >= delivered[r]]_vars

\* The inductive invariant.  RingWindow and IntactUntilLapped are not inductive:
\* they need to know what a half-written slot holds (WriterSlot), that no slot
\* ever goes back to an older entry (NeverOlder), and how far each reader is.
WriterSlot ==
    /\ wpc = "copying" => dat[WriteSlot].lo = current_index + 1
    /\ wpc = "copied" => dat[WriteSlot] = Entry(current_index + 1)

NeverOlder ==
    \A n \in 1 .. current_index :
        dat[ReadSlot(n)].lo >= n /\ dat[ReadSlot(n)].hi >= n

Reading(r) == rpc[r] \in {"read_lo", "read_hi"}

ReaderProgress ==
    \A r \in Readers :
        /\ ent[r] <= current_index
        /\ tag[r] <= current_index
        /\ delivered[r] <= current_index
        /\ rpc[r] = "unsubscribed"
              => tag[r] = 0 /\ ent[r] = 0 /\ delivered[r] = -1
        /\ rpc[r] # "unsubscribed" => delivered[r] >= 0
        /\ Reading(r) => tag[r] <= ent[r] /\ delivered[r] <= ent[r]

MarkBound ==
    \A r \in Pollers :
        /\ mark[r] <= current_index
        /\ rpc[r] \in {"null_check", "resolve", "read_lo", "read_hi"}
              => mark[r] = tag[r]

HalfRead ==
    \A r \in Readers : rpc[r] = "read_hi" =>
        /\ got[r].lo >= ent[r]
        /\ ent[r] >= 1 /\ current_index < ent[r] + BlockNum - 1
              => got[r].lo = ent[r]

IInv ==
    /\ TypeOK /\ RingWindow /\ WriterSlot /\ NeverOlder
    /\ ReaderProgress /\ MarkBound /\ HalfRead
    /\ IntactUntilLapped /\ NeverOlderThanTag /\ MarkCovered

\* The pollers of the ring are the consumers of the abstract feed.
Feed == INSTANCE LatestFeed WITH
    Consumers <- Pollers,
    published <- current_index,
    delivered <- [r \in Pollers |-> delivered[r]],
    running   <- m_running
FeedSpec == Feed!Spec
=============================================================================
