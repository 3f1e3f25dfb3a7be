------------------------------- MODULE ShmQueue -------------------------------
(***************************************************************************)
(* shared_memory_queue (RT_ShmQueue.h): one producer, consumers that       *)
(* compete for the items, and a push that drops its item when the queue    *)
(* is full.  Every process constructs the queue: the one that creates the  *)
(* file initializes it, the others wait for its magic number.              *)
(*                                                                         *)
(* A consumer takes a number by compare-and-swap and copies the item after *)
(* that; the copy is in two halves, as is that of the producer.  An item   *)
(* is the number it is stored under.  Any process may die at any step and  *)
(* start again; the file stays.                                            *)
(***************************************************************************)
EXTENDS Integers, FiniteSets

CONSTANTS
    Producer,
    Consumers,
    TryPoppers,    \* the consumers that may call try_pop
    Size,          \* _size, the next power of two
    Garbage,       \* what the uninitialized _head may hold
    MaxItems,      \* bound on the items pushed
    MaxCrashes     \* bound on the deaths of processes

ASSUME ShmQueueAssumption ==
    /\ Producer \notin Consumers /\ TryPoppers \subseteq Consumers
    /\ Size \in Nat \ {0}
    /\ Garbage \subseteq Int /\ Garbage # {}
    /\ MaxItems \in Nat /\ MaxCrashes \in Nat

Processes == {Producer} \cup Consumers

VARIABLES
    file,        \* the shared memory: "none", "empty" or "sized"
    magic,       \* magic_number is written
    head,
    tail,
    items,       \* slot -> [lo, hi]
    step,        \* process -> the step it is at
    cur_head,    \* consumer -> the number it looks at, or took
    cur_tail,    \* the producer's copy of tail
    _head,       \* consumer of those -> its private _head
    got,         \* consumer -> its copy of the item
    popped,      \* consumer -> the numbers it took from head (history)
    early,       \* a call began before the creator had finished (history)
    crashes      \* deaths so far

fileVars == <<file, magic, head, tail, items>>
consumerVars == <<cur_head, _head, got, popped>>
vars == <<fileVars, step, consumerVars, cur_tail, early, crashes>>

Item(n) == [lo |-> n, hi |-> n]
Slot(n) == n % Size

Init ==
    /\ file = "none"
    /\ magic = FALSE
    /\ head = 0
    /\ tail = 0
    /\ items = [k \in 0 .. Size - 1 |-> Item(-1)]
    /\ step = [x \in Processes |-> "start"]
    /\ cur_head = [c \in Consumers |-> 0]
    /\ cur_tail = 0
    /\ _head \in [TryPoppers -> Garbage]
    /\ got = [c \in Consumers |-> Item(-1)]
    /\ popped = [c \in Consumers |-> {}]
    /\ early = FALSE
    /\ crashes = 0

Goes(x, from, to) == step[x] = from /\ step' = [step EXCEPT ![x] = to]

-----------------------------------------------------------------------------
(* The constructor.                                                        *)

\* shm_open(O_CREAT | O_EXCL), or shm_open of the file that is there
Open(x) ==
    /\ Goes(x, "start", IF file = "none" THEN "truncate" ELSE "join")
    /\ file' = IF file = "none" THEN "empty" ELSE file
    /\ UNCHANGED <<magic, head, tail, items, consumerVars, cur_tail, early, crashes>>

\* ftruncate, mmap
Truncate(x) ==
    /\ Goes(x, "truncate", "magic")
    /\ file' = "sized"
    /\ UNCHANGED <<magic, head, tail, items, consumerVars, cur_tail, early, crashes>>

\* A creator that leaves the magic number for later and forgets it.
MagicForgotten == UNCHANGED magic
WriteMagic == magic' = TRUE

\* magic_number, then queue_size, which nobody reads
SetMagic(x) ==
    /\ Goes(x, "magic", "tail")
    /\ WriteMagic
    /\ UNCHANGED <<file, head, tail, items, consumerVars, cur_tail, early, crashes>>

SetTail(x) ==
    /\ Goes(x, "tail", "head")
    /\ tail' = 0
    /\ UNCHANGED <<file, magic, head, items, consumerVars, cur_tail, early, crashes>>

SetHead(x) ==
    /\ Goes(x, "head", "idle")
    /\ head' = 0
    /\ UNCHANGED <<file, magic, tail, items, consumerVars, cur_tail, early, crashes>>

\* while (magic_number != MAGIC_NUMBER) usleep: a fault in a file of size 0
Join(x) ==
    /\ \/ file = "empty" /\ Goes(x, "join", "dead")
       \/ file = "sized" /\ magic /\ Goes(x, "join", "idle")
    /\ UNCHANGED <<fileVars, consumerVars, cur_tail, early, crashes>>

Construct(x) ==
    Open(x) \/ Truncate(x) \/ SetMagic(x) \/ SetTail(x) \/ SetHead(x) \/ Join(x)

\* The creator has written the magic number and will still reset the indices.
Initializing == \E x \in Processes : step[x] \in {"tail", "head"}
BeginCall == early' = (early \/ Initializing)

-----------------------------------------------------------------------------
(* push                                                                    *)

\* A test for a full queue that leaves no slot free.
FullLate == tail - head > Size
Full == tail - head >= Size

\* The loads and the test; a full queue drops the item.
PushCheck ==
    /\ Goes(Producer, "idle", IF Full THEN "idle" ELSE "write_lo")
    /\ tail < MaxItems
    /\ cur_tail' = tail
    /\ BeginCall
    /\ UNCHANGED <<fileVars, consumerVars, crashes>>

WriteLo ==
    /\ Goes(Producer, "write_lo", "write_hi")
    /\ items' = [items EXCEPT ![Slot(cur_tail)].lo = cur_tail]
    /\ UNCHANGED <<file, magic, head, tail, consumerVars, cur_tail, early, crashes>>

WriteHi ==
    /\ Goes(Producer, "write_hi", "publish")
    /\ items' = [items EXCEPT ![Slot(cur_tail)].hi = cur_tail]
    /\ UNCHANGED <<file, magic, head, tail, consumerVars, cur_tail, early, crashes>>

\* A store of the tail that may overtake the end of the copy.
PublishEarly ==
    /\ Goes(Producer, "publish", "idle") \/ Goes(Producer, "write_hi", "idle")
    /\ tail' = cur_tail + 1
    /\ UNCHANGED <<file, magic, head, items, consumerVars, cur_tail, early, crashes>>

Publish ==
    /\ Goes(Producer, "publish", "idle")
    /\ tail' = cur_tail + 1
    /\ UNCHANGED <<file, magic, head, items, consumerVars, cur_tail, early, crashes>>

Push == PushCheck \/ WriteLo \/ WriteHi \/ Publish

-----------------------------------------------------------------------------
(* wait_and_pop                                                            *)

WaitAndPop(c) ==
    /\ Goes(c, "idle", "load_head")
    /\ BeginCall
    /\ UNCHANGED <<fileVars, consumerVars, cur_tail, crashes>>

LoadHead(c) ==
    /\ Goes(c, "load_head", "load_tail")
    /\ cur_head' = [cur_head EXCEPT ![c] = head]
    /\ UNCHANGED <<fileVars, _head, got, popped, cur_tail, early, crashes>>

\* A test that keeps one item back.
HasItemLate(c) == cur_head[c] + 1 < tail
HasItem(c) == cur_head[c] < tail

LoadTail(c) ==
    /\ Goes(c, "load_tail", IF HasItem(c) THEN "cas" ELSE "load_head")
    /\ UNCHANGED <<fileVars, consumerVars, cur_tail, early, crashes>>

\* A load and a store instead of the compare-and-swap.
AlwaysWins(c) == TRUE
Wins(c) == head = cur_head[c]

Cas(c) ==
    /\ Goes(c, "cas", IF Wins(c) THEN "read_lo" ELSE "load_head")
    /\ IF Wins(c)
       THEN /\ head' = cur_head[c] + 1
            /\ popped' = [popped EXCEPT ![c] = @ \cup {cur_head[c]}]
       ELSE UNCHANGED <<head, popped>>
    /\ UNCHANGED <<file, magic, tail, items, cur_head, _head, got, cur_tail, early, crashes>>

ReadLo(c) ==
    /\ Goes(c, "read_lo", "read_hi")
    /\ got' = [got EXCEPT ![c].lo = items[Slot(cur_head[c])].lo]
    /\ UNCHANGED <<fileVars, cur_head, _head, popped, cur_tail, early, crashes>>

ReadHi(c) ==
    /\ Goes(c, "read_hi", "idle")
    /\ got' = [got EXCEPT ![c].hi = items[Slot(cur_head[c])].hi]
    /\ UNCHANGED <<fileVars, cur_head, _head, popped, cur_tail, early, crashes>>

\* try_pop: with _head, which the constructor leaves alone.  The copy is the same.
TryPop(c) ==
    /\ Goes(c, "idle", "read_lo")
    /\ _head[c] < tail
    /\ cur_head' = [cur_head EXCEPT ![c] = _head[c]]
    /\ _head' = [_head EXCEPT ![c] = @ + 1]
    /\ BeginCall
    /\ UNCHANGED <<fileVars, got, popped, cur_tail, crashes>>

Pop(c) == LoadHead(c) \/ LoadTail(c) \/ Cas(c) \/ ReadLo(c) \/ ReadHi(c)

-----------------------------------------------------------------------------
\* A process dies and is started again, to construct a new object.
Crash(x) ==
    /\ step[x] \notin {"start", "dead"}
    /\ crashes < MaxCrashes
    /\ crashes' = crashes + 1
    /\ step' = [step EXCEPT ![x] = "start"]
    /\ got' = [c \in Consumers |-> IF c = x THEN Item(-1) ELSE got[c]]
    /\ cur_head' = [c \in Consumers |-> IF c = x THEN 0 ELSE cur_head[c]]
    /\ \E garbage \in Garbage :
          _head' = [c \in TryPoppers |-> IF c = x THEN garbage ELSE _head[c]]
    /\ UNCHANGED <<fileVars, popped, cur_tail, early>>

\* The module follows the queue until a call begins too early: then the creator
\* undoes what that call does, numbers come again, and nothing is claimed any more.
Next ==
    /\ ~early
    /\ \/ \E x \in Processes : Construct(x) \/ Crash(x)
       \/ Push
       \/ \E c \in Consumers : WaitAndPop(c) \/ Pop(c)
       \/ \E c \in TryPoppers : TryPop(c)

\* Constructors and calls that began run on; nobody has to push or to pop.
Spec ==
    /\ Init /\ [][Next]_vars
    /\ \A x \in Processes : WF_vars(~early /\ step[x] # "start" /\ Construct(x))
    /\ \A c \in Consumers : WF_vars(~early /\ Pop(c))

-----------------------------------------------------------------------------
(* Properties.                                                             *)

\* What waits in the queue is whole and never overwritten, also when the producer
\* dies within a push and another one goes on: a full queue drops instead.
WaitingWhole ==
    \A n \in head .. tail - 1 : items[Slot(n)] = Item(n)

\* Every number below head was taken by exactly one consumer, none beyond it.
PoppedOnce ==
    /\ head <= tail
    /\ UNION {popped[c] : c \in Consumers} = 0 .. head - 1
    /\ \A c, d \in Consumers : c # d => popped[c] \cap popped[d] = {}

\* The slot is free for the producer before its item is copied.  The copy can be
\* trusted when the tail has moved less than a queue's length past the item.
CopyWhole ==
    \A c \in Consumers :
        /\ step[c] = "idle" /\ cur_head[c] \in popped[c]
        /\ got[c] # Item(-1)
        /\ tail < cur_head[c] + Size
        => got[c] = Item(cur_head[c])

\* While some consumer waits, the item at the head does not stay there, unless a
\* call began too early or a process died.
Waiting(c) == step[c] \in {"load_head", "load_tail", "cas"}
WaiterServed ==
    \A n \in 0 .. MaxItems - 1 :
        ((\E c \in Consumers : Waiting(c)) /\ head = n /\ tail > n)
            ~> (head > n \/ early \/ crashes > 0)

\* A process that waits for the creator gets on, or faults, unless a process died
\* or a call began too early.
JoinEnds ==
    \A x \in Processes :
        step[x] = "join" ~> (step[x] # "join" \/ early \/ crashes > 0)
=============================================================================
