------------------------------- MODULE MqRing -------------------------------
(***************************************************************************)
(* K4RingBuffer (RT_RingBuffer.h) in shared memory, pushed to by several   *)
(* producers (MQ_Pub::push) and read without any lock by subscribers       *)
(* (MQ_Sub, RT_MQ.h).  A producer claims the next number with a CAS on     *)
(* prod.head, copies its message into the slot of that number, waits for   *)
(* its turn and stores prod.tail; nothing keeps producers from overwriting *)
(* what a subscriber has not read.                                         *)
(*                                                                         *)
(* A message is known by the number that its push claimed, and is written  *)
(* and read in two words so that overlapping accesses show as torn.  A     *)
(* producer may die at any step.  Stores reach memory in program order     *)
(* (x86; tb_mb is a compiler barrier and an sfence).                       *)
(*                                                                         *)
(* get_new claims and publishes as push does, with nothing in the slot:    *)
(* its caller writes there afterwards, late or never.  zero(), which       *)
(* resets the ring under its users, is not modelled.                       *)
(***************************************************************************)
EXTENDS Integers, FiniteSets

CONSTANTS
    Producers,
    Subs,
    RingSize,       \* K4RingBuffer::ring_size
    IsSingleP,      \* the is_single_p argument of every push
    MaxMessages,    \* bound on the messages claimed in a behaviour
    LastGetNew      \* bound on the numbers that get_new claims

ASSUME MqRingAssumption ==
    /\ IsFiniteSet(Producers)
    /\ RingSize \in Nat \ {0, 1}
    /\ Cardinality(Producers) <= RingSize
    /\ IsSingleP \in BOOLEAN
    /\ IsSingleP => Cardinality(Producers) = 1
    /\ MaxMessages \in Nat
    /\ LastGetNew \in Nat

Slots == 0 .. RingSize - 1

VARIABLES
    head,        \* prod.head: last number claimed
    tail,        \* prod.tail: last number published
    ring,        \* slot -> [lo, hi]
    ppc,         \* producer -> the step of push it is at
    prod_head,   \* producer -> its local prod_head
    crashed,     \* the producers that died
    empty,       \* numbers get_new published, of which the caller wrote nothing yet
    half,        \* numbers of which the caller of get_new wrote the first word
    handed,      \* numbers claimed by get_new (history)
    spoilt,      \* numbers whose slot a late caller of get_new wrote to (history)
    spc,         \* subscriber -> the step it is at
    call,        \* subscriber -> the method it is in
    cur,         \* subscriber -> its local copy of get_cur_sequence()
    at,          \* subscriber -> the number it is reading
    m_current_index,
    got,         \* subscriber -> its copy of the message
    read         \* subscriber -> number of the message it holds a copy of (history)

callerVars == <<empty, half, handed, spoilt>>
producerVars == <<head, tail, ring, ppc, prod_head, crashed, callerVars>>
subVars == <<spc, call, cur, at, m_current_index, got, read>>
vars == <<producerVars, subVars>>

Message(n) == [lo |-> n, hi |-> n]

\* get_by_sequence, and prod_indx in push: the mask of index_mode 0 is the
\* remainder of index_mode 1, since ring_size is then a power of two.
Slot(n) == n % RingSize

\* prod_next = prod_head + 1
prod_next(p) == prod_head[p] + 1

-----------------------------------------------------------------------------
\* A fresh queue: init() has zeroed head and tail in a new, zeroed mapping.
Init ==
    /\ head = 0
    /\ tail = 0
    /\ ring = [k \in Slots |-> Message(0)]
    /\ ppc = [p \in Producers |-> "idle"]
    /\ prod_head = [p \in Producers |-> 0]
    /\ crashed = {}
    /\ empty = {} /\ half = {} /\ handed = {} /\ spoilt = {}
    /\ spc = [s \in Subs |-> "idle"]
    /\ call = [s \in Subs |-> "none"]
    /\ cur = [s \in Subs |-> 0]
    /\ at = [s \in Subs |-> 0]
    /\ m_current_index = [s \in Subs |-> 0]
    /\ got = [s \in Subs |-> Message(0)]
    /\ read = [s \in Subs |-> 0]

-----------------------------------------------------------------------------
(* K4RingBuffer::push, and get_new, which differs between claim and wait.  *)

\* The producer has its number, and everyone after it waits for it.
Claimed(p) == ppc[p] \in {"write_lo", "write_hi", "wait", "publish"}

At(p, pc) == p \notin crashed /\ ppc[p] = pc
Goto(p, pc) == ppc' = [ppc EXCEPT ![p] = pc]

\* prod_head = prod.head
LoadHead(p) ==
    /\ ~IsSingleP
    /\ At(p, "idle")
    /\ head < MaxMessages
    /\ prod_head' = [prod_head EXCEPT ![p] = head]
    /\ Goto(p, "loaded")
    /\ UNCHANGED <<head, tail, ring, crashed, callerVars, subVars>>

\* if (prod_next == prod.tail) continue: with head never behind tail this only
\* happens when the head that was loaded is already out of date.
FullCheck(p) ==
    /\ At(p, "loaded")
    /\ Goto(p, IF prod_next(p) = tail THEN "idle" ELSE "cas")
    /\ UNCHANGED <<head, tail, ring, prod_head, crashed, callerVars, subVars>>

\* A claim by a load and a store instead of the compare-and-swap.
CasBlind(p) ==
    /\ At(p, "cas")
    /\ head' = prod_next(p)
    /\ Goto(p, "write_lo")
    /\ UNCHANGED <<tail, ring, prod_head, crashed, callerVars, subVars>>

\* success = CAS(&(prod.head), prod_head, prod_next)
Cas(p) ==
    /\ At(p, "cas")
    /\ IF head = prod_head[p]
       THEN head' = prod_next(p) /\ Goto(p, "write_lo")
       ELSE UNCHANGED head /\ Goto(p, "idle")
    /\ UNCHANGED <<tail, ring, prod_head, crashed, callerVars, subVars>>

\* prod_next = ++prod.head, for the only producer there is
ClaimSingle(p) ==
    /\ IsSingleP
    /\ At(p, "idle")
    /\ head < MaxMessages
    /\ prod_head' = [prod_head EXCEPT ![p] = head]
    /\ head' = head + 1
    /\ Goto(p, "write_lo")
    /\ UNCHANGED <<tail, ring, crashed, callerVars, subVars>>

\* ring[prod_indx] = data, word by word
WriteLo(p) ==
    /\ At(p, "write_lo")
    /\ ring' = [ring EXCEPT ![Slot(prod_next(p))] =
                               [lo |-> prod_next(p), hi |-> @.hi]]
    /\ Goto(p, "write_hi")
    /\ UNCHANGED <<head, tail, prod_head, crashed, callerVars, subVars>>

WriteHi(p) ==
    /\ At(p, "write_hi")
    /\ ring' = [ring EXCEPT ![Slot(prod_next(p))] =
                               [lo |-> @.lo, hi |-> prod_next(p)]]
    /\ Goto(p, IF IsSingleP THEN "publish" ELSE "wait")
    /\ UNCHANGED <<head, tail, prod_head, crashed, callerVars, subVars>>

\* get_new: data = &ring[prod_indx], and nothing is copied.  That the call is one of
\* get_new is decided here: up to the claim it runs the same code.
HandOut(p) ==
    /\ At(p, "write_lo")
    /\ prod_next(p) <= LastGetNew
    /\ handed' = handed \cup {prod_next(p)}
    /\ Goto(p, IF IsSingleP THEN "publish" ELSE "wait")
    /\ UNCHANGED <<head, tail, ring, prod_head, crashed, empty, half, spoilt, subVars>>

\* A producer that does not wait for the claims before its own.
NoWait(p) ==
    /\ At(p, "wait")
    /\ Goto(p, "publish")
    /\ UNCHANGED <<head, tail, ring, prod_head, crashed, callerVars, subVars>>

\* while (prod.tail != prod_head) ;
WaitTurn(p) ==
    /\ At(p, "wait")
    /\ tail = prod_head[p]
    /\ Goto(p, "publish")
    /\ UNCHANGED <<head, tail, ring, prod_head, crashed, callerVars, subVars>>

\* A producer that publishes all that is claimed, not only its own number.
PublishHead(p) ==
    /\ At(p, "publish")
    /\ tail' = head
    /\ Goto(p, "idle")
    /\ empty' = empty \cup ({prod_next(p)} \cap handed)
    /\ UNCHANGED <<head, ring, prod_head, crashed, half, handed, spoilt, subVars>>

\* prod.tail = prod_next; get_new returns with the slot still to be written.
PublishTail(p) ==
    /\ At(p, "publish")
    /\ tail' = prod_next(p)
    /\ Goto(p, "idle")
    /\ empty' = empty \cup ({prod_next(p)} \cap handed)
    /\ UNCHANGED <<head, ring, prod_head, crashed, half, handed, spoilt, subVars>>

Push(p) ==
    \/ LoadHead(p) \/ FullCheck(p) \/ Cas(p) \/ ClaimSingle(p)
    \/ WriteLo(p) \/ WriteHi(p) \/ HandOut(p) \/ WaitTurn(p) \/ PublishTail(p)

\* The producer's process dies where it is; its claim stays in prod.head.  A death
\* between the load and the claim leaves in memory what a death in idle does.
Crash(p) ==
    /\ p \notin crashed
    /\ Claimed(p) \/ ppc[p] = "idle"
    /\ crashed' = crashed \cup {p}
    /\ UNCHANGED <<head, tail, ring, ppc, prod_head, callerVars, subVars>>

-----------------------------------------------------------------------------
(* The caller of get_new writes through the pointer (or get_by_index of    *)
(* the index) that it was given, whenever it comes to it, if it ever does. *)

\* The later numbers that have the slot of n: what is written for n hits them.
Overrun(n) == {k \in n + 1 .. head : Slot(k) = Slot(n)}

FillLo(n) ==
    /\ n \in empty
    /\ ring' = [ring EXCEPT ![Slot(n)] = [lo |-> n, hi |-> @.hi]]
    /\ empty' = empty \ {n}
    /\ half' = half \cup {n}
    /\ spoilt' = spoilt \cup Overrun(n)
    /\ UNCHANGED <<head, tail, ppc, prod_head, crashed, handed, subVars>>

FillHi(n) ==
    /\ n \in half
    /\ ring' = [ring EXCEPT ![Slot(n)] = [lo |-> @.lo, hi |-> n]]
    /\ half' = half \ {n}
    /\ spoilt' = spoilt \cup Overrun(n)
    /\ UNCHANGED <<head, tail, ppc, prod_head, crashed, empty, handed, subVars>>

Fill == \E n \in handed : FillLo(n) \/ FillHi(n)

-----------------------------------------------------------------------------
(* MQ_Sub.                                                                 *)

StartRead(s, method, first) ==
    /\ call' = [call EXCEPT ![s] = method]
    /\ cur' = [cur EXCEPT ![s] = tail]
    /\ at' = [at EXCEPT ![s] = first]
    /\ spc' = [spc EXCEPT ![s] = "read_lo"]
    /\ got' = [got EXCEPT ![s] = Message(0)]
    /\ read' = [read EXCEPT ![s] = 0]

\* try_read_new: the cursor moves before the message is looked at.
TryReadNew(s) ==
    /\ spc[s] = "idle"
    /\ m_current_index[s] < tail
    /\ m_current_index' = [m_current_index EXCEPT ![s] = @ + 1]
    /\ StartRead(s, "try_read_new", m_current_index[s] + 1)
    /\ UNCHANGED producerVars

\* get_all_pending: a loop over m_current_index + 1 .. current; the cursor moves
\* when all are copied.
GetAllPending(s) ==
    /\ spc[s] = "idle"
    /\ m_current_index[s] < tail
    /\ StartRead(s, "get_all_pending", m_current_index[s] + 1)
    /\ UNCHANGED <<producerVars, m_current_index>>

\* get_current: the message at the tail, the cursor stays.
GetCurrent(s) ==
    /\ spc[s] = "idle"
    /\ StartRead(s, "get_current", tail)
    /\ UNCHANGED <<producerVars, m_current_index>>

\* get_all: a loop over 0 .. current, the cursor stays.
GetAll(s) ==
    /\ spc[s] = "idle"
    /\ StartRead(s, "get_all", 0)
    /\ UNCHANGED <<producerVars, m_current_index>>

ReadLo(s) ==
    /\ spc[s] = "read_lo"
    /\ got' = [got EXCEPT ![s] = [lo |-> ring[Slot(at[s])].lo, hi |-> 0]]
    /\ read' = [read EXCEPT ![s] = 0]
    /\ spc' = [spc EXCEPT ![s] = "read_hi"]
    /\ UNCHANGED <<producerVars, call, cur, at, m_current_index>>

\* The loop of get_all_pending that forgets to move the cursor past what it took.
ReadHiNoCursor(s) ==
    /\ spc[s] = "read_hi"
    /\ got' = [got EXCEPT ![s] = [lo |-> @.lo, hi |-> ring[Slot(at[s])].hi]]
    /\ read' = [read EXCEPT ![s] = at[s]]
    /\ spc' = [spc EXCEPT ![s] = "idle"]
    /\ UNCHANGED <<producerVars, call, cur, at, m_current_index>>

\* The end of one copy: the two loops go on to the next number, or finish and drop
\* their locals.
ReadHi(s) ==
    LET loops == call[s] \in {"get_all_pending", "get_all"}
        more  == loops /\ at[s] < cur[s]
    IN  /\ spc[s] = "read_hi"
        /\ got' = [got EXCEPT ![s] = [lo |-> @.lo, hi |-> ring[Slot(at[s])].hi]]
        /\ read' = [read EXCEPT ![s] = at[s]]
        /\ at' = [at EXCEPT ![s] = IF more THEN @ + 1 ELSE 0]
        /\ cur' = [cur EXCEPT ![s] = IF more THEN @ ELSE 0]
        /\ call' = [call EXCEPT ![s] = IF more THEN @ ELSE "none"]
        /\ spc' = [spc EXCEPT ![s] = IF more THEN "read_lo" ELSE "idle"]
        /\ m_current_index' =
              [m_current_index EXCEPT ![s] =
                  IF call[s] = "get_all_pending" /\ ~more THEN cur[s] ELSE @]
        /\ UNCHANGED producerVars

\* A skip that does not compare the index with the tail.
SkipUnchecked(s, index) ==
    /\ spc[s] = "idle"
    /\ m_current_index' = [m_current_index EXCEPT ![s] = index]
    /\ UNCHANGED <<producerVars, spc, call, cur, at, got, read>>

\* skipMessage(index), when the index is valid (otherwise it only returns false)
SkipMessage(s, index) ==
    /\ spc[s] = "idle"
    /\ index <= tail
    /\ m_current_index' = [m_current_index EXCEPT ![s] = index]
    /\ UNCHANGED <<producerVars, spc, call, cur, at, got, read>>

ResetToBeginning(s) ==
    /\ spc[s] = "idle"
    /\ m_current_index' = [m_current_index EXCEPT ![s] = 0]
    /\ UNCHANGED <<producerVars, spc, call, cur, at, got, read>>

Take(s) == TryReadNew(s) \/ GetAllPending(s) \/ ReadLo(s) \/ ReadHi(s)
Peek(s) == GetCurrent(s) \/ GetAll(s)
Seek(s) ==
    \/ \E index \in 0 .. MaxMessages : SkipMessage(s, index)
    \/ ResetToBeginning(s)

-----------------------------------------------------------------------------
Next ==
    \/ \E p \in Producers : Push(p) \/ Crash(p)
    \/ Fill
    \/ \E s \in Subs : Take(s) \/ Peek(s) \/ Seek(s)

SafeSpec == Init /\ [][Next]_vars

\* A claimed push runs on while its process lives, and a subscriber's thread keeps
\* taking messages; here it neither moves its cursor itself nor re-reads.

TakingNext ==
    \/ \E p \in Producers : Push(p) \/ Crash(p)
    \/ Fill
    \/ \E s \in Subs : Take(s)

TakingSpec == Init /\ [][TakingNext]_vars

PushFairness == \A p \in Producers : WF_vars(Claimed(p) /\ Push(p))

FairSpec == SafeSpec /\ PushFairness
Spec == TakingSpec /\ PushFairness /\ \A s \in Subs : WF_vars(Take(s))

-----------------------------------------------------------------------------
(* Properties.                                                             *)

TypeOK ==
    /\ head \in Nat
    /\ tail \in Nat
    /\ ring \in [Slots -> [lo : Nat, hi : Nat]]
    /\ ppc \in [Producers -> {"idle", "loaded", "cas", "write_lo", "write_hi",
                              "wait", "publish"}]
    /\ prod_head \in [Producers -> Nat]
    /\ crashed \subseteq Producers
    /\ handed \subseteq Nat /\ spoilt \subseteq Nat
    /\ empty \subseteq handed /\ half \subseteq handed
    /\ spc \in [Subs -> {"idle", "read_lo", "read_hi"}]
    /\ call \in [Subs -> {"none", "try_read_new", "get_all_pending",
                          "get_current", "get_all"}]
    /\ cur \in [Subs -> Nat]
    /\ at \in [Subs -> Nat]
    /\ m_current_index \in [Subs -> Nat]
    /\ got \in [Subs -> [lo : Nat, hi : Nat]]
    /\ read \in [Subs -> Nat]

\* Every number claimed and not published belongs to exactly one producer that is
\* inside push, alive or dead, so that at most one message per producer is in flight.
InFlightOwned ==
    /\ tail <= head
    /\ \A n \in tail + 1 .. head :
          \E p \in Producers : Claimed(p) /\ prod_next(p) = n
    /\ \A p \in Producers : Claimed(p) => prod_next(p) \in tail + 1 .. head
    /\ \A p, q \in Producers :
          Claimed(p) /\ Claimed(q) /\ prod_next(p) = prod_next(q) => p = q

InFlightBounded == head - tail <= Cardinality(Producers)

\* A published message is whole in its slot until the number a ring further on is
\* claimed, with any number of pushes overlapping and any producer dying.  A number
\* of get_new is so from when its caller has written both words, and a caller that
\* writes a ring late spoils the message that is in the slot by then.
PublishedWindow ==
    \A n \in 1 .. tail :
        n > head - RingSize /\ n \notin empty \cup half \cup spoilt
            => ring[Slot(n)] = Message(n)

\* What a subscriber can conclude from the only counter it reads: when, after the
\* copy, the tail is still a ring minus the number of producers away, the copy is
\* the message of its number, whole.  The tail tells this of numbers that push
\* published and no late caller of get_new wrote over; of a number of get_new it
\* tells nothing.
Trusted(n) == n >= 1 /\ n \notin handed \cup spoilt

Intact ==
    \A s \in Subs :
        /\ Trusted(read[s])
        /\ tail + Cardinality(Producers) < read[s] + RingSize
        => got[s] = Message(read[s])

\* A subscriber's cursor never runs past what is published, whichever reading or
\* seeking method it calls, as long as nobody resets the ring (RT_RingBuffer.h:40).
CursorBehindTail == \A s \in Subs : m_current_index[s] <= tail

\* Whichever producer stores it, the tail moves to the next number: no message is
\* published twice, none is jumped over, and a late producer never turns it back.
PublishedInOrder == [][tail' = tail + 1]_tail

\* A push that got its number is published, unless some producer died.
ClaimIsPublished ==
    \A p \in Producers : Claimed(p) ~> (ppc[p] = "idle" \/ crashed # {})

\* The inductive invariant: what each step of a push, and each write of a caller of
\* get_new, has established, and that a half-made copy is of its message until the
\* number a ring further on is claimed.
PushProgress ==
    \A p \in Producers :
        /\ ppc[p] \in {"loaded", "cas"} => prod_head[p] <= head
        /\ ppc[p] = "write_hi" /\ prod_next(p) \notin spoilt
              => ring[Slot(prod_next(p))].lo = prod_next(p)
        /\ ppc[p] \in {"wait", "publish"} /\ prod_next(p) \notin handed \cup spoilt
              => ring[Slot(prod_next(p))] = Message(prod_next(p))
        /\ ppc[p] = "publish" => tail = prod_head[p]

FillProgress ==
    /\ empty \cup half \subseteq 1 .. tail
    /\ \A n \in half :
          n > head - RingSize /\ n \notin spoilt => ring[Slot(n)].lo = n

SubProgress ==
    \A s \in Subs :
        /\ cur[s] <= tail
        /\ read[s] <= tail
        /\ spc[s] # "idle" => at[s] <= cur[s]
        /\ spc[s] # "idle" /\ call[s] = "get_all_pending"
              => at[s] > m_current_index[s]

HalfCopied ==
    \A s \in Subs :
        spc[s] = "read_hi" /\ Trusted(at[s]) /\ head < at[s] + RingSize
            => got[s].lo = at[s]

Copied ==
    \A s \in Subs :
        Trusted(read[s]) /\ head < read[s] + RingSize
            => got[s] = Message(read[s])

IInv ==
    /\ TypeOK /\ InFlightOwned /\ PublishedWindow /\ PushProgress /\ FillProgress
    /\ SubProgress /\ CursorBehindTail /\ HalfCopied /\ Copied

\* For subscribers that only take messages the queue is the log: a cursor moves
\* forward over messages that are published, none is skipped unseen or seen twice.
Log == INSTANCE MqLog WITH
    Subscribers <- Subs,
    published   <- tail,
    consumed    <- m_current_index
LogSpec == Log!Spec
=============================================================================
