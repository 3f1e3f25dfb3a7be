------------------------------- MODULE ShmRegion -------------------------------
(***************************************************************************)
(* The life of one shared-memory region of shm_md_plus (RT_ShmMdPlus.h):   *)
(* the gateway removes and creates the file (create_shm_ptr), lays out one *)
(* head per instrument and a sentinel (current_index = -1) in every other  *)
(* one (set_shm_addr, init_shm), and adds instruments while it runs        *)
(* (on_rtn_data); strategies attach at any moment (get_shm), walking the   *)
(* heads up to the first sentinel.  Nothing tells a strategy how far the   *)
(* gateway is.                                                             *)
(*                                                                         *)
(* One gateway process creates each region twice (the constructor of       *)
(* Binance_MD calls init_shm, then mdrunner calls it again); each creation *)
(* is a new inode, kept alive by the strategies that mapped it.  The       *)
(* gateway may die and be started again, with another list of instruments. *)
(*                                                                         *)
(* A symbol is the sequence of the 8-byte words of its characters; a head  *)
(* has room for two (char[16], the last byte 0), copied word by word.      *)
(***************************************************************************)
EXTENDS Integers, Sequences, FiniteSets

CONSTANTS
    Strategies,
    Lists,           \* the lists set_shm_addr may be given, sequences of symbols
    Added,           \* symbols that on_rtn_data may receive besides
    MaxNum,          \* m_max_instrument_num
    InstrumentBytes, \* sizeof(md_head_plus) + sizeof(market_data) * MD_BLOCK_NUM
    PageBytes,       \* getpagesize()
    InitsPerRun,     \* times one gateway process creates the region
    MaxRegions,      \* bound on the creations in a behaviour
    MaxUpdates       \* bound on an instrument's current_index

Symbols == Added \cup UNION {{list[k] : k \in DOMAIN list} : list \in Lists}

\* strncpy(head->instrument_id, id, 15): what a head can hold of a name.
Label(s) == IF Len(s) <= 2 THEN s ELSE SubSeq(s, 1, 2)
FirstWord(s) == SubSeq(s, 1, 1)

\* Lists without repetitions that fit the region, and no symbol that is stored like
\* another one or is the first word of another one.
ASSUME ShmRegionAssumption ==
    /\ Symbols \subseteq Seq(STRING) \ {<<>>}
    /\ Lists \subseteq Seq(Symbols)
    /\ \A list \in Lists :
          /\ Len(list) \in 1 .. MaxNum
          /\ \A j, k \in DOMAIN list : list[j] = list[k] => j = k
    /\ \A s, t \in Symbols :
          s # t => Label(s) # Label(t) /\ Label(s) # FirstWord(t)
    /\ MaxNum \in Nat /\ InitsPerRun \in Nat \ {0}
    /\ MaxRegions \in Nat \ {0} /\ MaxUpdates \in Nat \ {0}

\* m_shm_size has no room for the last sentinel, and the lines that would round it up
\* to whole pages are commented out (89-94).  The module assumes that the rest of the
\* last page holds what is touched of that head, its first two words.  The code does
\* not see to it: with other sizes the write, and each walk, leaves the mapping.
ASSUME LastHeadMapped ==
    (16 + MaxNum * InstrumentBytes) % PageBytes \in 1 .. PageBytes - 16

Regions == 1 .. MaxRegions

\* The heads of a region.  Head MaxNum is one past the end, mapped by LastHeadMapped:
\* init_shm writes a sentinel there too.
Heads == 0 .. MaxNum

VARIABLES
    linked,       \* the region the file name refers to, 0 for none
    created,      \* regions created so far; the last is the gateway's own
    sized,        \* regions that ftruncate has given their size, zeroed
    counted,      \* regions whose md_buff_num is written
    head,         \* region -> head -> [index, name]
    wpc,          \* the step the gateway is at
    instruments,  \* the list of this gateway process
    inits,        \* creations this gateway process has not finished
    m_md_num,     \* heads in use: m_next_empty_md points at this one
    tail,         \* the head init_shm writes its next sentinel to
    sym,          \* the symbol that is being added or updated
    m_address,    \* the gateway's m_instruments_address: symbol -> head
    spc,          \* strategy -> the step of get_shm it is at
    statted,      \* strategy -> info.st_size
    at,           \* strategy -> the region it mapped
    pos,          \* strategy -> the head its loop is at
    m_next_empty, \* strategy -> the head its walk stopped at
    address,      \* strategy -> its m_instruments_address: label -> head
    fresh,        \* strategies that began to attach to a gateway which was ready
                  \* and has removed nothing since (history)
    known         \* strategy -> symbols that had a named head by then (history)

fileVars == <<linked, created, sized, counted>>
gatewayVars == <<fileVars, head, wpc, instruments, inits, m_md_num, tail, sym, m_address>>
strategyVars == <<spc, statted, at, pos, m_next_empty, address, fresh, known>>
vars == <<gatewayVars, strategyVars>>

EmptyHead == [index |-> 0, name |-> <<>>]
NoHeads == [k \in Heads |-> EmptyHead]
NoAddress == [x \in {} |-> 0]

\* m_instruments_address[x] = k, and insert, which keeps an entry that is there.
Assign(map, x, k) == [y \in DOMAIN map \cup {x} |-> IF y = x THEN k ELSE map[y]]
Insert(map, x, k) == IF x \in DOMAIN map THEN map ELSE Assign(map, x, k)

\* get_next_md_head
NextHeadStuck(k) == k
NextHead(k) == k + 1

Named(g, s) == \E k \in Heads : head[g][k].name = Label(s)

-----------------------------------------------------------------------------
Init ==
    /\ linked = 0
    /\ created = 0
    /\ sized = {}
    /\ counted = {}
    /\ head = [g \in Regions |-> NoHeads]
    /\ wpc = "remove"
    /\ instruments \in Lists
    /\ inits = InitsPerRun
    /\ m_md_num = 0
    /\ tail = 0
    /\ sym = <<>>
    /\ m_address = NoAddress
    /\ spc = [r \in Strategies |-> "start"]
    /\ statted = [r \in Strategies |-> "unset"]
    /\ at = [r \in Strategies |-> 0]
    /\ pos = [r \in Strategies |-> 0]
    /\ m_next_empty = [r \in Strategies |-> 0]
    /\ address = [r \in Strategies |-> NoAddress]
    /\ fresh = {}
    /\ known = [r \in Strategies |-> {}]

-----------------------------------------------------------------------------
(* The gateway: create_shm_ptr, on a new shm_md_plus.                      *)

\* An shm_md_plus that is used again for the next region.
SameObject == UNCHANGED <<m_md_num, m_address>>

\* A new shm_md_plus per creation.
NewObject == m_md_num' = 0 /\ m_address' = NoAddress

\* remove(md_fn).  A region that no strategy has mapped is gone with its name.
Remove ==
    /\ wpc = "remove"
    /\ created < MaxRegions
    /\ linked' = 0
    /\ head' = [g \in Regions |-> IF \E r \in Strategies : at[r] = g THEN head[g]
                                                               ELSE NoHeads]
    /\ NewObject
    /\ fresh' = {}
    /\ known' = [r \in Strategies |-> {}]
    /\ wpc' = "open"
    /\ UNCHANGED <<created, sized, counted, instruments, inits, tail, sym,
                   spc, statted, at, pos, m_next_empty, address>>

\* shm_open(O_CREAT)
Open ==
    /\ wpc = "open"
    /\ created' = created + 1
    /\ linked' = created + 1
    /\ wpc' = "truncate"
    /\ UNCHANGED <<sized, counted, head, instruments, inits, m_md_num, tail, sym, m_address,
                   strategyVars>>

\* ftruncate, mmap, memset of a new inode
Truncate ==
    /\ wpc = "truncate"
    /\ sized' = sized \cup {created}
    /\ wpc' = "count"
    /\ UNCHANGED <<linked, created, counted, head, instruments, inits, m_md_num, tail, sym,
                   m_address, strategyVars>>

\* md_buff_num = ..., then set_shm_addr enters the loop of init_shm.
SetBuffNum ==
    /\ wpc = "count"
    /\ counted' = counted \cup {created}
    /\ sym' = instruments[1]
    /\ wpc' = "zero"
    /\ UNCHANGED <<linked, created, sized, head, instruments, inits, m_md_num, tail,
                   m_address, strategyVars>>

-----------------------------------------------------------------------------
(* init_instrument_shm, from init_shm and from on_rtn_data.                *)

SetHead(k, h) == head' = [head EXCEPT ![created][k] = h]

\* m_instruments_address.insert, memset(head)
ZeroHead ==
    /\ wpc = "zero"
    /\ m_address' = Insert(m_address, sym, m_md_num)
    /\ SetHead(m_md_num, EmptyHead)
    /\ wpc' = "first_word"
    /\ UNCHANGED <<fileVars, instruments, inits, m_md_num, tail, sym, strategyVars>>

\* strncpy(instrument_id)
CopyFirstWord ==
    /\ wpc = "first_word"
    /\ SetHead(m_md_num, [index |-> 0, name |-> FirstWord(sym)])
    /\ wpc' = "rest"
    /\ UNCHANGED <<fileVars, instruments, inits, m_md_num, tail, sym, m_address,
                   strategyVars>>

\* The first head that gets a sentinel: m_next_empty_md after the last instrument.
FirstSentinelLow == m_md_num
FirstSentinel == m_md_num + 1

\* The end of the name, ++md_num and ++m_md_num; then the next instrument of the
\* list, the sentinels, or the update that brought the instrument.
CopyRest ==
    /\ wpc = "rest"
    /\ SetHead(m_md_num, [index |-> 0, name |-> Label(sym)])
    /\ m_md_num' = m_md_num + 1
    /\ tail' = FirstSentinel
    /\ IF inits = 0
       THEN wpc' = "update" /\ UNCHANGED sym
       ELSE IF m_md_num + 1 < Len(instruments)
            THEN wpc' = "zero" /\ sym' = instruments[m_md_num + 2]
            ELSE wpc' = "sentinel" /\ UNCHANGED sym
    /\ UNCHANGED <<fileVars, instruments, inits, m_address, strategyVars>>

\* for (i = 0; i <= left; ++i): as far as head MaxNum.
LastSentinelShort == MaxNum - 1
LastSentinel == MaxNum

\* tail->current_index = -1, and the end of set_shm_addr after the last one.
Sentinel ==
    /\ wpc = "sentinel"
    /\ IF tail <= LastSentinel
       THEN /\ SetHead(tail, [head[created][tail] EXCEPT !.index = -1])
            /\ tail' = NextHead(tail)
            /\ UNCHANGED <<wpc, inits>>
       ELSE /\ inits' = inits - 1
            /\ wpc' = IF inits = 1 THEN "running" ELSE "remove"
            /\ UNCHANGED <<head, tail>>
    /\ UNCHANGED <<fileVars, instruments, m_md_num, sym, m_address, strategyVars>>

-----------------------------------------------------------------------------
(* on_rtn_data, of which MdRing has the details.                           *)

\* Room for one more, so that a sentinel is left behind it.
HasRoom == m_md_num < MaxNum - 1

OnRtnData(s) ==
    /\ wpc = "running"
    /\ IF s \in DOMAIN m_address
       THEN wpc' = "update" /\ head[created][m_address[s]].index < MaxUpdates
       ELSE wpc' = "zero" /\ HasRoom
    /\ sym' = s
    /\ UNCHANGED <<fileVars, instruments, head, inits, m_md_num, tail, m_address,
                   strategyVars>>

Update ==
    /\ wpc = "update"
    /\ LET k == m_address[sym] IN
           SetHead(k, [head[created][k] EXCEPT !.index = @ + 1])
    /\ wpc' = "running"
    /\ UNCHANGED <<fileVars, instruments, inits, m_md_num, tail, sym, m_address,
                   strategyVars>>

\* The gateway's process dies; its region stays, and may be half built.
Crash ==
    /\ wpc # "down"
    /\ wpc' = "down"
    /\ NewObject
    /\ UNCHANGED <<fileVars, instruments, head, inits, tail, sym, strategyVars>>

Restart ==
    /\ wpc = "down"
    /\ wpc' = "remove"
    /\ instruments' \in Lists
    /\ inits' = InitsPerRun
    /\ UNCHANGED <<fileVars, head, m_md_num, tail, sym, m_address, strategyVars>>

Gateway ==
    \/ Remove \/ Open \/ Truncate \/ SetBuffNum
    \/ ZeroHead \/ CopyFirstWord \/ CopyRest \/ Sentinel
    \/ (\E s \in Symbols : OnRtnData(s)) \/ Update
    \/ Crash \/ Restart

-----------------------------------------------------------------------------
(* A strategy: get_shm and load_instruments_addresses.                     *)

StrategyAt(r, step) == spc[r] = step
Goto(r, step) == spc' = [spc EXCEPT ![r] = step]

\* The process of the strategy ends, or crashes.
Die(r) ==
    /\ Goto(r, "gone")
    /\ statted' = [statted EXCEPT ![r] = "unset"]
    /\ at' = [at EXCEPT ![r] = 0]
    /\ pos' = [pos EXCEPT ![r] = 0]

\* file_exists; a strategy that does not find the file exits.
Exists(r) ==
    /\ StrategyAt(r, "start")
    /\ IF linked = 0 THEN Die(r) ELSE Goto(r, "stat") /\ UNCHANGED <<statted, at, pos>>
    /\ IF linked # 0 /\ inits = 0
       THEN fresh' = fresh \cup {r} /\
            known' = [known EXCEPT ![r] = {s \in Symbols : Named(linked, s)}]
       ELSE UNCHANGED <<fresh, known>>
    /\ UNCHANGED <<gatewayVars, m_next_empty, address>>

\* stat, whose result is not checked: info stays uninitialized if the file is gone.
Stat(r) ==
    /\ StrategyAt(r, "stat")
    /\ statted' = [statted EXCEPT ![r] = CASE linked = 0 -> "garbage"
                                           [] linked \in sized -> "full"
                                           [] OTHER -> "empty"]
    /\ Goto(r, "map")
    /\ UNCHANGED <<gatewayVars, at, pos, m_next_empty, address, fresh, known>>

\* load_page_buffer: open throws without a file, mmap fails for size 0, and a
\* garbage size may be too large to map.
Map(r) ==
    /\ StrategyAt(r, "map")
    /\ \/ /\ linked # 0 /\ statted[r] # "empty"
          /\ at' = [at EXCEPT ![r] = linked]
          /\ statted' = [statted EXCEPT ![r] = "unset"]
          /\ Goto(r, "md_buff_num")
          /\ UNCHANGED pos
       \/ (linked = 0 \/ statted[r] # "full") /\ Die(r)
    /\ UNCHANGED <<gatewayVars, m_next_empty, address, fresh, known>>

\* MD_BLOCK_NUM = md_buff_num: a fault past the end of an empty file.  With 0, the
\* heads are taken to be adjacent and get_cur_md divides by it: the process dies.
ReadBuffNum(r) ==
    /\ StrategyAt(r, "md_buff_num")
    /\ IF at[r] \in sized \cap counted
       THEN Goto(r, "walk") /\ UNCHANGED <<statted, at, pos>>
       ELSE Die(r)
    /\ UNCHANGED <<gatewayVars, m_next_empty, address, fresh, known>>

\* A walk that takes an instrument without data for the end.
HasData(h) == h.index >= 1
InUse(h) == h.index >= 0

\* while (m_next_empty_md->current_index >= 0), off the mapping if no head stops it
Walk(r) ==
    /\ StrategyAt(r, "walk")
    /\ \/ /\ pos[r] \notin Heads
          /\ Die(r)
          /\ UNCHANGED m_next_empty
       \/ /\ pos[r] \in Heads /\ InUse(head[at[r]][pos[r]])
          /\ pos' = [pos EXCEPT ![r] = NextHead(@)]
          /\ UNCHANGED <<spc, statted, at, m_next_empty>>
       \/ /\ pos[r] \in Heads /\ ~InUse(head[at[r]][pos[r]])
          /\ Goto(r, "load")
          /\ m_next_empty' = [m_next_empty EXCEPT ![r] = pos[r]]
          /\ pos' = [pos EXCEPT ![r] = 0]
          /\ UNCHANGED <<statted, at>>
    /\ UNCHANGED <<gatewayVars, address, fresh, known>>

\* One round of load_instruments_addresses; the map is complete after the last.
Load(r) ==
    /\ StrategyAt(r, "load")
    /\ IF pos[r] < m_next_empty[r]
       THEN /\ address' = [address EXCEPT ![r] =
                              Assign(@, head[at[r]][pos[r]].name, pos[r])]
            /\ pos' = [pos EXCEPT ![r] = NextHead(@)]
            /\ UNCHANGED spc
       ELSE Goto(r, "attached") /\ UNCHANGED <<address, pos>>
    /\ UNCHANGED <<gatewayVars, statted, at, m_next_empty, fresh, known>>

GetShm(r) ==
    \/ Exists(r) \/ Stat(r) \/ Map(r) \/ ReadBuffNum(r) \/ Walk(r) \/ Load(r)

-----------------------------------------------------------------------------
Next == Gateway \/ \E r \in Strategies : GetShm(r)

\* A strategy's process runs on.  Nothing is assumed of the gateway.
Spec == Init /\ [][Next]_vars /\ \A r \in Strategies : WF_vars(GetShm(r))

-----------------------------------------------------------------------------
(* Properties.                                                             *)

IsMap(f, X) == DOMAIN f \subseteq X /\ f \in [DOMAIN f -> Heads]
Names == {<<>>} \cup {FirstWord(s) : s \in Symbols} \cup {Label(s) : s \in Symbols}

TypeOK ==
    /\ linked \in {0, created}
    /\ created \in 0 .. MaxRegions
    /\ counted \subseteq sized /\ sized \subseteq 1 .. created
    /\ head \in [Regions -> [Heads -> [index : -1 .. MaxUpdates, name : Names]]]
    /\ wpc \in {"remove", "open", "truncate", "count", "zero", "first_word", "rest",
                "sentinel", "running", "update", "down"}
    /\ instruments \in Lists
    /\ inits \in 0 .. InitsPerRun
    /\ m_md_num \in 0 .. MaxNum
    /\ tail \in 0 .. MaxNum + 1
    /\ sym \in Symbols \cup {<<>>}
    /\ IsMap(m_address, Symbols)
    /\ spc \in [Strategies -> {"start", "stat", "map", "md_buff_num", "walk",
                               "load", "attached", "gone"}]
    /\ statted \in [Strategies -> {"unset", "garbage", "empty", "full"}]
    /\ at \in [Strategies -> 0 .. created]
    /\ pos \in [Strategies -> 0 .. MaxNum + 1]
    /\ m_next_empty \in [Strategies -> Heads]
    /\ DOMAIN address = Strategies /\ \A r \in Strategies : IsMap(address[r], Names)
    /\ fresh \subseteq Strategies
    /\ known \in [Strategies -> SUBSET Symbols]

\* A strategy that begins to attach to a gateway which is ready never dies of it,
\* also when instruments are added under its walk or the gateway crashes: some
\* sentinel always stops the walk inside the region.
FreshSurvives == \A r \in fresh : spc[r] # "gone"

\* It ends up on the gateway's region and knows every instrument that was there
\* when it began.  Instruments added later it may or may not know.
SnapshotComplete ==
    \A r \in fresh : spc[r] = "attached" =>
        /\ at[r] = linked
        /\ \A s \in known[r] : Label(s) \in DOMAIN address[r]

\* Whenever it attached, a strategy on the gateway's region that knows an instrument
\* looks at the head the gateway writes it to.
SameHead ==
    \A r \in Strategies : spc[r] = "attached" /\ at[r] = created =>
        \A s \in DOMAIN m_address :
            Label(s) \in DOMAIN address[r] => address[r][Label(s)] = m_address[s]

\* Once a head carries a name nothing resets it: the name only grows to its full
\* length and current_index never goes back, whatever is initialized around it, as
\* long as someone can look at it.
HeadsKept ==
    [][\A g \in {linked'} \cup {at[r] : r \in Strategies} : \A k \in Heads :
          g # 0 /\ head[g][k].name # <<>> =>
              /\ FirstWord(head'[g][k].name) = FirstWord(head[g][k].name)
              /\ Len(head'[g][k].name) >= Len(head[g][k].name)
              /\ head'[g][k].index >= head[g][k].index]_head

\* get_shm always comes to an end.
AttachEnds == \A r \in Strategies : spc[r] = "stat" ~> spc[r] \in {"attached", "gone"}
=============================================================================
