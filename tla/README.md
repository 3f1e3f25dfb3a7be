# Verification of RazorCrypto

RazorCrypto feeds crypto market data to trading strategies: a gateway process receives it over
websockets and is to publish it in shared memory, strategies in other processes poll that memory
without locks, and modules exchange messages over a shared-memory queue. This directory holds TLA+
specifications of these parts, the TLC configurations that check them on small instances, and
theorems with proofs that TLAPS checks. All paths below are relative to `src/`.

## 1. The system

`MDRunner` (mdrunner.cpp) loads `binance_md` once per configured connection, and the gateway it gets
from it creates two regions (spot and ubase) and some websocket connections. Strategies map the
regions; queues are mapped by whoever publishes or subscribes.

```
 mdrunner main --create/init_shm/initialize/start/stop--> Binance_MD : RT_CryptoMDBase
      ^ signals                                            |  work thread, print thread
                                                           |  ws_ssl_client x N, one io thread each
                                                           v  on_rtn_data
                                       shm_md_plus: heads and rings (a file in /dev/shm)
                                                           ^  get_shm, poll_depth10, get_cur_md
                                                   K4BaseStrategy x M
 MQ_Pub x K --push--> K4RingBuffer (a file in /dev/shm) <--read-- MQ_Sub x L
```

### Inventory

**Market-data ring** (`mht/include/RT_ShmMdPlus.h`, `K4_BaseStrategy.h`). *State*: per instrument
`current_index` and `MD_BLOCK_NUM` entries, per region `update_num`; per strategy a mark for each
instrument. *Operations*: `on_rtn_data` (gateway), `sub_depth10`/`poll_depth10` and
`get_cur_md`, `get_md*` (strategies). *Hard*: no lock and no sequence check, the index is read several
times per poll, the writer may lap a reader. *Correct when* an entry stays whole for a known while, a copy
can be told to be good from the index, a read is not older than the number it comes with, and a running
strategy always catches up. The queries by time (`get_md_by_tp`, `get_md`, `get_md_all`) search
without a lock as well; they are correct when what they name is right or, if the writer took it meanwhile, gone.

**Market-data region** (`RT_ShmMdPlus.h`, `RT_ShmUtil.h`). *State*: the file, its size, the heads with
their names, a sentinel (`current_index = -1`) in those that are free, maps from symbol to head on both
sides. *Operations*: `create_shm_ptr`, `set_shm_addr`, `on_rtn_data` of a new instrument, `get_shm`.
*Hard*: strategies attach at any step of the construction, of an insertion, of a crash and restart; a file
is replaced under its name. *Correct when* a strategy that attaches to a gateway which is ready survives
and finds what was there, and both sides agree on which head is whose.

**Message queue** (`RT_RingBuffer.h`, `RT_MQ.h`). *State*: `prod.head`, `prod.tail`, the slots; a cursor
per subscriber. *Operations*: `push` for several producers or a single one, `get_new`,
`try_read_new`, `get_all_pending`, `get_current`, `get_all`, `skipMessage`, `reset_to_beginning`, and the
startup of the two sides. *Hard*: claims race, copies finish out of order, a producer may die with a
claim, subscribers are lapped. *Correct when* each number has one owner, numbers are published in order
with whole messages, cursors never pass the tail and a claim is published in the end.

**Work queue** (`RT_ShmQueue.h`). *State*: the file and its magic number, `head`, `tail`, the items; a
private `_head` per object. *Operations*: the constructor, which creates or joins, `push`, `wait_and_pop`,
`try_pop`. *Hard*: competing consumers, a slot that is free before its item is copied, a full queue, joining
while the creator initializes, processes that die and come back. *Correct when* what waits is whole, an item
is taken once, and neither a waiting consumer nor a joiner waits for nothing.

**Three-slot market data** (`RT_ShmMdTick.h`). *State*: heads with an index, a name and three entries each; the
index -1 marks a free head. *Operations*: `create_shm_ptr`, `set_shm_addr`, `on_rtn_data`, `get_shm`,
`get_cur_md`. *Hard*: readers attach and walk the heads while they are laid out or taken; the entry is written
ahead of the index, under readers, and there are three slots only. *Correct when* a reader finds the
instruments that were there when it came, and can tell from the index that a copy is good. Like the
work queue it has no user in the repository; headers are what the library offers to others.

**Gateway** (`api/binance_md/src/binance_md.cpp`, `mht/src/RT_CryptoMDBase.cpp`). *State*: the
connections, the flags of its threads, `m_stats_mutex`. *Operations*: construction, `initialize` with
`request_connect`, `start`, `stop` with `on_stop`, destruction, the print of latencies, `on_reconn` from
the io threads. *Hard*: joins, a lock taken twice, callbacks from threads that nobody joins. *Correct
when* `initialize` and `stop` come to an end and a stopped gateway has no connection up.

**Websocket client** (`mht/include/K4_WsSslClient.h`). *State*: `ready_`, `stop_`,
`m_write_in_progress`, the send queue, the stream (replaced at each reconnection). *Operations*:
connect, send, the read loop, `re_connect`, `close`. *Hard*: failing reads and writes of one connection,
close against reconnect, handlers of a replaced stream. *Correct when* a ready connection has `stop_`
clear, one write is under way at a time, messages leave in order and once, nothing sent waits while the
connection it was sent on is up, one reconnection is made per loss, and a lost connection comes back.

**Runner** (`Tools/MDRunner/src/mdrunner.cpp`). *State*: library handles, the vector of resources, the
exit flag and condition variable. *Operations*: the load loop with a `continue` or a `catch` per failure,
the signal handler, the wait, the release. *Hard*: partial failure, a signal at any moment, the order of
`dlclose` and destruction. *Correct when* a library stays mapped for each gateway until that gateway is released,
what was started is a resource once, and a signal is not lost. More would be wanted, that threads end before their
code is unmapped and that a signal ends the program; the code does not give it (section 3).

**The rest**: `K4_TradeItem.h` (a cache of attached regions), `RT_Common.h` (codecs and calendar
arithmetic), `RT_ModuleBase`, loggers, exceptions (I/O), `RT_CryptoMDGateWay.h` and
`RT_RunnerTemplate.h` (templates nothing instantiates), `RT_CryptoDatatype.h` (records),
`binance_waste.h` (not included by anything), vendored json, rapidjson, spdlog, csv and hash map.

PROJECT.json lists every component with its status, and the hazards of the code at their lines.

## 2. The modules

| module | models | abstract specification | theorems |
|---|---|---|---|
| `MdRing` | the ring of one instrument, its writer and its readers | `LatestFeed` | `MdRing_proofs` |
| `MqRing` | `K4RingBuffer` with its producers and `MQ_Sub` | `MqLog` | `MqRing_proofs` |
| `ShmQueue` | the work queue, its producer, its consumers, its construction | | `ShmQueue_proofs` |
| `ShmRegion` | the life of a region: create, lay out, add, attach, crash | | `ShmRegion_proofs` |
| `ShmMdTick` | a three-slot region, its writer and its readers | | `ShmMdTick_proofs` |
| `MdQuery` | the queries by time over a ring that is written, and the calendar arithmetic of `get_md` | | `MdRing_proofs` |
| `Runner` | `main` of mdrunner and its signal handler | | `Runner_proofs` |
| `Gateway` | one `Binance_MD`, its owner, its threads and connections | | `Gateway_proofs` |
| `WsClient` | one `ws_ssl_client`, the threads that send, its io thread and its streams | | `WsClient_proofs` |

`MC*` modules give the constants their values for TLC. `MdRing` instantiates `LatestFeed` and `MqRing`
instantiates `MqLog` under a refinement mapping (`Feed`, `Log`). `MdQuery` extends `MdRing` and runs its queries
against the writer there, whose steps it takes over unchanged (`QueryNext`). The other modules meet at an interface
rather than by composition: the update that `ShmRegion` makes in one step (`Update`) is the one `MdRing`
takes apart (`CopyLo` to `CountUpdate`), the connection that `Gateway` follows through four steps is the client
`WsClient` looks into, and the gateways of `Runner`, whose `stop` may hang and whose io threads outlive it, are the
one `Gateway` looks into.

### How they correspond to the code

*MdRing.* One action per access that another process can tell apart. `on_rtn_data` is
`CopyLo`, `CopyHi` (the entry, in two halves so that torn copies exist), `Publish` (the fence and
`++current_index`), `CountUpdate`. `poll_depth10` is `PollCheck` (compare with the mark), `PollStore` (the
mark, from a second read of the volatile), `GetCurCheck` (`current_index >= 1`), `Resolve` (the slot, from a
fourth read), and `ReadLo`, `ReadHi` by the callback. `get_cur_md` is `GetNum` and the same resolution. An
entry is the number of the update it is. `delivered` is a history variable.

*MqRing.* `push` is `LoadHead`, `FullCheck`, `Cas` (which may fail and start over), `WriteLo`, `WriteHi`, `WaitTurn`,
`PublishTail`; with `is_single_p`, `ClaimSingle` stands for the first three and nobody waits. `get_new` has the same
claim, wait and publication, and no copy: `HandOut` takes the place of `WriteLo` and `WriteHi`, and what its caller
writes through the pointer (`FillLo`, `FillHi`) comes after the publication, at any time, a ring late too, or never.
Up to `LastGetNew`, each number may be one of `get_new`. Any producer may `Crash` at any step and leaves its claim
behind. Each method of `MQ_Sub` is a first step that reads the tail and moves the cursor when the code does, then one
copy per message in two halves; the loops re-enter `ReadLo`. `read`, `handed` and `spoilt` are history variables.

*ShmRegion.* A creation is a new inode (a region number), reached by name (`linked`) or by having been
mapped. `Remove`, `Open`, `Truncate`, `SetBuffNum`, then per instrument `ZeroHead`,
`CopyFirstWord`, `CopyRest`, then one `Sentinel` per free head. A gateway process does that twice
(`InitsPerRun`), for the constructor of `Binance_MD` and for mdrunner both call `init_shm`. `get_shm` is
`Exists`, `Stat`, `Map`, `ReadBuffNum`, one `Walk` per head, one `Load` per instrument. Names are sequences
of 8-byte words, since a name is copied under readers: a dated future has two words. `fresh` and `known`
are history variables. The last sentinel goes one head past the region. `m_shm_size` (RT_ShmMdPlus.h:85) has no room
for it and the lines that rounded it up to whole pages are commented out (89-94): that the rest of the last page
holds it is luck of the size, and the named assumption `LastHeadMapped` here. TLC evaluates it for the sizes of the
shipped configuration, for which it is true.

*ShmQueue.* `Open` creates or joins; the creator goes through `Truncate`, `SetMagic`, `SetTail`, `SetHead`
in the code's order, a joiner waits in `Join`, or faults on a file that has no size yet. `push` is
`PushCheck` (loads and full test), `WriteLo`, `WriteHi`, `Publish`; `wait_and_pop` is `WaitAndPop`, `LoadHead`,
`LoadTail`, `Cas`, and the copy in two halves, which `TryPop` shares. `Crash` starts a process again. `popped`
is a history variable, and so is `early`: it tells that a call began between the creator's magic number and
its reset of the indices. The module ends a behaviour there, for nothing holds of it any more.

*Runner.* `pc` is the step of `main`. Each failing call has its disjunct (`Skip`, `GiveUp`,
`Throw`), and the release of a resource is `~MDResource` in the order of the language: body, then members
(`Destroy`). In the body, `stop()` is `Stop` (`m_running`, the join of the work thread), `OnStop`
(`m_print_running`) and `StopReturns`, and then comes `DlClose`. A print thread that found `m_print_running` set
(`PrintCheck`) is `stuck`, and `StopReturns` is not enabled for its gateway any more. Gateways that made io threads
are in `io` and stay there, for nothing joins them; from the return of `stop()` on, or from an exception of
`initialize()` on, they may end the process (`Die`), as may a destructor whose library is gone. The wait is predicate,
sleep, wake; the handler is flag, notify.

*Gateway.* `opc` is the step of the owner, from construction to destruction, by way of
`RequestConnect`, a `Dial` and `KeepConn` or `GiveUp` per connection, `StartPrint`, `Start`, `Stop`,
`JoinWork`, `OnStop`, `JoinPrint`, `Close`, `Clear`, `ClearStats`. `work` and `print` are the two
threads, `io` one thread per connection. `PrintLatencyStats` is where the print thread stays: it takes
the mutex that it holds.

*WsClient.* The io thread runs one handler at a time: an operation that was begun is in `pending`, with the
stream it was begun on, and its handler is an action that takes it out (`OnResolved`, `OnConnected`,
`OnReady`, `OnRead`, `OnWrite`, and their errors). `re_connect` is `Replace` (the derived class puts a new
stream in place), `ReConnect` (up to the sleep) and `Redial`; the operations of the stream that was replaced
are still pending and end in any order. `send` is `Send` (the two flags, read without the mutex), `Push` under
the mutex and `DoWrite`: `StopWriting`, or `TakeFront` and, after the unlock, `AsyncWrite` on whatever stream
there is by then. `Drop` is the network, `Close` the owner. `closed`, `written` and the stream a message carries
are history. Three assumptions are stated at the head of the module: handlers run one at a time, those of an old
stream run before the new one is connected (two seconds and a connect later), and no thread stays between the
unlock of `do_write` and `async_write` for those two seconds.

*MdQuery.* One action per load of a time, for the writer of `MdRing` may take any of its steps between two. A query
reads the index once (`Begin`, as part of `GetMdByTp`, `GetMd` or `GetMdAll`), looks at the last entry and the first
(`ReadLast`, `ReadFirst`), then at the last again (`ReadEnd`), and searches: `Guess` is the test of `start_dat_short`
that `get_md` makes before each search, `Narrow` one round of the loop (three copies of it in the code), `LoopOver`
the ways out of it, `SettleEnd` and `SettleStart` the step back or forward that follows. `ReadStart` is the test of the
first entry between the two searches of `get_md`. A time is a number and `feed` gives each update its own; that the
times of an instrument do not decrease is an assumption about the exchange (`QueryAssumption`). Entry `i` of the code is
update `i + 1` of `MdRing`. The times that a query returns beside its indices are left out. `TotalDays` is the two loops
of `dateToSeconds`, as recursive functions; `CalOffsetSec` takes the fields of a stamp apart.

*ShmMdTick.* `CreateShmPtr`, one `InitInstrument` per instrument, one `MarkTail` per head left, `LayoutDone`;
`on_rtn_data` is `Update`, or `Add` and `Name` for an instrument it does not know, then `CopyLo`, `CopyHi`,
`Publish`. A reader goes through `GetShm`, `WalkOn` per head until `WalkEnds`, `LoadInstruments`, and then
`GetNum`, `Resolve`, `ReadLo`, `ReadHi` any number of times. `early` and `promised` are history variables.

## 3. The runs

`tlc -config X.cfg MCModule` for each. Passing runs:

| run | configuration | instance | states |
|---|---|---|---|
| `md_ring` | MdRing.cfg | 1 poller, 1 getter, ring of 3, 4 updates | 457 000 |
| `mq_ring` | MqRing.cfg | 2 producers, 1 subscriber, ring of 3, 4 messages, `get_new` for the first | 1 077 000 |
| `mq_single` | MqSingle.cfg | 1 producer in `is_single_p`, 1 subscriber, ring of 2, 4 messages, `get_new` for any | 520 000 |
| `shm_queue` | ShmQueue.cfg | 1 producer, 2 consumers, queue of 2, 3 items, 1 death | 234 000 |
| `shm_region` | ShmRegion.cfg | 3 heads, 4 symbols, 3 creations, 1 strategy | 279 000 |
| `runner` | Runner.cfg | 3 connections, 2 libraries, 2 signals | 22 300 |
| `gateway` | Gateway.cfg | 2 connections | 5 800 |
| `ws_client` | WsClient.cfg | 2 sending threads, 3 messages, 3 failures or losses, 1 close | 189 000 |
| `md_query` | MdQuery.cfg | ring of 5, 7 updates, 15 feeds, one query at any moment | 1 440 000 |
| `md_tick` | ShmMdTick.cfg | 3 heads, 3 instruments, 3 slots, 4 updates each, 1 reader | 1 540 000 |

**md_ring** shows, over every interleaving of the steps of one `on_rtn_data` and the readers: the last
`BlockNum` entries are whole (`RingWindow`), a copy is good if the index is less than `BlockNum - 1` past its
entry when the copy is complete (`IntactUntilLapped`; the code never tests this, strategies may), a read
is never older than the number it came with even when torn (`NeverOlderThanTag`), deliveries never go back
(`NeverBackwards`), and the whole implements `LatestFeed` (`FeedSpec`), which says besides that every update, or a
later one, reaches a running strategy.

**mq_ring** shows each claimed number to have one owner (`InFlightOwned`), published messages to be whole until the
number one ring on is claimed (`PublishedWindow`), what a subscriber can trust from the tail alone (`Intact`), both
with the exceptions that `get_new` makes (its number is whole from when its caller has written it, of which the tail
tells nothing, and a caller that writes a ring late spoils what is in the slot by then), cursors to stay behind the
tail through every mix of methods (`CursorBehindTail`), the tail to step by one whoever stores it
(`PublishedInOrder`), and a claim to be published unless some producer died (`ClaimIsPublished`; after a death the
others wait for ever, which is what the code does).

**mq_single** takes the mode that neither compares nor waits, with a subscriber that only
takes messages: the queue implements `MqLog` (`LogSpec`), and so the subscriber passes every published message, of
`push` or of `get_new`.

**shm_queue** shows the items between head and tail to be whole whatever dies (`WaitingWhole`), each number
below the head to have been taken by exactly one consumer (`PoppedOnce`), a copy to be good when the tail has
moved less than a queue's length past it (`CopyWhole`; the slot is free before the copy, so that is not
given), the item at the head to be taken while someone waits (`WaiterServed`), and a joiner to get on
(`JoinEnds`), the last two unless a process died: one that dies before it writes the magic number leaves a
file that nobody can ever use.

**shm_region**: the gateway creates its region twice and is given either a list that leaves room or one that
fills the region (as `Binance_MD` sizes it), receives symbols it knows, new ones and one too many, may die at
any step and start again with the other list; a strategy attaches at any step of all this. A strategy that
begins when the gateway is ready, and whose file is not removed meanwhile, never dies
(`FreshSurvives`) and knows what was there (`SnapshotComplete`); whenever it attached, an instrument it knows
is at the head the gateway writes (`SameHead`); a head that carries a name is never reset while anyone can
see it (`HeadsKept`); `get_shm` ends (`AttachEnds`). That a strategy may die if it attaches earlier is in the
model (step `gone`), and the code does nothing against it.

**runner**: whatever fails and whenever signals come, a gateway that runs or has io threads holds a reference of its
own on its library until its own handle is closed (`MappedUntilReleased`), what was started is among the resources
once (`StartedIsManaged`), and a signal during the load is heard (`EarlySignalHeard`): the program ends, or `main`
is in the join of a print thread that printed, which is where `gateway_stop` shows a `stop` to stay.

**gateway**: however connections come up, fail and are lost, `initialize` and `start` end (`InitEnds`), `stop`
joins the work thread and reaches `on_stop` (`StopReachesOnStop`), and a ready connection that the gateway
did not close has `stop_` clear (`ReadyNotStopped`), on which `send` and the read loop depend.

**ws_client**: `m_write_in_progress` is set exactly while one write, or one thread on its way to it, is under way,
through every loss and every late handler (`FlagOwned`); the message a finished write pops is the one it wrote
(`WritesFront`); messages leave in the order they were pushed and none twice, across connections
(`WrittenInOrder`); there is one attempt or one connection, never two (`OneConnection`); a client that is down comes
up again unless it was closed (`ComesBack`); and what was sent on a connection that stays is written
(`SentUnlessLost`).

**md_query**: whatever is asked, and whatever the writer overwrites between two loads, an answer never names a wrong
entry that the ring still holds. `get_md_by_tp` names the last moment at or before the one asked for, and says no when
there is none (`ByTpFinds`); `get_md` names the first and the last moment of the interval, `get_md_all` the whole ring
(`RangeFinds`). If the entry is gone by the time of the answer, nothing is said of it, but that can only happen if the
first entry of the ring at the call was overwritten meanwhile or if `get_md` began to search before it
(`WithinRing`, `AnswerInRing`). From one day to the next `cal_offset_sec` counts a day, around leap years and
centuries (`DayIsADay`).

**md_tick**: a reader that attaches to a region which is laid out knows every instrument that had its head by then,
and walks off only when the last head was taken (`AttachFinds`); a copy is good if the index is at most one past
its entry when it is complete (`IntactOneBehind`); a copy is of no older entry than its number (`TickNotOlder`).

### Where the code and its comments disagree

Each of these runs checks one statement of the sources, and TLC shows a behaviour of the code against it.

| run | the sources say | the code does |
|---|---|---|
| `runner_signal` | `notify_all` wakes the waiting main thread (mdrunner.cpp:99) | not if main is between predicate and sleep: the handler does not hold the mutex |
| `gateway_stop` | the lock makes `print_product_stats` safe (binance_md.cpp:542) | the caller holds it; the thread, and `stop`, wait for ever |

Met while modelling, without a run of their own:

- `skipMessage(i)` promises to read on from `i` (RT_MQ.h:298); `try_read_new` increments the cursor before it reads
  (233), so that reading continues at `i + 1`. `SkipMessage` has it so.
- `~MDResource` unloads the library (mdrunner.cpp:139) before the gateway, whose destructor is in it, is destroyed as
  a member: `DlClose` and `Destroy` of `Runner`, in that order, and `Die` between.
- `stop()` closes the websocket clients and joins none of their io threads (binance_md.cpp:576-592), which still run
  code of the library when `~MDResource` closes it, and after an exception of `initialize()` call into a gateway that
  is gone (`Die`).
- A signal ends the program only if no gateway came to print: the print thread locks `m_stats_mutex` twice
  (binance_md.cpp:531, 542) within the first interval, and `on_stop` joins it (160). `Runner` has `main` stay there.
- `get_new` publishes its number (RT_RingBuffer.h:210, 247) with the previous message of the slot in it: subscribers
  take that, or half of the new one, for the message until the caller has written it. `HandOut` and `Fill` have it so,
  and `Intact` promises nothing of such a number.
- A connection that was reconnecting when the gateway closed it comes up again, although all are said to have stopped
  (binance_md.cpp:591): `re_connect` ignores that `stop_` was set and `on_connected` clears it
  (K4_WsSslClient.h:77, 286). Both `Gateway` and `WsClient` have the steps.
- What is in the send queue when a connection is lost, or was pushed while `ready_` was being cleared, stays there on
  the next connection until someone calls `send()` (K4_WsSslClient.h:118-128 starts no write): the reason why
  `SentUnlessLost` is about connections that stay.
- `get_md` does not clip its guess at the oldest entry (RT_ShmMdPlus.h:435): for a duration that leads beyond it the
  search runs over slots that were reused. It then may name an index the ring gave up even if nobody writes; that
  it never names a wrong one that is held is `RangeFinds`. Of several entries with one time any may be the
  limit (394). An empty ring is answered with index 2^64 - 1 (371, 545); no query is modelled of one.
- `shm_md_tick` may give its last head away (RT_ShmMdTick.h:284), after which a walk has nothing to end at;
  `Is_updated` is false for an instrument whose index is 0 (194).

And of smaller reach: `get_all` begins with slot 0, which no one pushed, or which
comes again at the end (RT_MQ.h:284); `try_pop` uses a `_head` that the constructor says needs no initial
value (RT_ShmQueue.h:115, 168); the `m_bDoneConnect` that `request_connect` sets
(binance_md.cpp:684) is not the one the base waits for (RT_CryptoMDBase.h:38), and the value it returns is
taken for a failure; clients are released while their thread is joinable, which ends the process
(binance_md.cpp:167, modelled as `terminated`); a handle leaks when `init_shm` throws (mdrunner.cpp:246 against
190, modelled by `Throw`).

### Bounds

Every unbounded counter has a named bound in a guard.

- `BlockNum` 3 and `MaxUpdates` 4: the ring wraps, an entry is overwritten under a reader, and the margin
  `BlockNum - 1` of `IntactUntilLapped` is neither 0 nor the whole ring. A second reader touches nothing the
  first reads; the theorems hold for any number.
- `RingSize` 3, two producers, `MaxMessages` 4: two claims in flight with a slot to spare, a wrap, and a
  producer that dies with a claim older or newer than the other's. `LastGetNew` 1: the first message may be one of
  `get_new`, is read empty, half written and whole, and is written late over number 4, which has its slot; with
  `RingSize` 2 in `mq_single`, which wraps twice, any may. The theorems hold for any bound.
- `Size` 2, `MaxItems` 3, `MaxCrashes` 1: the queue is full, wraps and reuses a slot under a consumer; two
  consumers race for one item; the creator, the producer within a push or a consumer with an item dies.
  `Garbage` -1 lets `try_pop` begin before the shared head; one of the consumers calls it.
- `MaxNum` 3, `MaxRegions` 3, `InitsPerRun` 2: a list that leaves room for one more and its refusal, a full
  region with only the sentinel past its end, and a restart that removes a region a strategy has mapped.
  `MaxUpdates` 1, the least there is, for a new instrument comes with its first update, tells a head with data from
  one without. One strategy: strategies write nothing.
- `ThreeConns`: two connections share a library and one has another, so that references above 1 and failures
  before and after a success occur. Two signals: one can be lost and another wake main.
- `NumConns` 2: one connection kept, one given up, and one that reconnects while the other is closed.
- `MaxSends` 3, `MaxFailures` 3, two senders: one message being written, one that waits and one that is pushed
  during the handover; a loss, a failing attempt and another loss. The owner closes once.
- In `md_query` `BlockNum` 5 and `MaxUpdates` 7: the ring is asked before, while and after it wraps for the first time,
  up to two entries are overwritten under a query, and a binary search takes three rounds. Two updates have the time
  of the one before, the others are two apart, so that moments fall on, between, before and after entries. `PerSecond`
  is 1 for the 4 of the code and `Offsets` are 0 and 3, so that guesses fall before, into and after the interval
  and before the ring. No readers: they change nothing of the ring. The theorems hold for every such value.
- `MaxNum` 3 with one instrument at first: one head to take, then the last one. Four updates over the three slots
  of the code wrap.

`CHECK_DEADLOCK` is off: the bounds end the counters, strategies die, and programs end.

### Fairness

- *MdRing*: `WF` on each poller's steps. `work()` is a busy loop without a wait. Nothing of the feed
  nor of `get_cur_md` callers.
- *MqRing*: `WF` on a push or `get_new` that has its number, while the process lives (`FairSpec`); a dead producer has
  no steps, and the caller of `get_new` need not write. In `Spec` also on the subscriber, whose loop is to poll.
  Nobody has to push.
- *ShmQueue*: `WF` on a constructor that began (its process runs, its wait polls) and on the steps of a
  `wait_and_pop`. Nobody has to push, to pop or to come back.
- *ShmRegion*: `WF` on a strategy's `get_shm`. Nothing of the gateway, which may stay half way for ever.
- *Runner*: `WF` on `main` when it neither sleeps nor joins a thread that does not end, and on a handler that began.
  Signals and spurious wakings may never come, a print thread may look at its flag late, and nothing has to end the
  process. `initialize` and `start` return (`InitEnds` of `gateway`), and so does the join of the work thread
  (`StopReachesOnStop`).
- *WsClient*: `WF` on each thread that is inside `send`, and on the io thread: `io_context::run` runs what is ready. The
  network need not lose anything, and an attempt that may not fail any more (`MaxFailures`) succeeds. A handler that is
  due comes: every lost connection and every attempt is reported at some time. The client sets no timeout, so that a
  connection whose peer falls silent is never found lost; `ComesBack` does not speak of it.
- *MdQuery*, *ShmMdTick*: none, they have no liveness property.
- *Gateway*: `WF` on the owner (not on `Stop` and `Destroy`, its choice), the work thread, the print
  thread, and `on_reconn`, which waits for nothing but the mutex. Nothing of the network.

### Memory and writers

Steps interleave under sequential consistency. The code runs on x86: stores are not reordered with stores
nor loads with loads, market-data readers only load and their writer's fence separates the entry from the
index, and a claim of the queue is a locked instruction followed by stores and by a loop of loads whose
early evaluation only makes a producer wait longer. Weaker machines are not covered.

`MdRing` has one writer. `on_rtn_data` locks nothing, and the shipped configuration opens several connections
per product which subscribe to the same symbols and have a thread each. At this commit their callbacks print
and parse nothing, so that no thread of the repository calls `on_rtn_data`: the theorems are about one writer,
and calling it from each callback would leave their ground.

## 4. The theorems

`tlapm M.tla` checks them, for M each of `MdRing_proofs`, `MqRing_proofs`, `ShmQueue_proofs`, `ShmRegion_proofs`,
`ShmMdTick_proofs`, `WsClient_proofs`, `Runner_proofs` and `Gateway_proofs`, from the named assumptions on the
constants alone (`MdRingAssumption` and so on): any number of readers, subscribers, consumers, strategies, senders,
connections and producers (of the message queue, at most as many as slots), any ring length, any number of heads, any
bound on updates, items, messages, losses and deaths. Each module proves `Invariance`, that a strengthening `IInv`
always holds, and reads the others off it.

**Market-data ring.** `Invariance` proves `SafeSpec => []IInv`, one step per action of the writer
(`WriterStep`) and of a reader (`ReaderStep`). The window and the trust condition are not inductive by
themselves. `IInv` adds

- `WriterSlot`: what a half-written slot holds, so that publishing it extends `RingWindow`;
- `NeverOlder`: no slot goes back to an older entry, which is why even a torn copy is not old;
- `ReaderProgress`, `MarkBound`: how far each reader is, so that a mark or a tag never exceeds the index, nor
  the entry its read resolved to;
- `HalfRead`: what the first half of a copy is worth, under the same condition on the index as the whole.

The arithmetic, here and in the two queues, is `ModDistinct`: two different numbers less than a ring apart have
different remainders. From `IInv` follow `TypeCorrect`, `WindowKept`, `CopyIntact`, `ReadNotStale`,
`PollLosesNothing` (a mark stored before the entry is read hides no update), the action property
`DeliveryMonotone`, and `ImplementsFeed`: initial states and steps map to those of `LatestFeed` or to stutters.

**Message queue.** The heart is `InFlightOwned`: claims are exactly the numbers between tail and head, one producer
each, whether by `push` or by `get_new`. By counting (`OwnersBoundFlight`, an injection into the producers) there are
never more of them than producers, hence at most a ring (`FlightFitsRing`), so that claims in flight never share a
slot (`ClaimsApart`) nor hit the window (`WindowApart`). `PushProgress` says what each step of a push has established
and `FillProgress` what each write of a caller of `get_new` has, `HalfCopied` and `Copied` what a copy is worth as
long as the head, which a subscriber cannot see, is less than a ring further on; `CopyIntact` turns that into a
condition on the tail, at the price of the number of producers. `PublishedInOrder` needs that a producer at its last
step has the tail at its own claim, and that is preserved because claims are unique. `ImplementsLog` is about
subscribers that only take messages (`TakingSpec`): `skipMessage` and `reset_to_beginning` are meant to break the
log's order.

**Work queue.** `WaitingStaysWhole`, `TakenOnce` and `CopyTrusted` state the three invariants of `shm_queue`. None is
inductive: that nothing is lost at startup needs `OneCreator` (one process constructs the queue and resets indices
that are 0 still, because no call has begun, or the behaviour has ended with `early`); that a push spoils nothing
needs `PushProgress` (a producer on its way found room, also after a death, which leaves the tail alone). `Held` says
that the last `Size - 1` items are whole, popped or not: it is what a consumer reads after it has given the slot
free, and it gives `CopyWhole` its condition on the tail. `CopyHalf` is the same for the first half of a copy.

**Runner.** `MappedUntilRelease` counts: `RefsCover` says that a library has at least as many references as there are
`Holders` of it, the gateways not yet released that run or have io threads, and the one being loaded or released; a
leaked handle (of a load that threw) is what holds the threads of a gateway that was destroyed then. `IoBefore` says
that such threads are of connections that are done with, and `ReleasedIs` that handles are closed in the order of the
vector, each under the gateway that `main` has just stopped. `Resources` and `RunningIs` say at each step of `main`
which gateways run in terms of the vector, which is what the release walks over, and give `StartedManaged`.
`RefsBound` is for the types.

**Market-data region.** The region the gateway is at work on is described step by step: `Files` (which calls of
`create_shm_ptr` are done), `Listed` (the place in the list), `Placed` (which head each instrument of the gateway's
map has; the one being initialized is in the map already, at the head that `m_md_num` does not count yet) and `Shape`
(what the heads hold: in use below `m_md_num`, nameless above it, sentinels from `tail` down to `m_md_num` and, once
the layout is complete, everywhere from `Free` on). That head is the whole difficulty of an insertion under a walk: it
is zeroed, so that the walk takes it, before `m_md_num` is counted, and what keeps the walk inside is that the head
behind it is a sentinel already: there is always one, for the head past the end has one and no instrument takes it.
`Settled` is what a complete layout leaves to those who cannot see the gateway, and what its death does not change: a
sentinel past the end, nothing but sentinels behind the first one, and no name on any of them. A fresh strategy always
has a settled region (`Ready`), and `FreshOf` follows it: a walk that is not over stands at or before the head past
the end; when it is over, every head with a name is before it; and each of these gets into the map.
`FreshAlwaysSurvives` and `SnapshotIsComplete` are read off that. For `HeadIsTheSame`, `AddressedOf` says that what
any strategy has under a symbol is a head of that name, and `OneHead` that there is only one, for which the assumption
is needed that symbols are stored apart (`ShmRegionAssumption`: no two symbols share their first 15 characters, and
none is stored like the first word of another). `Kept` is what each step of the gateway but `Remove` and `Open` does
to its region, and gives `HeadsAreKept`.

**Three-slot market data.** `Layout` says which heads are in use, zeroed, or sentinels at each step of the layout,
`Names` that the heads with a name are exactly those given away, and `AtWork` what the half-written entry holds.
`Walks` bounds a reader that came after the layout: it stops at the first free head, `Free`, unless all were taken.
`LastTwoWhole` is the window of this ring: the newest entry and the one before it are whole even while the next is
written, because that one has the third slot; `NeverOlder` says that slots only move on, and `CopyProgress` what
each half of a copy is worth as long as the index is at most one past it. `AttachFindsAll`, `CopyIntact` and
`CopyNotOlder` follow.

**Websocket client.** The invariant has two parts that meet only where a write begins. `Sending` is about the queue:
`OneWriter` (the flag is the token that one pending write, or one thread on its way to it, holds; a handler of a
replaced stream holds it as well as one of the current), `Queued` (messages are numbered as pushed, so that the one in
front is `Popped + 1`), `WrittenLast` and `AboutToWrite` (a write in flight is of that one). They give `FlagIsOwned`,
`FrontIsWritten` and `OrderOfWrites`. `Connecting` is about the stream: `OneAttempt` says that during an attempt
nothing is ready and `stop_` keeps the late handlers of older streams from beginning another, and that none of these
is left when the handshake is under way, at which `stop_` is clear again; `OneRead` says the same of read loops. These
two are where the three assumptions at the head of `WsClient` are used, and give `ConnectionIsOne`.

**Gateway.** `ReadyCanSend` rests on `ClearSinceConnected`: from `on_connected` on, through the handshake and until
the next `re_connect`, `stop_` is clear unless the gateway closed the connection, and a connection whose io thread
ended was closed. `Undialled` says which connections were not dialled yet, and `NoPrintYet` that the mutex is free
until there is a print thread.

**Queries by time.** `QueryInvariance` adds `QueryInv` and `InRing` to the `IInv` of the ring. A query trusts slots that
may be overwritten under it, and `TimeRead` says how far it can: a load of entry `i` returns the time of that entry if
the ring holds it, and otherwise one as late or later. As entries are given up in their order, one that reads too late
is gone together with all before it, so that a search which goes astray can only end at an entry that is gone. `Between`
states it of the loop: what is left of `left` is earlier than the moment sought, what is right of `right` is later
or gone; `Met` is the same of the loop that was left early. `EndSettles` and `StartSettles` conclude from the one or
the other what the last step names, `GuessSkipsEarlier` why the guess may be anything: an entry that reads as earlier
is earlier. `WriterKeeps` says why a step of the writer spoils none of this: what is held only shrinks, and what a
slot reads only grows. `InRing` says that a search which began within the ring is still in it unless the first entry was
overwritten (`NarrowStaysInRing`). `ByTpAnswers` and `RangeAnswers` are read off these.

**Calendar.** `DaysAreDays` is about every year from 1970 on. The sum over the years is a recursive function; that it
satisfies its equation (`DaysOfYearsDef`) is shown by exhibiting a function that does, the closed form `DaysBefore`, and
that it equals that form (`DaysOfYearsValue`) by taking the least year at which they would differ (`WFMin`). The
months of a year are twelve equations.

Each `IInv`, `QueryInv` and `InRing` were checked by TLC on the instances of the runs too; the runs check what it implies.

**Only model-checked**: everything about liveness (`ClaimIsPublished`, `WaiterServed`, `JoinEnds`,
`AttachEnds`, `EarlySignalHeard`, `InitEnds`, `StopReachesOnStop`, `ComesBack`, `SentUnlessLost`, the liveness half of
both refinements), which the provers cannot do. Every safety property of the passing runs is a theorem. No
module has a RECURSIVE operator; the one induction over numbers is the least year above.

## 5. What is not modelled

- The comparison callback of `on_rtn_data` (which is given the oldest entry as the newest, RT_ShmMdPlus.h:589);
  several threads in `on_rtn_data`; the
  unsynchronised map between `sub_depth10` and `work()`; `re_init_shm`, `open_or_create` and `sub_md` of the
  region, which nothing calls.
- The startup of `MQ_Pub` and `MQ_Sub`; `zero()` (RT_RingBuffer.h:40), which resets head and tail under whoever uses
  the queue; the 32-bit overflow of the work queue's indices.
- The data race on `ws_` itself (a shared pointer that `re_connect` assigns while a sender uses it) and the buffer of
  `async_write`, a local variable of `do_write` (K4_WsSslClient.h:164): a lifetime fault of any outcome. `WsClient`
  has what the code means to do. What is counted in the latency statistics.
- `md_manager`, the helpers of `RT_Common.h` but for the calendar, the module base, logging, configuration: lookups,
  pure functions and I/O. The parse functions of the gateway have no caller.
- Generic templates without an instance, `binance_waste.h`, vendored libraries, build files. Boost.Asio,
  Beast and the operating system are external.

Of the 73 000 lines of the tree, some 67 000 are vendored (json, rapidjson, spdlog with fmt, csv, a hash map). The
models are of what the repository itself does, about 5 700 lines with their logging, parsing and dead code.

## 6. Plan

1. `MqAttach`: `MQ_Pub` and `MQ_Sub` creating, mapping, validating and zeroing one file in any order.
2. `MdWriters`: several `on_rtn_data` at once, to state what the one-writer assumption buys.
3. Proofs of what these will state.

A later module takes the place of a run that says less, so that the project stays checked in minutes.
