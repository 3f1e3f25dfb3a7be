------------------------------- MODULE MdQuery --------------------------------
(***************************************************************************)
(* The queries by time of RT_ShmMdPlus.h (get_md_by_tp, get_md, get_md_all)*)
(* on the ring of one instrument while on_rtn_data goes on writing it, and *)
(* the offset in seconds get_md starts its search from (RT_Common.h).      *)
(*                                                                         *)
(* A query reads current_index once and then, without a lock, one time     *)
(* (NTimeMill, a 64-bit load) after the other; the writer of MdRing may    *)
(* take any of its steps between two of them.  Entry i of the code is      *)
(* update i + 1 of MdRing and feed[i + 1] is its time; the times of a feed *)
(* do not decrease.  A query changes nothing of the ring, so a behaviour   *)
(* has one query, at any moment; the threads that read the newest entry    *)
(* change nothing of it either and take no steps here.                     *)
(***************************************************************************)
EXTENDS MdRing

CONSTANTS
    PerSecond,  \* updates a second that get_md reckons with: 4 in the code
    Feeds,      \* the times of the updates, 0 that of the zeroed memory
    Tps,        \* moments that are asked for
    Offsets,    \* numbers of seconds an interval is said to have
    Years       \* years the calendar arithmetic is checked on

ASSUME QueryAssumption ==
    /\ PerSecond \in Nat
    /\ \A f \in Feeds :
          /\ f \in [0 .. MaxUpdates -> Nat]
          /\ f[0] = 0
          /\ \A m, n \in 0 .. MaxUpdates : m <= n => f[m] <= f[n]
    /\ Tps \subseteq Nat
    /\ Offsets \subseteq Nat
    /\ Years \subseteq Nat /\ \A y \in Years : y >= 1970

VARIABLES
    feed,         \* update -> its time, chosen at first
    qpc,          \* the step the query is at
    asked,        \* what it was called with
    start, end,   \* the first and the last entry of the ring when it was called
    left, right,  \* the entries its search is between
    ret, start_index, end_index  \* its answer, md_ret

locals == <<start, end, left, right>>
answer == <<ret, start_index, end_index>>
queryVars == <<feed, qpc, asked, locals, answer>>
allVars == <<vars, queryVars>>

-----------------------------------------------------------------------------
(* The calls.                                                              *)

NotAsked == [call |-> "none", start_tp |-> 0, end_tp |-> 0, offset_sec |-> 0]

QueryInit ==
    /\ Init
    /\ feed \in Feeds
    /\ qpc = "none"
    /\ asked = NotAsked
    /\ start = 0 /\ end = 0 /\ left = 0 /\ right = 0
    /\ ret = FALSE /\ start_index = 0 /\ end_index = 0

\* current_index - 1 of an empty ring is 2^64 - 1; no query is made of one here.
Begin(call, start_tp, end_tp, offset_sec) ==
    /\ qpc = "none"
    /\ current_index > 0
    /\ asked' = [call |-> call, start_tp |-> start_tp, end_tp |-> end_tp,
                 offset_sec |-> offset_sec]
    /\ end' = current_index - 1
    /\ start' = IF current_index >= BlockNum THEN current_index - BlockNum ELSE 0

GetMdByTp(end_tp) ==
    /\ Begin("get_md_by_tp", 0, end_tp, 0)
    /\ qpc' = "first"
    /\ UNCHANGED <<feed, left, right, answer>>

GetMd(start_tp, end_tp, offset_sec) ==
    /\ Begin("get_md", start_tp, end_tp, offset_sec)
    /\ qpc' = IF start_tp > end_tp THEN "done" ELSE "last"
    /\ UNCHANGED <<feed, left, right, answer>>

\* All of the ring, without a look at it.
GetMdAll ==
    /\ Begin("get_md_all", 0, feed[MaxUpdates], 0)
    /\ start_index' = start'
    /\ end_index' = end'
    /\ ret' = TRUE
    /\ qpc' = "done"
    /\ UNCHANGED <<feed, left, right>>

Call ==
    \/ GetMdAll
    \/ \E end_tp \in Tps : GetMdByTp(end_tp)
    \/ \E start_tp, end_tp \in Tps, offset_sec \in Offsets :
          GetMd(start_tp, end_tp, offset_sec)

-----------------------------------------------------------------------------
(* The checks before a search.                                             *)

\* dat[i % MD_BLOCK_NUM].NTimeMill
Time(i) == feed[dat[i % BlockNum].lo]

ByTp == asked.call = "get_md_by_tp"

\* end_dat->NTimeMill < start_tp, which only get_md asks
ReadLast ==
    /\ qpc = "last"
    /\ qpc' = IF Time(end) < asked.start_tp THEN "done" ELSE "first"
    /\ UNCHANGED <<feed, asked, locals, answer>>

\* start_dat->NTimeMill > end_tp
ReadFirst ==
    /\ qpc = "first"
    /\ \/ /\ Time(start) > asked.end_tp
          /\ qpc' = "done"
          /\ UNCHANGED ret
       \/ /\ Time(start) <= asked.end_tp
          /\ qpc' = "end"
          /\ ret' = TRUE
    /\ UNCHANGED <<feed, asked, locals, start_index, end_index>>

\* get_md_by_tp answers with one entry; get_md goes on to look for the first.
FoundEnd(i) ==
    /\ end_index' = i
    /\ start_index' = IF ByTp THEN i ELSE start_index
    /\ qpc' = IF ByTp THEN "done" ELSE "guess_start"

\* end_tp >= end_dat->NTimeMill; get_md_by_tp searches the whole ring if not.
ReadEnd ==
    /\ qpc = "end"
    /\ \/ /\ asked.end_tp >= Time(end)
          /\ FoundEnd(end)
          /\ UNCHANGED <<left, right>>
       \/ /\ asked.end_tp < Time(end)
          /\ qpc' = IF ByTp THEN "narrow_end" ELSE "guess_end"
          /\ left' = start
          /\ right' = end
          /\ UNCHANGED <<start_index, end_index>>
    /\ UNCHANGED <<feed, asked, start, end, ret>>

\* start_tp <= start_dat_long->NTimeMill
ReadStart ==
    /\ qpc = "start"
    /\ \/ /\ asked.start_tp <= Time(start)
          /\ start_index' = start
          /\ qpc' = "done"
       \/ /\ asked.start_tp > Time(start)
          /\ qpc' = "narrow_start"
          /\ UNCHANGED start_index
    /\ UNCHANGED <<feed, asked, locals, ret, end_index>>

-----------------------------------------------------------------------------
(* The binary searches.                                                    *)

\* Where get_md expects the entry of offset_sec seconds ago, with two seconds to
\* spare: an entry that the ring may long have given up.
StartShort ==
    LET guess == end - PerSecond * (asked.offset_sec + 2)
    IN IF guess < 0 THEN 0 ELSE guess

\* A search that trusts the guess.
SearchFromGuess(tp) == StartShort

SearchFrom(tp) == IF Time(StartShort) >= tp THEN start ELSE StartShort

\* start_dat_short->NTimeMill is read for both searches.
Guess(pc, tp, next) ==
    /\ qpc = pc
    /\ left' = SearchFrom(tp)
    /\ right' = end
    /\ qpc' = next
    /\ UNCHANGED <<feed, asked, start, end, answer>>

\* One round of the loop.  It is left early with right = mid.
Narrow(pc, tp, settle) ==
    LET mid == (left + right) \div 2 IN
    /\ qpc = pc
    /\ left < right
    /\ \/ /\ Time(mid) = tp \/ (Time(mid) > tp /\ mid = 0)
          /\ right' = mid
          /\ qpc' = settle
          /\ UNCHANGED left
       \/ /\ Time(mid) > tp /\ mid > 0
          /\ right' = mid - 1
          /\ UNCHANGED <<left, qpc>>
       \/ /\ Time(mid) < tp
          /\ left' = mid + 1
          /\ UNCHANGED <<right, qpc>>
    /\ UNCHANGED <<feed, asked, start, end, answer>>

LoopOver(narrow, settle) == qpc = settle \/ (qpc = narrow /\ left >= right)

GuessEnd == Guess("guess_end", asked.end_tp, "narrow_end")
NarrowEnd == Narrow("narrow_end", asked.end_tp, "settle_end")

\* A search for the end that stops where the loop does.
SettleEndAtLoop ==
    /\ LoopOver("narrow_end", "settle_end")
    /\ FoundEnd(right)
    /\ UNCHANGED <<feed, asked, locals, ret>>

SettleEnd ==
    /\ LoopOver("narrow_end", "settle_end")
    /\ FoundEnd(IF Time(right) > asked.end_tp /\ right >= 1 THEN right - 1 ELSE right)
    /\ UNCHANGED <<feed, asked, locals, ret>>

GuessStart == Guess("guess_start", asked.start_tp, "start")
NarrowStart == Narrow("narrow_start", asked.start_tp, "settle_start")

SettleStart ==
    /\ LoopOver("narrow_start", "settle_start")
    /\ start_index' = IF Time(right) < asked.start_tp /\ right < end THEN right + 1 ELSE right
    /\ qpc' = "done"
    /\ UNCHANGED <<feed, asked, locals, ret, end_index>>

Query ==
    \/ Call \/ ReadLast \/ ReadFirst \/ ReadEnd \/ ReadStart
    \/ GuessEnd \/ NarrowEnd \/ SettleEnd
    \/ GuessStart \/ NarrowStart \/ SettleStart

QueryNext ==
    \/ OnRtnData /\ UNCHANGED queryVars
    \/ Query /\ UNCHANGED vars

QuerySpec == QueryInit /\ [][QueryNext]_allVars

-----------------------------------------------------------------------------
(* cal_offset_sec.  A moment is [y, m, d, s], s the second of its day.     *)

\* Without the exception for centuries.
isJulianLeapYear(year) == year % 4 = 0

isLeapYear(year) == (year % 4 = 0 /\ year % 100 # 0) \/ year % 400 = 0

DAYS_PER_MONTH(year) ==
    <<31, IF isLeapYear(year) THEN 29 ELSE 28, 31, 30, 31, 30, 31, 31, 30, 31, 30, 31>>

\* The two loops of dateToSeconds.
DaysOfYears[y \in Nat] ==
    IF y <= 1970 THEN 0 ELSE DaysOfYears[y - 1] + (IF isLeapYear(y - 1) THEN 366 ELSE 365)

DaysOfMonths(year) ==
    LET days[m \in 1 .. 12] == IF m <= 1 THEN 0 ELSE days[m - 1] + DAYS_PER_MONTH(year)[m - 1]
    IN days

TotalDays(t) == t.d - 1 + DaysOfYears[t.y] + DaysOfMonths(t.y)[t.m]

CalOffsetSec(t1, t2) == (TotalDays(t2) - TotalDays(t1)) * 86400 + t2.s - t1.s

-----------------------------------------------------------------------------
(* Properties.                                                             *)

\* The entries the ring holds for good or, for the oldest, until it is overwritten.
Holds(i) ==
    /\ i \in 0 .. current_index - 1
    /\ i >= current_index - BlockNum
    /\ Overwriting => i # current_index - BlockNum

\* By definition, of the entries the ring had when the query began.
TimeOf(i) == feed[i + 1]
Before == {i \in start .. end : TimeOf(i) <= asked.end_tp}
Inside == {i \in Before : asked.start_tp <= TimeOf(i)}

\* An answer that is gone may only be given when the search could leave the ring: when its
\* first entry was overwritten, or when get_md started to search before it.
WithinRing == Holds(start) /\ (ByTp \/ StartShort >= start)
AnswerInRing == qpc = "done" /\ ret /\ WithinRing => start_index >= start /\ end_index >= start

\* What get_md_by_tp names is of the moment asked for or before, and none after it is; if it
\* answers no there is none.
ByTpRight ==
    qpc = "done" /\ ByTp =>
        /\ ret /\ Holds(end_index) =>
              /\ end_index \in Before
              /\ \A i \in Before : TimeOf(i) <= TimeOf(end_index)
        /\ ret => Before # {}
        /\ ~ret /\ Holds(start) => Before = {}

\* What get_md names is the first and the last of the interval.
RangeRight ==
    qpc = "done" /\ ~ByTp =>
        /\ ret /\ Holds(start_index) =>
              /\ start_index \in start .. end
              /\ TimeOf(start_index) >= asked.start_tp
              /\ \A i \in Inside : TimeOf(start_index) <= TimeOf(i)
        /\ ret /\ Holds(end_index) =>
              /\ end_index \in Before
              /\ \A i \in Inside : TimeOf(i) <= TimeOf(end_index)
        /\ ~ret /\ Holds(start) => Inside = {}

\* Whatever moment is asked for and whatever the writer overwrites meanwhile, get_md_by_tp
\* (365-421) names an entry of that moment or before with none after it, or one that the
\* ring has given up by the time of the answer; and the latter, or a no where there is one,
\* only when the first entry of the ring it was asked about is gone: the search over the
\* slots, modulo the ring, its corner at 0 and the step back.
ByTpFinds == ByTpRight /\ (ByTp => AnswerInRing)

\* The same of get_md (423-519) for whatever interval, however many seconds it is said to be
\* long: the first and the last of its moments that the ring had, or an entry that
\* is gone.  The guess at where to start, be it wrong or of an entry that was given up long
\* ago, never makes it name a wrong entry that the ring still holds; a guess within
\* the ring never leads out of it.  Of entries with one time it may give any.
\* get_md_all gives them all (539-558).
RangeFinds == RangeRight /\ (~ByTp => AnswerInRing)

\* The Gregorian calendar.
LengthOf(y, m) ==
    CASE m \in {4, 6, 9, 11} -> 30
      [] m = 2 -> IF IF y % 100 = 0 THEN y % 400 = 0 ELSE y % 4 = 0 THEN 29 ELSE 28
      [] OTHER -> 31

NextDay(t) ==
    IF t.d < LengthOf(t.y, t.m) THEN [t EXCEPT !.d = t.d + 1]
    ELSE IF t.m < 12 THEN [t EXCEPT !.m = t.m + 1, !.d = 1]
    ELSE [t EXCEPT !.y = t.y + 1, !.m = 1, !.d = 1]

\* cal_offset_sec from any moment of a day to that of the next is a day, over the ends of
\* months and years, leap years and centuries (614-656).  It is no matter of the ring: the
\* first states have it checked.
DayIsADay ==
    qpc = "none" /\ current_index = 0 /\ wpc = "idle" =>
        \A y \in Years : \A m \in 1 .. 12 : \A d \in 1 .. LengthOf(y, m) :
            LET t == [y |-> y, m |-> m, d |-> d, s |-> 0]
            IN CalOffsetSec(t, NextDay(t)) = 86400

-----------------------------------------------------------------------------
(* The inductive invariant: IInv of the ring and, of a query, what its     *)
(* loads can have told it.  They may be of later updates than it looks for *)
(* (Time(i) >= TimeOf(i)), in which case the ring no longer holds entry i  *)
(* and, as it gives up the oldest first, none before it.                   *)

QueryTypeOK ==
    /\ feed \in Feeds
    /\ qpc \in {"none", "last", "first", "end", "guess_end", "narrow_end", "settle_end",
                "guess_start", "start", "narrow_start", "settle_start", "done"}
    /\ asked \in [call : {"none", "get_md_by_tp", "get_md", "get_md_all"},
                  start_tp : Nat, end_tp : Nat, offset_sec : Nat]
    /\ start \in Nat /\ end \in Nat /\ left \in Nat /\ right \in Nat
    /\ ret \in BOOLEAN /\ start_index \in Nat /\ end_index \in Nat

\* The updates in the slots have times; no slot is ahead of the writer.
SlotBound ==
    /\ current_index <= MaxUpdates
    /\ Overwriting => current_index < MaxUpdates
    /\ \A s \in Slots :
          dat[s].lo <= IF Overwriting THEN current_index + 1 ELSE current_index

LooksForEnd == qpc \in {"narrow_end", "settle_end"}
LooksForStart == qpc \in {"guess_start", "start", "narrow_start", "settle_start"}

AskedOfRing ==
    /\ qpc = "none" => start_index = 0 /\ end_index = 0
    /\ qpc \in {"none", "last", "first"} => ~ret
    /\ qpc # "none" =>
        /\ start <= end /\ end < current_index
        /\ start = IF end + 1 >= BlockNum THEN end + 1 - BlockNum ELSE 0
        /\ start_index <= end /\ end_index <= end
        /\ ByTp => asked.start_tp = 0
        /\ qpc = "last" \/ qpc = "guess_end" \/ LooksForStart => asked.call = "get_md"
        /\ qpc # "done" => asked.call \in {"get_md_by_tp", "get_md"}

\* What the checks before the search found.
Checked ==
    /\ qpc \in {"first", "end", "guess_end"} \/ LooksForEnd \/ LooksForStart =>
          (Holds(end) => TimeOf(end) >= asked.start_tp)
    /\ qpc \in {"end", "guess_end"} \/ LooksForEnd \/ LooksForStart =>
          ret /\ TimeOf(start) <= asked.end_tp
    /\ qpc \in {"narrow_start", "settle_start"} => TimeOf(start) < asked.start_tp

\* The loop: what is left of left is earlier, what is right of right later or gone.
Between(tp) ==
    /\ left <= end /\ right <= end /\ left <= right + 1
    /\ left > start => TimeOf(left - 1) < tp
    /\ right < end /\ Holds(right + 1) => TimeOf(right + 1) > tp

\* The loop was left early.
Met(tp) ==
    /\ right <= end
    /\ Time(right) >= tp
    /\ Holds(right) => TimeOf(right) = tp

Searching ==
    /\ qpc = "narrow_end" => Between(asked.end_tp)
    /\ qpc = "settle_end" => Met(asked.end_tp)
    /\ qpc \in {"start", "narrow_start"} => Between(asked.start_tp)
    /\ qpc = "settle_start" => Met(asked.start_tp)

EndFound ==
    LooksForStart /\ Holds(end_index) =>
        /\ end_index \in Before
        /\ \A i \in Before : TimeOf(i) <= TimeOf(end_index)

QueryInv ==
    /\ QueryTypeOK /\ SlotBound /\ AskedOfRing /\ Checked
    /\ Searching /\ EndFound /\ ByTpRight /\ RangeRight

\* While the first entry of the ring is there the search stays within it.
InRing ==
    WithinRing =>
        /\ qpc \in {"narrow_end", "settle_end", "start", "narrow_start", "settle_start"} =>
              left >= start /\ right >= start
        /\ LooksForStart => end_index >= start
        /\ qpc = "done" /\ ret => start_index >= start /\ end_index >= start
===============================================================================
