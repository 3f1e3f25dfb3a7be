----------------------------- MODULE LatestFeed -----------------------------
(***************************************************************************)
(* What the market-data ring of RT_ShmMdPlus.h promises to the strategies  *)
(* that poll it, with no ring, no slots and no copies.  One instrument is  *)
(* a counter of published updates; a consumer is the number of the newest  *)
(* update it has been given.  Updates may be conflated (a slow consumer    *)
(* skips straight to a newer one) but never go backwards, and a consumer   *)
(* whose thread is running always catches up with what was published.      *)
(***************************************************************************)
EXTENDS Integers

CONSTANT Consumers

VARIABLES
    published,   \* number of updates published so far
    delivered,   \* consumer -> newest update it was given, -1 before it subscribes
    running      \* the consumers' worker loops have not been told to stop

vars == <<published, delivered, running>>

Init ==
    /\ published = 0
    /\ delivered = [c \in Consumers |-> -1]
    /\ running = TRUE

Publish ==
    /\ published' = published + 1
    /\ UNCHANGED <<delivered, running>>

\* A consumer starts at the head of the feed: what is already there counts as known.
Subscribe(c) ==
    /\ delivered[c] = -1
    /\ delivered' = [delivered EXCEPT ![c] = published]
    /\ UNCHANGED <<published, running>>

\* The consumer is given some update that it did not have and that was published.
Deliver(c) ==
    /\ delivered[c] >= 0
    /\ \E n \in delivered[c] + 1 .. published :
          delivered' = [delivered EXCEPT ![c] = n]
    /\ UNCHANGED <<published, running>>

Stop ==
    /\ running' = FALSE
    /\ UNCHANGED <<published, delivered>>

Next ==
    \/ Publish
    \/ \E c \in Consumers : Subscribe(c) \/ Deliver(c)
    \/ Stop

Spec ==
    /\ Init
    /\ [][Next]_vars
    /\ \A c \in Consumers : WF_vars(running /\ Deliver(c))
=============================================================================
