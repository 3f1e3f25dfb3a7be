------------------------------- MODULE MqLog --------------------------------
(***************************************************************************)
(* What the message queue of RT_RingBuffer.h and RT_MQ.h promises, without *)
(* a ring: messages are numbered in the order in which they are published, *)
(* one after the other, and a subscriber that does not move its cursor     *)
(* itself takes them in that order, each once.  That the message found in  *)
(* the ring is the one of that number is a property of the ring itself     *)
(* (Intact in MqRing).                                                     *)
(***************************************************************************)
EXTENDS Integers

CONSTANT Subscribers

VARIABLES
    published,   \* number of messages published
    consumed     \* subscriber -> number of the last message it took

vars == <<published, consumed>>

Init ==
    /\ published = 0
    /\ consumed = [s \in Subscribers |-> 0]

Publish ==
    /\ published' = published + 1
    /\ UNCHANGED consumed

\* One message (try_read_new), or all those that were pending at some moment of
\* the call (get_all_pending).
Consume(s) ==
    /\ \E n \in consumed[s] + 1 .. published :
          consumed' = [consumed EXCEPT ![s] = n]
    /\ UNCHANGED published

Next == Publish \/ \E s \in Subscribers : Consume(s)

\* A subscriber whose thread keeps asking gets what was published.
Spec ==
    /\ Init
    /\ [][Next]_vars
    /\ \A s \in Subscribers : WF_vars(Consume(s))
=============================================================================
