------------------------------ MODULE MCMdQuery -------------------------------
(* An instance of MdQuery for TLC: two updates have the time of the one     *)
(* before, and every other one is two later, so that a moment may also fall *)
(* between two updates, before the first of them or after the last.        *)
EXTENDS MdQuery

Rises == {up \in SUBSET (2 .. MaxUpdates) : Cardinality(up) = MaxUpdates - 3}
MCFeeds ==
    {[n \in 0 .. MaxUpdates |-> IF n = 0 THEN 0 ELSE 1 + 2 * Cardinality(up \cap 2 .. n)] :
        up \in Rises}
MCTps == 0 .. 2 * (MaxUpdates - 2)
===============================================================================
