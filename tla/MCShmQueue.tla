---------------------------- MODULE MCShmQueue ----------------------------
(* A small instance of ShmQueue for TLC.                                   *)
EXTENDS ShmQueue

CONSTANTS c1, c2

TwoConsumers == {c1, c2}
OneOfThem == {c2}
\* Behind the shared head, as a small negative number.
Behind == {-1}
===========================================================================
