------------------------------ MODULE MCMdRing ------------------------------
(* A small instance of MdRing for TLC.                                     *)
EXTENDS MdRing

CONSTANTS p1, g1

OnePoller == {p1}
OneGetter == {g1}
=============================================================================
