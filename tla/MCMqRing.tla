------------------------------ MODULE MCMqRing ------------------------------
(* Small instances of MqRing for TLC.                                      *)
EXTENDS MqRing

CONSTANTS p1, p2, s1

OneProducer == {p1}
TwoProducers == {p1, p2}
OneSub == {s1}
=============================================================================
