------------------------------ MODULE MCRunner ------------------------------
(* Small instances of Runner for TLC.                                      *)
EXTENDS Runner

CONSTANTS binance, other

BothLibs == {binance, other}

\* Two connections of one library, then one of another.
ThreeConns == <<binance, binance, other>>
=============================================================================
