----------------------------- MODULE MCShmMdTick ------------------------------
(* Instances of ShmMdTick for TLC.                                          *)
EXTENDS ShmMdTick

MCInstruments == <<"BTC">>
MCAdded == {"ETH", "SOL"}
===============================================================================
