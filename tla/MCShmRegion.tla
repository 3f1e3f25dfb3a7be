---------------------------- MODULE MCShmRegion ----------------------------
(* Small instances of ShmRegion for TLC.  InstrumentBytes is that of the   *)
(* configuration in the repository: a head of 40 bytes and 100,000         *)
(* Booktickers (or AggTrades) of 112, for 3 symbols.                       *)
EXTENDS ShmRegion

CONSTANT s1

\* A perpetual, of one word, and a dated future, of two.
BTC == <<"BTCUSDT">>
ETH == <<"ETHUSDT">>
XRP == <<"XRPUSDT">>
BTCDated == <<"BTCUSD_2", "40927">>

OneStrategy == {s1}
\* A region with room for others, and one that is full from the beginning.
ShortAndFull == {<<BTCDated>>, <<BTCDated, BTC, ETH>>}
AddedThree == {BTC, ETH, XRP}
============================================================================
