------------------------------ MODULE MCWsClient ------------------------------
(* An instance of WsClient for TLC: the thread that subscribes and another *)
(* user of the client.                                                     *)
EXTENDS WsClient

MCSenders == {"gateway", "user"}
===============================================================================
