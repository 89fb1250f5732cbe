---------------------------- MODULE MCWebSocket ----------------------------
(* Small instances of WebSocketRelay for TLC.                              *)
EXTENDS WebSocketProperties
=============================================================================
