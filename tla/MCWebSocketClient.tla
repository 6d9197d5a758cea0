------------------------- MODULE MCWebSocketClient -------------------------
(* WebSocketClient on a handful of tasks and connections. *)
EXTENDS WebSocketClient
=============================================================================
