---------------------------- MODULE MCWebSocket ----------------------------
(* A session with a reading and a writing coroutine, for TLC. *)
EXTENDS WebSocket

Frame(op, len) == [op |-> op, fin |-> TRUE, len |-> len, bad |-> FALSE]

\* The peer sends a ping and a message.
PingAndText == <<<<Frame("ping", 0), Frame("text", 1)>>>>

WsSpec == WsInit /\ [][WsNext]_wsVars
============================================================================
