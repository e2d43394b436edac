--------------------------- MODULE MCBroadcaster ---------------------------
(* Two clients, room for two events each and four events, so that a buffer *)
(* is filled, overrun twice, and drained while Broadcast makes room.       *)
EXTENDS Broadcaster
=============================================================================
