----------------------------- MODULE MCHeartbeat -----------------------------
(* Heartbeats of one device over three connections.                        *)
EXTENDS Heartbeat

CONSTANT u1

MCUdid == {u1}
=============================================================================
