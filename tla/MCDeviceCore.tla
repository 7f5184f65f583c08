---------------------------- MODULE MCDeviceCore ----------------------------
(* Small instances of DeviceCore for TLC.                                  *)
EXTENDS DeviceCoreFeed

CONSTANTS MaxWaiting   \* bound: events waiting for the Qt thread

(* Stops the exploration where the interface has fallen far behind.        *)
QueueBound == Len(events) <= MaxWaiting
=============================================================================
