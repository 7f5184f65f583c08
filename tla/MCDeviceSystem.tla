--------------------------- MODULE MCDeviceSystem ---------------------------
(* Small instances of DeviceSystem for TLC.                                *)
EXTENDS DeviceSystem

CONSTANT MaxWaiting   \* bound: signals waiting for the Qt thread

(* The exploration stops where more signals or calls pile up.              *)
Bounded ==
  /\ Len(events) <= MaxWaiting
  /\ \A u \in Udid : discovering[u] <= 1
=============================================================================
