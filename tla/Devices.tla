------------------------------- MODULE Devices -------------------------------
(* What every component knows a device by.                                 *)

CONSTANT Udid   \* the devices, named by their UDID
=============================================================================
