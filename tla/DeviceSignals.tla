---------------------------- MODULE DeviceSignals ----------------------------
(***************************************************************************)
(* What crosses between Core (src/core.rs) and the interface               *)
(* (ui/DeviceContext.qml): the signals Core queues for the Qt thread, and  *)
(* the two calls the interface makes that change connections.  A device's  *)
(* Wi-Fi address stands for the device, so both sides name it by its UDID. *)
(***************************************************************************)
EXTENDS DeviceRegistry, Sequences

VARIABLES
  events,       \* deviceEvent and the failure signals queued for the Qt thread
  discovering,  \* init_wireless_device calls that still collect pairing records
  removals      \* remove_device calls not yet run

signalVars == <<registry, events, discovering, removals>>

NoUdid == "none"

Event(type, u, c, wireless) ==
  [type |-> type, udid |-> u, id |-> c, wireless |-> wireless]

Connected(u, c, wireless) == Event("connected", u, c, wireless)
Disconnected(u, c) == Event("disconnected", u, c, FALSE)

(* Signals without a connection: EV_PAIRING_PENDING, EV_FAIL, initFailed   *)
(* and noPairingFile.                                                      *)
Notice(type, u) == Event(type, u, 0, FALSE)

ConnectionEvent ==
  [type : {"connected"}, udid : Udid, id : ConnId, wireless : BOOLEAN]
  \cup [type : {"disconnected"}, udid : Udid, id : ConnId, wireless : {FALSE}]
NoticeEvent ==
  [type : {"pending", "fail", "initFailed", "noPairingFile"},
   udid : Udid, id : {0}, wireless : {FALSE}]

SignalsTypeOK ==
  /\ RegistryTypeOK
  /\ events \in Seq(ConnectionEvent \cup NoticeEvent)
  /\ discovering \in [Udid -> Nat]
  /\ removals \in SUBSET (Udid \X ConnId)

SignalsInit ==
  /\ RegistryInit
  /\ events = <<>>
  /\ discovering = [u \in Udid |-> 0]
  /\ removals = {}

Queue(e) == events' = Append(events, e)
=============================================================================
