---------------------------- MODULE DeviceSystem ----------------------------
(***************************************************************************)
(* Core's tasks (DeviceCore) and the interface (DeviceContext) together:   *)
(* the signals that one queues are handled by the other, whose calls start *)
(* wireless attempts and removals in the first.                            *)
(***************************************************************************)
EXTENDS DeviceCoreFeed, DeviceContext

systemVars == <<coreVars, contextVars>>

SystemInit == CoreInit /\ ContextInit

CoreMoves == (CoreStep \/ World) /\ UNCHANGED contextVars

(* tryToConnectToNetworkDeviceCustom calls straight into Core.             *)
CustomCall == (\E u \in Udid : StartCustom(u)) /\ UNCHANGED contextVars

InterfaceMoves == InterfaceStep /\ UNCHANGED <<registryVars, usbVars, taskVars, events>>

HandleSignal ==
  /\ events # <<>>
  /\ events' = Tail(events)
  /\ HandleEvent(Head(events))
  /\ UNCHANGED <<registryVars, usbVars, taskVars>>

SystemNext == CoreMoves \/ CustomCall \/ InterfaceMoves \/ HandleSignal

SystemSpec == SystemInit /\ [][SystemNext]_systemVars

-----------------------------------------------------------------------------
(* Properties.                                                             *)

Session == INSTANCE DeviceSession WITH
  owed <- OwedEvents, inserted <- InsertedConns,
  NoticeLengths <- Nat, Discoveries <- Nat

(* Core and the interface together do only what DeviceSession allows, so   *)
(* what holds there of the list holds of the program: no ghost row, no     *)
(* live row taken away, a selection that exists.                           *)
ImplementsSession == Session!SessionSpec

(* Something will still answer the attempt: it collects records, one of    *)
(* its tasks is under way, or its answer is queued.                        *)
UnderWay(u) ==
  \/ discovering[u] > 0
  \/ \E c \in ConnId :
       /\ task[c].udid = u /\ task[c].kind = "wireless"
       /\ task[c].stage \notin {"failed", "done"}
  \/ \E i \in 1 .. Len(events) :
       /\ events[i].udid = u
       /\ \/ events[i].type \in {"initFailed", "noPairingFile"}
          \/ events[i].type = "connected" /\ events[i].wireless

(* "A manual request upgrades an automatic attempt without starting        *)
(* another connection" (ui/DeviceContext.qml:333): then the attempt it     *)
(* upgrades must be one that can still succeed or fail.                    *)
UpgradesLiveAttempt ==
  [][\A u \in Udid, select \in BOOLEAN :
       ConnectNetworkDevice(u, select) /\ u \notin Listed(row) /\ attempts[u] # "none"
         => UnderWay(u)]_systemVars

(* "Device is already connected via USB. Ignoring wireless connection      *)
(* event" (ui/DeviceContext.qml:406): a wireless connection is passed over *)
(* only while Core has the USB connection.                                 *)
SkipsOnlyForUsb ==
  [][\A u \in Udid :
       HandleSignal /\ SkipWireless(Head(events)) /\ Head(events).udid = u
         => ~registry[u].wireless]_systemVars
=============================================================================
