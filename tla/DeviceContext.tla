---------------------------- MODULE DeviceContext ----------------------------
(***************************************************************************)
(* The interface's list of devices, ui/DeviceContext.qml.  Everything here *)
(* runs on the Qt thread, one handler at a time; the registry it asks for  *)
(* a connection is changed by other threads between handlers.              *)
(*                                                                         *)
(* The lists are kept as a function and two sets: where the code takes the *)
(* first entry of a list, any entry may be taken here.                     *)
(***************************************************************************)
EXTENDS DeviceSignals

CONSTANT RecoveryId   \* devices in recovery mode

VARIABLES
  row,        \* devices: the connection listed for each device, if any
  pending,    \* pendingDevices
  recovery,   \* recoveryDevices
  current,    \* currentDeviceUdid, NoUdid for ""
  dest,       \* currentDestination and currentDestinationId
  attempts,   \* wirelessConnectionAttempts
  later       \* upgrades to wireless that Qt.callLater will run

lists == <<row, pending, recovery>>
selection == <<current, dest>>
contextVars == <<lists, selection, attempts, later>>

Welcome == [kind |-> "welcome"]
Page == [kind |-> "page"]     \* apps, toolbox, jailbroken, community, donate
DevicePage(u) == [kind |-> "device", id |-> u]
PendingPage(u) == [kind |-> "pendingDevice", id |-> u]
RecoveryPage(r) == [kind |-> "recoveryDevice", id |-> r]

Destination ==
  {Welcome, Page} \cup {DevicePage(u) : u \in Udid}
  \cup {PendingPage(u) : u \in Udid} \cup {RecoveryPage(r) : r \in RecoveryId}

(* An attempt remembers selectOnSuccess.                                   *)
Attempt == {"none", "automatic", "manual"}

ContextTypeOK ==
  /\ row \in [Udid -> Connection \cup {NoDevice}]
  /\ pending \in SUBSET Udid
  /\ recovery \in SUBSET RecoveryId
  /\ current \in Udid \cup {NoUdid}
  /\ dest \in Destination
  /\ attempts \in [Udid -> Attempt]
  /\ later \in SUBSET (Udid \X BOOLEAN)

ContextInit ==
  /\ row = [u \in Udid |-> NoDevice]
  /\ pending = {}
  /\ recovery = {}
  /\ current = NoUdid
  /\ dest = Welcome
  /\ attempts = [u \in Udid |-> "none"]
  /\ later = {}

Listed(rows) == {u \in Udid : rows[u] # NoDevice}

-----------------------------------------------------------------------------
(* Selections.                                                             *)

(* selectConnectedDevice, for a device that is listed.                     *)
ShowDevice(u) == current' = u /\ dest' = DevicePage(u)

(* currentDeviceUdid moves on when its device leaves the list.             *)
NextCurrent(u, rows) ==
  IF current # u THEN {current}
  ELSE IF Listed(rows) = {} THEN {NoUdid} ELSE Listed(rows)

(* selectFallbackDevice, called when the shown entry has left its list: a  *)
(* connected device first, then one in recovery, then one that pairs.      *)
Fallback(cur, rows, recs, pends) ==
  \/ \E u \in Listed(rows) : ShowDevice(u)
  \/ /\ Listed(rows) = {}
     /\ current' = cur
     /\ \/ \E r \in recs : dest' = RecoveryPage(r)
        \/ recs = {} /\ \E u \in pends : dest' = PendingPage(u)
        \/ recs = {} /\ pends = {} /\ dest' = Welcome

(* Mutant of Unlist: the page stays on the device that left.               *)
UnlistOnly(u, pends) ==
  LET rows == [row EXCEPT ![u] = NoDevice]
  IN /\ row' = rows
     /\ current' \in NextCurrent(u, rows)
     /\ UNCHANGED dest

(* A device leaves the list of connected devices.                          *)
Unlist(u, pends) ==
  LET rows == [row EXCEPT ![u] = NoDevice]
  IN /\ row' = rows
     /\ \E cur \in NextCurrent(u, rows) :
          IF dest = DevicePage(u)
          THEN Fallback(cur, rows, recovery, pends)
          ELSE current' = cur /\ UNCHANGED dest

-----------------------------------------------------------------------------
(* Signals of Core.                                                        *)

FinishAttempt(u) == attempts' = [attempts EXCEPT ![u] = "none"]

(* Mutant of Fresh: the registry is not asked.                             *)
NotListed(e) == row[e.udid].id # e.id

(* The service factory finds the connection in the registry, and it is not *)
(* listed yet.                                                             *)
Fresh(e) == IsCurrent(e.udid, e.id) /\ row[e.udid].id # e.id

UsbListed(u) == row[u] # NoDevice /\ ~row[u].wireless

IgnoreConnected(e) ==
  /\ e.type = "connected"
  /\ ~Fresh(e)
  /\ UNCHANGED contextVars

(* Mutant of SkipWireless: any connection is passed over while a USB one   *)
(* is listed.                                                              *)
SkipWhenListed(e) ==
  /\ e.type = "connected"
  /\ Fresh(e)
  /\ UsbListed(e.udid)
  /\ ShowDevice(e.udid)
  /\ UNCHANGED <<lists, attempts, later>>

(* skipWirelessReplacement                                                 *)
SkipWireless(e) ==
  /\ e.type = "connected"
  /\ Fresh(e)
  /\ UsbListed(e.udid) /\ e.wireless
  /\ ShowDevice(e.udid)
  /\ UNCHANGED <<lists, attempts, later>>

(* The new row takes the place of an older one and of the pending entry.   *)
AcceptConnected(e) ==
  LET u == e.udid
  IN /\ e.type = "connected"
     /\ Fresh(e)
     /\ ~(UsbListed(u) /\ e.wireless)
     /\ row' = [row EXCEPT ![u] = [id |-> e.id, wireless |-> e.wireless]]
     /\ pending' = pending \ {u}
     /\ IF e.wireless THEN FinishAttempt(u) ELSE UNCHANGED attempts
     /\ IF \/ dest \in {PendingPage(u), Welcome}
           \/ e.wireless /\ attempts[u] = "manual"
        THEN ShowDevice(u)
        ELSE current' = u /\ UNCHANGED dest
     /\ UNCHANGED <<recovery, later>>

(* Mutant of IgnoreDisconnected: the end of a wireless connection may be   *)
(* ignored.                                                                *)
IgnoreWirelessEnd(e) ==
  /\ e.type = "disconnected"
  /\ row[e.udid].id # e.id \/ row[e.udid].wireless
  /\ UNCHANGED contextVars

IgnoreDisconnected(e) ==
  /\ e.type = "disconnected"
  /\ row[e.udid].id # e.id
  /\ UNCHANGED contextVars

(* Mutant of AcceptDisconnected: the connection number is not compared.    *)
AcceptAnyEnd(e) ==
  LET u == e.udid
  IN /\ e.type = "disconnected"
     /\ u \in Listed(row)
     /\ pending' = pending \ {u}
     /\ Unlist(u, pending \ {u})
     /\ later' = IF row[u].wireless THEN later ELSE later \cup {<<u, current = u>>}
     /\ UNCHANGED <<recovery, attempts>>

(* The list loses the connection the event names; a USB one may come back  *)
(* over the network, once the handler has returned.                        *)
AcceptDisconnected(e) ==
  LET u == e.udid
  IN /\ e.type = "disconnected"
     /\ row[u].id = e.id
     /\ pending' = pending \ {u}
     /\ Unlist(u, pending \ {u})
     /\ later' = IF row[u].wireless THEN later ELSE later \cup {<<u, current = u>>}
     /\ UNCHANGED <<recovery, attempts>>

(* Mutant of HandlePending: a connected device is listed as pairing.       *)
HandlePendingAlways(e) ==
  LET u == e.udid
  IN /\ e.type = "pending"
     /\ pending' = pending \cup {u}
     /\ dest' = IF dest = Welcome THEN PendingPage(u) ELSE dest
     /\ UNCHANGED <<row, recovery, current, attempts, later>>

HandlePending(e) ==
  LET u == e.udid
  IN /\ e.type = "pending"
     /\ IF u \in Listed(row) \cup pending
        THEN UNCHANGED <<pending, dest>>
        ELSE /\ pending' = pending \cup {u}
             /\ dest' = IF dest = Welcome THEN PendingPage(u) ELSE dest
     /\ UNCHANGED <<row, recovery, current, attempts, later>>

HandleFail(e) ==
  LET u == e.udid
  IN /\ e.type = "fail"
     /\ pending' = pending \ {u}
     /\ IF dest = PendingPage(u) /\ u \in pending
        THEN Fallback(current, row, recovery, pending \ {u})
        ELSE UNCHANGED selection
     /\ UNCHANGED <<row, recovery, attempts, later>>

(* onInitFailed and onNoPairingFile                                        *)
HandleAttemptFailed(e) ==
  /\ e.type \in {"initFailed", "noPairingFile"}
  /\ FinishAttempt(e.udid)
  /\ UNCHANGED <<lists, selection, later>>

HandleEvent(e) ==
  /\ \/ IgnoreConnected(e) \/ SkipWireless(e) \/ AcceptConnected(e)
     \/ IgnoreDisconnected(e) \/ AcceptDisconnected(e)
     \/ HandlePending(e) \/ HandleFail(e) \/ HandleAttemptFailed(e)
  /\ UNCHANGED <<discovering, removals>>

(* onRecoveryDeviceEvent; the recovery watch runs beside Core's tasks and  *)
(* shares no state with them.                                              *)
RecoveryAdded(r) ==
  /\ r \notin recovery
  /\ recovery' = recovery \cup {r}
  /\ dest' = IF dest = Welcome THEN RecoveryPage(r) ELSE dest
  /\ UNCHANGED <<row, pending, current, attempts, later, discovering, removals>>

RecoveryRemoved(r) ==
  /\ r \in recovery
  /\ recovery' = recovery \ {r}
  /\ IF dest = RecoveryPage(r)
     THEN Fallback(current, row, recovery \ {r}, pending)
     ELSE UNCHANGED selection
  /\ UNCHANGED <<row, pending, attempts, later, discovering, removals>>

-----------------------------------------------------------------------------
(* The user, and calls the interface makes by itself.                      *)

(* tryToConnectToNetworkDevice: the device may be connected already, or an *)
(* attempt may be under way.                                               *)
AlreadyConnected(u, select) ==
  /\ u \in Listed(row)
  /\ IF select THEN ShowDevice(u) ELSE UNCHANGED selection
  /\ UNCHANGED <<attempts, discovering>>

UpgradeAttempt(u, select) ==
  /\ u \notin Listed(row)
  /\ attempts[u] # "none"
  /\ attempts' = [attempts EXCEPT ![u] = IF select THEN "manual" ELSE @]
  /\ UNCHANGED <<selection, discovering>>

StartAttempt(u, select) ==
  /\ u \notin Listed(row)
  /\ attempts[u] = "none"
  /\ attempts' = [attempts EXCEPT ![u] = IF select THEN "manual" ELSE "automatic"]
  /\ discovering' = [discovering EXCEPT ![u] = @ + 1]
  /\ UNCHANGED selection

TryConnect(u, select) ==
  AlreadyConnected(u, select) \/ UpgradeAttempt(u, select) \/ StartAttempt(u, select)

(* A network device is found (automatic) or its button is pressed.         *)
ConnectNetworkDevice(u, select) ==
  /\ TryConnect(u, select)
  /\ UNCHANGED <<lists, later, removals>>

(* upgradeWiredDeviceToWireless, which does nothing when the setting is    *)
(* off or the device is not on the network.                                *)
RunLater(u, select) ==
  /\ <<u, select>> \in later
  /\ later' = later \ {<<u, select>>}
  /\ \/ TryConnect(u, select)
     \/ UNCHANGED <<selection, attempts, discovering>>
  /\ UNCHANGED <<lists, removals>>

RemoveDevice(u) ==
  /\ u \in Listed(row)
  /\ Unlist(u, pending)
  /\ removals' = removals \cup {<<u, row[u].id>>}
  /\ UNCHANGED <<pending, recovery, attempts, later, discovering>>

Navigate ==
  /\ \/ \E u \in Listed(row) : ShowDevice(u)
     \/ \E u \in Listed(row) : current' = u /\ UNCHANGED dest   \* setCurrentDevice
     \/ \E u \in pending : dest' = PendingPage(u) /\ UNCHANGED current
     \/ \E r \in recovery : dest' = RecoveryPage(r) /\ UNCHANGED current
     \/ dest' \in {Welcome, Page} /\ UNCHANGED current
  /\ UNCHANGED <<lists, attempts, later, discovering, removals>>

InterfaceStep ==
  \/ \E r \in RecoveryId : RecoveryAdded(r) \/ RecoveryRemoved(r)
  \/ \E u \in Udid, select \in BOOLEAN :
       ConnectNetworkDevice(u, select) \/ RunLater(u, select)
  \/ \E u \in Udid : RemoveDevice(u)
  \/ Navigate

-----------------------------------------------------------------------------
(* Properties.                                                             *)

(* What is shown and what is current exist: no order of events, removals   *)
(* and clicks leaves the page or currentDeviceUdid on an entry that left   *)
(* its list, and while a device is connected one is current                *)
(* (selectFallbackDevice, removeDevice, onDeviceEvent, each of which       *)
(* updates only part of the selection).                                    *)
SelectionExists ==
  /\ dest.kind = "device" => dest.id \in Listed(row)
  /\ dest.kind = "pendingDevice" => dest.id \in pending
  /\ dest.kind = "recoveryDevice" => dest.id \in recovery
  /\ IF Listed(row) = {} THEN current = NoUdid ELSE current \in Listed(row)

(* A device is listed as connected or as pairing, never as both, although  *)
(* pairing and connecting are announced by different tasks.                *)
PendingNotListed == pending \cap Listed(row) = {}
=============================================================================
