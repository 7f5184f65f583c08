----------------------------- MODULE DeviceCore -----------------------------
(***************************************************************************)
(* The connection tasks of src/core.rs over the registry of                *)
(* src/device_ctx.rs: the thread that listens to usbmuxd, one task per USB *)
(* connection (pair, initialise, announce), the wireless attempts over a   *)
(* list of pairing records, the custom wireless attempts, and the          *)
(* heartbeat task of every wireless connection.                            *)
(*                                                                         *)
(* A task can be aborted, or timed out, only where it awaits.  After       *)
(* collect_info the last await is insert_device's lock, which may or may   *)
(* not block; once the connection is inserted the task always queues its   *)
(* signals, though other threads run in between.                           *)
(***************************************************************************)
EXTENDS DeviceSignals, FiniteSets

CONSTANTS
  DeviceId,        \* the numbers usbmuxd gives to attached devices
  MaxCandidates,   \* bound: pairing records found for one wireless attempt
  MaxLosses,       \* bound: how often the usbmuxd listen stream is lost
  MaxStream        \* bound: the cable changes only while the thread is at most
                   \* this many listen events behind

ASSUME CoreAssumption ==
  /\ IsFiniteSet(DeviceId)
  /\ MaxCandidates \in Nat \ {0} /\ MaxLosses \in Nat /\ MaxStream \in Nat

VARIABLES
  attached,     \* the USB device behind each usbmuxd number (environment)
  stream,       \* listen events usbmuxd has sent and the thread not yet read
  listener,     \* what the listening thread is doing
  losses,       \* how often the stream was lost
  deviceMap,    \* device_map: the connection of each usbmuxd number
  nextId,       \* NEXT_CONNECTION_ID
  task,         \* the initialisation task of each connection
  heartbeat     \* the heartbeat task of each connection

registryVars == <<registry, heartbeat>>
usbVars == <<attached, stream, listener, losses, deviceMap>>
taskVars == <<nextId, task>>
requestVars == <<discovering, removals>>
coreVars == <<registryVars, usbVars, taskVars, requestVars, events>>

-----------------------------------------------------------------------------
Kind == {"usb", "wireless", "custom"}

(* "check": does a pair record exist; "pairing": inside handle_pairing;    *)
(* "init": init_idescriptor_device up to collect_info; "inserting": about  *)
(* to call insert_device; "replaced", "announce": the event for the        *)
(* connection it replaced, then its own, is still to be queued.            *)
Awaiting == {"check", "pairing", "init"}
Committed == {"replaced", "announce", "done"}
Stage == Awaiting \cup Committed \cup {"unused", "inserting", "failed"}

HeartbeatStage == {"none", "waiting", "running", "cleaning", "ended"}

Task == [kind : Kind, udid : Udid \cup {NoUdid}, stage : Stage,
         paired : BOOLEAN,              \* retried_after_pair
         left : 0 .. MaxCandidates,     \* pairing records not yet tried
         old : 0 .. MaxConn]            \* the connection it replaced

NewTask(kind, u, stage, left) ==
  [kind |-> kind, udid |-> u, stage |-> stage,
   paired |-> FALSE, left |-> left, old |-> 0]

Unused == NewTask("usb", NoUdid, "unused", 0)

NoEntry == [udid |-> NoUdid, id |-> 0]
MapEntry == [udid : Udid, id : ConnId] \cup {NoEntry}

Listening == [state |-> "listening", udid |-> NoUdid, id |-> 0]
Down == [state |-> "down", udid |-> NoUdid, id |-> 0]
ListenerState ==
  {Listening, Down} \cup [state : {"cleaning"}, udid : Udid, id : ConnId]

StreamEvent == [type : {"connected"}, dev : DeviceId, udid : Udid]
               \cup [type : {"disconnected"}, dev : DeviceId, udid : {NoUdid}]

SetStage(c, stage) == task' = [task EXCEPT ![c].stage = stage]

(* A task that ended has no locals left.                                   *)
Ended(t, stage) == NewTask(t.kind, t.udid, stage, 0)
Fail(c) == task' = [task EXCEPT ![c] = Ended(@, "failed")]

IsWireless(c) == task[c].kind # "usb"

CoreTypeOK ==
  /\ SignalsTypeOK
  /\ attached \in [DeviceId -> Udid \cup {NoUdid}]
  /\ stream \in Seq(StreamEvent)
  /\ listener \in ListenerState
  /\ losses \in 0 .. MaxLosses
  /\ deviceMap \in [DeviceId -> MapEntry]
  /\ nextId \in 1 .. MaxConn + 1
  /\ task \in [ConnId -> Task]
  /\ heartbeat \in [ConnId -> HeartbeatStage]

CoreInit ==
  /\ SignalsInit
  /\ attached = [d \in DeviceId |-> NoUdid]
  /\ stream = <<>>
  /\ listener = Listening
  /\ losses = 0
  /\ deviceMap = [d \in DeviceId |-> NoEntry]
  /\ nextId = 1
  /\ task = [c \in ConnId |-> Unused]
  /\ heartbeat = [c \in ConnId |-> "none"]

-----------------------------------------------------------------------------
(* usbmuxd and the cable: the environment.                                 *)

Plug(u, d) ==
  /\ Len(stream) < MaxStream
  /\ attached[d] = NoUdid
  /\ \A x \in DeviceId : attached[x] # u
  /\ attached' = [attached EXCEPT ![d] = u]
  /\ stream' = IF listener = Down THEN stream
               ELSE Append(stream, [type |-> "connected", dev |-> d, udid |-> u])
  /\ UNCHANGED <<registryVars, listener, losses, deviceMap, taskVars, requestVars, events>>

Unplug(d) ==
  /\ Len(stream) < MaxStream
  /\ attached[d] # NoUdid
  /\ attached' = [attached EXCEPT ![d] = NoUdid]
  /\ stream' = IF listener = Down THEN stream
               ELSE Append(stream, [type |-> "disconnected", dev |-> d, udid |-> NoUdid])
  /\ UNCHANGED <<registryVars, listener, losses, deviceMap, taskVars, requestVars, events>>

(* The stream fails or ends: the thread leaves its inner loop and what it  *)
(* had not read is gone.  A thread that is cleaning up reads on first.     *)
LoseStream ==
  /\ listener = Listening
  /\ losses < MaxLosses
  /\ losses' = losses + 1
  /\ listener' = Down
  /\ stream' = <<>>
  /\ UNCHANGED <<registryVars, attached, deviceMap, taskVars, requestVars, events>>

(* After two seconds the thread listens again, and usbmuxd announces every *)
(* attached device anew, in an order of its own.                           *)
Relisten ==
  /\ listener = Down
  /\ listener' = Listening
  /\ LET present == {d \in DeviceId : attached[d] # NoUdid}
     IN \E order \in [1 .. Cardinality(present) -> present] :
          /\ \A i, j \in DOMAIN order : order[i] = order[j] => i = j
          /\ stream' = [i \in DOMAIN order |->
                 [type |-> "connected", dev |-> order[i], udid |-> attached[order[i]]]]
  /\ UNCHANGED <<registryVars, attached, losses, deviceMap, taskVars, requestVars, events>>

-----------------------------------------------------------------------------
(* The listening thread.                                                   *)

(* Mutant of Aborted: a task is cut off even between insert_device and its *)
(* signals.                                                                *)
AbortedAnywhere(t) ==
  IF t.stage \in Awaiting \cup {"inserting", "replaced", "announce"}
  THEN {Ended(t, "failed")} ELSE {t}

(* abort() on an initialisation task, as the tasks it may leave: nothing   *)
(* happens to one that is in its last poll or has finished, and one that   *)
(* waits for the registry's lock may already hold it.                      *)
Aborted(t) ==
  (IF t.stage \notin Awaiting THEN {t} ELSE {})
  \cup (IF t.stage \in Awaiting \cup {"inserting"} THEN {Ended(t, "failed")} ELSE {})

OnUsbConnected ==
  /\ listener = Listening
  /\ stream # <<>>
  /\ Head(stream).type = "connected"
  /\ nextId <= MaxConn
  /\ LET e == Head(stream)
         before == deviceMap[e.dev]
     IN /\ stream' = Tail(stream)
        /\ deviceMap' = [deviceMap EXCEPT ![e.dev] = [udid |-> e.udid, id |-> nextId]]
        /\ \/ /\ before = NoEntry
              /\ task' = [task EXCEPT ![nextId] = NewTask("usb", e.udid, "check", 0)]
           \/ /\ before # NoEntry
              /\ \E t \in Aborted(task[before.id]) :
                   task' = [task EXCEPT ![nextId] = NewTask("usb", e.udid, "check", 0),
                                        ![before.id] = t]
        /\ nextId' = nextId + 1
  /\ UNCHANGED <<registryVars, attached, listener, losses, requestVars, events>>

(* The entry leaves device_map and its task is aborted; when the           *)
(* connection is the registered one it leaves the registry, and the thread *)
(* cleans up (closing media streams, an await) before it queues the event. *)
OnUsbDisconnected ==
  /\ listener = Listening
  /\ stream # <<>>
  /\ Head(stream).type = "disconnected"
  /\ LET d == Head(stream).dev
         entry == deviceMap[d]
     IN /\ stream' = Tail(stream)
        /\ deviceMap' = [deviceMap EXCEPT ![d] = NoEntry]
        /\ \/ entry = NoEntry /\ UNCHANGED <<registry, task, listener>>
           \/ /\ entry # NoEntry
              /\ \E t \in Aborted(task[entry.id]) : task' = [task EXCEPT ![entry.id] = t]
              /\ \/ /\ RemoveIfCurrent(entry.udid, entry.id)
                    /\ listener' = [state |-> "cleaning", udid |-> entry.udid, id |-> entry.id]
                 \/ /\ ~IsCurrent(entry.udid, entry.id)
                    /\ UNCHANGED <<registry, listener>>
  /\ UNCHANGED <<heartbeat, attached, losses, nextId, requestVars, events>>

ListenerCleaned ==
  /\ listener.state = "cleaning"
  /\ Queue(Disconnected(listener.udid, listener.id))
  /\ listener' = Listening
  /\ UNCHANGED <<registryVars, attached, stream, losses, deviceMap, taskVars, requestVars>>

-----------------------------------------------------------------------------
(* The task of a USB connection.                                           *)

(* handle_pairing first queues EV_PAIRING_PENDING.                         *)
BeginPairing(c, again) ==
  /\ task' = [task EXCEPT ![c].stage = "pairing", ![c].paired = again]
  /\ Queue(Notice("pending", task[c].udid))

CheckPairRecord(c) ==
  /\ task[c].stage = "check"
  /\ \/ Fail(c) /\ UNCHANGED events     \* usbmuxd unreachable
     \/ SetStage(c, "init") /\ UNCHANGED events       \* a pair record exists
     \/ BeginPairing(c, FALSE)
  /\ UNCHANGED <<registryVars, usbVars, nextId, requestVars>>

(* While the trust dialog is unanswered the task stays in this stage.      *)
FinishPairing(c) ==
  /\ task[c].stage = "pairing"
  /\ \/ SetStage(c, "init") /\ UNCHANGED events
     \/ Fail(c) /\ Queue(Notice("fail", task[c].udid))
  /\ UNCHANGED <<registryVars, usbVars, nextId, requestVars>>

(* A pairing error pairs again, once; any other error ends the task and    *)
(* tells nobody.                                                           *)
UsbInitFails(c) ==
  /\ task[c].kind = "usb"
  /\ task[c].stage = "init"
  /\ \/ Fail(c) /\ UNCHANGED events
     \/ ~task[c].paired /\ BeginPairing(c, TRUE)
  /\ UNCHANGED <<registryVars, usbVars, nextId, requestVars>>

-----------------------------------------------------------------------------
(* The tasks of wireless connections.                                      *)

(* Mutant of Stopped: a heartbeat that waits for its signal is not told.   *)
StoppedWhenRunning(h) == IF h = "running" THEN "ended" ELSE h

(* A heartbeat whose handle is aborted or whose start signal is dropped.   *)
Stopped(h) == IF h \in {"waiting", "running"} THEN "ended" ELSE h

(* Mutant of NextCandidate: it does not notice the last record.            *)
NextCandidateForever(c) ==
  LET t == task[c]
  IN /\ nextId <= MaxConn
     /\ task' = [task EXCEPT ![c] = Ended(@, "failed"),
                             ![nextId] = NewTask("wireless", t.udid, "init", t.left - 1)]
     /\ nextId' = nextId + 1
     /\ UNCHANGED events

(* A record authenticates nobody, the device does not answer, or the       *)
(* registry rejected the connection: the next record gets the next number. *)
NextCandidate(c) ==
  LET t == task[c]
  IN \/ /\ t.left > 0
        /\ nextId <= MaxConn
        /\ task' = [task EXCEPT ![c] = Ended(@, "failed"),
                                ![nextId] = NewTask("wireless", t.udid, "init", t.left - 1)]
        /\ nextId' = nextId + 1
        /\ UNCHANGED events
     \/ /\ t.left = 0
        /\ Fail(c)
        /\ Queue(Notice("noPairingFile", t.udid))
        /\ UNCHANGED nextId

StartWireless(u) ==
  /\ discovering[u] > 0
  /\ discovering' = [discovering EXCEPT ![u] = @ - 1]
  /\ \/ /\ \E type \in {"initFailed", "noPairingFile"} : Queue(Notice(type, u))
        /\ UNCHANGED taskVars
     \/ /\ nextId <= MaxConn
        /\ \E n \in 1 .. MaxCandidates :
             task' = [task EXCEPT ![nextId] = NewTask("wireless", u, "init", n - 1)]
        /\ nextId' = nextId + 1
        /\ UNCHANGED events
  /\ UNCHANGED <<registryVars, usbVars, removals>>

WirelessInitFails(c) ==
  /\ task[c].kind = "wireless"
  /\ task[c].stage = "init"
  /\ NextCandidate(c)
  /\ UNCHANGED <<registryVars, usbVars, requestVars>>

(* WIRELESS_INIT_TIMEOUT drops the attempt where it awaits.                *)
WirelessTimeout(c) ==
  /\ task[c].kind = "wireless"
  /\ task[c].stage \in {"init", "inserting"}
  /\ Fail(c)
  /\ heartbeat' = [heartbeat EXCEPT ![c] = Stopped(@)]
  /\ Queue(Notice("initFailed", task[c].udid))
  /\ UNCHANGED <<registry, usbVars, nextId, requestVars>>

(* init_wireless_device_custom; its failures are reported on a signal of   *)
(* their own, which no list of devices listens to.                         *)
StartCustom(u) ==
  /\ nextId <= MaxConn
  /\ task' = [task EXCEPT ![nextId] = NewTask("custom", u, "init", 0)]
  /\ nextId' = nextId + 1
  /\ UNCHANGED <<registryVars, usbVars, requestVars, events>>

CustomInitFails(c) ==
  /\ task[c].kind = "custom"
  /\ task[c].stage \in {"init", "inserting"}    \* the latter by its own timeout
  /\ Fail(c)
  /\ heartbeat' = [heartbeat EXCEPT ![c] = Stopped(@)]
  /\ UNCHANGED <<registry, usbVars, nextId, requestVars, events>>

-----------------------------------------------------------------------------
(* Registering and announcing a connection, whatever its transport.        *)

(* collect_info succeeded; a wireless connection spawns its heartbeat,     *)
(* which waits for the start signal.                                       *)
Collected(c) ==
  /\ task[c].stage = "init"
  /\ SetStage(c, "inserting")
  /\ heartbeat' = [heartbeat EXCEPT ![c] = IF IsWireless(c) THEN "waiting" ELSE @]
  /\ UNCHANGED <<registry, usbVars, nextId, requestVars, events>>

InsertAccepted(c) ==
  LET u == task[c].udid
      before == registry[u]
  IN /\ task[c].stage = "inserting"
     /\ Insert(u, c, IsWireless(c))
     /\ IF before = NoDevice
        THEN /\ SetStage(c, "announce")
             /\ UNCHANGED heartbeat
        ELSE /\ task' = [task EXCEPT ![c].stage = "replaced", ![c].old = before.id]
             /\ heartbeat' = [heartbeat EXCEPT ![before.id] = Stopped(@)]
     /\ UNCHANGED <<usbVars, nextId, requestVars, events>>

(* The services are dropped, with them the heartbeat's start signal.  Only *)
(* a wireless attempt has another record to try.                           *)
InsertRejected(c) ==
  /\ task[c].stage = "inserting"
  /\ Rejects(task[c].udid, c, IsWireless(c))
  /\ heartbeat' = [heartbeat EXCEPT ![c] = Stopped(@)]
  /\ IF task[c].kind = "wireless"
     THEN NextCandidate(c)
     ELSE Fail(c) /\ UNCHANGED <<nextId, events>>
  /\ UNCHANGED <<registry, usbVars, requestVars>>

AnnounceReplaced(c) ==
  /\ task[c].stage = "replaced"
  /\ Queue(Disconnected(task[c].udid, task[c].old))
  /\ SetStage(c, "announce")
  /\ UNCHANGED <<registryVars, usbVars, nextId, requestVars>>

(* Mutant of Announce: the heartbeat's start signal is not sent.           *)
AnnounceOnly(c) ==
  /\ task[c].stage = "announce"
  /\ Queue(Connected(task[c].udid, c, IsWireless(c)))
  /\ task' = [task EXCEPT ![c] = Ended(@, "done")]
  /\ UNCHANGED <<registryVars, usbVars, nextId, requestVars>>

(* emit_initialized_device: queue the event, then start the heartbeat,     *)
(* unless it was aborted meanwhile.                                        *)
Announce(c) ==
  /\ task[c].stage = "announce"
  /\ Queue(Connected(task[c].udid, c, IsWireless(c)))
  /\ task' = [task EXCEPT ![c] = Ended(@, "done")]
  /\ heartbeat' = [heartbeat EXCEPT ![c] = IF @ = "waiting" THEN "running" ELSE @]
  /\ UNCHANGED <<registry, usbVars, nextId, requestVars>>

-----------------------------------------------------------------------------
(* The heartbeat of a wireless connection; module Heartbeat has its loop.  *)

HeartbeatGivesUp(c) ==
  /\ heartbeat[c] = "running"
  /\ \/ /\ RemoveIfCurrent(task[c].udid, c)
        /\ heartbeat' = [heartbeat EXCEPT ![c] = "cleaning"]
     \/ /\ ~IsCurrent(task[c].udid, c)
        /\ heartbeat' = [heartbeat EXCEPT ![c] = "ended"]
        /\ UNCHANGED registry
  /\ UNCHANGED <<usbVars, taskVars, requestVars, events>>

HeartbeatCleaned(c) ==
  /\ heartbeat[c] = "cleaning"
  /\ Queue(Disconnected(task[c].udid, c))
  /\ heartbeat' = [heartbeat EXCEPT ![c] = "ended"]
  /\ UNCHANGED <<registry, usbVars, taskVars, requestVars>>

-----------------------------------------------------------------------------
(* remove_device: no event answers it.                                     *)
RunRemoval(u, c) ==
  /\ <<u, c>> \in removals
  /\ removals' = removals \ {<<u, c>>}
  /\ \/ /\ RemoveIfCurrent(u, c)
        /\ heartbeat' = [heartbeat EXCEPT ![c] = Stopped(@)]
     \/ /\ ~IsCurrent(u, c)
        /\ UNCHANGED <<registry, heartbeat>>
  /\ UNCHANGED <<usbVars, taskVars, discovering, events>>

-----------------------------------------------------------------------------
(* The program's own steps, the world's, and the calls of the interface.   *)

ListenerStep == OnUsbConnected \/ OnUsbDisconnected \/ ListenerCleaned \/ Relisten

TaskStep(c) ==
  \/ CheckPairRecord(c) \/ FinishPairing(c) \/ UsbInitFails(c)
  \/ WirelessInitFails(c) \/ WirelessTimeout(c) \/ CustomInitFails(c)
  \/ Collected(c) \/ InsertAccepted(c) \/ InsertRejected(c)
  \/ AnnounceReplaced(c) \/ Announce(c)

HeartbeatStep(c) == HeartbeatGivesUp(c) \/ HeartbeatCleaned(c)

RemovalStep == \E u \in Udid, c \in ConnId : RunRemoval(u, c)

CoreStep ==
  \/ ListenerStep
  \/ \E c \in ConnId : TaskStep(c) \/ HeartbeatStep(c)
  \/ \E u \in Udid : StartWireless(u)
  \/ RemovalStep

World ==
  \/ \E u \in Udid, d \in DeviceId : Plug(u, d)
  \/ \E d \in DeviceId : Unplug(d)
  \/ LoseStream

(* An interface that calls whatever it may: one wireless attempt for a     *)
(* device at a time, and the removal of a connection it was told of.       *)
RequestWireless(u) ==
  /\ discovering[u] = 0
  /\ discovering' = [discovering EXCEPT ![u] = 1]
  /\ UNCHANGED <<registryVars, usbVars, taskVars, removals, events>>

RequestRemoval(c) ==
  /\ task[c].stage = "done"
  /\ removals = {}
  /\ removals' = removals \cup {<<task[c].udid, c>>}
  /\ UNCHANGED <<registryVars, usbVars, taskVars, discovering, events>>

DeliverEvent ==
  /\ events # <<>>
  /\ events' = Tail(events)
  /\ UNCHANGED <<registryVars, usbVars, taskVars, requestVars>>

AnyInterface ==
  \/ \E u \in Udid : RequestWireless(u) \/ StartCustom(u)
  \/ \E c \in ConnId : RequestRemoval(c)
  \/ DeliverEvent

CoreNext == CoreStep \/ World \/ AnyInterface

CoreSpec == CoreInit /\ [][CoreNext]_coreVars

-----------------------------------------------------------------------------
(* Properties.                                                             *)

(* A heartbeat that runs watches the connection the registry holds: no     *)
(* replacement, removal or rejection leaves one beating for a connection   *)
(* that is gone, where it would keep the device awake and later report a   *)
(* device that somebody else owns as lost (insert_device,                  *)
(* clean_removed_device, spawn_heartbeat_task).                            *)
HeartbeatOwned ==
  \A c \in ConnId : heartbeat[c] = "running" => IsCurrent(task[c].udid, c)

(* Every wireless connection in the registry is watched: its heartbeat     *)
(* runs, or waits for the start signal its task is about to send.  Without *)
(* one, a device that leaves the network would be listed for ever.         *)
WirelessWatched ==
  \A u \in Udid :
    registry[u] # NoDevice /\ registry[u].wireless =>
      LET c == registry[u].id
      IN \/ heartbeat[c] = "running"
         \/ heartbeat[c] = "waiting" /\ task[c].stage \in {"replaced", "announce"}

(* A heartbeat that waits is still going to be started or told that it     *)
(* will not be: it never hangs on a start signal nobody holds.             *)
NoStrandedHeartbeat ==
  \A c \in ConnId :
    heartbeat[c] = "waiting" => task[c].stage \in {"inserting", "replaced", "announce"}

(* insert_device's promise, over whole behaviours: as long as a device     *)
(* stays registered its connection number only grows, and a USB connection *)
(* is never traded for a wireless one, although the tasks finish in any    *)
(* order (src/device_ctx.rs:173).                                          *)
NewestWins ==
  [][\A u \in Udid :
       registry[u] # NoDevice /\ registry'[u] # NoDevice =>
         /\ registry'[u].id >= registry[u].id
         /\ registry'[u].wireless => registry[u].wireless]_coreVars
=============================================================================
