-------------------------- MODULE DeviceCoreProofs --------------------------
(***************************************************************************)
(* The safety properties of the connection tasks, that they implement      *)
(* DeviceFeed, and that together with the interface they implement         *)
(* DeviceSession, for any number of devices, connections and records.      *)
(***************************************************************************)
EXTENDS DeviceSystem, FiniteSetTheorems, TLAPS

-----------------------------------------------------------------------------
(* The inductive invariant.                                                *)

(* Where the task of a connection is decides what its heartbeat may do.    *)
Fits(t, h) ==
  /\ t.stage = "unused" => h = "none"
  /\ t.stage # "unused" => t.udid \in Udid
  /\ t.stage = "replaced" => t.old \in ConnId
  /\ h # "none" => t.kind # "usb" /\ t.stage \notin Awaiting
  /\ t.stage = "inserting" /\ t.kind # "usb" => h = "waiting"
  /\ h = "waiting" => t.stage \in {"inserting", "replaced", "announce"}
  /\ h \in {"running", "cleaning"} => t.stage = "done"

Beating(c) == heartbeat[c] \in {"waiting", "running"}

(* A number that was not handed out has no task.                           *)
NewNumbers == \A c \in ConnId : c >= nextId => task[c].stage = "unused"

(* A registered connection has passed insert_device, and a wireless one is *)
(* watched.                                                                *)
Backed(u) ==
  registry[u] # NoDevice =>
    LET c == registry[u].id
    IN /\ task[c].stage \in Committed
       /\ task[c].udid = u
       /\ registry[u].wireless <=> IsWireless(c)
       /\ IsWireless(c) => Beating(c)

Owned(c) ==
  Beating(c) /\ task[c].stage \in Committed => IsCurrent(task[c].udid, c)

(* device_map knows the USB tasks it may have to abort.                    *)
Mapped(d) ==
  deviceMap[d] # NoEntry =>
    LET c == deviceMap[d].id
    IN /\ task[c].stage # "unused"
       /\ task[c].kind = "usb"
       /\ task[c].udid = deviceMap[d].udid

(* Who is still to announce the end of connection x.                       *)
EndsByTask(c, x) == task[c].stage = "replaced" /\ task[c].old = x
EndsByHeartbeat(x) == heartbeat[x] = "cleaning"
EndsByListener(x) == listener.state = "cleaning" /\ listener.id = x

(* At most one of them, and none while the connection is registered.       *)
EndedOnce(x) ==
  /\ \A c, d \in ConnId : EndsByTask(c, x) /\ EndsByTask(d, x) => c = d
  /\ \A c \in ConnId :
       EndsByTask(c, x) => /\ ~EndsByHeartbeat(x) /\ ~EndsByListener(x)
                           /\ task[c].udid = task[x].udid
  /\ EndsByListener(x) => ~EndsByHeartbeat(x) /\ listener.udid = task[x].udid
  /\ (\E c \in ConnId : EndsByTask(c, x)) \/ EndsByHeartbeat(x) \/ EndsByListener(x)
       => task[x].stage \in Committed /\ ~IsCurrent(task[x].udid, x)

CoreInv ==
  /\ CoreTypeOK
  /\ NewNumbers
  /\ \A c \in ConnId : Fits(task[c], heartbeat[c])
  /\ \A u \in Udid : Backed(u)
  /\ \A c \in ConnId : Owned(c)
  /\ \A d \in DeviceId : Mapped(d)
  /\ \A x \in ConnId : EndedOnce(x)

-----------------------------------------------------------------------------
(* Tasks and the events they queue.                                        *)

LEMMA NewTaskType ==
  ASSUME NEW kind \in Kind, NEW u \in Udid \cup {NoUdid}, NEW stage \in Stage,
         NEW left \in 0 .. MaxCandidates
  PROVE  NewTask(kind, u, stage, left) \in Task
<1>1. 0 \in 0 .. MaxConn
  BY MaxConnAssumption
<1> QED
  BY <1>1 DEF NewTask, Task

LEMMA EndedType ==
  ASSUME NEW t \in Task, NEW stage \in {"failed", "done"}
  PROVE  /\ Ended(t, stage) \in Task
         /\ Ended(t, stage).stage = stage
         /\ Ended(t, stage).kind = t.kind /\ Ended(t, stage).udid = t.udid
<1>1. stage \in Stage /\ 0 \in 0 .. MaxCandidates /\ t.kind \in Kind
      /\ t.udid \in Udid \cup {NoUdid}
  BY CoreAssumption DEF Stage, Committed, Task
<1> QED
  BY <1>1, NewTaskType DEF NewTask, Ended

LEMMA AbortedType ==
  ASSUME NEW t \in Task, NEW a \in Aborted(t)
  PROVE  /\ a \in Task
         /\ \/ a = t
            \/ t.stage \in Awaiting \cup {"inserting"} /\ a = Ended(t, "failed")
BY EndedType DEF Aborted

LEMMA NoticeType ==
  ASSUME NEW type \in {"pending", "fail", "initFailed", "noPairingFile"}, NEW u \in Udid
  PROVE  Notice(type, u) \in NoticeEvent
BY DEF Notice, Event, NoticeEvent

LEMMA ConnectionEventType ==
  ASSUME NEW u \in Udid, NEW c \in ConnId, NEW w \in BOOLEAN
  PROVE  Connected(u, c, w) \in ConnectionEvent /\ Disconnected(u, c) \in ConnectionEvent
BY DEF Connected, Disconnected, Event, ConnectionEvent

LEMMA QueueType ==
  ASSUME SignalsTypeOK, NEW e \in ConnectionEvent \cup NoticeEvent, Queue(e)
  PROVE  events' \in Seq(ConnectionEvent \cup NoticeEvent)
BY DEF SignalsTypeOK, Queue

LEMMA TaskFields ==
  ASSUME CoreInv, NEW c \in ConnId
  PROVE  /\ task[c] \in Task /\ heartbeat[c] \in HeartbeatStage
         /\ task[c].kind \in Kind /\ task[c].stage \in Stage
         /\ task[c].stage # "unused" => task[c].udid \in Udid /\ c < nextId
         /\ task[c].left \in 0 .. MaxCandidates
         /\ IsWireless(c) \in BOOLEAN
<1>1. task[c] \in Task /\ heartbeat[c] \in HeartbeatStage
  BY DEF CoreInv, CoreTypeOK
<1>2. task[c].stage # "unused" => task[c].udid \in Udid
  BY DEF CoreInv, Fits
<1>3. task[c].stage # "unused" => c < nextId
  BY MaxConnAssumption DEF CoreInv, CoreTypeOK, NewNumbers, ConnId
<1> QED
  BY <1>1, <1>2, <1>3 DEF Task, IsWireless

-----------------------------------------------------------------------------
(* Steps that leave the registry alone.                                    *)

(* A task that was not registered still is not, if it moved at all ...     *)
Waits(c) ==
  \/ task'[c] = task[c] /\ heartbeat'[c] = heartbeat[c]
  \/ /\ task[c].stage \notin Committed
     /\ task'[c].stage \notin Committed \cup {"unused"}
     /\ task[c].stage # "unused" =>
          task'[c].kind = task[c].kind /\ task'[c].udid = task[c].udid
     /\ Fits(task'[c], heartbeat'[c])

(* ... and one that was registered goes on to its end, owing less.         *)
Proceeds(c) ==
  /\ task[c].stage \in Committed /\ task'[c].stage \in Committed
  /\ task'[c].kind = task[c].kind /\ task'[c].udid = task[c].udid
  /\ Fits(task'[c], heartbeat'[c])
  /\ Beating(c)' <=> Beating(c)
  /\ EndsByHeartbeat(c)' => EndsByHeartbeat(c)
  /\ task'[c].stage = "replaced" => task'[c] = task[c]

MapMoves(d) == deviceMap'[d] \in {deviceMap[d], NoEntry} \/ Mapped(d)'

ListenerMoves == listener'.state = "cleaning" => listener' = listener

LEMMA CalmKeepsInv ==
  ASSUME CoreInv, CoreTypeOK', NewNumbers', UNCHANGED registry, ListenerMoves,
         \A c \in ConnId : Waits(c) \/ Proceeds(c),
         \A d \in DeviceId : MapMoves(d)
  PROVE  CoreInv'
<1>1. ASSUME NEW c \in ConnId
      PROVE  /\ Fits(task'[c], heartbeat'[c])
             /\ Owned(c)'
             /\ task[c].stage \in Committed =>
                  /\ task'[c].stage \in Committed
                  /\ task'[c].kind = task[c].kind /\ task'[c].udid = task[c].udid
                  /\ Beating(c)' <=> Beating(c)
             /\ task[c].stage # "unused" =>
                  /\ task'[c].stage # "unused"
                  /\ task'[c].kind = task[c].kind /\ task'[c].udid = task[c].udid
             /\ EndsByHeartbeat(c)' => EndsByHeartbeat(c)
             /\ task'[c].stage = "replaced" => task'[c] = task[c]
  <2>1. Fits(task[c], heartbeat[c]) /\ Owned(c)
    BY DEF CoreInv
  <2> QED
    BY <2>1 DEF Waits, Proceeds, Fits, Owned, Beating, EndsByHeartbeat, IsCurrent, Committed, Awaiting
<1>2. ASSUME NEW u \in Udid
      PROVE  Backed(u)'
  <2>1. Backed(u) /\ registry'[u] = registry[u]
    BY DEF CoreInv
  <2>2. registry[u] # NoDevice => registry[u].id \in ConnId
    BY DEF CoreInv, CoreTypeOK, SignalsTypeOK, RegistryTypeOK, Connection
  <2> QED
    BY <2>1, <2>2, <1>1 DEF Backed, IsWireless
<1>3. ASSUME NEW d \in DeviceId
      PROVE  Mapped(d)'
  <2>1. CASE deviceMap'[d] = deviceMap[d]
    <3>1. Mapped(d) /\ (deviceMap[d] # NoEntry => deviceMap[d].id \in ConnId)
      BY DEF CoreInv, CoreTypeOK, MapEntry
    <3> QED
      BY <2>1, <3>1, <1>1 DEF Mapped
  <2>2. CASE deviceMap'[d] = NoEntry
    BY <2>2 DEF Mapped
  <2> QED
    BY <2>1, <2>2 DEF MapMoves
<1>4. ASSUME NEW x \in ConnId
      PROVE  EndedOnce(x)'
  <2>1. EndedOnce(x)
    BY DEF CoreInv
  <2>2. \A c \in ConnId : EndsByTask(c, x)' => EndsByTask(c, x) /\ task'[c].udid = task[c].udid
    BY <1>1 DEF EndsByTask
  <2>3. EndsByHeartbeat(x)' => EndsByHeartbeat(x)
    BY <1>1
  <2>4. EndsByListener(x)' => EndsByListener(x) /\ listener' = listener
    BY DEF ListenerMoves, EndsByListener
  <2>5. task[x].stage \in Committed =>
          /\ task'[x].stage \in Committed /\ task'[x].udid = task[x].udid
          /\ ~IsCurrent(task[x].udid, x) => ~IsCurrent(task[x].udid, x)'
    BY <1>1 DEF IsCurrent
  <2> QED
    BY <2>1, <2>2, <2>3, <2>4, <2>5 DEF EndedOnce
<1> QED
  BY <1>1, <1>2, <1>3, <1>4 DEF CoreInv

-----------------------------------------------------------------------------
(* The steps of tasks that are not registered.                             *)

(* Nothing but such tasks, their heartbeats and what waits in queues.      *)
Calm ==
  /\ CoreTypeOK' /\ NewNumbers'
  /\ UNCHANGED registry
  /\ ListenerMoves
  /\ \A c \in ConnId : Waits(c)
  /\ \A d \in DeviceId : MapMoves(d)

LEMMA TaskMoves ==
  ASSUME CoreInv, NEW c \in ConnId, NEW t \in Task,
         task[c].stage \notin Committed \cup {"unused"},
         t.stage \notin Committed \cup {"unused"},
         t.kind = task[c].kind, t.udid = task[c].udid,
         task' = [task EXCEPT ![c] = t],
         heartbeat' \in [ConnId -> HeartbeatStage],
         \A x \in ConnId \ {c} : heartbeat'[x] = heartbeat[x],
         Fits(t, heartbeat'[c]), UNCHANGED nextId
  PROVE  /\ task' \in [ConnId -> Task]
         /\ NewNumbers'
         /\ \A x \in ConnId : Waits(x)
<1>1. task \in [ConnId -> Task] /\ NewNumbers
  BY DEF CoreInv, CoreTypeOK
<1>2. task' \in [ConnId -> Task] /\ task'[c] = t /\ \A x \in ConnId \ {c} : task'[x] = task[x]
  BY <1>1
<1>3. NewNumbers'
  BY <1>1, <1>2 DEF NewNumbers
<1>4. \A x \in ConnId : Waits(x)
  BY <1>2 DEF Waits
<1> QED
  BY <1>2, <1>3, <1>4

LEMMA NextNumber ==
  ASSUME CoreInv, nextId <= MaxConn
  PROVE  /\ nextId \in ConnId /\ nextId + 1 \in 1 .. MaxConn + 1
         /\ task[nextId].stage = "unused" /\ heartbeat[nextId] = "none"
<1>1. nextId \in 1 .. MaxConn + 1 /\ NewNumbers
  BY DEF CoreInv, CoreTypeOK
<1>2. nextId \in ConnId /\ nextId + 1 \in 1 .. MaxConn + 1
  BY <1>1, MaxConnAssumption DEF ConnId
<1>3. task[nextId].stage = "unused"
  BY <1>1, <1>2 DEF NewNumbers, ConnId
<1> QED
  BY <1>2, <1>3 DEF CoreInv, Fits

LEMMA TaskStarts ==
  ASSUME CoreInv, nextId <= MaxConn,
         NEW kind \in Kind, NEW u \in Udid, NEW stage \in {"check", "init"},
         NEW left \in 0 .. MaxCandidates,
         task' \in [ConnId -> Task],
         task'[nextId] = NewTask(kind, u, stage, left),
         heartbeat'[nextId] = heartbeat[nextId],
         \A x \in ConnId \ {nextId} :
           Waits(x) /\ (task[x].stage = "unused" => task'[x] = task[x]),
         nextId' = nextId + 1
  PROVE  /\ nextId' \in 1 .. MaxConn + 1
         /\ NewNumbers'
         /\ \A x \in ConnId : Waits(x)
<1>1. /\ nextId \in ConnId /\ nextId' \in 1 .. MaxConn + 1
      /\ task[nextId].stage = "unused" /\ heartbeat[nextId] = "none" /\ NewNumbers
  BY NextNumber DEF CoreInv
<1>2. task'[nextId].stage = stage /\ task'[nextId].udid = u
  BY DEF NewTask
<1>3. Fits(task'[nextId], heartbeat'[nextId])
  BY <1>1, <1>2 DEF Fits
<1>4. Waits(nextId)
  BY <1>1, <1>2, <1>3 DEF Waits, Committed
<1>5. NewNumbers'
  BY <1>1 DEF NewNumbers, ConnId
<1> QED
  BY <1>1, <1>4, <1>5

-----------------------------------------------------------------------------
(* The queue keeps its type when a task sends a notice.                    *)
LEMMA NoticeQueued ==
  ASSUME CoreInv, NEW type \in {"pending", "fail", "initFailed", "noPairingFile"},
         NEW u \in Udid, Queue(Notice(type, u))
  PROVE  events' \in Seq(ConnectionEvent \cup NoticeEvent)
<1>1. Notice(type, u) \in NoticeEvent
  BY NoticeType
<1> QED
  BY <1>1, QueueType DEF CoreInv, CoreTypeOK

LEMMA FailMoves ==
  ASSUME CoreInv, NEW c \in ConnId, Fail(c),
         task[c].stage \notin Committed \cup {"unused"},
         heartbeat' \in [ConnId -> HeartbeatStage],
         \A x \in ConnId \ {c} : heartbeat'[x] = heartbeat[x],
         heartbeat'[c] = Stopped(heartbeat[c]), UNCHANGED nextId
  PROVE  /\ task' \in [ConnId -> Task]
         /\ NewNumbers'
         /\ \A x \in ConnId : Waits(x)
<1> DEFINE t == Ended(task[c], "failed")
<1>1. task[c] \in Task /\ heartbeat[c] \in HeartbeatStage /\ Fits(task[c], heartbeat[c])
  BY DEF CoreInv, CoreTypeOK
<1>2. t \in Task /\ t.stage = "failed" /\ t.kind = task[c].kind /\ t.udid = task[c].udid
  BY <1>1, EndedType
<1>3. Fits(t, Stopped(heartbeat[c]))
  BY <1>1, <1>2 DEF Fits, Stopped, HeartbeatStage, Awaiting, Committed
<1>4. task' = [task EXCEPT ![c] = t]
  BY DEF Fail, CoreInv, CoreTypeOK
<1> QED
  BY <1>2, <1>3, <1>4, TaskMoves DEF Committed

(* A step of one such task that fails, goes on, or pairs.                  *)
LEMMA StageMoves ==
  ASSUME CoreInv, NEW c \in ConnId, NEW stage \in {"pairing", "init"},
         task[c].stage \in Awaiting, NEW paired \in BOOLEAN,
         task' = [task EXCEPT ![c] = [@ EXCEPT !.stage = stage, !.paired = paired]],
         UNCHANGED <<nextId, heartbeat>>
  PROVE  /\ task' \in [ConnId -> Task]
         /\ NewNumbers'
         /\ \A x \in ConnId : Waits(x)
<1> DEFINE t == [task[c] EXCEPT !.stage = stage, !.paired = paired]
<1>1. /\ task \in [ConnId -> Task] /\ heartbeat \in [ConnId -> HeartbeatStage]
      /\ Fits(task[c], heartbeat[c])
  BY DEF CoreInv, CoreTypeOK
<1>2. /\ t \in Task /\ t.stage = stage /\ t.kind = task[c].kind /\ t.udid = task[c].udid
  BY <1>1 DEF Task, Stage, Awaiting
<1>3. Fits(t, heartbeat[c])
  BY <1>1, <1>2 DEF Fits, Awaiting
<1>4. task' = [task EXCEPT ![c] = t]
  BY <1>1
<1>5. task[c].stage \notin Committed \cup {"unused"} /\ t.stage \notin Committed \cup {"unused"}
  BY <1>2 DEF Committed, Awaiting
<1> QED
  BY <1>1, <1>2, <1>3, <1>4, <1>5, TaskMoves

LEMMA CheckPairRecordCalm ==
  ASSUME CoreInv, NEW c \in ConnId, CheckPairRecord(c)
  PROVE  Calm
<1>1. task[c].stage = "check" /\ task[c] \in Task /\ heartbeat[c] = "none" /\ task[c].udid \in Udid
  BY DEF CheckPairRecord, CoreInv, CoreTypeOK, Fits, Awaiting
<1>2. /\ task' \in [ConnId -> Task] /\ NewNumbers'
      /\ \A x \in ConnId : Waits(x)
      /\ events' \in Seq(ConnectionEvent \cup NoticeEvent)
  <2>0. heartbeat' = heartbeat /\ nextId' = nextId /\ heartbeat \in [ConnId -> HeartbeatStage]
    BY DEF CheckPairRecord, registryVars, CoreInv, CoreTypeOK
  <2>1. CASE Fail(c) /\ UNCHANGED events
    <3>1. heartbeat'[c] = Stopped(heartbeat[c])
      BY <1>1, <2>0 DEF Stopped
    <3> QED
      BY <1>1, <2>0, <2>1, <3>1, FailMoves DEF Committed, CoreInv, CoreTypeOK, SignalsTypeOK
  <2>2. CASE SetStage(c, "init") /\ UNCHANGED events
    <3>1. task[c].paired \in BOOLEAN
          /\ task' = [task EXCEPT ![c] = [@ EXCEPT !.stage = "init", !.paired = task[c].paired]]
      BY <1>1, <2>2 DEF SetStage, Task
    <3> QED
      BY <1>1, <2>0, <2>2, <3>1, StageMoves DEF Awaiting, CoreInv, CoreTypeOK, SignalsTypeOK
  <2>3. CASE BeginPairing(c, FALSE)
    <3>1. task' = [task EXCEPT ![c] = [@ EXCEPT !.stage = "pairing", !.paired = FALSE]]
      BY <1>1, <2>3 DEF BeginPairing
    <3>2. events' \in Seq(ConnectionEvent \cup NoticeEvent)
      BY <1>1, <2>3, NoticeQueued DEF BeginPairing
    <3> QED
      BY <1>1, <2>0, <3>1, <3>2, StageMoves DEF Awaiting
  <2> QED
    BY <2>1, <2>2, <2>3 DEF CheckPairRecord
<1> QED
  BY <1>2 DEF CheckPairRecord, Calm, CoreInv, CoreTypeOK, SignalsTypeOK, RegistryTypeOK,
     registryVars, usbVars, requestVars, ListenerMoves, MapMoves

LEMMA FinishPairingCalm ==
  ASSUME CoreInv, NEW c \in ConnId, FinishPairing(c)
  PROVE  Calm
<1>1. task[c].stage = "pairing" /\ task[c] \in Task /\ heartbeat[c] = "none" /\ task[c].udid \in Udid
  BY DEF FinishPairing, CoreInv, CoreTypeOK, Fits, Awaiting
<1>2. /\ task' \in [ConnId -> Task] /\ NewNumbers'
      /\ \A x \in ConnId : Waits(x)
      /\ events' \in Seq(ConnectionEvent \cup NoticeEvent)
  <2>0. heartbeat' = heartbeat /\ nextId' = nextId /\ heartbeat \in [ConnId -> HeartbeatStage]
    BY DEF FinishPairing, registryVars, CoreInv, CoreTypeOK
  <2>1. CASE SetStage(c, "init") /\ UNCHANGED events
    <3>1. task[c].paired \in BOOLEAN
          /\ task' = [task EXCEPT ![c] = [@ EXCEPT !.stage = "init", !.paired = task[c].paired]]
      BY <1>1, <2>1 DEF SetStage, Task
    <3> QED
      BY <1>1, <2>0, <2>1, <3>1, StageMoves DEF Awaiting, CoreInv, CoreTypeOK, SignalsTypeOK
  <2>2. CASE Fail(c) /\ Queue(Notice("fail", task[c].udid))
    <3>1. heartbeat'[c] = Stopped(heartbeat[c])
      BY <1>1, <2>0 DEF Stopped
    <3>2. events' \in Seq(ConnectionEvent \cup NoticeEvent)
      BY <1>1, <2>2, NoticeQueued
    <3> QED
      BY <1>1, <2>0, <2>2, <3>1, <3>2, FailMoves DEF Committed
  <2> QED
    BY <2>1, <2>2 DEF FinishPairing
<1> QED
  BY <1>2 DEF FinishPairing, Calm, CoreInv, CoreTypeOK, SignalsTypeOK, RegistryTypeOK,
     registryVars, usbVars, requestVars, ListenerMoves, MapMoves

LEMMA UsbInitFailsCalm ==
  ASSUME CoreInv, NEW c \in ConnId, UsbInitFails(c)
  PROVE  Calm
<1>1. task[c].stage = "init" /\ task[c] \in Task /\ heartbeat[c] = "none" /\ task[c].udid \in Udid
  BY DEF UsbInitFails, CoreInv, CoreTypeOK, Fits, Awaiting
<1>2. /\ task' \in [ConnId -> Task] /\ NewNumbers'
      /\ \A x \in ConnId : Waits(x)
      /\ events' \in Seq(ConnectionEvent \cup NoticeEvent)
  <2>0. heartbeat' = heartbeat /\ nextId' = nextId /\ heartbeat \in [ConnId -> HeartbeatStage]
    BY DEF UsbInitFails, registryVars, CoreInv, CoreTypeOK
  <2>1. CASE Fail(c) /\ UNCHANGED events
    <3>1. heartbeat'[c] = Stopped(heartbeat[c])
      BY <1>1, <2>0 DEF Stopped
    <3> QED
      BY <1>1, <2>0, <2>1, <3>1, FailMoves DEF Committed, CoreInv, CoreTypeOK, SignalsTypeOK
  <2>2. CASE BeginPairing(c, TRUE)
    <3>1. task' = [task EXCEPT ![c] = [@ EXCEPT !.stage = "pairing", !.paired = TRUE]]
      BY <1>1, <2>2 DEF BeginPairing
    <3>2. events' \in Seq(ConnectionEvent \cup NoticeEvent)
      BY <1>1, <2>2, NoticeQueued DEF BeginPairing
    <3> QED
      BY <1>1, <2>0, <3>1, <3>2, StageMoves DEF Awaiting
  <2> QED
    BY <2>1, <2>2 DEF UsbInitFails
<1> QED
  BY <1>2 DEF UsbInitFails, Calm, CoreInv, CoreTypeOK, SignalsTypeOK, RegistryTypeOK,
     registryVars, usbVars, requestVars, ListenerMoves, MapMoves

(* The next record, or none left: the wireless attempt's task ends.        *)
LEMMA NextCandidateMoves ==
  ASSUME CoreInv, NEW c \in ConnId, NextCandidate(c),
         task[c].stage \notin Committed \cup {"unused"},
         heartbeat' \in [ConnId -> HeartbeatStage],
         \A x \in ConnId \ {c} : heartbeat'[x] = heartbeat[x],
         heartbeat'[c] = Stopped(heartbeat[c])
  PROVE  /\ task' \in [ConnId -> Task] /\ nextId' \in 1 .. MaxConn + 1
         /\ NewNumbers'
         /\ \A x \in ConnId : Waits(x)
         /\ events' \in Seq(ConnectionEvent \cup NoticeEvent)
<1> DEFINE t == Ended(task[c], "failed")
<1>1. /\ task \in [ConnId -> Task] /\ heartbeat[c] \in HeartbeatStage
      /\ Fits(task[c], heartbeat[c]) /\ task[c].udid \in Udid
      /\ nextId \in 1 .. MaxConn + 1
      /\ events \in Seq(ConnectionEvent \cup NoticeEvent)
  BY DEF CoreInv, CoreTypeOK, Fits, SignalsTypeOK
<1>2. t \in Task /\ t.stage = "failed" /\ t.kind = task[c].kind /\ t.udid = task[c].udid
  BY <1>1, EndedType
<1>3. Fits(t, Stopped(heartbeat[c]))
  BY <1>1, <1>2 DEF Fits, Stopped, HeartbeatStage, Awaiting, Committed
<1>4. CASE /\ task[c].left > 0
           /\ nextId <= MaxConn
           /\ task' = [task EXCEPT ![c] = Ended(@, "failed"),
                        ![nextId] = NewTask("wireless", task[c].udid, "init", task[c].left - 1)]
           /\ nextId' = nextId + 1
           /\ UNCHANGED events
  <2> DEFINE new == NewTask("wireless", task[c].udid, "init", task[c].left - 1)
  <2>1. nextId \in ConnId /\ task[nextId].stage = "unused"
    BY <1>4, NextNumber
  <2>2. task[c].left - 1 \in 0 .. MaxCandidates /\ "wireless" \in Kind
    BY <1>1, <1>4, CoreAssumption DEF Task, Kind
  <2>3. new \in Task
    BY <1>1, <2>2, NewTaskType DEF Stage, Awaiting
  <2>4. c # nextId
    BY <2>1
  <2>5. /\ task' \in [ConnId -> Task] /\ task'[nextId] = new /\ task'[c] = t
        /\ \A x \in ConnId \ {c, nextId} : task'[x] = task[x]
    BY <1>1, <1>2, <1>4, <2>1, <2>3, <2>4
  <2>6. \A x \in ConnId \ {nextId} :
           Waits(x) /\ (task[x].stage = "unused" => task'[x] = task[x])
    BY <1>2, <1>3, <2>5 DEF Waits, Committed
  <2> HIDE DEF new
  <2>7. heartbeat'[nextId] = heartbeat[nextId]
    BY <2>1, <2>4
  <2>8. /\ nextId' \in 1 .. MaxConn + 1 /\ NewNumbers' /\ \A x \in ConnId : Waits(x)
    BY <1>1, <1>4, <2>2, <2>5, <2>6, <2>7, TaskStarts DEF new
  <2> QED
    BY <1>1, <1>4, <2>5, <2>8
<1>5. CASE Fail(c) /\ Queue(Notice("noPairingFile", task[c].udid)) /\ UNCHANGED nextId
  BY <1>1, <1>5, FailMoves, NoticeQueued
<1> QED
  BY <1>4, <1>5 DEF NextCandidate

LEMMA StartWirelessCalm ==
  ASSUME CoreInv, NEW u \in Udid, StartWireless(u)
  PROVE  Calm
<1>1. /\ heartbeat' = heartbeat /\ task \in [ConnId -> Task]
      /\ events \in Seq(ConnectionEvent \cup NoticeEvent)
      /\ discovering \in [Udid -> Nat] /\ nextId \in 1 .. MaxConn + 1 /\ NewNumbers
  BY DEF StartWireless, registryVars, CoreInv, CoreTypeOK, SignalsTypeOK
<1>2. discovering' \in [Udid -> Nat]
  BY <1>1 DEF StartWireless
<1>3. /\ task' \in [ConnId -> Task] /\ nextId' \in 1 .. MaxConn + 1
      /\ NewNumbers'
      /\ \A x \in ConnId : Waits(x)
      /\ events' \in Seq(ConnectionEvent \cup NoticeEvent)
  <2>1. CASE /\ \E type \in {"initFailed", "noPairingFile"} : Queue(Notice(type, u))
             /\ UNCHANGED taskVars
    BY <1>1, <2>1, NoticeQueued DEF taskVars, NewNumbers, Waits
  <2>2. CASE /\ nextId <= MaxConn
             /\ \E n \in 1 .. MaxCandidates :
                  task' = [task EXCEPT ![nextId] = NewTask("wireless", u, "init", n - 1)]
             /\ nextId' = nextId + 1
             /\ UNCHANGED events
    <3>1. PICK n \in 1 .. MaxCandidates :
            task' = [task EXCEPT ![nextId] = NewTask("wireless", u, "init", n - 1)]
      BY <2>2
    <3>2. n - 1 \in 0 .. MaxCandidates /\ "wireless" \in Kind
      BY CoreAssumption DEF Kind
    <3> DEFINE new == NewTask("wireless", u, "init", n - 1)
    <3>3. nextId \in ConnId /\ new \in Task
      BY <2>2, <3>2, NextNumber, NewTaskType DEF Stage, Awaiting
    <3>4. /\ task' \in [ConnId -> Task] /\ task'[nextId] = new
          /\ \A x \in ConnId \ {nextId} : task'[x] = task[x]
      BY <1>1, <3>1, <3>3
    <3> HIDE DEF new
    <3>5. \A x \in ConnId \ {nextId} :
             Waits(x) /\ (task[x].stage = "unused" => task'[x] = task[x])
      BY <1>1, <3>4 DEF Waits
    <3> QED
      BY <1>1, <2>2, <3>2, <3>4, <3>5, TaskStarts DEF new
  <2> QED
    BY <2>1, <2>2 DEF StartWireless
<1> QED
  BY <1>2, <1>3 DEF StartWireless, Calm, CoreInv, CoreTypeOK, SignalsTypeOK, RegistryTypeOK,
     registryVars, usbVars, requestVars, ListenerMoves, MapMoves

LEMMA StartCustomCalm ==
  ASSUME CoreInv, NEW u \in Udid, StartCustom(u)
  PROVE  Calm
<1> DEFINE new == NewTask("custom", u, "init", 0)
<1>1. heartbeat' = heartbeat /\ task \in [ConnId -> Task]
  BY DEF StartCustom, registryVars, CoreInv, CoreTypeOK
<1>2. 0 \in 0 .. MaxCandidates /\ "custom" \in Kind
  BY CoreAssumption DEF Kind
<1>3. nextId \in ConnId /\ new \in Task
  BY <1>2, NextNumber, NewTaskType DEF StartCustom, Stage, Awaiting
<1>4. /\ task' \in [ConnId -> Task] /\ task'[nextId] = new
      /\ \A x \in ConnId \ {nextId} : task'[x] = task[x]
  BY <1>1, <1>3 DEF StartCustom
<1> HIDE DEF new
<1>5. \A x \in ConnId \ {nextId} :
        Waits(x) /\ (task[x].stage = "unused" => task'[x] = task[x])
  BY <1>1, <1>4 DEF Waits
<1>6. nextId' \in 1 .. MaxConn + 1 /\ NewNumbers' /\ \A x \in ConnId : Waits(x)
  BY <1>1, <1>2, <1>4, <1>5, TaskStarts DEF StartCustom, new
<1> QED
  BY <1>4, <1>6 DEF StartCustom, Calm, CoreInv, CoreTypeOK, SignalsTypeOK, RegistryTypeOK,
     registryVars, usbVars, requestVars, ListenerMoves, MapMoves

LEMMA WirelessInitFailsCalm ==
  ASSUME CoreInv, NEW c \in ConnId, WirelessInitFails(c)
  PROVE  Calm
<1>1. /\ task[c].stage = "init" /\ heartbeat[c] = "none" /\ heartbeat' = heartbeat
      /\ heartbeat \in [ConnId -> HeartbeatStage]
  BY DEF WirelessInitFails, registryVars, CoreInv, CoreTypeOK, Fits, Awaiting
<1>2. heartbeat'[c] = Stopped(heartbeat[c])
  BY <1>1 DEF Stopped
<1>3. /\ task' \in [ConnId -> Task] /\ nextId' \in 1 .. MaxConn + 1
      /\ NewNumbers'
      /\ \A x \in ConnId : Waits(x)
      /\ events' \in Seq(ConnectionEvent \cup NoticeEvent)
  BY <1>1, <1>2, NextCandidateMoves DEF WirelessInitFails, Committed
<1> QED
  BY <1>3 DEF WirelessInitFails, Calm, CoreInv, CoreTypeOK, SignalsTypeOK, RegistryTypeOK,
     registryVars, usbVars, requestVars, ListenerMoves, MapMoves

LEMMA StoppedType ==
  ASSUME NEW beats \in [ConnId -> HeartbeatStage], NEW c \in ConnId
  PROVE  /\ [beats EXCEPT ![c] = Stopped(@)] \in [ConnId -> HeartbeatStage]
         /\ [beats EXCEPT ![c] = Stopped(@)][c] = Stopped(beats[c])
         /\ \A x \in ConnId \ {c} : [beats EXCEPT ![c] = Stopped(@)][x] = beats[x]
BY DEF Stopped, HeartbeatStage

LEMMA WirelessTimeoutCalm ==
  ASSUME CoreInv, NEW c \in ConnId, WirelessTimeout(c)
  PROVE  Calm
<1>1. /\ task[c].stage \notin Committed \cup {"unused"}
      /\ heartbeat \in [ConnId -> HeartbeatStage]
      /\ nextId' = nextId /\ nextId \in 1 .. MaxConn + 1
      /\ task[c].udid \in Udid
  BY DEF WirelessTimeout, Committed, CoreInv, CoreTypeOK, Fits
<1>2. /\ heartbeat' \in [ConnId -> HeartbeatStage]
      /\ heartbeat'[c] = Stopped(heartbeat[c])
      /\ \A x \in ConnId \ {c} : heartbeat'[x] = heartbeat[x]
  BY <1>1, StoppedType DEF WirelessTimeout
<1>3. task' \in [ConnId -> Task] /\ NewNumbers' /\ \A x \in ConnId : Waits(x)
  BY <1>1, <1>2, FailMoves DEF WirelessTimeout
<1>4. events' \in Seq(ConnectionEvent \cup NoticeEvent)
  BY <1>1, NoticeQueued DEF WirelessTimeout
<1> QED
  BY <1>1, <1>2, <1>3, <1>4 DEF WirelessTimeout, Calm, CoreInv, CoreTypeOK, SignalsTypeOK, RegistryTypeOK,
     registryVars, usbVars, requestVars, ListenerMoves, MapMoves

LEMMA CustomInitFailsCalm ==
  ASSUME CoreInv, NEW c \in ConnId, CustomInitFails(c)
  PROVE  Calm
<1>1. /\ task[c].stage \notin Committed \cup {"unused"}
      /\ heartbeat \in [ConnId -> HeartbeatStage]
      /\ nextId' = nextId /\ nextId \in 1 .. MaxConn + 1
  BY DEF CustomInitFails, Committed, CoreInv, CoreTypeOK
<1>2. /\ heartbeat' \in [ConnId -> HeartbeatStage]
      /\ heartbeat'[c] = Stopped(heartbeat[c])
      /\ \A x \in ConnId \ {c} : heartbeat'[x] = heartbeat[x]
  BY <1>1, StoppedType DEF CustomInitFails
<1>3. task' \in [ConnId -> Task] /\ NewNumbers' /\ \A x \in ConnId : Waits(x)
  BY <1>1, <1>2, FailMoves DEF CustomInitFails
<1> QED
  BY <1>1, <1>2, <1>3 DEF CustomInitFails, Calm, CoreInv, CoreTypeOK, SignalsTypeOK, RegistryTypeOK,
     registryVars, usbVars, requestVars, ListenerMoves, MapMoves

LEMMA InsertRejectedCalm ==
  ASSUME CoreInv, NEW c \in ConnId, InsertRejected(c)
  PROVE  Calm
<1>1. /\ task[c].stage = "inserting"
      /\ heartbeat \in [ConnId -> HeartbeatStage]
      /\ nextId \in 1 .. MaxConn + 1
      /\ events \in Seq(ConnectionEvent \cup NoticeEvent)
  BY DEF InsertRejected, CoreInv, CoreTypeOK, SignalsTypeOK
<1>2. /\ heartbeat' \in [ConnId -> HeartbeatStage]
      /\ heartbeat'[c] = Stopped(heartbeat[c])
      /\ \A x \in ConnId \ {c} : heartbeat'[x] = heartbeat[x]
  BY <1>1, StoppedType DEF InsertRejected
<1>3. /\ task' \in [ConnId -> Task] /\ nextId' \in 1 .. MaxConn + 1
      /\ NewNumbers'
      /\ \A x \in ConnId : Waits(x)
      /\ events' \in Seq(ConnectionEvent \cup NoticeEvent)
  <2>1. CASE NextCandidate(c)
    BY <1>1, <1>2, <2>1, NextCandidateMoves DEF Committed
  <2>2. CASE Fail(c) /\ UNCHANGED <<nextId, events>>
    BY <1>1, <1>2, <2>2, FailMoves DEF Committed
  <2> QED
    BY <2>1, <2>2 DEF InsertRejected
<1> QED
  BY <1>2, <1>3 DEF InsertRejected, Calm, CoreInv, CoreTypeOK, SignalsTypeOK, RegistryTypeOK,
     registryVars, usbVars, requestVars, ListenerMoves, MapMoves

LEMMA CollectedCalm ==
  ASSUME CoreInv, NEW c \in ConnId, Collected(c)
  PROVE  Calm
<1> DEFINE t == [task[c] EXCEPT !.stage = "inserting"]
<1>1. /\ task[c].stage = "init" /\ task \in [ConnId -> Task]
      /\ heartbeat[c] = "none" /\ task[c].udid \in Udid
      /\ heartbeat \in [ConnId -> HeartbeatStage]
  BY DEF Collected, CoreInv, CoreTypeOK, Fits, Awaiting
<1>2. t \in Task /\ t.stage = "inserting" /\ t.kind = task[c].kind /\ t.udid = task[c].udid
  BY <1>1 DEF Task, Stage
<1>3. /\ heartbeat' \in [ConnId -> HeartbeatStage]
      /\ heartbeat'[c] = IF t.kind # "usb" THEN "waiting" ELSE "none"
      /\ \A x \in ConnId \ {c} : heartbeat'[x] = heartbeat[x]
  BY <1>1, <1>2 DEF Collected, IsWireless, HeartbeatStage
<1>4. Fits(t, heartbeat'[c])
  BY <1>1, <1>2, <1>3 DEF Fits, Awaiting
<1>5. task' = [task EXCEPT ![c] = t] /\ nextId' = nextId
  BY <1>1 DEF Collected, SetStage
<1>6. task' \in [ConnId -> Task] /\ NewNumbers' /\ \A x \in ConnId : Waits(x)
  BY <1>1, <1>2, <1>3, <1>4, <1>5, TaskMoves DEF Committed
<1> QED
  BY <1>3, <1>5, <1>6 DEF Collected, Calm, CoreInv, CoreTypeOK, SignalsTypeOK, RegistryTypeOK,
     registryVars, usbVars, requestVars, ListenerMoves, MapMoves

-----------------------------------------------------------------------------
(* Steps of the cable, the listening thread and the interface.             *)

LEMMA IdleCalm ==
  ASSUME CoreInv, CoreTypeOK', ListenerMoves,
         UNCHANGED <<registry, task, heartbeat, nextId, deviceMap>>
  PROVE  Calm
<1>1. NewNumbers' /\ \A c \in ConnId : Waits(c)
  BY DEF CoreInv, NewNumbers, Waits
<1>2. \A d \in DeviceId : MapMoves(d)
  BY DEF MapMoves
<1> QED
  BY <1>1, <1>2 DEF Calm

LEMMA WorldCalm ==
  ASSUME CoreInv, World
  PROVE  Calm
<1>0. CoreTypeOK
  BY DEF CoreInv
<1> USE DEF registryVars, taskVars, requestVars
<1>1. ASSUME NEW u \in Udid, NEW d \in DeviceId, Plug(u, d)
      PROVE  Calm
  <2>1. [type |-> "connected", dev |-> d, udid |-> u] \in StreamEvent
    BY DEF StreamEvent
  <2>2. stream' \in Seq(StreamEvent) /\ attached' \in [DeviceId -> Udid \cup {NoUdid}]
    BY <1>0, <1>1, <2>1 DEF Plug, CoreTypeOK
  <2> QED
    BY <1>0, <1>1, <2>2, IdleCalm DEF Plug, CoreTypeOK, SignalsTypeOK, RegistryTypeOK, ListenerMoves
<1>2. ASSUME NEW d \in DeviceId, Unplug(d)
      PROVE  Calm
  <2>1. [type |-> "disconnected", dev |-> d, udid |-> NoUdid] \in StreamEvent
    BY DEF StreamEvent
  <2>2. stream' \in Seq(StreamEvent) /\ attached' \in [DeviceId -> Udid \cup {NoUdid}]
    BY <1>0, <1>2, <2>1 DEF Unplug, CoreTypeOK
  <2> QED
    BY <1>0, <1>2, <2>2, IdleCalm DEF Unplug, CoreTypeOK, SignalsTypeOK, RegistryTypeOK, ListenerMoves
<1>3. ASSUME LoseStream
      PROVE  Calm
  <2>1. losses' \in 0 .. MaxLosses /\ listener' \in ListenerState /\ listener'.state = "down"
        /\ stream' \in Seq(StreamEvent)
    BY <1>0, <1>3, CoreAssumption DEF LoseStream, CoreTypeOK, ListenerState, Down
  <2> QED
    BY <1>0, <1>3, <2>1, IdleCalm DEF LoseStream, CoreTypeOK, SignalsTypeOK, RegistryTypeOK, ListenerMoves
<1> QED
  BY <1>1, <1>2, <1>3 DEF World

LEMMA RelistenCalm ==
  ASSUME CoreInv, Relisten
  PROVE  Calm
<1> DEFINE present == {d \in DeviceId : attached[d] # NoUdid}
<1>0. CoreTypeOK
  BY DEF CoreInv
<1>1. PICK order \in [1 .. Cardinality(present) -> present] :
        stream' = [i \in DOMAIN order |->
                 [type |-> "connected", dev |-> order[i], udid |-> attached[order[i]]]]
  BY DEF Relisten
<1>2. Cardinality(present) \in Nat
  <2>1. present \subseteq DeviceId
    OBVIOUS
  <2> QED
    BY <2>1, FS_Subset, FS_CardinalityType, CoreAssumption
<1>3. \A i \in DOMAIN order :
        [type |-> "connected", dev |-> order[i], udid |-> attached[order[i]]] \in StreamEvent
  <2> SUFFICES ASSUME NEW i \in DOMAIN order
               PROVE  [type |-> "connected", dev |-> order[i], udid |-> attached[order[i]]]
                        \in StreamEvent
    OBVIOUS
  <2>1. order[i] \in DeviceId /\ attached[order[i]] \in Udid
    BY <1>0 DEF CoreTypeOK
  <2> QED
    BY <2>1 DEF StreamEvent
<1>4. stream' \in [1 .. Cardinality(present) -> StreamEvent]
  BY <1>1, <1>3
<1> HIDE DEF present
<1>5. stream' \in Seq(StreamEvent)
  BY <1>2, <1>4
<1>6. listener' \in ListenerState /\ listener'.state = "listening"
  BY DEF Relisten, ListenerState, Listening
<1> QED
  BY <1>0, <1>5, <1>6, IdleCalm
     DEF Relisten, CoreTypeOK, SignalsTypeOK, RegistryTypeOK, ListenerMoves,
         registryVars, taskVars, requestVars

LEMMA ListenerCleanedCalm ==
  ASSUME CoreInv, ListenerCleaned
  PROVE  /\ Calm
         /\ Disconnected(listener.udid, listener.id) \in ConnectionEvent
<1>0. CoreTypeOK
  BY DEF CoreInv
<1>1. listener.udid \in Udid /\ listener.id \in ConnId
  BY <1>0 DEF ListenerCleaned, CoreTypeOK, ListenerState, Listening, Down
<1>2. Disconnected(listener.udid, listener.id) \in ConnectionEvent
  BY <1>1, ConnectionEventType
<1>3. events' \in Seq(ConnectionEvent \cup NoticeEvent)
  BY <1>0, <1>2, QueueType DEF ListenerCleaned, CoreTypeOK
<1>4. listener' \in ListenerState /\ listener'.state = "listening"
  BY DEF ListenerCleaned, ListenerState, Listening
<1>5. Calm
  BY <1>0, <1>3, <1>4, IdleCalm
     DEF ListenerCleaned, CoreTypeOK, SignalsTypeOK, RegistryTypeOK, ListenerMoves,
         registryVars, taskVars, requestVars
<1> QED
  BY <1>2, <1>5

LEMMA InterfaceCalm ==
  ASSUME CoreInv, AnyInterface
  PROVE  Calm
<1>0. CoreTypeOK
  BY DEF CoreInv
<1> USE DEF registryVars, usbVars, taskVars, requestVars
<1>1. ASSUME NEW u \in Udid, RequestWireless(u)
      PROVE  Calm
  <2>1. discovering' \in [Udid -> Nat]
    BY <1>0, <1>1 DEF RequestWireless, CoreTypeOK, SignalsTypeOK
  <2> QED
    BY <1>0, <1>1, <2>1, IdleCalm
       DEF RequestWireless, CoreTypeOK, SignalsTypeOK, RegistryTypeOK, ListenerMoves
<1>2. ASSUME NEW c \in ConnId, RequestRemoval(c)
      PROVE  Calm
  <2>1. <<task[c].udid, c>> \in Udid \X ConnId
    BY <1>2, TaskFields DEF RequestRemoval
  <2>2. removals' \in SUBSET (Udid \X ConnId)
    BY <1>0, <1>2, <2>1 DEF RequestRemoval, CoreTypeOK, SignalsTypeOK
  <2> QED
    BY <1>0, <1>2, <2>2, IdleCalm
       DEF RequestRemoval, CoreTypeOK, SignalsTypeOK, RegistryTypeOK, ListenerMoves
<1>3. ASSUME DeliverEvent
      PROVE  Calm
  <2>1. events' \in Seq(ConnectionEvent \cup NoticeEvent)
    BY <1>0, <1>3 DEF DeliverEvent, CoreTypeOK, SignalsTypeOK
  <2> QED
    BY <1>0, <1>3, <2>1, IdleCalm
       DEF DeliverEvent, CoreTypeOK, SignalsTypeOK, RegistryTypeOK, ListenerMoves
<1> QED
  BY <1>1, <1>2, <1>3, StartCustomCalm DEF AnyInterface

(* abort() leaves a task that was not registered unregistered, and one     *)
(* that was as it is.                                                      *)
LEMMA AbortMoves ==
  ASSUME CoreInv, NEW c \in ConnId, task[c].stage # "unused", task[c].kind = "usb",
         NEW t \in Aborted(task[c]), task'[c] = t, heartbeat'[c] = heartbeat[c]
  PROVE  /\ t \in Task
         /\ Waits(c)
         /\ task[c].stage \in Committed => t = task[c]
<1>1. task[c] \in Task /\ heartbeat[c] = "none" /\ task[c].udid \in Udid
  BY DEF CoreInv, CoreTypeOK, Fits
<1>2. /\ t \in Task
      /\ \/ t = task[c]
         \/ task[c].stage \in Awaiting \cup {"inserting"} /\ t = Ended(task[c], "failed")
  BY <1>1, AbortedType
<1>3. CASE t = task[c]
  BY <1>2, <1>3 DEF Waits
<1>4. CASE task[c].stage \in Awaiting \cup {"inserting"} /\ t = Ended(task[c], "failed")
  <2>1. t.stage = "failed" /\ t.kind = task[c].kind /\ t.udid = task[c].udid
    BY <1>1, <1>4, EndedType
  <2>2. Fits(t, heartbeat[c])
    BY <1>1, <2>1 DEF Fits, Awaiting
  <2> QED
    BY <1>2, <1>4, <2>1, <2>2 DEF Waits, Committed, Awaiting
<1> QED
  BY <1>2, <1>3, <1>4

LEMMA OnUsbConnectedCalm ==
  ASSUME CoreInv, OnUsbConnected
  PROVE  Calm
<1> DEFINE e == Head(stream)
           before == deviceMap[e.dev]
           new == NewTask("usb", e.udid, "check", 0)
<1>0. CoreTypeOK /\ stream # <<>> /\ e.type = "connected" /\ nextId <= MaxConn
  BY DEF OnUsbConnected, CoreInv
<1>1. e.dev \in DeviceId /\ e.udid \in Udid /\ stream' \in Seq(StreamEvent)
  <2>1. e \in StreamEvent /\ Tail(stream) \in Seq(StreamEvent)
    BY <1>0 DEF CoreTypeOK
  <2> QED
    BY <1>0, <2>1 DEF StreamEvent, OnUsbConnected
<1>2. 0 \in 0 .. MaxCandidates /\ "usb" \in Kind
  BY CoreAssumption DEF Kind
<1>3. nextId \in ConnId /\ task[nextId].stage = "unused" /\ new \in Task
  BY <1>0, <1>1, <1>2, NextNumber, NewTaskType DEF Stage, Awaiting
<1>4. /\ deviceMap' = [deviceMap EXCEPT ![e.dev] = [udid |-> e.udid, id |-> nextId]]
      /\ nextId' = nextId + 1 /\ heartbeat' = heartbeat
      /\ \/ before = NoEntry /\ task' = [task EXCEPT ![nextId] = new]
         \/ /\ before # NoEntry
            /\ \E t \in Aborted(task[before.id]) :
                 task' = [task EXCEPT ![nextId] = new, ![before.id] = t]
  BY DEF OnUsbConnected, registryVars
<1> HIDE DEF e, before, new
<1>5. /\ task' \in [ConnId -> Task] /\ task'[nextId] = new
      /\ \A x \in ConnId \ {nextId} :
           Waits(x) /\ (task[x].stage = "unused" => task'[x] = task[x])
  <2>1. CASE task' = [task EXCEPT ![nextId] = new]
    BY <1>0, <1>3, <1>4, <2>1 DEF Waits, CoreTypeOK
  <2>2. CASE /\ before # NoEntry
             /\ \E t \in Aborted(task[before.id]) :
                  task' = [task EXCEPT ![nextId] = new, ![before.id] = t]
    <3>1. PICK t \in Aborted(task[before.id]) :
            task' = [task EXCEPT ![nextId] = new, ![before.id] = t]
      BY <2>2
    <3>2. before.id \in ConnId
      BY <1>0, <1>1, <2>2 DEF before, CoreTypeOK, MapEntry
    <3>3. task[before.id].stage # "unused" /\ task[before.id].kind = "usb"
      BY <1>1, <2>2 DEF before, CoreInv, Mapped
    <3>4. before.id # nextId
      BY <1>3, <3>3
    <3>5. /\ task'[nextId] = new /\ task'[before.id] = t
          /\ \A x \in ConnId \ {nextId, before.id} : task'[x] = task[x]
      BY <1>0, <1>3, <3>1, <3>2, <3>4 DEF CoreTypeOK
    <3>6. t \in Task /\ Waits(before.id)
      BY <1>4, <3>2, <3>3, <3>5, AbortMoves
    <3>7. task' \in [ConnId -> Task]
      BY <1>0, <1>3, <3>1, <3>2, <3>6 DEF CoreTypeOK
    <3>8. \A x \in ConnId \ {nextId, before.id} : Waits(x)
      BY <1>4, <3>5 DEF Waits
    <3> QED
      BY <3>3, <3>5, <3>6, <3>7, <3>8
  <2> QED
    BY <1>4, <2>1, <2>2
<1>6. nextId' \in 1 .. MaxConn + 1 /\ NewNumbers' /\ \A x \in ConnId : Waits(x)
  BY <1>0, <1>1, <1>2, <1>4, <1>5, TaskStarts DEF new
<1>7. deviceMap' \in [DeviceId -> MapEntry]
  BY <1>0, <1>1, <1>3, <1>4 DEF MapEntry, CoreTypeOK
<1>8. ASSUME NEW d \in DeviceId
      PROVE  MapMoves(d)
  <2>1. CASE d = e.dev
    <3>1. deviceMap'[d] = [udid |-> e.udid, id |-> nextId]
      BY <1>0, <1>1, <1>4, <2>1 DEF CoreTypeOK
    <3>2. task'[nextId].stage = "check" /\ task'[nextId].kind = "usb" /\ task'[nextId].udid = e.udid
      BY <1>5 DEF new, NewTask
    <3> QED
      BY <3>1, <3>2 DEF MapMoves, Mapped
  <2>2. CASE d # e.dev
    BY <1>0, <1>1, <1>4, <2>2 DEF CoreTypeOK, MapMoves
  <2> QED
    BY <2>1, <2>2
<1>9. ListenerMoves /\ UNCHANGED registry
  BY DEF ListenerMoves, OnUsbConnected, registryVars
<1>10. CoreTypeOK'
  BY <1>0, <1>1, <1>5, <1>6, <1>7
     DEF OnUsbConnected, CoreTypeOK, SignalsTypeOK, RegistryTypeOK, registryVars, requestVars
<1> QED
  BY <1>6, <1>8, <1>9, <1>10 DEF Calm

(* An unplugged connection that was not the registered one.                *)
LEMMA OnUsbDisconnectedMoves ==
  ASSUME CoreInv, OnUsbDisconnected
  PROVE  /\ Head(stream).dev \in DeviceId
         /\ stream' \in Seq(StreamEvent) /\ deviceMap' \in [DeviceId -> MapEntry]
         /\ \A d \in DeviceId : MapMoves(d)
<1>0. CoreTypeOK /\ stream # <<>> /\ Head(stream).type = "disconnected"
  BY DEF OnUsbDisconnected, CoreInv
<1>1. Head(stream) \in StreamEvent /\ Tail(stream) \in Seq(StreamEvent)
  BY <1>0 DEF CoreTypeOK
<1>2. Head(stream).dev \in DeviceId
  BY <1>0, <1>1 DEF StreamEvent
<1>3. /\ stream' = Tail(stream)
      /\ deviceMap' = [deviceMap EXCEPT ![Head(stream).dev] = NoEntry]
  BY DEF OnUsbDisconnected
<1> QED
  BY <1>0, <1>1, <1>2, <1>3 DEF CoreTypeOK, MapEntry, MapMoves

LEMMA UnplugCalm ==
  ASSUME CoreInv, OnUsbDisconnected, UNCHANGED <<registry, listener>>
  PROVE  Calm
<1> DEFINE entry == deviceMap[Head(stream).dev]
<1>0. CoreTypeOK
  BY DEF CoreInv
<1>1. /\ task' \in [ConnId -> Task]
      /\ \A c \in ConnId : Waits(c) /\ (task[c].stage = "unused" => task'[c] = task[c])
  <2>0. heartbeat' = heartbeat
    BY DEF OnUsbDisconnected
  <2>1. CASE UNCHANGED task
    BY <1>0, <2>0, <2>1 DEF Waits, CoreTypeOK
  <2>2. CASE entry # NoEntry /\ \E t \in Aborted(task[entry.id]) : task' = [task EXCEPT ![entry.id] = t]
    <3>1. PICK t \in Aborted(task[entry.id]) : task' = [task EXCEPT ![entry.id] = t]
      BY <2>2
    <3>2. entry.id \in ConnId /\ task[entry.id].stage # "unused" /\ task[entry.id].kind = "usb"
      BY <1>0, <2>2, OnUsbDisconnectedMoves DEF CoreInv, CoreTypeOK, Mapped, MapEntry
    <3>3. task'[entry.id] = t /\ \A x \in ConnId \ {entry.id} : task'[x] = task[x]
      BY <1>0, <3>1, <3>2 DEF CoreTypeOK
    <3>4. t \in Task /\ Waits(entry.id)
      BY <2>0, <3>2, <3>3, AbortMoves
    <3>5. task' \in [ConnId -> Task]
      BY <1>0, <3>1, <3>2, <3>4 DEF CoreTypeOK
    <3>6. \A x \in ConnId \ {entry.id} : Waits(x)
      BY <2>0, <3>3 DEF Waits
    <3> QED
      BY <3>2, <3>3, <3>4, <3>5, <3>6
  <2> QED
    BY <2>1, <2>2 DEF OnUsbDisconnected
<1>2. NewNumbers'
  BY <1>1 DEF OnUsbDisconnected, NewNumbers, CoreInv
<1>3. CoreTypeOK'
  BY <1>0, <1>1, OnUsbDisconnectedMoves
     DEF OnUsbDisconnected, CoreTypeOK, SignalsTypeOK, RegistryTypeOK, registryVars, requestVars
<1> QED
  BY <1>1, <1>2, <1>3, OnUsbDisconnectedMoves DEF Calm, ListenerMoves

-----------------------------------------------------------------------------
(* A connection leaves the registry: at most one of the removal, its       *)
(* heartbeat and the listening thread is to announce that.                 *)

Leaves(u, c) ==
  /\ RemoveIfCurrent(u, c)
  /\ UNCHANGED <<task, nextId>>
  /\ \A x \in ConnId \ {c} : heartbeat'[x] = heartbeat[x]
  /\ \A d \in DeviceId : deviceMap'[d] \in {deviceMap[d], NoEntry}
  /\ \/ UNCHANGED listener /\ heartbeat'[c] = Stopped(heartbeat[c])
     \/ UNCHANGED listener /\ heartbeat[c] = "running" /\ heartbeat'[c] = "cleaning"
     \/ /\ heartbeat[c] = "none" /\ heartbeat'[c] = "none"
        /\ listener = Listening
        /\ listener' = [state |-> "cleaning", udid |-> u, id |-> c]

LEMMA LeavesKeepsInv ==
  ASSUME CoreInv, CoreTypeOK', NEW u \in Udid, NEW c \in ConnId, Leaves(u, c)
  PROVE  CoreInv'
<1>1. /\ registry[u] # NoDevice /\ registry[u].id = c
      /\ task[c].stage \in Committed /\ task[c].udid = u
  BY DEF Leaves, RemoveIfCurrent, IsCurrent, CoreInv, Backed
<1>2. \A v \in Udid : registry'[v] = IF v = u THEN NoDevice ELSE registry[v]
  BY DEF Leaves, RemoveIfCurrent, CoreInv, CoreTypeOK, SignalsTypeOK, RegistryTypeOK
<1>3. \A v \in Udid \ {u} : registry[v] # NoDevice => registry[v].id \in ConnId \ {c}
  BY <1>1 DEF CoreInv, CoreTypeOK, SignalsTypeOK, RegistryTypeOK, Connection, Backed
<1>4. \A x \in ConnId : task'[x] = task[x]
  BY DEF Leaves
<1>5. ~EndsByHeartbeat(c) /\ ~EndsByListener(c) /\ \A x \in ConnId : ~EndsByTask(x, c)
  BY <1>1 DEF CoreInv, EndedOnce, IsCurrent
<1>6. heartbeat'[c] \notin {"waiting", "running"}
  BY DEF Leaves, Stopped
<1>7. ASSUME NEW x \in ConnId
      PROVE  Fits(task'[x], heartbeat'[x])
  <2>1. Fits(task[x], heartbeat[x])
    BY DEF CoreInv
  <2>2. CASE x # c
    BY <1>4, <2>1, <2>2 DEF Leaves
  <2>3. CASE x = c
    <3>1. heartbeat'[c] \in {heartbeat[c], "ended"} \/ heartbeat[c] = "running"
      BY DEF Leaves, Stopped
    <3>2. heartbeat[c] # "none" => heartbeat'[c] # "none"
      BY DEF Leaves, Stopped
    <3> QED
      BY <1>1, <1>4, <1>6, <2>1, <2>3 DEF Leaves, Fits, Stopped, Committed, Awaiting
  <2> QED
    BY <2>2, <2>3
<1>8. ASSUME NEW v \in Udid
      PROVE  Backed(v)'
  <2>1. Backed(v)
    BY DEF CoreInv
  <2> QED
    BY <1>2, <1>3, <1>4, <2>1 DEF Leaves, Backed, Beating, IsWireless
<1>9. ASSUME NEW x \in ConnId
      PROVE  Owned(x)'
  <2>1. CASE x = c
    BY <1>6, <2>1 DEF Owned, Beating
  <2>2. CASE x # c
    <3>1. Owned(x) /\ task[x].stage \in Stage
      BY DEF CoreInv, CoreTypeOK, Task
    <3>2. task[x].stage \in Committed => task[x].udid \in Udid
      BY DEF CoreInv, Fits, Committed
    <3> QED
      BY <1>1, <1>2, <1>4, <2>2, <3>1, <3>2 DEF Leaves, Owned, Beating, IsCurrent
  <2> QED
    BY <2>1, <2>2
<1>10. ASSUME NEW d \in DeviceId
       PROVE  Mapped(d)'
  <2>1. Mapped(d)
    BY DEF CoreInv
  <2>2. deviceMap'[d] \in {deviceMap[d], NoEntry} /\ task' = task
    BY DEF Leaves
  <2> QED
    BY <2>1, <2>2 DEF Mapped
<1>11. ASSUME NEW x \in ConnId
       PROVE  EndedOnce(x)'
  <2>1. EndedOnce(x)
    BY DEF CoreInv
  <2>2. \A y \in ConnId : EndsByTask(y, x)' <=> EndsByTask(y, x)
    BY <1>4 DEF EndsByTask
  <2>3. CASE x = c
    <3>1. \A y \in ConnId : ~EndsByTask(y, x)'
      BY <1>5, <2>2, <2>3
    <3>2. ~IsCurrent(task[x].udid, x)'
      BY <1>1, <1>2, <1>4, <2>3 DEF IsCurrent
    <3>3. EndsByListener(x)' => ~EndsByHeartbeat(x)' /\ listener'.udid = task'[x].udid
      BY <1>1, <1>4, <1>5, <2>3 DEF Leaves, EndsByListener, EndsByHeartbeat
    <3> QED
      BY <1>1, <1>4, <2>3, <3>1, <3>2, <3>3 DEF EndedOnce, EndsByListener
  <2>4. CASE x # c
    <3>1. EndsByHeartbeat(x)' <=> EndsByHeartbeat(x)
      BY <2>4 DEF Leaves, EndsByHeartbeat
    <3>2. EndsByListener(x)' => EndsByListener(x) /\ listener' = listener
      BY <2>4 DEF Leaves, EndsByListener
    <3>3. task[x].stage \in Committed /\ ~IsCurrent(task[x].udid, x) => ~IsCurrent(task[x].udid, x)'
      <4>1. task[x].stage \in Committed => task[x].udid \in Udid
        BY DEF CoreInv, Fits, Committed
      <4> QED
        BY <1>2, <1>4, <4>1 DEF IsCurrent
    <3> QED
      BY <1>4, <2>1, <2>2, <3>1, <3>2, <3>3 DEF EndedOnce
  <2> QED
    BY <2>3, <2>4
<1>12. NewNumbers'
  BY DEF Leaves, NewNumbers, CoreInv
<1> QED
  BY <1>7, <1>8, <1>9, <1>10, <1>11, <1>12 DEF CoreInv

(* Unplugging the registered connection: its task can no longer be aborted.*)
LEMMA UnplugLeaves ==
  ASSUME CoreInv, OnUsbDisconnected,
         deviceMap[Head(stream).dev] # NoEntry,
         RemoveIfCurrent(deviceMap[Head(stream).dev].udid, deviceMap[Head(stream).dev].id)
  PROVE  /\ CoreTypeOK'
         /\ deviceMap[Head(stream).dev].udid \in Udid
         /\ deviceMap[Head(stream).dev].id \in ConnId
         /\ Leaves(deviceMap[Head(stream).dev].udid, deviceMap[Head(stream).dev].id)
         /\ listener' = [state |-> "cleaning", udid |-> deviceMap[Head(stream).dev].udid,
                         id |-> deviceMap[Head(stream).dev].id]
<1> DEFINE entry == deviceMap[Head(stream).dev]
<1>0. CoreTypeOK
  BY DEF CoreInv
<1>1. entry.udid \in Udid /\ entry.id \in ConnId /\ Mapped(Head(stream).dev)
  BY <1>0, OnUsbDisconnectedMoves DEF CoreInv, CoreTypeOK, MapEntry
<1>2. task[entry.id].stage # "unused" /\ task[entry.id].kind = "usb" /\ heartbeat[entry.id] = "none"
  BY <1>1 DEF Mapped, CoreInv, Fits
<1>3. IsCurrent(entry.udid, entry.id)
  BY DEF RemoveIfCurrent
<1>4. task[entry.id].stage \in Committed
  BY <1>1, <1>3 DEF CoreInv, Backed, IsCurrent
<1>5. PICK t \in Aborted(task[entry.id]) : task' = [task EXCEPT ![entry.id] = t]
  BY DEF OnUsbDisconnected
<1>6. t = task[entry.id]
  BY <1>0, <1>1, <1>4, AbortedType DEF CoreTypeOK, Committed, Awaiting
<1>7. task' = task
  BY <1>0, <1>5, <1>6 DEF CoreTypeOK
<1>8. listener' = [state |-> "cleaning", udid |-> entry.udid, id |-> entry.id]
  BY <1>3 DEF OnUsbDisconnected
<1>9. registry' \in [Udid -> Connection \cup {NoDevice}]
  BY <1>0, <1>1 DEF RemoveIfCurrent, CoreTypeOK, SignalsTypeOK, RegistryTypeOK
<1>10. listener' \in ListenerState
  BY <1>1, <1>8 DEF ListenerState
<1>11. CoreTypeOK'
  BY <1>0, <1>7, <1>9, <1>10, OnUsbDisconnectedMoves
     DEF OnUsbDisconnected, CoreTypeOK, SignalsTypeOK, RegistryTypeOK, requestVars
<1>12. \A d \in DeviceId : deviceMap'[d] \in {deviceMap[d], NoEntry}
  BY <1>0 DEF OnUsbDisconnected, CoreTypeOK
<1>13. Leaves(entry.udid, entry.id)
  BY <1>2, <1>7, <1>8, <1>12 DEF OnUsbDisconnected, Leaves
<1> QED
  BY <1>1, <1>8, <1>11, <1>13

LEMMA HeartbeatLeaves ==
  ASSUME CoreInv, NEW c \in ConnId, HeartbeatGivesUp(c)
  PROVE  /\ CoreTypeOK'
         /\ task[c].udid \in Udid
         /\ Leaves(task[c].udid, c)
         /\ heartbeat' = [heartbeat EXCEPT ![c] = "cleaning"]
<1>0. CoreTypeOK
  BY DEF CoreInv
<1>1. /\ heartbeat[c] = "running" /\ heartbeat \in [ConnId -> HeartbeatStage]
      /\ task[c].stage = "done" /\ task[c].udid \in Udid /\ IsCurrent(task[c].udid, c)
  BY DEF HeartbeatGivesUp, CoreInv, CoreTypeOK, Fits, Owned, Beating, Committed
<1>2. RemoveIfCurrent(task[c].udid, c) /\ heartbeat' = [heartbeat EXCEPT ![c] = "cleaning"]
  BY <1>1 DEF HeartbeatGivesUp
<1>3. registry' \in [Udid -> Connection \cup {NoDevice}]
  BY <1>0, <1>1, <1>2 DEF RemoveIfCurrent, CoreTypeOK, SignalsTypeOK, RegistryTypeOK
<1>4. heartbeat' \in [ConnId -> HeartbeatStage]
  BY <1>1, <1>2 DEF HeartbeatStage
<1>5. CoreTypeOK'
  BY <1>0, <1>3, <1>4
     DEF HeartbeatGivesUp, CoreTypeOK, SignalsTypeOK, RegistryTypeOK, usbVars, taskVars, requestVars
<1>6. Leaves(task[c].udid, c)
  BY <1>1, <1>2 DEF HeartbeatGivesUp, Leaves, usbVars, taskVars
<1> QED
  BY <1>1, <1>2, <1>5, <1>6

LEMMA RemovalMoves ==
  ASSUME CoreInv, NEW u \in Udid, NEW c \in ConnId, RunRemoval(u, c)
  PROVE  /\ CoreTypeOK'
         /\ \/ Calm
            \/ Leaves(u, c) /\ UNCHANGED listener /\ heartbeat'[c] = Stopped(heartbeat[c])
<1>0. CoreTypeOK
  BY DEF CoreInv
<1>1. removals' \in SUBSET (Udid \X ConnId)
  BY <1>0 DEF RunRemoval, CoreTypeOK, SignalsTypeOK
<1>2. CASE RemoveIfCurrent(u, c) /\ heartbeat' = [heartbeat EXCEPT ![c] = Stopped(@)]
  <2>1. registry' \in [Udid -> Connection \cup {NoDevice}]
    BY <1>0, <1>2 DEF RemoveIfCurrent, CoreTypeOK, SignalsTypeOK, RegistryTypeOK
  <2>2. /\ heartbeat' \in [ConnId -> HeartbeatStage] /\ heartbeat'[c] = Stopped(heartbeat[c])
        /\ \A x \in ConnId \ {c} : heartbeat'[x] = heartbeat[x]
    BY <1>0, <1>2, StoppedType DEF CoreTypeOK
  <2>3. CoreTypeOK'
    BY <1>0, <1>1, <2>1, <2>2
       DEF RunRemoval, CoreTypeOK, SignalsTypeOK, RegistryTypeOK, usbVars, taskVars
  <2>4. Leaves(u, c)
    BY <1>2, <2>2 DEF RunRemoval, Leaves, usbVars, taskVars
  <2> QED
    BY <2>2, <2>3, <2>4 DEF RunRemoval, usbVars
<1>3. CASE UNCHANGED <<registry, heartbeat>>
  <2>1. CoreTypeOK'
    BY <1>0, <1>1, <1>3
       DEF RunRemoval, CoreTypeOK, SignalsTypeOK, RegistryTypeOK, usbVars, taskVars
  <2> QED
    BY <1>3, <2>1, IdleCalm DEF RunRemoval, ListenerMoves, usbVars, taskVars
<1> QED
  BY <1>2, <1>3 DEF RunRemoval

-----------------------------------------------------------------------------
(* The signals of a registered connection are queued.                      *)

LEMMA ProceedsKeepsInv ==
  ASSUME CoreInv, CoreTypeOK', NEW c \in ConnId,
         UNCHANGED <<registry, listener, nextId, deviceMap>>,
         \A x \in ConnId \ {c} : task'[x] = task[x] /\ heartbeat'[x] = heartbeat[x],
         Proceeds(c)
  PROVE  CoreInv'
<1>1. \A x \in ConnId : Waits(x) \/ Proceeds(x)
  BY DEF Waits
<1>2. NewNumbers'
  BY DEF CoreInv, NewNumbers, Proceeds, Committed
<1>3. ListenerMoves /\ \A d \in DeviceId : MapMoves(d)
  BY DEF ListenerMoves, MapMoves
<1> QED
  BY <1>1, <1>2, <1>3, CalmKeepsInv

LEMMA AnnounceReplacedProceeds ==
  ASSUME CoreInv, NEW c \in ConnId, AnnounceReplaced(c)
  PROVE  /\ CoreTypeOK'
         /\ Proceeds(c)
         /\ \A x \in ConnId \ {c} : task'[x] = task[x] /\ heartbeat'[x] = heartbeat[x]
         /\ task'[c].stage = "announce"
<1> DEFINE t == [task[c] EXCEPT !.stage = "announce"]
<1>0. CoreTypeOK
  BY DEF CoreInv
<1>1. /\ task[c].stage = "replaced" /\ Fits(task[c], heartbeat[c])
      /\ task[c].udid \in Udid /\ task[c].old \in ConnId
      /\ task \in [ConnId -> Task] /\ heartbeat' = heartbeat
  BY DEF AnnounceReplaced, CoreInv, CoreTypeOK, Fits, registryVars
<1>2. t \in Task /\ t.stage = "announce" /\ t.kind = task[c].kind /\ t.udid = task[c].udid
  BY <1>1 DEF Task, Stage, Committed
<1>3. task' = [task EXCEPT ![c] = t]
  BY <1>1 DEF AnnounceReplaced, SetStage
<1> HIDE DEF t
<1>4. /\ task' \in [ConnId -> Task] /\ task'[c] = t
      /\ \A x \in ConnId \ {c} : task'[x] = task[x] /\ heartbeat'[x] = heartbeat[x]
  BY <1>1, <1>2, <1>3
<1>5. Fits(t, heartbeat[c])
  BY <1>1, <1>2 DEF Fits, Awaiting
<1>6. Proceeds(c)
  BY <1>1, <1>2, <1>4, <1>5 DEF Proceeds, Committed, Beating, EndsByHeartbeat
<1>7. events' \in Seq(ConnectionEvent \cup NoticeEvent)
  BY <1>0, <1>1, ConnectionEventType, QueueType DEF AnnounceReplaced, CoreTypeOK
<1>8. CoreTypeOK'
  BY <1>0, <1>4, <1>7
     DEF AnnounceReplaced, CoreTypeOK, SignalsTypeOK, RegistryTypeOK, registryVars, usbVars, requestVars
<1> QED
  BY <1>2, <1>4, <1>6, <1>8

LEMMA AnnounceProceeds ==
  ASSUME CoreInv, NEW c \in ConnId, Announce(c)
  PROVE  /\ CoreTypeOK'
         /\ Proceeds(c)
         /\ \A x \in ConnId \ {c} : task'[x] = task[x] /\ heartbeat'[x] = heartbeat[x]
         /\ task'[c].stage = "done"
<1> DEFINE t == Ended(task[c], "done")
<1>0. CoreTypeOK
  BY DEF CoreInv
<1>1. /\ task[c].stage = "announce" /\ Fits(task[c], heartbeat[c])
      /\ task[c].udid \in Udid
      /\ task \in [ConnId -> Task] /\ heartbeat \in [ConnId -> HeartbeatStage]
  BY DEF Announce, CoreInv, CoreTypeOK, Fits
<1>2. t \in Task /\ t.stage = "done" /\ t.kind = task[c].kind /\ t.udid = task[c].udid
  BY <1>1, EndedType
<1>3. task' = [task EXCEPT ![c] = t]
  BY <1>1 DEF Announce
<1> HIDE DEF t
<1>4. /\ task' \in [ConnId -> Task] /\ task'[c] = t
      /\ heartbeat' \in [ConnId -> HeartbeatStage]
      /\ heartbeat'[c] = IF heartbeat[c] = "waiting" THEN "running" ELSE heartbeat[c]
      /\ \A x \in ConnId \ {c} : task'[x] = task[x] /\ heartbeat'[x] = heartbeat[x]
  BY <1>1, <1>2, <1>3 DEF Announce, HeartbeatStage
<1>5. Fits(t, heartbeat'[c])
  BY <1>1, <1>2, <1>4 DEF Fits, Awaiting
<1>6. Proceeds(c)
  BY <1>1, <1>2, <1>4, <1>5 DEF Proceeds, Committed, Beating, EndsByHeartbeat
<1>7. events' \in Seq(ConnectionEvent \cup NoticeEvent)
  <2>1. Connected(task[c].udid, c, IsWireless(c)) \in ConnectionEvent
    BY <1>1, ConnectionEventType DEF IsWireless
  <2> QED
    BY <1>0, <2>1, QueueType DEF Announce, CoreTypeOK
<1>8. CoreTypeOK'
  BY <1>0, <1>4, <1>7
     DEF Announce, CoreTypeOK, SignalsTypeOK, RegistryTypeOK, registryVars, usbVars, requestVars
<1> QED
  BY <1>2, <1>4, <1>6, <1>8

LEMMA HeartbeatCleanedProceeds ==
  ASSUME CoreInv, NEW c \in ConnId, HeartbeatCleaned(c)
  PROVE  /\ CoreTypeOK'
         /\ Proceeds(c)
         /\ UNCHANGED task
         /\ heartbeat'[c] = "ended"
         /\ \A x \in ConnId \ {c} : heartbeat'[x] = heartbeat[x]
<1>0. CoreTypeOK
  BY DEF CoreInv
<1>1. /\ heartbeat[c] = "cleaning" /\ Fits(task[c], heartbeat[c])
      /\ task[c].udid \in Udid /\ task[c].stage = "done"
      /\ heartbeat \in [ConnId -> HeartbeatStage] /\ task' = task
  BY DEF HeartbeatCleaned, CoreInv, CoreTypeOK, Fits, taskVars
<1>2. /\ heartbeat' \in [ConnId -> HeartbeatStage] /\ heartbeat'[c] = "ended"
      /\ \A x \in ConnId \ {c} : heartbeat'[x] = heartbeat[x]
  BY <1>1 DEF HeartbeatCleaned, HeartbeatStage
<1>3. Fits(task[c], heartbeat'[c])
  BY <1>1, <1>2 DEF Fits, Awaiting
<1>4. Proceeds(c)
  BY <1>1, <1>2, <1>3 DEF Proceeds, Committed, Beating, EndsByHeartbeat
<1>5. events' \in Seq(ConnectionEvent \cup NoticeEvent)
  BY <1>0, <1>1, ConnectionEventType, QueueType DEF HeartbeatCleaned, CoreTypeOK
<1>6. CoreTypeOK'
  BY <1>0, <1>2, <1>5
     DEF HeartbeatCleaned, CoreTypeOK, SignalsTypeOK, RegistryTypeOK, usbVars, taskVars, requestVars
<1> QED
  BY <1>1, <1>2, <1>4, <1>6

-----------------------------------------------------------------------------
(* A connection is registered.                                             *)

(* The task and the heartbeat of the connection, and of the one it         *)
(* replaced.                                                               *)
Inserts(u, c) ==
  LET o == registry[u].id
  IN /\ UNCHANGED <<nextId, deviceMap, listener, events>>
     /\ \A v \in Udid : registry'[v] = IF v = u THEN [id |-> c, wireless |-> IsWireless(c)]
                                       ELSE registry[v]
     /\ \A x \in ConnId \ {c} : task'[x] = task[x]
     /\ task'[c].kind = task[c].kind /\ task'[c].udid = u
     /\ task'[c].stage = IF registry[u] = NoDevice THEN "announce" ELSE "replaced"
     /\ heartbeat'[c] = heartbeat[c]
     /\ registry[u] = NoDevice => \A x \in ConnId : heartbeat'[x] = heartbeat[x]
     /\ registry[u] # NoDevice =>
          /\ o \in ConnId \ {c}
          /\ task'[c].old = o
          /\ heartbeat'[o] = Stopped(heartbeat[o])
          /\ \A x \in ConnId \ {o} : heartbeat'[x] = heartbeat[x]

LEMMA InsertMoves ==
  ASSUME CoreInv, NEW c \in ConnId, InsertAccepted(c),
         NEW u \in Udid, u = task[c].udid
  PROVE  CoreTypeOK' /\ Inserts(u, c)
<1>0. CoreTypeOK
  BY DEF CoreInv
<1>1. /\ task[c].stage = "inserting" /\ u = task[c].udid
      /\ task \in [ConnId -> Task] /\ heartbeat \in [ConnId -> HeartbeatStage]
      /\ registry \in [Udid -> Connection \cup {NoDevice}]
      /\ IsWireless(c) \in BOOLEAN
  BY <1>0, TaskFields DEF InsertAccepted, CoreTypeOK, SignalsTypeOK, RegistryTypeOK
<1>2. registry' = [registry EXCEPT ![u] = [id |-> c, wireless |-> IsWireless(c)]]
  BY DEF InsertAccepted, Insert
<1>3. registry' \in [Udid -> Connection \cup {NoDevice}]
  BY <1>1, <1>2 DEF Connection
<1>4. CASE registry[u] = NoDevice
  <2> DEFINE t == [task[c] EXCEPT !.stage = "announce"]
  <2>1. task' = [task EXCEPT ![c] = t] /\ heartbeat' = heartbeat
    BY <1>1, <1>4 DEF InsertAccepted, SetStage
  <2>2. t \in Task /\ t.stage = "announce" /\ t.kind = task[c].kind /\ t.udid = task[c].udid
    BY <1>1 DEF Task, Stage, Committed
  <2> HIDE DEF t
  <2>3. /\ task' \in [ConnId -> Task] /\ task'[c] = t
        /\ \A x \in ConnId \ {c} : task'[x] = task[x]
    BY <1>1, <2>1, <2>2
  <2>4. CoreTypeOK'
    BY <1>0, <1>3, <2>1, <2>3
       DEF InsertAccepted, CoreTypeOK, SignalsTypeOK, RegistryTypeOK, usbVars, requestVars
  <2> QED
    BY <1>1, <1>2, <1>4, <2>1, <2>2, <2>3, <2>4 DEF Inserts, InsertAccepted, usbVars
<1>5. CASE registry[u] # NoDevice
  <2> DEFINE o == registry[u].id
             t == [task[c] EXCEPT !.stage = "replaced", !.old = o]
  <2>1. o \in ConnId /\ task[o].stage \in Committed
    BY <1>1, <1>5 DEF Connection, CoreInv, Backed
  <2>2. o # c
    BY <1>1, <2>1 DEF Committed
  <2>3. /\ task' = [task EXCEPT ![c].stage = "replaced", ![c].old = o]
        /\ heartbeat' = [heartbeat EXCEPT ![o] = Stopped(@)]
    BY <1>5 DEF InsertAccepted
  <2>4. o \in 0 .. MaxConn
    BY <2>1, MaxConnAssumption DEF ConnId
  <2>5. /\ t \in Task /\ t.stage = "replaced" /\ t.old = o
        /\ t.kind = task[c].kind /\ t.udid = task[c].udid
    BY <1>1, <2>4 DEF Task, Stage, Committed
  <2>6. task' = [task EXCEPT ![c] = t]
    BY <1>1, <2>3
  <2> HIDE DEF t
  <2>7. /\ task' \in [ConnId -> Task] /\ task'[c] = t
        /\ \A x \in ConnId \ {c} : task'[x] = task[x]
    BY <1>1, <2>5, <2>6
  <2>8. /\ heartbeat' \in [ConnId -> HeartbeatStage] /\ heartbeat'[o] = Stopped(heartbeat[o])
        /\ \A x \in ConnId \ {o} : heartbeat'[x] = heartbeat[x]
    BY <1>1, <2>1, <2>3, StoppedType
  <2>9. CoreTypeOK'
    BY <1>0, <1>3, <2>7, <2>8
       DEF InsertAccepted, CoreTypeOK, SignalsTypeOK, RegistryTypeOK, usbVars, requestVars
  <2> QED
    BY <1>1, <1>2, <1>5, <2>1, <2>2, <2>5, <2>7, <2>8, <2>9 DEF Inserts, InsertAccepted, usbVars
<1> QED
  BY <1>4, <1>5

LEMMA InsertKeepsInv ==
  ASSUME CoreInv, NEW c \in ConnId, InsertAccepted(c)
  PROVE  CoreInv'
<1>1. task[c].stage = "inserting" /\ task[c].udid \in Udid
  BY DEF InsertAccepted, CoreInv, Fits
<1>2. PICK u \in Udid : u = task[c].udid
  BY <1>1
<1> DEFINE o == registry[u].id
           replaces == registry[u] # NoDevice
<1>3. /\ CoreTypeOK'
      /\ UNCHANGED <<nextId, deviceMap, listener, events>>
      /\ \A v \in Udid : registry'[v] = IF v = u THEN [id |-> c, wireless |-> IsWireless(c)]
                                        ELSE registry[v]
      /\ \A x \in ConnId \ {c} : task'[x] = task[x]
      /\ task'[c].kind = task[c].kind /\ task'[c].udid = u
      /\ heartbeat'[c] = heartbeat[c]
      /\ task'[c].stage = IF replaces THEN "replaced" ELSE "announce"
      /\ replaces => /\ o \in ConnId \ {c} /\ task'[c].old = o
                     /\ heartbeat'[o] = Stopped(heartbeat[o])
                     /\ \A x \in ConnId \ {o} : heartbeat'[x] = heartbeat[x]
      /\ ~replaces => \A x \in ConnId : heartbeat'[x] = heartbeat[x]
  BY <1>2, InsertMoves DEF Inserts
<1>4. replaces =>
        /\ task[o].stage \in Committed /\ task[o].udid = u
        /\ ~EndsByHeartbeat(o) /\ ~EndsByListener(o)
        /\ \A x \in ConnId : ~EndsByTask(x, o)
  <2> SUFFICES ASSUME replaces
               PROVE  /\ task[o].stage \in Committed /\ task[o].udid = u
                      /\ ~EndsByHeartbeat(o) /\ ~EndsByListener(o)
                      /\ \A x \in ConnId : ~EndsByTask(x, o)
    OBVIOUS
  <2>1. task[o].stage \in Committed /\ task[o].udid = u /\ o \in ConnId
    BY <1>3 DEF CoreInv, Backed
  <2>2. IsCurrent(task[o].udid, o)
    BY <2>1 DEF IsCurrent
  <2> QED
    BY <2>1, <2>2 DEF CoreInv, EndedOnce
<1>5. ASSUME NEW v \in Udid \ {u}, registry[v] # NoDevice
      PROVE  registry[v].id \in ConnId \ {c} /\ (replaces => registry[v].id # o)
  <2>1. Backed(v) /\ registry[v].id \in ConnId
    BY <1>5 DEF CoreInv, CoreTypeOK, SignalsTypeOK, RegistryTypeOK, Connection
  <2> QED
    BY <1>1, <1>4, <1>5, <2>1 DEF Backed, Committed
<1>6. ASSUME NEW x \in ConnId
      PROVE  Fits(task'[x], heartbeat'[x])
  <2>1. Fits(task[x], heartbeat[x]) /\ heartbeat[x] \in HeartbeatStage
    BY DEF CoreInv, CoreTypeOK
  <2>2. CASE x = c
    BY <1>1, <1>2, <1>3, <2>1, <2>2 DEF Fits, Awaiting
  <2>3. CASE replaces /\ x = o
    <3>1. task'[x] = task[x] /\ heartbeat'[x] = Stopped(heartbeat[x]) /\ task[x].stage \in Committed
      BY <1>3, <1>4, <2>3
    <3> QED
      BY <2>1, <3>1 DEF Fits, Stopped, Committed, Awaiting
  <2>4. CASE x # c /\ (replaces => x # o)
    BY <1>3, <2>1, <2>4
  <2> QED
    BY <2>2, <2>3, <2>4
<1>7. ASSUME NEW v \in Udid
      PROVE  Backed(v)'
  <2>1. CASE v = u
    <3>1. registry'[v] = [id |-> c, wireless |-> IsWireless(c)]
      BY <1>3, <2>1
    <3>2. /\ task'[c].stage \in Committed /\ task'[c].udid = v
          /\ task'[c].kind = task[c].kind
          /\ task[c].kind # "usb" => heartbeat'[c] = "waiting"
      BY <1>1, <1>3, <2>1 DEF Committed, CoreInv, Fits
    <3>3. registry'[v].id = c /\ registry'[v].wireless = IsWireless(c)
      BY <3>1
    <3>4. IsWireless(c)' = IsWireless(c)
      BY <3>2 DEF IsWireless
    <3>5. registry'[v].wireless = IsWireless(c)'
      BY <3>3, <3>4
    <3> QED
      BY <3>2, <3>3, <3>5 DEF Backed, IsWireless, Beating
  <2>2. CASE v # u
    <3>1. Backed(v) /\ registry'[v] = registry[v]
      BY <1>3, <2>2 DEF CoreInv
    <3>2. registry[v] # NoDevice =>
            /\ registry[v].id \in ConnId
            /\ task'[registry[v].id] = task[registry[v].id]
            /\ heartbeat'[registry[v].id] = heartbeat[registry[v].id]
      BY <1>3, <1>5, <2>2
    <3> QED
      BY <3>1, <3>2 DEF Backed, IsWireless, Beating
  <2> QED
    BY <2>1, <2>2
<1>8. ASSUME NEW x \in ConnId
      PROVE  Owned(x)'
  <2>1. CASE x = c
    <3>1. registry'[u].id = c /\ c # 0 /\ registry'[u] = [id |-> c, wireless |-> IsWireless(c)]
      BY <1>3 DEF ConnId
    <3>2. registry'[u] # NoDevice
      BY <3>1 DEF NoDevice
    <3> QED
      BY <1>3, <2>1, <3>1, <3>2 DEF Owned, IsCurrent
  <2>2. CASE replaces /\ x = o
    BY <1>3, <2>2 DEF Owned, Beating, Stopped
  <2>3. CASE x # c /\ (replaces => x # o)
    <3>1. Owned(x) /\ task'[x] = task[x] /\ heartbeat'[x] = heartbeat[x]
      BY <1>3, <2>3 DEF CoreInv
    <3>2. task[x].stage \in Committed => task[x].udid \in Udid
      BY DEF CoreInv, Fits, Committed
    <3>3. IsCurrent(task[x].udid, x) => task[x].udid # u
      BY <2>3 DEF IsCurrent
    <3> QED
      BY <1>3, <3>1, <3>2, <3>3 DEF Owned, Beating, IsCurrent
  <2> QED
    BY <2>1, <2>2, <2>3
<1>9. ASSUME NEW d \in DeviceId
      PROVE  Mapped(d)'
  <2>1. Mapped(d) /\ deviceMap'[d] = deviceMap[d]
        /\ (deviceMap[d] # NoEntry => deviceMap[d].id \in ConnId)
    BY <1>3 DEF CoreInv, CoreTypeOK, MapEntry
  <2> QED
    BY <1>1, <1>2, <1>3, <2>1 DEF Mapped
<1>10. ASSUME NEW x \in ConnId
       PROVE  EndedOnce(x)'
  <2>1. EndedOnce(x)
    BY DEF CoreInv
  <2>2. EndsByHeartbeat(x)' => EndsByHeartbeat(x)
    BY <1>3 DEF EndsByHeartbeat, Stopped
  <2>3. EndsByListener(x)' <=> EndsByListener(x)
    BY <1>3 DEF EndsByListener
  <2>4. \A y \in ConnId \ {c} : EndsByTask(y, x)' <=> EndsByTask(y, x)
    BY <1>3 DEF EndsByTask
  <2>5. EndsByTask(c, x)' <=> replaces /\ x = o
    BY <1>3 DEF EndsByTask
  <2>6. CASE replaces /\ x = o
    <3>1. ~IsCurrent(task[x].udid, x)'
      BY <1>3, <1>4, <2>6 DEF IsCurrent
    <3>2. /\ \A y \in ConnId \ {c} : ~EndsByTask(y, x)'
          /\ ~EndsByHeartbeat(x)' /\ ~EndsByListener(x)'
      BY <1>4, <2>2, <2>3, <2>4, <2>6
    <3>3. task'[x] = task[x] /\ task[x].stage \in Committed /\ task[x].udid = u /\ task'[c].udid = u
      BY <1>3, <1>4, <2>6
    <3> QED
      BY <3>1, <3>2, <3>3 DEF EndedOnce
  <2>7. CASE ~(replaces /\ x = o)
    <3>1. \A y \in ConnId : EndsByTask(y, x)' => EndsByTask(y, x) /\ y # c
      BY <2>4, <2>5, <2>7
    <3>2. CASE x = c
      <4>1. ~EndsByHeartbeat(x) /\ ~EndsByListener(x) /\ \A y \in ConnId : ~EndsByTask(y, x)
        BY <1>1, <2>1, <3>2 DEF EndedOnce, Committed
      <4> QED
        BY <2>2, <2>3, <3>1, <4>1 DEF EndedOnce
    <3>3. CASE x # c
      <4>1. task'[x] = task[x] /\ listener' = listener
        BY <1>3, <3>3
      <4>2. task[x].stage \in Committed /\ ~IsCurrent(task[x].udid, x) => ~IsCurrent(task[x].udid, x)'
        <5>1. task[x].stage \in Committed => task[x].udid \in Udid
          BY DEF CoreInv, Fits, Committed
        <5> QED
          BY <1>3, <3>3, <4>1, <5>1 DEF IsCurrent
      <4>3. \A y \in ConnId \ {c} : task'[y] = task[y]
        BY <1>3
      <4> QED
        BY <2>1, <2>2, <2>3, <3>1, <4>1, <4>2, <4>3 DEF EndedOnce
    <3> QED
      BY <3>2, <3>3
  <2> QED
    BY <2>6, <2>7
<1>11. NewNumbers'
  <2>1. task'[c].stage # "unused" /\ c < nextId
    BY <1>1, <1>3, TaskFields
  <2> QED
    BY <1>3, <2>1, MaxConnAssumption DEF NewNumbers, CoreInv, CoreTypeOK, ConnId
<1> QED
  BY <1>3, <1>6, <1>7, <1>8, <1>9, <1>10, <1>11 DEF CoreInv

-----------------------------------------------------------------------------
(* Every step is one of these.                                             *)

LEMMA CoreSteps ==
  ASSUME CoreInv, CoreNext
  PROVE  \/ Calm
         \/ CoreTypeOK' /\ \E u \in Udid, c \in ConnId : Leaves(u, c)
         \/ \E c \in ConnId : AnnounceReplaced(c) \/ Announce(c) \/ HeartbeatCleaned(c)
         \/ \E c \in ConnId : InsertAccepted(c)
<1>1. CASE ListenerStep
  <2>1. CASE OnUsbDisconnected
    <3>1. \/ UNCHANGED <<registry, listener>>
          \/ /\ deviceMap[Head(stream).dev] # NoEntry
             /\ RemoveIfCurrent(deviceMap[Head(stream).dev].udid, deviceMap[Head(stream).dev].id)
      BY <2>1 DEF OnUsbDisconnected
    <3> QED
      BY <2>1, <3>1, UnplugCalm, UnplugLeaves
  <2> QED
    BY <1>1, <2>1, OnUsbConnectedCalm, ListenerCleanedCalm, RelistenCalm DEF ListenerStep
<1>2. ASSUME NEW c \in ConnId, TaskStep(c)
      PROVE  Calm \/ AnnounceReplaced(c) \/ Announce(c) \/ InsertAccepted(c)
  BY <1>2, CheckPairRecordCalm, FinishPairingCalm, UsbInitFailsCalm, WirelessInitFailsCalm,
     WirelessTimeoutCalm, CustomInitFailsCalm, CollectedCalm, InsertRejectedCalm
     DEF TaskStep
<1>3. ASSUME NEW c \in ConnId, HeartbeatStep(c)
      PROVE  \/ HeartbeatCleaned(c)
             \/ CoreTypeOK' /\ \E u \in Udid : Leaves(u, c)
  <2>1. CASE HeartbeatGivesUp(c)
    <3>1. CoreTypeOK' /\ task[c].udid \in Udid /\ Leaves(task[c].udid, c)
      BY <2>1, HeartbeatLeaves
    <3> QED
      BY <3>1
  <2> QED
    BY <1>3, <2>1 DEF HeartbeatStep
<1>4. CASE RemovalStep
  BY <1>4, RemovalMoves DEF RemovalStep
<1>5. CASE World \/ AnyInterface \/ \E u \in Udid : StartWireless(u)
  BY <1>5, WorldCalm, InterfaceCalm, StartWirelessCalm
<1> QED
  BY <1>1, <1>2, <1>3, <1>4, <1>5 DEF CoreNext, CoreStep

-----------------------------------------------------------------------------
(* The invariant is inductive.                                             *)

LEMMA CoreInvInit == CoreInit => CoreInv
<1> SUFFICES ASSUME CoreInit
             PROVE  CoreInv
  OBVIOUS
<1>1. Unused \in Task /\ Unused.stage = "unused" /\ 1 \in 1 .. MaxConn + 1
  <2>1. "usb" \in Kind /\ NoUdid \in Udid \cup {NoUdid} /\ "unused" \in Stage
        /\ 0 \in 0 .. MaxCandidates
    BY CoreAssumption DEF Kind, Stage
  <2>2. Unused \in Task
    BY <2>1, NewTaskType DEF Unused
  <2>3. Unused.stage = "unused"
    BY DEF Unused, NewTask
  <2> QED
    BY <2>2, <2>3, MaxConnAssumption
<1>2. \A u \in Udid : registry[u] = NoDevice
  BY DEF CoreInit, SignalsInit, RegistryInit
<1>3. SignalsTypeOK
  BY DEF CoreInit, SignalsInit, RegistryInit, SignalsTypeOK, RegistryTypeOK
<1>4. /\ attached \in [DeviceId -> Udid \cup {NoUdid}] /\ stream \in Seq(StreamEvent)
      /\ listener \in ListenerState /\ losses \in 0 .. MaxLosses
      /\ deviceMap \in [DeviceId -> MapEntry]
  BY CoreAssumption DEF CoreInit, ListenerState, MapEntry
<1>5. /\ nextId \in 1 .. MaxConn + 1 /\ task \in [ConnId -> Task]
      /\ heartbeat \in [ConnId -> HeartbeatStage]
      /\ \A c \in ConnId : task[c].stage = "unused" /\ heartbeat[c] = "none"
  BY <1>1 DEF CoreInit, HeartbeatStage
<1>6. CoreTypeOK
  BY <1>3, <1>4, <1>5 DEF CoreTypeOK
<1>7. NewNumbers /\ \A c \in ConnId : Fits(task[c], heartbeat[c]) /\ Owned(c)
  BY <1>5 DEF NewNumbers, Fits, Owned, Beating
<1>8. (\A u \in Udid : Backed(u)) /\ \A d \in DeviceId : Mapped(d)
  BY <1>2 DEF CoreInit, Backed, Mapped
<1>9. \A x \in ConnId : EndedOnce(x)
  BY <1>5 DEF CoreInit, Listening, EndedOnce, EndsByTask, EndsByHeartbeat, EndsByListener
<1> QED
  BY <1>6, <1>7, <1>8, <1>9 DEF CoreInv

LEMMA CoreInvStep == CoreInv /\ [CoreNext]_coreVars => CoreInv'
<1> SUFFICES ASSUME CoreInv, [CoreNext]_coreVars
             PROVE  CoreInv'
  OBVIOUS
<1>1. ASSUME Calm
      PROVE  CoreInv'
  BY <1>1, CalmKeepsInv DEF Calm
<1>2. ASSUME CoreTypeOK', NEW u \in Udid, NEW c \in ConnId, Leaves(u, c)
      PROVE  CoreInv'
  BY <1>2, LeavesKeepsInv
<1>3. ASSUME NEW c \in ConnId, AnnounceReplaced(c)
      PROVE  CoreInv'
  BY <1>3, AnnounceReplacedProceeds, ProceedsKeepsInv
     DEF AnnounceReplaced, registryVars, usbVars
<1>4. ASSUME NEW c \in ConnId, Announce(c)
      PROVE  CoreInv'
  BY <1>4, AnnounceProceeds, ProceedsKeepsInv DEF Announce, usbVars
<1>5. ASSUME NEW c \in ConnId, HeartbeatCleaned(c)
      PROVE  CoreInv'
  BY <1>5, HeartbeatCleanedProceeds, ProceedsKeepsInv DEF HeartbeatCleaned, usbVars, taskVars
<1>6. ASSUME NEW c \in ConnId, InsertAccepted(c)
      PROVE  CoreInv'
  BY <1>6, InsertKeepsInv
<1>7. CASE UNCHANGED coreVars
  <2>1. CoreTypeOK' /\ ListenerMoves /\ UNCHANGED <<registry, task, heartbeat, nextId, deviceMap>>
    BY <1>7 DEF CoreInv, CoreTypeOK, SignalsTypeOK, RegistryTypeOK, ListenerMoves, coreVars,
       registryVars, usbVars, taskVars, requestVars
  <2> QED
    BY <1>1, <2>1, IdleCalm
<1> QED
  BY <1>1, <1>2, <1>3, <1>4, <1>5, <1>6, <1>7, CoreSteps

LEMMA CoreInvAlways == CoreSpec => []CoreInv
BY CoreInvInit, CoreInvStep, PTL DEF CoreSpec

-----------------------------------------------------------------------------
(* The properties.                                                         *)

(* The connection tasks keep their types (src/core.rs, src/device_ctx.rs). *)
THEOREM CoreTypes == CoreSpec => []CoreTypeOK
<1>1. CoreInv => CoreTypeOK
  BY DEF CoreInv
<1> QED
  BY <1>1, CoreInvAlways, PTL

LEMMA HeartbeatFacts ==
  CoreInv => HeartbeatOwned /\ WirelessWatched /\ NoStrandedHeartbeat
<1>1. CoreInv => HeartbeatOwned
  BY DEF CoreInv, HeartbeatOwned, Owned, Beating, Fits, Committed
<1>2. CoreInv => WirelessWatched
  <2> SUFFICES ASSUME CoreInv, NEW u \in Udid, registry[u] # NoDevice, registry[u].wireless
               PROVE  \/ heartbeat[registry[u].id] = "running"
                      \/ /\ heartbeat[registry[u].id] = "waiting"
                         /\ task[registry[u].id].stage \in {"replaced", "announce"}
    BY DEF WirelessWatched
  <2>1. registry[u].id \in ConnId
    BY DEF CoreInv, CoreTypeOK, SignalsTypeOK, RegistryTypeOK, Connection
  <2>2. Fits(task[registry[u].id], heartbeat[registry[u].id]) /\ Backed(u)
    BY <2>1 DEF CoreInv
  <2> QED
    BY <2>2 DEF Fits, Backed, Beating, Committed
<1>3. CoreInv => NoStrandedHeartbeat
  BY DEF CoreInv, NoStrandedHeartbeat, Fits
<1> QED
  BY <1>1, <1>2, <1>3

(* A heartbeat that runs watches the connection the registry holds.        *)
THEOREM HeartbeatsOwned == CoreSpec => []HeartbeatOwned
<1>1. CoreInv => HeartbeatOwned
  BY HeartbeatFacts
<1> QED
  BY <1>1, CoreInvAlways, PTL

(* Every wireless connection in the registry is watched, or about to be.   *)
THEOREM WirelessAreWatched == CoreSpec => []WirelessWatched
<1>1. CoreInv => WirelessWatched
  BY HeartbeatFacts
<1> QED
  BY <1>1, CoreInvAlways, PTL

(* A heartbeat that waits will be started or told that it will not be.     *)
THEOREM NoneStranded == CoreSpec => []NoStrandedHeartbeat
<1>1. CoreInv => NoStrandedHeartbeat
  BY HeartbeatFacts
<1> QED
  BY <1>1, CoreInvAlways, PTL

(* Whatever order tasks finish in, a registered device's connection number *)
(* only grows and USB is never traded for wireless.                        *)
THEOREM RegistrationsOnlyImprove == CoreSpec => NewestWins
<1> DEFINE Improves == \A u \in Udid :
              registry[u] # NoDevice /\ registry'[u] # NoDevice =>
                /\ registry'[u].id >= registry[u].id
                /\ registry'[u].wireless => registry[u].wireless
<1>1. ASSUME CoreInv, CoreNext
      PROVE  Improves
  <2>0. \A v \in Udid : registry[v] \in Connection \cup {NoDevice}
    BY <1>1 DEF CoreInv, CoreTypeOK, SignalsTypeOK, RegistryTypeOK
  <2>1. \A v \in Udid : registry[v] # NoDevice => registry[v].id \in Nat
    BY <2>0, MaxConnAssumption DEF Connection, ConnId
  <2>2. ASSUME UNCHANGED registry
        PROVE  Improves
    BY <2>1, <2>2
  <2>3. ASSUME NEW u \in Udid, NEW c \in ConnId, Leaves(u, c)
        PROVE  Improves
    <3>1. \A v \in Udid : registry'[v] \in {registry[v], NoDevice}
      BY <1>1, <2>3 DEF Leaves, RemoveIfCurrent, CoreInv, CoreTypeOK, SignalsTypeOK, RegistryTypeOK
    <3> QED
      BY <2>1, <3>1
  <2>4. ASSUME NEW c \in ConnId, InsertAccepted(c)
        PROVE  Improves
    <3>1. task[c].udid \in Udid
      BY <1>1, <2>4 DEF InsertAccepted, CoreInv, Fits
    <3>2. \A v \in Udid : registry'[v] = IF v = task[c].udid
                                         THEN [id |-> c, wireless |-> IsWireless(c)]
                                         ELSE registry[v]
      BY <1>1, <2>4, <3>1, InsertMoves DEF Inserts
    <3>3. ~Rejects(task[c].udid, c, IsWireless(c))
      BY <2>4 DEF InsertAccepted, Insert
    <3> QED
      BY <2>1, <3>1, <3>2, <3>3, MaxConnAssumption DEF Rejects, ConnId
  <2>5. ASSUME NEW c \in ConnId, AnnounceReplaced(c) \/ Announce(c) \/ HeartbeatCleaned(c)
        PROVE  Improves
    <3>1. UNCHANGED registry
      BY <2>5 DEF AnnounceReplaced, Announce, HeartbeatCleaned, registryVars
    <3> QED
      BY <2>2, <3>1
  <2>6. Calm => UNCHANGED registry
    BY DEF Calm
  <2> QED
    BY <1>1, <2>2, <2>3, <2>4, <2>5, <2>6, CoreSteps
<1>2. CoreInv /\ [CoreNext]_coreVars => [Improves]_coreVars
  BY <1>1
<1> QED
  BY <1>2, CoreInvAlways, PTL DEF CoreSpec, NewestWins

-----------------------------------------------------------------------------
(* DeviceCore implements DeviceFeed.                                       *)

(* The instance's definitions are those of DeviceSignals.                  *)
LEMMA FeedRegister ==
  ASSUME NEW u \in Udid, NEW c \in ConnId, NEW w \in BOOLEAN,
         c \notin InsertedConns, Insert(u, c, w),
         InsertedConns' = InsertedConns \cup {c},
         OwedEvents' = OwedEvents \cup {Connected(u, c, w)}
                         \cup (IF registry[u] = NoDevice THEN {}
                               ELSE {Disconnected(u, registry[u].id)}),
         UNCHANGED events
  PROVE  Feed!FeedStep
<1>1. Feed!Register(u, c, w)
  BY DEF Feed!Register, Feed!Insert, Feed!Rejects, Feed!NoDevice, Feed!Connected,
     Feed!Disconnected, Feed!Event, Insert, Rejects, NoDevice, Connected, Disconnected, Event
<1> QED
  BY <1>1 DEF Feed!FeedStep, Feed!ConnId, ConnId

LEMMA FeedDrop ==
  ASSUME NEW u \in Udid, NEW c \in ConnId, RemoveIfCurrent(u, c),
         OwedEvents' = OwedEvents \cup {Disconnected(u, c)},
         InsertedConns' = InsertedConns, UNCHANGED events
  PROVE  Feed!FeedStep
<1>1. Feed!Drop(u, c)
  BY DEF Feed!Drop, Feed!RemoveIfCurrent, Feed!IsCurrent, Feed!NoDevice,
     Feed!Disconnected, Feed!Event, RemoveIfCurrent, IsCurrent, NoDevice, Disconnected, Event
<1> QED
  BY <1>1 DEF Feed!FeedStep, Feed!ConnId, ConnId

LEMMA FeedForget ==
  ASSUME NEW u \in Udid, NEW c \in ConnId, RemoveIfCurrent(u, c),
         OwedEvents' = OwedEvents, InsertedConns' = InsertedConns, UNCHANGED events
  PROVE  Feed!Forget(u, c)
BY DEF Feed!Forget, Feed!RemoveIfCurrent, Feed!IsCurrent, Feed!NoDevice,
   RemoveIfCurrent, IsCurrent, NoDevice

LEMMA FeedEmit ==
  ASSUME NEW e \in OwedEvents, Queue(e), OwedEvents' = OwedEvents \ {e},
         InsertedConns' = InsertedConns, UNCHANGED registry
  PROVE  Feed!FeedStep
<1>1. Feed!Emit(e)
  BY DEF Feed!Emit, Feed!Queue, Queue
<1> QED
  BY <1>1 DEF Feed!FeedStep

LEMMA FeedNotify ==
  ASSUME NEW e \in NoticeEvent, Queue(e), OwedEvents' = OwedEvents,
         InsertedConns' = InsertedConns, UNCHANGED registry
  PROVE  Feed!FeedStep
<1>1. Feed!Notify(e) /\ e \in Feed!NoticeEvent
  BY DEF Feed!Notify, Feed!Queue, Queue, Feed!NoticeEvent, NoticeEvent
<1> QED
  BY <1>1 DEF Feed!FeedStep

-----------------------------------------------------------------------------
(* Who owes an event.                                                      *)

OwesConnected(c, e) ==
  /\ task[c].stage \in {"replaced", "announce"}
  /\ e = Connected(task[c].udid, c, IsWireless(c))
OwesReplaced(c, e) ==
  task[c].stage = "replaced" /\ e = Disconnected(task[c].udid, task[c].old)
OwesLost(c, e) == heartbeat[c] = "cleaning" /\ e = Disconnected(task[c].udid, c)
OwesUnplugged(e) ==
  listener.state = "cleaning" /\ e = Disconnected(listener.udid, listener.id)

OwedBy(c, e) == OwesConnected(c, e) \/ OwesReplaced(c, e) \/ OwesLost(c, e)

LEMMA OwedIff ==
  ASSUME NEW e
  PROVE  e \in OwedEvents <=> (\E c \in ConnId : OwedBy(c, e)) \/ OwesUnplugged(e)
<1>1. ASSUME NEW c \in ConnId
      PROVE  e \in OwedByTask(c) <=> OwedBy(c, e)
  BY DEF OwedByTask, OwedBy, OwesConnected, OwesReplaced, OwesLost
<1>2. e \in OwedByListener <=> OwesUnplugged(e)
  BY DEF OwedByListener, OwesUnplugged
<1> QED
  BY <1>1, <1>2 DEF OwedEvents

LEMMA OwedIffNext ==
  ASSUME NEW e
  PROVE  (e \in OwedEvents)' <=> (\E c \in ConnId : OwedBy(c, e)') \/ OwesUnplugged(e)'
<1>1. ASSUME NEW c \in ConnId
      PROVE  (e \in OwedByTask(c))' <=> OwedBy(c, e)'
  BY DEF OwedByTask, OwedBy, OwesConnected, OwesReplaced, OwesLost
<1>2. (e \in OwedByListener)' <=> OwesUnplugged(e)'
  BY DEF OwedByListener, OwesUnplugged
<1> QED
  BY <1>1, <1>2 DEF OwedEvents

LEMMA EventsDiffer ==
  /\ \A u, v, c, d, w : Connected(u, c, w) # Disconnected(v, d)
  /\ \A u, v, c, d, w, x : Connected(u, c, w) = Connected(v, d, x) => c = d
  /\ \A u, v, c, d : Disconnected(u, c) = Disconnected(v, d) => c = d
BY DEF Connected, Disconnected, Event

(* Steps of unregistered tasks owe nothing.                                *)
LEMMA CalmOwesNothing ==
  ASSUME CoreInv, Calm, OwedByListener' = OwedByListener
  PROVE  OwedEvents' = OwedEvents /\ InsertedConns' = InsertedConns
<1>1. ASSUME NEW c \in ConnId
      PROVE  /\ OwedByTask(c)' = OwedByTask(c)
             /\ task'[c].stage \in Committed <=> task[c].stage \in Committed
  <2>1. Waits(c) /\ Fits(task[c], heartbeat[c])
    BY DEF Calm, CoreInv
  <2>2. CASE task'[c] = task[c] /\ heartbeat'[c] = heartbeat[c]
    BY <2>2 DEF OwedByTask, IsWireless
  <2>3. CASE /\ task[c].stage \notin Committed /\ task'[c].stage \notin Committed
             /\ Fits(task'[c], heartbeat'[c])
    <3>1. OwedByTask(c) = {}
      BY <2>1, <2>3 DEF OwedByTask, Fits, Committed
    <3>2. OwedByTask(c)' = {}
      BY <2>3 DEF OwedByTask, Fits, Committed
    <3> QED
      BY <2>3, <3>1, <3>2
  <2> QED
    BY <2>1, <2>2, <2>3 DEF Waits
<1>2. OwedEvents' = OwedEvents
  BY <1>1 DEF OwedEvents
<1>3. InsertedConns' = InsertedConns
  BY <1>1 DEF InsertedConns
<1> QED
  BY <1>2, <1>3

(* Who owes the end of a connection is the only one.                       *)
LEMMA EndOwedOnce ==
  ASSUME CoreInv, NEW x \in ConnId, NEW v
  PROVE  /\ \A c, d \in ConnId :
              /\ OwesReplaced(c, Disconnected(v, x)) /\ OwesReplaced(d, Disconnected(v, x)) => c = d
              /\ OwesReplaced(c, Disconnected(v, x)) =>
                   ~OwesLost(d, Disconnected(v, x)) /\ ~OwesUnplugged(Disconnected(v, x))
              /\ OwesLost(c, Disconnected(v, x)) /\ OwesLost(d, Disconnected(v, x)) => c = d
              /\ OwesUnplugged(Disconnected(v, x)) => ~OwesLost(c, Disconnected(v, x))
              /\ ~OwesConnected(c, Disconnected(v, x))
<1>1. /\ \A c \in ConnId : OwesReplaced(c, Disconnected(v, x)) => EndsByTask(c, x)
      /\ \A c \in ConnId : OwesLost(c, Disconnected(v, x)) => c = x /\ EndsByHeartbeat(x)
      /\ OwesUnplugged(Disconnected(v, x)) => EndsByListener(x)
  BY EventsDiffer DEF OwesReplaced, OwesLost, OwesUnplugged, EndsByTask, EndsByHeartbeat, EndsByListener
<1>2. EndedOnce(x)
  BY DEF CoreInv
<1>3. \A c \in ConnId : ~OwesConnected(c, Disconnected(v, x))
  BY EventsDiffer DEF OwesConnected
<1> QED
  BY <1>1, <1>2, <1>3 DEF EndedOnce

LEMMA AnnounceReplacedImplements ==
  ASSUME CoreInv, NEW c \in ConnId, AnnounceReplaced(c)
  PROVE  Feed!FeedStep
<1>1. /\ task[c].stage = "replaced" /\ task[c].udid \in Udid /\ task[c].old \in ConnId
      /\ UNCHANGED <<registry, heartbeat, listener>>
  BY DEF AnnounceReplaced, CoreInv, Fits, registryVars, usbVars
<1>2. PICK e : e = Disconnected(task[c].udid, task[c].old)
  OBVIOUS
<1>3. /\ \A x \in ConnId \ {c} : task'[x] = task[x]
      /\ task'[c].stage = "announce" /\ task'[c].kind = task[c].kind /\ task'[c].udid = task[c].udid
  BY AnnounceReplacedProceeds DEF Proceeds
<1>4. OwesReplaced(c, e)
  BY <1>1, <1>2 DEF OwesReplaced
<1>5. /\ \A x \in ConnId : OwesReplaced(x, e) => x = c
      /\ \A x \in ConnId : ~OwesLost(x, e) /\ ~OwesConnected(x, e)
      /\ ~OwesUnplugged(e)
  BY <1>1, <1>2, <1>4, EndOwedOnce
<1>6. ASSUME NEW f
      PROVE  (f \in OwedEvents)' <=> f \in OwedEvents /\ f # e
  <2>1. \A x \in ConnId : OwesConnected(x, f)' <=> OwesConnected(x, f)
    BY <1>1, <1>3 DEF OwesConnected, IsWireless
  <2>2. \A x \in ConnId : OwesReplaced(x, f)' <=> OwesReplaced(x, f) /\ x # c
    BY <1>1, <1>3 DEF OwesReplaced
  <2>3. OwesReplaced(c, f) => f = e
    BY <1>2 DEF OwesReplaced
  <2>4. \A x \in ConnId : OwesLost(x, f)' <=> OwesLost(x, f)
    BY <1>1, <1>3 DEF OwesLost
  <2>5. OwesUnplugged(f)' <=> OwesUnplugged(f)
    BY <1>1 DEF OwesUnplugged
  <2> QED
    BY <1>5, <2>1, <2>2, <2>3, <2>4, <2>5, OwedIff, OwedIffNext DEF OwedBy
<1>7. e \in OwedEvents
  BY <1>4, OwedIff DEF OwedBy
<1>8. OwedEvents' = OwedEvents \ {e}
  BY <1>6
<1>9. InsertedConns' = InsertedConns
  BY <1>1, <1>3 DEF InsertedConns, Committed
<1> QED
  BY <1>1, <1>2, <1>7, <1>8, <1>9, FeedEmit DEF AnnounceReplaced

LEMMA AnnounceImplements ==
  ASSUME CoreInv, NEW c \in ConnId, Announce(c)
  PROVE  Feed!FeedStep
<1>1. task[c].stage = "announce" /\ UNCHANGED <<registry, listener>>
  BY DEF Announce, usbVars
<1>2. PICK e : e = Connected(task[c].udid, c, IsWireless(c))
  OBVIOUS
<1>3. /\ \A x \in ConnId \ {c} : task'[x] = task[x]
      /\ task'[c].stage = "done" /\ task'[c].kind = task[c].kind /\ task'[c].udid = task[c].udid
      /\ \A x \in ConnId : heartbeat'[x] = "cleaning" <=> heartbeat[x] = "cleaning"
  <2>1. heartbeat \in [ConnId -> HeartbeatStage]
    BY DEF CoreInv, CoreTypeOK
  <2> QED
    BY <2>1, AnnounceProceeds DEF Proceeds, Announce
<1>4. OwesConnected(c, e)
  BY <1>1, <1>2 DEF OwesConnected
<1>5. /\ \A x \in ConnId : OwesConnected(x, e) => x = c
      /\ \A x \in ConnId : ~OwesLost(x, e) /\ ~OwesReplaced(x, e)
      /\ ~OwesUnplugged(e)
  BY <1>2, EventsDiffer DEF OwesConnected, OwesLost, OwesReplaced, OwesUnplugged
<1>6. ASSUME NEW f
      PROVE  (f \in OwedEvents)' <=> f \in OwedEvents /\ f # e
  <2>1. \A x \in ConnId : OwesConnected(x, f)' <=> OwesConnected(x, f) /\ x # c
    BY <1>1, <1>3 DEF OwesConnected, IsWireless
  <2>2. OwesConnected(c, f) => f = e
    BY <1>2 DEF OwesConnected
  <2>3. \A x \in ConnId : OwesReplaced(x, f)' <=> OwesReplaced(x, f)
    BY <1>1, <1>3 DEF OwesReplaced
  <2>4. \A x \in ConnId : OwesLost(x, f)' <=> OwesLost(x, f)
    BY <1>3 DEF OwesLost
  <2>5. OwesUnplugged(f)' <=> OwesUnplugged(f)
    BY <1>1 DEF OwesUnplugged
  <2> QED
    BY <1>5, <2>1, <2>2, <2>3, <2>4, <2>5, OwedIff, OwedIffNext DEF OwedBy
<1>7. e \in OwedEvents
  BY <1>4, OwedIff DEF OwedBy
<1>8. OwedEvents' = OwedEvents \ {e}
  BY <1>6
<1>9. InsertedConns' = InsertedConns
  BY <1>1, <1>3 DEF InsertedConns, Committed
<1> QED
  BY <1>1, <1>2, <1>7, <1>8, <1>9, FeedEmit DEF Announce

LEMMA HeartbeatCleanedImplements ==
  ASSUME CoreInv, NEW c \in ConnId, HeartbeatCleaned(c)
  PROVE  Feed!FeedStep
<1>1. heartbeat[c] = "cleaning" /\ UNCHANGED <<registry, listener>>
  BY DEF HeartbeatCleaned, usbVars
<1>2. PICK e : e = Disconnected(task[c].udid, c)
  OBVIOUS
<1>3. /\ task' = task /\ heartbeat'[c] = "ended"
      /\ \A x \in ConnId \ {c} : heartbeat'[x] = heartbeat[x]
  BY HeartbeatCleanedProceeds
<1>4. OwesLost(c, e)
  BY <1>1, <1>2 DEF OwesLost
<1>5. /\ \A x \in ConnId : OwesLost(x, e) => x = c
      /\ \A x \in ConnId : ~OwesReplaced(x, e) /\ ~OwesConnected(x, e)
      /\ ~OwesUnplugged(e)
  BY <1>2, <1>4, EndOwedOnce
<1>6. ASSUME NEW f
      PROVE  (f \in OwedEvents)' <=> f \in OwedEvents /\ f # e
  <2>1. \A x \in ConnId : /\ OwesConnected(x, f)' <=> OwesConnected(x, f)
                          /\ OwesReplaced(x, f)' <=> OwesReplaced(x, f)
    BY <1>3 DEF OwesConnected, OwesReplaced, IsWireless
  <2>2. \A x \in ConnId : OwesLost(x, f)' <=> OwesLost(x, f) /\ x # c
    BY <1>3 DEF OwesLost
  <2>3. OwesLost(c, f) => f = e
    BY <1>2 DEF OwesLost
  <2>4. OwesUnplugged(f)' <=> OwesUnplugged(f)
    BY <1>1 DEF OwesUnplugged
  <2> QED
    BY <1>5, <2>1, <2>2, <2>3, <2>4, OwedIff, OwedIffNext DEF OwedBy
<1>7. e \in OwedEvents
  BY <1>4, OwedIff DEF OwedBy
<1>8. OwedEvents' = OwedEvents \ {e}
  BY <1>6
<1>9. InsertedConns' = InsertedConns
  BY <1>3 DEF InsertedConns
<1> QED
  BY <1>1, <1>2, <1>7, <1>8, <1>9, FeedEmit DEF HeartbeatCleaned

LEMMA ListenerCleanedImplements ==
  ASSUME CoreInv, ListenerCleaned
  PROVE  Feed!FeedStep
<1>1. /\ listener.state = "cleaning" /\ listener'.state = "listening"
      /\ UNCHANGED <<registry, task, heartbeat>>
  BY DEF ListenerCleaned, Listening, registryVars, taskVars
<1>2. PICK e : e = Disconnected(listener.udid, listener.id)
  OBVIOUS
<1>3. listener.id \in ConnId
  BY <1>1 DEF CoreInv, CoreTypeOK, ListenerState, Listening, Down
<1>4. OwesUnplugged(e)
  BY <1>1, <1>2 DEF OwesUnplugged
<1>5. \A x \in ConnId : ~OwesReplaced(x, e) /\ ~OwesConnected(x, e) /\ ~OwesLost(x, e)
  BY <1>2, <1>3, <1>4, EndOwedOnce
<1>6. ASSUME NEW f
      PROVE  (f \in OwedEvents)' <=> f \in OwedEvents /\ f # e
  <2>1. \A x \in ConnId : OwedBy(x, f)' <=> OwedBy(x, f)
    BY <1>1 DEF OwedBy, OwesConnected, OwesReplaced, OwesLost, IsWireless
  <2>2. ~OwesUnplugged(f)' /\ (OwesUnplugged(f) => f = e)
    BY <1>1, <1>2 DEF OwesUnplugged
  <2> QED
    BY <1>5, <2>1, <2>2, OwedIff, OwedIffNext DEF OwedBy
<1>7. e \in OwedEvents
  BY <1>4, OwedIff
<1>8. OwedEvents' = OwedEvents \ {e}
  BY <1>6
<1>9. InsertedConns' = InsertedConns
  BY <1>1 DEF InsertedConns
<1> QED
  BY <1>1, <1>2, <1>7, <1>8, <1>9, FeedEmit DEF ListenerCleaned

LEMMA LeavesImplements ==
  ASSUME CoreInv, NEW u \in Udid, NEW c \in ConnId, Leaves(u, c), UNCHANGED events,
         listener' # listener => listener' = [state |-> "cleaning", udid |-> u, id |-> c]
  PROVE  IF UNCHANGED listener /\ heartbeat'[c] # "cleaning"
         THEN Feed!Forget(u, c) ELSE Feed!FeedStep
<1>1. /\ RemoveIfCurrent(u, c) /\ task' = task
      /\ \A x \in ConnId \ {c} : heartbeat'[x] = heartbeat[x]
  BY DEF Leaves
<1>2. task[c].udid = u /\ heartbeat[c] # "cleaning"
  <2>1. task[c].stage \in Committed /\ task[c].udid = u
    BY <1>1 DEF RemoveIfCurrent, IsCurrent, CoreInv, Backed
  <2> QED
    BY <1>1, <2>1 DEF RemoveIfCurrent, CoreInv, EndedOnce, EndsByHeartbeat
<1>3. PICK e : e = Disconnected(u, c)
  OBVIOUS
<1>4. ASSUME NEW f, NEW x \in ConnId
      PROVE  /\ OwesConnected(x, f)' <=> OwesConnected(x, f)
             /\ OwesReplaced(x, f)' <=> OwesReplaced(x, f)
             /\ x # c => (OwesLost(x, f)' <=> OwesLost(x, f))
  BY <1>1 DEF OwesConnected, OwesReplaced, OwesLost, IsWireless
<1>5. ~OwesLost(c, e)
  BY <1>2 DEF OwesLost
<1>6. InsertedConns' = InsertedConns
  BY <1>1 DEF InsertedConns
<1>7. CASE UNCHANGED listener /\ heartbeat'[c] = Stopped(heartbeat[c])
  <2>1. heartbeat'[c] # "cleaning"
    BY <1>2, <1>7 DEF Stopped
  <2>2. ASSUME NEW f
        PROVE  (f \in OwedEvents)' <=> f \in OwedEvents
    <3>1. \A x \in ConnId : OwesLost(x, f)' <=> OwesLost(x, f)
      BY <1>2, <1>4, <2>1 DEF OwesLost
    <3>2. OwesUnplugged(f)' <=> OwesUnplugged(f)
      BY <1>7 DEF OwesUnplugged
    <3> QED
      BY <1>4, <3>1, <3>2, OwedIff, OwedIffNext DEF OwedBy
  <2>3. OwedEvents' = OwedEvents
    BY <2>2
  <2> QED
    BY <1>1, <1>6, <1>7, <2>1, <2>3, FeedForget
<1>8. CASE UNCHANGED listener /\ heartbeat'[c] = "cleaning"
  <2>1. ASSUME NEW f
        PROVE  (f \in OwedEvents)' <=> f \in OwedEvents \/ f = e
    <3>1. OwesLost(c, f)' <=> f = e
      BY <1>1, <1>2, <1>3, <1>8 DEF OwesLost
    <3>2. ~OwesLost(c, f)
      BY <1>2 DEF OwesLost
    <3>3. OwesUnplugged(f)' <=> OwesUnplugged(f)
      BY <1>8 DEF OwesUnplugged
    <3> QED
      BY <1>4, <3>1, <3>2, <3>3, OwedIff, OwedIffNext DEF OwedBy
  <2>2. OwedEvents' = OwedEvents \cup {e}
    BY <2>1
  <2> QED
    BY <1>1, <1>3, <1>6, <1>8, <2>2, FeedDrop
<1>9. CASE /\ heartbeat[c] = "none" /\ heartbeat'[c] = "none" /\ listener = Listening
           /\ listener' = [state |-> "cleaning", udid |-> u, id |-> c]
  <2>1. ASSUME NEW f
        PROVE  (f \in OwedEvents)' <=> f \in OwedEvents \/ f = e
    <3>1. OwesUnplugged(f)' <=> f = e
      BY <1>3, <1>9 DEF OwesUnplugged
    <3>2. ~OwesUnplugged(f)
      BY <1>9 DEF OwesUnplugged, Listening
    <3>3. \A x \in ConnId : OwesLost(x, f)' <=> OwesLost(x, f)
      BY <1>4, <1>9 DEF OwesLost
    <3> QED
      BY <1>4, <3>1, <3>2, <3>3, OwedIff, OwedIffNext DEF OwedBy
  <2>2. OwedEvents' = OwedEvents \cup {e}
    BY <2>1
  <2>3. listener' # listener
    BY <1>9 DEF Listening
  <2> QED
    BY <1>1, <1>3, <1>6, <2>2, <2>3, FeedDrop
<1> QED
  BY <1>7, <1>8, <1>9 DEF Leaves

LEMMA InsertImplements ==
  ASSUME CoreInv, NEW c \in ConnId, InsertAccepted(c)
  PROVE  Feed!FeedStep
<1>1. task[c].stage = "inserting" /\ task[c].udid \in Udid /\ IsWireless(c) \in BOOLEAN
  BY TaskFields DEF InsertAccepted
<1>2. PICK u \in Udid : u = task[c].udid
  BY <1>1
<1> DEFINE o == registry[u].id
<1>3. /\ UNCHANGED <<events, listener>>
      /\ \A x \in ConnId \ {c} : task'[x] = task[x]
      /\ task'[c].kind = task[c].kind /\ task'[c].udid = u
      /\ registry[u] = NoDevice => task'[c].stage = "announce"
      /\ registry[u] # NoDevice => task'[c].stage = "replaced" /\ task'[c].old = o
      /\ \A x \in ConnId : heartbeat'[x] = "cleaning" <=> heartbeat[x] = "cleaning"
  <2>1. \A h \in HeartbeatStage : Stopped(h) = "cleaning" <=> h = "cleaning"
    BY DEF Stopped, HeartbeatStage
  <2>2. heartbeat \in [ConnId -> HeartbeatStage]
    BY DEF CoreInv, CoreTypeOK
  <2>3. Inserts(u, c)
    BY <1>2, InsertMoves
  <2>4. \A x \in ConnId : heartbeat'[x] \in {heartbeat[x], Stopped(heartbeat[x])}
    BY <2>3 DEF Inserts
  <2>5. \A x \in ConnId : heartbeat'[x] = "cleaning" <=> heartbeat[x] = "cleaning"
    BY <2>1, <2>2, <2>4
  <2> QED
    BY <2>3, <2>5 DEF Inserts
<1>4. c \notin InsertedConns
  BY <1>1 DEF InsertedConns, Committed
<1>5. InsertedConns' = InsertedConns \cup {c}
  BY <1>3 DEF InsertedConns, Committed
<1> HIDE DEF o
<1>w. PICK w \in BOOLEAN : w = IsWireless(c)
  BY <1>1
<1>i. Insert(u, c, w)
  BY <1>2, <1>w DEF InsertAccepted
<1>6. PICK new : new = Connected(u, c, w)
  OBVIOUS
<1>7. PICK end : end = Disconnected(u, o)
  OBVIOUS
<1>8. ASSUME NEW f
      PROVE  (f \in OwedEvents)' <=> \/ f \in OwedEvents
                                     \/ f = new
                                     \/ registry[u] # NoDevice /\ f = end
  <2>1. IsWireless(c)' = w
    BY <1>3, <1>w DEF IsWireless
  <2>2. \A x \in ConnId \ {c} : /\ OwesConnected(x, f)' <=> OwesConnected(x, f)
                                /\ OwesReplaced(x, f)' <=> OwesReplaced(x, f)
    BY <1>3 DEF OwesConnected, OwesReplaced, IsWireless
  <2>3. /\ OwesConnected(c, f)' <=> f = new
        /\ OwesReplaced(c, f)' <=> registry[u] # NoDevice /\ f = end
        /\ ~OwesConnected(c, f) /\ ~OwesReplaced(c, f)
    BY <1>1, <1>3, <1>6, <1>7, <2>1 DEF OwesConnected, OwesReplaced
  <2>4. \A x \in ConnId : OwesLost(x, f)' <=> OwesLost(x, f)
    BY <1>2, <1>3 DEF OwesLost
  <2>5. OwesUnplugged(f)' <=> OwesUnplugged(f)
    BY <1>3 DEF OwesUnplugged
  <2> QED
    BY <2>2, <2>3, <2>4, <2>5, OwedIff, OwedIffNext DEF OwedBy
<1>9. OwedEvents' = OwedEvents \cup {new} \cup (IF registry[u] = NoDevice THEN {} ELSE {end})
  BY <1>8
<1>10. OwedEvents' = OwedEvents \cup {Connected(u, c, w)}
                       \cup (IF registry[u] = NoDevice THEN {}
                             ELSE {Disconnected(u, registry[u].id)})
  BY <1>6, <1>7, <1>9 DEF o
<1> QED
  BY <1>3, <1>4, <1>5, <1>10, <1>i, FeedRegister

(* Calm steps owe the interface nothing, and queue notices at most.        *)
LEMMA CalmFeeds ==
  ASSUME CoreInv, Calm,
         listener' = listener \/ {listener.state, listener'.state} \subseteq {"listening", "down"}
  PROVE  /\ OwedEvents' = OwedEvents /\ InsertedConns' = InsertedConns /\ UNCHANGED registry
         /\ UNCHANGED events => UNCHANGED Feed!feedVars
         /\ (\E e \in NoticeEvent : Queue(e)) => Feed!FeedStep
<1>1. OwedByListener' = OwedByListener
  BY DEF OwedByListener
<1>2. OwedEvents' = OwedEvents /\ InsertedConns' = InsertedConns /\ UNCHANGED registry
  BY <1>1, CalmOwesNothing DEF Calm
<1>3. ASSUME UNCHANGED events
      PROVE  UNCHANGED Feed!feedVars
  BY <1>2, <1>3 DEF Feed!feedVars
<1>4. ASSUME NEW e \in NoticeEvent, Queue(e)
      PROVE  Feed!FeedStep
  BY <1>2, <1>4, FeedNotify
<1> QED
  BY <1>2, <1>3, <1>4

(* What a step that needs nothing from the interface does to it.           *)
Feeds ==
  /\ Feed!FeedStep \/ UNCHANGED Feed!feedVars
  /\ UNCHANGED requestVars

LEMMA TaskNotices ==
  ASSUME CoreInv, NEW c \in ConnId, TaskStep(c),
         ~InsertAccepted(c), ~AnnounceReplaced(c), ~Announce(c)
  PROVE  /\ UNCHANGED events \/ \E e \in NoticeEvent : Queue(e)
         /\ UNCHANGED <<listener, requestVars>>
<1> DEFINE Goal == /\ UNCHANGED events \/ \E e \in NoticeEvent : Queue(e)
                   /\ UNCHANGED <<listener, requestVars>>
<1>1. ASSUME NEW type \in {"pending", "fail", "initFailed", "noPairingFile"},
             Queue(Notice(type, task[c].udid)), task[c].stage # "unused"
      PROVE  \E e \in NoticeEvent : Queue(e)
  BY <1>1, TaskFields, NoticeType
<1>2. CASE CheckPairRecord(c) \/ FinishPairing(c) \/ UsbInitFails(c)
  BY <1>1, <1>2 DEF CheckPairRecord, FinishPairing, UsbInitFails, BeginPairing, usbVars
<1>3. CASE WirelessInitFails(c) \/ InsertRejected(c)
  BY <1>1, <1>3 DEF WirelessInitFails, InsertRejected, NextCandidate, usbVars
<1>4. CASE WirelessTimeout(c)
  BY <1>1, <1>4 DEF WirelessTimeout, usbVars
<1>5. CASE CustomInitFails(c) \/ Collected(c)
  BY <1>5 DEF CustomInitFails, Collected, usbVars
<1> QED
  BY <1>2, <1>3, <1>4, <1>5 DEF TaskStep

LEMMA ListenerFeeds ==
  ASSUME CoreInv, ListenerStep
  PROVE  Feeds
<1>1. CASE OnUsbConnected
  BY <1>1, OnUsbConnectedCalm, CalmFeeds DEF OnUsbConnected, Feeds
<1>2. CASE OnUsbDisconnected /\ UNCHANGED <<registry, listener>>
  BY <1>2, UnplugCalm, CalmFeeds DEF OnUsbDisconnected, Feeds
<1>3. CASE /\ OnUsbDisconnected
           /\ deviceMap[Head(stream).dev] # NoEntry
           /\ RemoveIfCurrent(deviceMap[Head(stream).dev].udid, deviceMap[Head(stream).dev].id)
  <2>1. UNCHANGED <<events, requestVars>>
    BY <1>3 DEF OnUsbDisconnected
  <2>2. listener.state = "listening"
    BY <1>3 DEF OnUsbDisconnected, Listening
  <2>3. listener'.state = "cleaning"
    BY <1>3, UnplugLeaves
  <2>4. listener' # listener
    BY <2>2, <2>3
  <2> QED
    BY <1>3, <2>1, <2>4, UnplugLeaves, LeavesImplements DEF Feeds
<1>4. CASE ListenerCleaned
  BY <1>4, ListenerCleanedImplements DEF ListenerCleaned, Feeds
<1>5. CASE Relisten
  BY <1>5, RelistenCalm, CalmFeeds DEF Relisten, Down, Listening, Feeds
<1> QED
  BY <1>1, <1>2, <1>3, <1>4, <1>5 DEF ListenerStep, OnUsbDisconnected

LEMMA TaskFeeds ==
  ASSUME CoreInv, NEW c \in ConnId, TaskStep(c)
  PROVE  Feeds
<1>1. CASE InsertAccepted(c) \/ AnnounceReplaced(c) \/ Announce(c)
  <2>1. UNCHANGED requestVars
    BY <1>1 DEF InsertAccepted, AnnounceReplaced, Announce
  <2> QED
    BY <1>1, <2>1, InsertImplements, AnnounceReplacedImplements, AnnounceImplements DEF Feeds
<1>2. CASE ~(InsertAccepted(c) \/ AnnounceReplaced(c) \/ Announce(c))
  <2>1. Calm
    BY <1>2, CheckPairRecordCalm, FinishPairingCalm, UsbInitFailsCalm,
       WirelessInitFailsCalm, WirelessTimeoutCalm, CustomInitFailsCalm, CollectedCalm,
       InsertRejectedCalm DEF TaskStep
  <2> QED
    BY <1>2, <2>1, TaskNotices, CalmFeeds DEF Feeds
<1> QED
  BY <1>1, <1>2

LEMMA HeartbeatFeeds ==
  ASSUME CoreInv, NEW c \in ConnId, HeartbeatStep(c)
  PROVE  Feeds
<1>1. CASE HeartbeatGivesUp(c)
  <2>1. UNCHANGED <<events, listener, requestVars>>
    BY <1>1 DEF HeartbeatGivesUp, usbVars
  <2>2. heartbeat'[c] = "cleaning"
    BY <1>1, HeartbeatLeaves DEF CoreInv, CoreTypeOK
  <2> QED
    BY <1>1, <2>1, <2>2, HeartbeatLeaves, LeavesImplements DEF Feeds
<1>2. CASE HeartbeatCleaned(c)
  BY <1>2, HeartbeatCleanedImplements DEF HeartbeatCleaned, Feeds
<1> QED
  BY <1>1, <1>2 DEF HeartbeatStep

LEMMA WorldFeeds ==
  ASSUME CoreInv, World
  PROVE  Feeds
<1>1. /\ UNCHANGED <<events, requestVars>>
      /\ listener' = listener \/ {listener.state, listener'.state} \subseteq {"listening", "down"}
  <2>1. CASE LoseStream
    BY <2>1 DEF LoseStream, Listening, Down
  <2>2. CASE ~LoseStream
    BY <2>2 DEF World, Plug, Unplug
  <2> QED
    BY <2>1, <2>2
<1> QED
  BY <1>1, WorldCalm, CalmFeeds DEF Feeds

(* remove_device says nothing, as it was asked for.                        *)
LEMMA RemovalFeeds ==
  ASSUME CoreInv, NEW u \in Udid, NEW c \in ConnId, RunRemoval(u, c)
  PROVE  \/ Feed!Forget(u, c)
         \/ ~IsCurrent(u, c) /\ UNCHANGED Feed!feedVars
<1>1. UNCHANGED <<events, listener>>
  BY DEF RunRemoval, usbVars
<1>2. CASE Leaves(u, c) /\ heartbeat'[c] = Stopped(heartbeat[c])
  <2>1. heartbeat[c] # "cleaning"
    BY <1>2 DEF Leaves, RemoveIfCurrent, IsCurrent, CoreInv, Backed, EndedOnce, EndsByHeartbeat
  <2>2. heartbeat'[c] # "cleaning"
    BY <1>2, <2>1 DEF Stopped
  <2> QED
    BY <1>1, <1>2, <2>2, LeavesImplements
<1>3. CASE Calm
  <2>1. ~RemoveIfCurrent(u, c)
    BY <1>3 DEF Calm, RemoveIfCurrent, IsCurrent, CoreInv, CoreTypeOK, SignalsTypeOK, RegistryTypeOK
  <2> QED
    BY <1>1, <1>3, <2>1, CalmFeeds DEF RunRemoval
<1> QED
  BY <1>2, <1>3, RemovalMoves

(* A call of the interface starts attempts, or is told at once why not.    *)
LEMMA StartFeeds ==
  ASSUME CoreInv, NEW u \in Udid, StartWireless(u)
  PROVE  /\ OwedEvents' = OwedEvents /\ InsertedConns' = InsertedConns /\ UNCHANGED registry
         /\ \/ UNCHANGED events
            \/ \E type \in {"initFailed", "noPairingFile"} : Queue(Notice(type, u))
<1>1. UNCHANGED listener
  BY DEF StartWireless, usbVars
<1> QED
  BY <1>1, StartWirelessCalm, CalmFeeds DEF StartWireless

LEMMA InterfaceFeeds ==
  ASSUME CoreInv, AnyInterface
  PROVE  Feed!Deliver \/ UNCHANGED Feed!feedVars
<1>1. UNCHANGED listener
  BY DEF AnyInterface, RequestWireless, StartCustom, RequestRemoval, DeliverEvent, usbVars
<1>2. /\ OwedEvents' = OwedEvents /\ InsertedConns' = InsertedConns /\ UNCHANGED registry
      /\ UNCHANGED events => UNCHANGED Feed!feedVars
  BY <1>1, InterfaceCalm, CalmFeeds
<1>3. UNCHANGED events \/ DeliverEvent
  BY DEF AnyInterface, RequestWireless, StartCustom, RequestRemoval
<1> QED
  BY <1>2, <1>3 DEF DeliverEvent, Feed!Deliver

LEMMA StepImplements ==
  ASSUME CoreInv, CoreNext
  PROVE  Feed!FeedNext \/ UNCHANGED Feed!feedVars
<1>1. CASE \/ ListenerStep \/ World
           \/ \E c \in ConnId : TaskStep(c) \/ HeartbeatStep(c)
  BY <1>1, ListenerFeeds, WorldFeeds, TaskFeeds, HeartbeatFeeds DEF Feeds, Feed!FeedNext
<1>2. ASSUME NEW u \in Udid, NEW c \in ConnId, RunRemoval(u, c)
      PROVE  Feed!FeedNext \/ UNCHANGED Feed!feedVars
  BY <1>2, RemovalFeeds DEF Feed!FeedNext, Feed!ConnId, ConnId
<1>3. ASSUME NEW u \in Udid, StartWireless(u)
      PROVE  Feed!FeedNext \/ UNCHANGED Feed!feedVars
  <2>1. UNCHANGED events \/ \E e \in NoticeEvent : Queue(e)
    BY <1>3, StartFeeds, NoticeType
  <2> QED
    BY <1>3, <2>1, StartFeeds, FeedNotify DEF Feed!FeedNext, Feed!feedVars
<1>4. CASE AnyInterface
  BY <1>4, InterfaceFeeds DEF Feed!FeedNext
<1> QED
  BY <1>1, <1>2, <1>3, <1>4 DEF CoreNext, CoreStep, RemovalStep

LEMMA CoreInitFeeds == CoreInit => Feed!FeedInit
<1> SUFFICES ASSUME CoreInit
             PROVE  Feed!FeedInit
  OBVIOUS
<1>1. \A c \in ConnId : task[c].stage = "unused" /\ heartbeat[c] = "none"
  BY DEF CoreInit, Unused, NewTask
<1>2. OwedEvents = {}
  BY <1>1 DEF CoreInit, OwedEvents, OwedByTask, OwedByListener, Listening
<1>3. InsertedConns = {}
  BY <1>1 DEF InsertedConns, Committed
<1>4. Feed!RegistryInit /\ events = <<>>
  BY DEF CoreInit, SignalsInit, RegistryInit, NoDevice, Feed!RegistryInit, Feed!NoDevice
<1> QED
  BY <1>2, <1>3, <1>4 DEF Feed!FeedInit

(* Tasks, timeouts, aborts and heartbeats together do towards the          *)
(* interface only what DeviceFeed promises (core.rs as a whole).           *)
THEOREM CoreImplementsFeed == CoreSpec => ImplementsFeed
<1>1. CoreInit => Feed!FeedInit
  BY CoreInitFeeds
<1>2. CoreInv /\ [CoreNext]_coreVars => [Feed!FeedNext]_Feed!feedVars
  <2>1. CASE CoreInv /\ CoreNext
    BY <2>1, StepImplements
  <2>2. CASE UNCHANGED coreVars
    <3>1. UNCHANGED <<registry, events, task, heartbeat, listener>>
      BY <2>2 DEF coreVars, registryVars, usbVars, taskVars
    <3>2. OwedEvents' = OwedEvents /\ InsertedConns' = InsertedConns
      BY <3>1 DEF OwedEvents, OwedByTask, OwedByListener, InsertedConns, IsWireless
    <3> QED
      BY <3>1, <3>2 DEF Feed!feedVars
  <2> QED
    BY <2>1, <2>2
<1> QED
  BY <1>1, <1>2, CoreInvAlways, PTL DEF CoreSpec, ImplementsFeed, Feed!FeedSpec

-----------------------------------------------------------------------------
(* Core with the interface implements DeviceSession.                       *)

(* The interface's own state matters here only as far as it names          *)
(* connections when it asks for a removal.                                 *)
SystemInv == CoreInv /\ row \in [Udid -> Connection \cup {NoDevice}]

LEMMA SystemInvInit == SystemInit => SystemInv
BY CoreInvInit DEF SystemInit, ContextInit, SystemInv

LEMMA UnlistRow ==
  ASSUME row \in [Udid -> Connection \cup {NoDevice}], NEW u \in Udid, NEW pends, Unlist(u, pends)
  PROVE  row' \in [Udid -> Connection \cup {NoDevice}]
BY DEF Unlist

LEMMA EventFields ==
  ASSUME SignalsTypeOK, events # <<>>
  PROVE  /\ Head(events) \in ConnectionEvent \cup NoticeEvent
         /\ Head(events).udid \in Udid
         /\ Head(events).type \in {"connected", "disconnected"} =>
              Head(events).id \in ConnId /\ Head(events).wireless \in BOOLEAN
         /\ Tail(events) \in Seq(ConnectionEvent \cup NoticeEvent)
<1>1. Head(events) \in ConnectionEvent \cup NoticeEvent
  BY DEF SignalsTypeOK
<1>2. Tail(events) \in Seq(ConnectionEvent \cup NoticeEvent)
  BY DEF SignalsTypeOK
<1> QED
  BY <1>1, <1>2 DEF ConnectionEvent, NoticeEvent

LEMMA HandleRow ==
  ASSUME SystemInv, HandleSignal
  PROVE  row' \in [Udid -> Connection \cup {NoDevice}]
<1> DEFINE e == Head(events)
<1>1. /\ e.udid \in Udid
      /\ e.type = "connected" => e.id \in ConnId /\ e.wireless \in BOOLEAN
  BY EventFields DEF SystemInv, CoreInv, CoreTypeOK, HandleSignal
<1>2. HandleEvent(e) /\ row \in [Udid -> Connection \cup {NoDevice}]
  BY DEF HandleSignal, SystemInv
<1> HIDE DEF e
<1>3. CASE AcceptConnected(e)
  <2>1. [id |-> e.id, wireless |-> e.wireless] \in Connection
    BY <1>1, <1>3 DEF AcceptConnected, Connection
  <2> QED
    BY <1>1, <1>2, <1>3, <2>1 DEF AcceptConnected
<1>4. CASE AcceptDisconnected(e)
  BY <1>1, <1>2, <1>4, UnlistRow DEF AcceptDisconnected
<1>5. CASE ~AcceptConnected(e) /\ ~AcceptDisconnected(e)
  BY <1>2, <1>5 DEF HandleEvent, IgnoreConnected, SkipWireless, IgnoreDisconnected, HandlePending,
     HandleFail, HandleAttemptFailed, contextVars, lists
<1> QED
  BY <1>3, <1>4, <1>5

(* The calls of the interface: attempts and removals.                      *)
LEMMA InterfaceCalls ==
  ASSUME SystemInv, InterfaceStep
  PROVE  /\ row' \in [Udid -> Connection \cup {NoDevice}]
         /\ discovering' \in [Udid -> Nat]
         /\ removals' \in SUBSET (Udid \X ConnId)
<1>1. /\ row \in [Udid -> Connection \cup {NoDevice}]
      /\ discovering \in [Udid -> Nat] /\ removals \in SUBSET (Udid \X ConnId)
  BY DEF SystemInv, CoreInv, CoreTypeOK, SignalsTypeOK
<1>2. ASSUME NEW r \in RecoveryId, RecoveryAdded(r) \/ RecoveryRemoved(r)
      PROVE  UNCHANGED <<row, discovering, removals>>
  BY <1>2 DEF RecoveryAdded, RecoveryRemoved
<1>3. ASSUME NEW u \in Udid, NEW select \in BOOLEAN,
             ConnectNetworkDevice(u, select) \/ RunLater(u, select)
      PROVE  UNCHANGED <<row, removals>> /\ discovering' \in [Udid -> Nat]
  <2>1. UNCHANGED discovering \/ discovering' = [discovering EXCEPT ![u] = @ + 1]
    BY <1>3 DEF ConnectNetworkDevice, RunLater, TryConnect, AlreadyConnected, UpgradeAttempt,
       StartAttempt
  <2>2. UNCHANGED <<row, removals>>
    BY <1>3 DEF ConnectNetworkDevice, RunLater, lists
  <2> QED
    BY <1>1, <2>1, <2>2
<1>4. ASSUME NEW u \in Udid, RemoveDevice(u)
      PROVE  /\ row' \in [Udid -> Connection \cup {NoDevice}] /\ UNCHANGED discovering
             /\ removals' \in SUBSET (Udid \X ConnId)
  <2>1. row[u].id \in ConnId
    BY <1>1, <1>4 DEF RemoveDevice, Listed, Connection
  <2> QED
    BY <1>1, <1>4, <2>1, UnlistRow DEF RemoveDevice
<1>5. CASE Navigate
  BY <1>1, <1>5 DEF Navigate, lists
<1> QED
  BY <1>1, <1>2, <1>3, <1>4, <1>5 DEF InterfaceStep

LEMMA InterfaceMovesCalm ==
  ASSUME SystemInv, InterfaceMoves
  PROVE  Calm /\ UNCHANGED <<events, listener>>
<1> USE DEF registryVars, usbVars, taskVars
<1>1. UNCHANGED <<registry, heartbeat, attached, stream, listener, losses, deviceMap, nextId, task, events>>
  BY DEF InterfaceMoves
<1>2. CoreTypeOK'
  BY <1>1, InterfaceCalls DEF InterfaceMoves, SystemInv, CoreInv, CoreTypeOK, SignalsTypeOK, RegistryTypeOK
<1> QED
  BY <1>1, <1>2, IdleCalm DEF SystemInv, ListenerMoves

LEMMA HandleSignalCalm ==
  ASSUME SystemInv, HandleSignal
  PROVE  Calm /\ DeliverEvent
<1>1. DeliverEvent
  BY DEF HandleSignal, HandleEvent, DeliverEvent, requestVars
<1> QED
  BY <1>1, InterfaceCalm DEF SystemInv, AnyInterface

LEMMA SystemInvStep == SystemInv /\ [SystemNext]_systemVars => SystemInv'
<1> SUFFICES ASSUME SystemInv, [SystemNext]_systemVars
             PROVE  SystemInv'
  OBVIOUS
<1>1. CASE CoreMoves \/ CustomCall \/ UNCHANGED systemVars
  <2>1. [CoreNext]_coreVars /\ UNCHANGED row
    BY <1>1 DEF CoreMoves, CustomCall, CoreNext, AnyInterface, systemVars, contextVars, lists
  <2> QED
    BY <2>1, CoreInvStep DEF SystemInv
<1>2. CASE InterfaceMoves
  BY <1>2, InterfaceMovesCalm, InterfaceCalls, CalmKeepsInv DEF InterfaceMoves, Calm, SystemInv
<1>3. CASE HandleSignal
  BY <1>3, HandleSignalCalm, HandleRow, CalmKeepsInv DEF Calm, SystemInv
<1> QED
  BY <1>1, <1>2, <1>3 DEF SystemNext

LEMMA SystemInvAlways == SystemSpec => []SystemInv
BY SystemInvInit, SystemInvStep, PTL DEF SystemSpec

(* With the real interface, which asks for attempts and removals as often  *)
(* as it likes, every heartbeat still has its owner and every wireless     *)
(* connection its heartbeat (core.rs, ui/DeviceContext.qml).               *)
THEOREM SystemHeartbeats ==
  SystemSpec => [](HeartbeatOwned /\ WirelessWatched /\ NoStrandedHeartbeat)
<1>1. SystemInv => HeartbeatOwned /\ WirelessWatched /\ NoStrandedHeartbeat
  BY HeartbeatFacts DEF SystemInv
<1> QED
  BY <1>1, SystemInvAlways, PTL

(* The instance's definitions are those of this module.                    *)
LEMMA SameHandleEvent ==
  ASSUME NEW e, HandleEvent(e)
  PROVE  Session!HandleEvent(e)
BY DEF HandleEvent, IgnoreConnected, SkipWireless, AcceptConnected, IgnoreDisconnected,
   AcceptDisconnected, HandlePending, HandleFail, HandleAttemptFailed, Fresh, UsbListed,
   FinishAttempt, IsCurrent, Unlist, NextCurrent, Fallback, Listed, ShowDevice, DevicePage,
   PendingPage, RecoveryPage, Welcome, NoDevice, NoUdid, lists, selection, contextVars,
   Session!HandleEvent, Session!IgnoreConnected, Session!SkipWireless, Session!AcceptConnected,
   Session!IgnoreDisconnected, Session!AcceptDisconnected, Session!HandlePending,
   Session!HandleFail, Session!HandleAttemptFailed, Session!Fresh, Session!UsbListed,
   Session!FinishAttempt, Session!IsCurrent, Session!Unlist, Session!NextCurrent,
   Session!Fallback, Session!Listed, Session!ShowDevice, Session!DevicePage,
   Session!PendingPage, Session!RecoveryPage, Session!Welcome, Session!NoDevice,
   Session!NoUdid, Session!lists, Session!selection, Session!contextVars

LEMMA SameInterfaceStep ==
  ASSUME InterfaceStep
  PROVE  Session!InterfaceStep
BY DEF InterfaceStep, RecoveryAdded, RecoveryRemoved, ConnectNetworkDevice, RunLater,
   RemoveDevice, Navigate, TryConnect, AlreadyConnected, UpgradeAttempt, StartAttempt,
   Unlist, NextCurrent, Fallback, Listed, ShowDevice, DevicePage, PendingPage, RecoveryPage,
   Welcome, Page, NoDevice, NoUdid, lists, selection,
   Session!InterfaceStep, Session!RecoveryAdded, Session!RecoveryRemoved,
   Session!ConnectNetworkDevice, Session!RunLater, Session!RemoveDevice, Session!Navigate,
   Session!TryConnect, Session!AlreadyConnected, Session!UpgradeAttempt, Session!StartAttempt,
   Session!Unlist, Session!NextCurrent, Session!Fallback, Session!Listed, Session!ShowDevice,
   Session!DevicePage, Session!PendingPage, Session!RecoveryPage, Session!Welcome,
   Session!Page, Session!NoDevice, Session!NoUdid, Session!lists, Session!selection

(* What DeviceFeed allows, DeviceSession allows.                           *)
LEMMA FeedStepIsSession ==
  ASSUME CoreInv, Feed!FeedStep, UNCHANGED <<requestVars, contextVars>>
  PROVE  Session!SessionNext
<1>0. UNCHANGED <<discovering, removals, Session!contextVars>> /\ Len(events) \in Nat
  BY DEF requestVars, contextVars, lists, selection, Session!contextVars, Session!lists,
     Session!selection, CoreInv, CoreTypeOK, SignalsTypeOK
<1>1. ASSUME NEW u \in Udid, NEW c \in ConnId, NEW w \in BOOLEAN, Feed!Register(u, c, w)
      PROVE  Session!Backend
  <2>1. Session!Register(u, c, w)
    BY <1>1 DEF Feed!Register, Feed!Insert, Feed!Rejects, Feed!NoDevice, Feed!Connected,
       Feed!Disconnected, Feed!Event, Session!Register, Session!Insert, Session!Rejects,
       Session!NoDevice, Session!Connected, Session!Disconnected, Session!Event
  <2> QED
    BY <1>0, <2>1 DEF Session!Backend, Session!ConnId, ConnId
<1>2. ASSUME NEW u \in Udid, NEW c \in ConnId, Feed!Drop(u, c)
      PROVE  Session!Backend
  <2>1. Session!Drop(u, c)
    BY <1>2 DEF Feed!Drop, Feed!RemoveIfCurrent, Feed!IsCurrent, Feed!NoDevice,
       Feed!Disconnected, Feed!Event, Session!Drop, Session!RemoveIfCurrent,
       Session!IsCurrent, Session!NoDevice, Session!Disconnected, Session!Event
  <2> QED
    BY <1>0, <2>1 DEF Session!Backend, Session!ConnId, ConnId
<1>3. ASSUME NEW e \in OwedEvents, Feed!Emit(e)
      PROVE  Session!EmitOwed(e)
  BY <1>0, <1>3 DEF Feed!Emit, Feed!Queue, Session!EmitOwed, Session!Emit, Session!Queue
<1>4. ASSUME NEW e \in Feed!NoticeEvent, Feed!Notify(e)
      PROVE  Session!Backend
  <2>1. Session!Notify(e) /\ e \in Session!NoticeEvent
    BY <1>4 DEF Feed!Notify, Feed!Queue, Feed!NoticeEvent, Session!Notify, Session!Queue,
       Session!NoticeEvent
  <2> QED
    BY <1>0, <2>1 DEF Session!Backend
<1> QED
  BY <1>1, <1>2, <1>3, <1>4 DEF Feed!FeedStep, Feed!ConnId, ConnId, Session!SessionNext

LEMMA FeedsIsSession ==
  ASSUME CoreInv, Feeds, UNCHANGED contextVars
  PROVE  Session!SessionNext \/ UNCHANGED Session!sessionVars
<1>1. CASE UNCHANGED Feed!feedVars
  BY <1>1 DEF Feeds, Feed!feedVars, Session!sessionVars, Session!feedVars, requestVars,
     contextVars, lists, selection, Session!contextVars, Session!lists, Session!selection
<1> QED
  BY <1>1, FeedStepIsSession DEF Feeds

LEMMA StartIsSession ==
  ASSUME SystemInv, NEW u \in Udid, StartWireless(u), UNCHANGED contextVars
  PROVE  Session!SessionNext
<1>1. /\ OwedEvents' = OwedEvents /\ InsertedConns' = InsertedConns /\ UNCHANGED registry
      /\ \/ UNCHANGED events
         \/ \E type \in {"initFailed", "noPairingFile"} : Queue(Notice(type, u))
      /\ Len(events) \in Nat
  BY StartFeeds DEF SystemInv, CoreInv, CoreTypeOK, SignalsTypeOK
<1>2. UNCHANGED Session!feedVars \/
      \E type \in {"initFailed", "noPairingFile"} : Session!Notify(Session!Notice(type, u))
  BY <1>1 DEF Session!feedVars, Session!Notify, Session!Queue, Session!Notice, Session!Event,
     Queue, Notice, Event
<1>3. Session!Discover(u)
  BY <1>1, <1>2 DEF StartWireless, Session!Discover, contextVars, lists, selection,
     Session!contextVars, Session!lists, Session!selection
<1> QED
  BY <1>3 DEF Session!SessionNext

LEMMA RemovalIsSession ==
  ASSUME SystemInv, NEW u \in Udid, NEW c \in ConnId, RunRemoval(u, c), UNCHANGED contextVars
  PROVE  Session!SessionNext
<1>1. \/ Feed!Forget(u, c)
      \/ ~IsCurrent(u, c) /\ UNCHANGED Feed!feedVars
  BY RemovalFeeds DEF SystemInv
<1>2. \/ Session!Forget(u, c)
      \/ ~Session!IsCurrent(u, c) /\ UNCHANGED Session!feedVars
  BY <1>1 DEF Feed!Forget, Feed!RemoveIfCurrent, Feed!IsCurrent, Feed!NoDevice, Feed!feedVars,
     Session!Forget, Session!RemoveIfCurrent, Session!IsCurrent, Session!NoDevice,
     Session!feedVars, IsCurrent, NoDevice
<1>3. Session!RunRemoval(u, c)
  BY <1>2 DEF RunRemoval, Session!RunRemoval, contextVars, lists, selection,
     Session!contextVars, Session!lists, Session!selection
<1> QED
  BY <1>3 DEF Session!SessionNext, Session!ConnId, ConnId

LEMMA CoreMovesSession ==
  ASSUME SystemInv, CoreMoves
  PROVE  Session!SessionNext \/ UNCHANGED Session!sessionVars
<1>1. CoreInv /\ UNCHANGED contextVars
  BY DEF SystemInv, CoreMoves
<1>2. CASE \/ ListenerStep \/ World
           \/ \E c \in ConnId : TaskStep(c) \/ HeartbeatStep(c)
  <2>1. Feeds
    BY <1>1, <1>2, ListenerFeeds, WorldFeeds, TaskFeeds, HeartbeatFeeds
  <2> QED
    BY <1>1, <2>1, FeedsIsSession
<1>3. CASE RemovalStep
  BY <1>1, <1>3, RemovalIsSession DEF RemovalStep
<1>4. CASE \E u \in Udid : StartWireless(u)
  BY <1>1, <1>4, StartIsSession
<1> QED
  BY <1>2, <1>3, <1>4 DEF CoreMoves, CoreStep

LEMMA InterfaceMovesSession ==
  ASSUME SystemInv, InterfaceMoves
  PROVE  Session!SessionNext
<1>1. UNCHANGED Session!feedVars
  <2>1. UNCHANGED Feed!feedVars
    BY InterfaceMovesCalm, CalmFeeds DEF SystemInv
  <2> QED
    BY <2>1 DEF Feed!feedVars, Session!feedVars
<1>2. \A u \in Udid : discovering'[u] \in Nat
  BY InterfaceCalls DEF InterfaceMoves
<1>3. Session!InterfaceStep
  BY SameInterfaceStep DEF InterfaceMoves
<1> QED
  BY <1>1, <1>2, <1>3 DEF Session!Interface, Session!SessionNext

LEMMA HandleSignalSession ==
  ASSUME SystemInv, HandleSignal
  PROVE  Session!SessionNext
<1>1. Calm /\ DeliverEvent /\ UNCHANGED listener
  BY HandleSignalCalm DEF DeliverEvent, usbVars
<1>2. Session!Deliver
  BY <1>1, CalmFeeds DEF SystemInv, DeliverEvent, Session!Deliver
<1>3. Session!HandleEvent(Head(events))
  BY SameHandleEvent DEF HandleSignal
<1> QED
  BY <1>2, <1>3 DEF Session!HandleSignal, Session!SessionNext

LEMMA CustomCallSession ==
  ASSUME SystemInv, CustomCall
  PROVE  UNCHANGED Session!sessionVars
<1>1. Calm /\ UNCHANGED <<events, listener, requestVars, contextVars>>
  BY StartCustomCalm DEF CustomCall, StartCustom, usbVars, SystemInv
<1>2. UNCHANGED Feed!feedVars
  BY <1>1, CalmFeeds DEF SystemInv
<1> QED
  BY <1>1, <1>2 DEF Feed!feedVars, Session!sessionVars, Session!feedVars, requestVars,
     contextVars, lists, selection, Session!contextVars, Session!lists, Session!selection

(* The program's core, its tasks and its interface together, does only     *)
(* what DeviceSession allows: what is proved of the device list there      *)
(* holds of core.rs and DeviceContext.qml.                                 *)
THEOREM SystemImplementsSession == SystemSpec => ImplementsSession
<1>1. SystemInit => Session!SessionInit
  <2> SUFFICES ASSUME SystemInit
               PROVE  Session!SessionInit
    OBVIOUS
  <2>1. Feed!FeedInit /\ SignalsInit
    BY CoreInitFeeds DEF SystemInit, CoreInit
  <2>2. Session!SignalsInit /\ Session!FeedInit
    BY <2>1 DEF Feed!FeedInit, Feed!RegistryInit, Feed!NoDevice, SignalsInit, Session!SignalsInit,
       Session!FeedInit, Session!RegistryInit, Session!NoDevice
  <2>3. Session!ContextInit
    BY DEF SystemInit, ContextInit, Session!ContextInit, NoDevice, Session!NoDevice, NoUdid,
       Session!NoUdid, Welcome, Session!Welcome
  <2> QED
    BY <2>2, <2>3 DEF Session!SessionInit
<1>2. SystemInv /\ [SystemNext]_systemVars => [Session!SessionNext]_Session!sessionVars
  <2>1. CASE SystemInv /\ SystemNext
    BY <2>1, CoreMovesSession, InterfaceMovesSession, HandleSignalSession, CustomCallSession
       DEF SystemNext
  <2>2. CASE UNCHANGED systemVars
    <3>1. UNCHANGED <<registry, events, task, heartbeat, listener, requestVars, contextVars>>
      BY <2>2 DEF systemVars, coreVars, registryVars, usbVars, taskVars
    <3>2. OwedEvents' = OwedEvents /\ InsertedConns' = InsertedConns
      BY <3>1 DEF OwedEvents, OwedByTask, OwedByListener, InsertedConns, IsWireless
    <3> QED
      BY <3>1, <3>2 DEF Session!sessionVars, Session!feedVars, requestVars, contextVars, lists,
         selection, Session!contextVars, Session!lists, Session!selection
  <2> QED
    BY <2>1, <2>2
<1> QED
  BY <1>1, <1>2, SystemInvAlways, PTL DEF SystemSpec, ImplementsSession, Session!SessionSpec
=============================================================================
