---------------------------- MODULE DeviceSession ----------------------------
(***************************************************************************)
(* The interface's device list over what Core promises it: DeviceFeed for  *)
(* everything the Rust side does, DeviceContext for the Qt thread.         *)
(* DeviceCoreFeed shows that the tasks of DeviceCore keep these promises.  *)
(***************************************************************************)
EXTENDS DeviceFeed, DeviceContext

CONSTANTS
  NoticeLengths,   \* bound: lengths of the queue at which a notice is queued
  Discoveries      \* bound: how many attempts of a device may collect records

ASSUME SessionAssumption == NoticeLengths \subseteq Nat /\ Discoveries \subseteq Nat

sessionVars == <<feedVars, discovering, removals, contextVars>>

SessionInit ==
  /\ SignalsInit
  /\ FeedInit
  /\ ContextInit

(* Core's steps that need nothing from the interface.                      *)
Backend ==
  /\ \/ \E u \in Udid, c \in ConnId : Drop(u, c)
     \/ \E u \in Udid, c \in ConnId, w \in BOOLEAN : Register(u, c, w)
     \/ \E e \in NoticeEvent : Len(events) \in NoticeLengths /\ Notify(e)
  /\ UNCHANGED <<discovering, removals, contextVars>>

EmitOwed(e) ==
  /\ Emit(e)
  /\ UNCHANGED <<discovering, removals, contextVars>>

(* A wireless attempt fails at once, or begins; what that leads to is a    *)
(* Register or a Notify.                                                   *)
Discover(u) ==
  /\ discovering[u] > 0
  /\ discovering' = [discovering EXCEPT ![u] = @ - 1]
  /\ \/ UNCHANGED feedVars
     \/ /\ Len(events) \in NoticeLengths
        /\ \E type \in {"initFailed", "noPairingFile"} : Notify(Notice(type, u))
  /\ UNCHANGED <<removals, contextVars>>

(* remove_device runs; the connection may have gone by itself.             *)
RunRemoval(u, c) ==
  /\ <<u, c>> \in removals
  /\ removals' = removals \ {<<u, c>>}
  /\ \/ Forget(u, c)
     \/ ~IsCurrent(u, c) /\ UNCHANGED feedVars
  /\ UNCHANGED <<discovering, contextVars>>

(* The Qt thread handles the oldest signal.                                *)
HandleSignal ==
  /\ Deliver
  /\ HandleEvent(Head(events))

Interface ==
  /\ InterfaceStep
  /\ \A u \in Udid : discovering'[u] \in Discoveries
  /\ UNCHANGED feedVars

SessionNext ==
  \/ Backend
  \/ \E e \in owed : EmitOwed(e)
  \/ \E u \in Udid : Discover(u)
  \/ \E u \in Udid, c \in ConnId : RunRemoval(u, c)
  \/ HandleSignal
  \/ Interface

SessionSpec == SessionInit /\ [][SessionNext]_sessionVars

(* A task that owes a signal queues it, a spawned removal runs, and the Qt *)
(* thread works off its queue.                                             *)
SessionFairSpec ==
  /\ SessionSpec
  /\ \A u \in Udid, c \in ConnId : WF_sessionVars(RunRemoval(u, c))
  /\ \A e \in ConnectionEvent : WF_sessionVars(EmitOwed(e))
  /\ WF_sessionVars(HandleSignal)

-----------------------------------------------------------------------------
(* Properties.                                                             *)

InQueue(e) == \E i \in 1 .. Len(events) : events[i] = e
Coming(e) == e \in owed \/ InQueue(e)

(* A listed connection that the registry no longer holds is about to       *)
(* leave the list: its end is queued or owed.  Without that the user works *)
(* on a device that is not there, and nothing ever corrects the list       *)
(* (core.rs queues every end; DeviceContext.qml drops stale ones by        *)
(* connection number, and must never drop the one that counts).            *)
NoGhostRow ==
  \A u \in Udid :
    row[u] # NoDevice /\ ~IsCurrent(u, row[u].id) => Coming(Disconnected(u, row[u].id))

(* Once the interface asked for a connection's removal it never lists that *)
(* connection again: no connected signal of it is still on its way.        *)
RemovedStaysRemoved ==
  \A u \in Udid, c \in ConnId :
    <<u, c>> \in removals => row[u].id # c /\ \A w \in BOOLEAN : ~Coming(Connected(u, c, w))

(* A row whose connection the registry still holds leaves the list only    *)
(* when the user removes the device: no late or stale signal takes a live  *)
(* device away (the order of insert_device, clean_device_from_app_state    *)
(* and the signals in core.rs).                                            *)
ListedWhileRegistered ==
  [][\A u \in Udid :
       row[u] # NoDevice /\ IsCurrent(u, row[u].id) /\ row'[u] # row[u] =>
         <<u, row[u].id>> \in removals' \ removals]_sessionVars

(* A connection that is lost leaves the list.                              *)
GhostsVanish ==
  \A u \in Udid, c \in ConnId :
    (row[u].id = c /\ ~IsCurrent(u, c)) ~> row[u].id # c

(* A USB connection that stays registered is listed in the end: the signal *)
(* that announces it is never taken for a stale or a superfluous one.      *)
UsbIsListed ==
  \A u \in Udid, c \in ConnId :
    registry[u] = [id |-> c, wireless |-> FALSE] ~> row[u].id = c \/ ~IsCurrent(u, c)
=============================================================================
