----------------------------- MODULE DeviceFeed -----------------------------
(***************************************************************************)
(* What the Rust side promises the user interface about connections, with  *)
(* the tasks that implement it left out: connections enter and leave the   *)
(* registry, and each change owes the interface an event.  The events owed *)
(* are queued on the Qt thread later and in any order, because the tasks   *)
(* that owe them run on different threads.                                 *)
(***************************************************************************)
EXTENDS DeviceSignals

VARIABLES
  owed,       \* connection events a task will still queue
  inserted    \* every connection number that was ever registered

feedVars == <<registry, events, owed, inserted>>

FeedTypeOK ==
  /\ RegistryTypeOK
  /\ events \in Seq(ConnectionEvent \cup NoticeEvent)
  /\ owed \in SUBSET ConnectionEvent
  /\ inserted \in SUBSET ConnId

FeedInit ==
  /\ RegistryInit
  /\ events = <<>>
  /\ owed = {}
  /\ inserted = {}

(* A connection is registered; it owes its own event and, when it takes    *)
(* the place of another, the end of that one.                              *)
Register(u, c, wireless) ==
  /\ c \notin inserted
  /\ Insert(u, c, wireless)
  /\ inserted' = inserted \cup {c}
  /\ owed' = owed \cup {Connected(u, c, wireless)}
                  \cup (IF registry[u] = NoDevice THEN {}
                        ELSE {Disconnected(u, registry[u].id)})
  /\ UNCHANGED events

(* The backend gives a connection up: unplugged, or its heartbeat died.    *)
Drop(u, c) ==
  /\ RemoveIfCurrent(u, c)
  /\ owed' = owed \cup {Disconnected(u, c)}
  /\ UNCHANGED <<events, inserted>>

(* The user had the device removed: the interface already knows.           *)
Forget(u, c) ==
  /\ RemoveIfCurrent(u, c)
  /\ UNCHANGED <<events, owed, inserted>>

(* Mutant of Emit: a task forgets that it queued its signal.               *)
EmitAgain(e) ==
  /\ e \in owed
  /\ Queue(e)
  /\ UNCHANGED <<registry, owed, inserted>>

Emit(e) ==
  /\ e \in owed
  /\ owed' = owed \ {e}
  /\ Queue(e)
  /\ UNCHANGED <<registry, inserted>>

Notify(e) ==
  /\ Queue(e)
  /\ UNCHANGED <<registry, owed, inserted>>

Deliver ==
  /\ events # <<>>
  /\ events' = Tail(events)
  /\ UNCHANGED <<registry, owed, inserted>>

FeedStep ==
  \/ \E u \in Udid, c \in ConnId, w \in BOOLEAN : Register(u, c, w)
  \/ \E u \in Udid, c \in ConnId : Drop(u, c)
  \/ \E e \in owed : Emit(e)
  \/ \E e \in NoticeEvent : Notify(e)

FeedNext ==
  \/ FeedStep
  \/ \E u \in Udid, c \in ConnId : Forget(u, c)
  \/ Deliver

FeedSpec == FeedInit /\ [][FeedNext]_feedVars
=============================================================================
