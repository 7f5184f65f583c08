--------------------------- MODULE DeviceCoreFeed ---------------------------
(***************************************************************************)
(* DeviceCore implements DeviceFeed: its tasks, threads and heartbeats     *)
(* make, towards the interface, only the steps DeviceFeed promises.  The   *)
(* events owed are those of the tasks between a change of the registry and *)
(* the queued event.                                                       *)
(***************************************************************************)
EXTENDS DeviceCore

OwedByTask(c) ==
  LET u == task[c].udid
  IN (IF task[c].stage \in {"replaced", "announce"}
      THEN {Connected(u, c, IsWireless(c))} ELSE {})
     \cup (IF task[c].stage = "replaced"
           THEN {Disconnected(u, task[c].old)} ELSE {})
     \cup (IF heartbeat[c] = "cleaning"
           THEN {Disconnected(u, c)} ELSE {})

OwedByListener ==
  IF listener.state = "cleaning"
  THEN {Disconnected(listener.udid, listener.id)} ELSE {}

OwedEvents == (UNION {OwedByTask(c) : c \in ConnId}) \cup OwedByListener

InsertedConns == {c \in ConnId : task[c].stage \in Committed}

Feed == INSTANCE DeviceFeed WITH owed <- OwedEvents, inserted <- InsertedConns

(* Whatever tasks, timeouts, aborts and heartbeats do, every connection is *)
(* registered once, announced at most once and ended at most once, its end *)
(* is announced only after it left the registry, and nothing else reaches  *)
(* the interface about it (core.rs as a whole).                            *)
ImplementsFeed == Feed!FeedSpec
=============================================================================
