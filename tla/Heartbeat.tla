------------------------------ MODULE Heartbeat ------------------------------
(***************************************************************************)
(* The heartbeat of wireless connections, spawn_heartbeat_task of          *)
(* src/core.rs, step by step: wait for the start signal, then answer every *)
(* marco of the device with a polo, and drop the connection after three    *)
(* failures.  Module DeviceCore keeps only whether a heartbeat runs.       *)
(* Around the loop stand the registry's operations that start and abort    *)
(* it, and devices that fall silent and come back.                         *)
(***************************************************************************)
EXTENDS DeviceRegistry

VARIABLES
  nextId,   \* NEXT_CONNECTION_ID
  beat,     \* the heartbeat task of each connection
  silent,   \* the devices that do not answer (environment)
  told      \* the connections whose loss the heartbeat announced

vars == <<registry, nextId, beat, silent, told>>

(* "waiting": on the start signal; "marco", "polo": in that exchange;      *)
(* "sleeping": after a failure; "givingUp": after the last one;            *)
(* "cleaning": inside clean_removed_device; "aborted": by its handle.      *)
Running == {"marco", "polo", "sleeping", "givingUp"}
Phase == Running \cup {"none", "waiting", "cleaning", "ended", "aborted"}

MaxFails == 3

(* missedPolos is no variable of the program: it counts the polos that     *)
(* failed, up to three, since the last one that was sent.                  *)
Beat == [udid : Udid, phase : Phase, fails : 0 .. MaxFails, missedPolos : 0 .. MaxFails]

HeartbeatTypeOK ==
  /\ RegistryTypeOK
  /\ nextId \in 1 .. MaxConn + 1
  /\ beat \in [ConnId -> Beat]
  /\ silent \subseteq Udid
  /\ told \subseteq ConnId

Init ==
  /\ RegistryInit
  /\ nextId = 1
  /\ \E u \in Udid :
       beat = [c \in ConnId |-> [udid |-> u, phase |-> "none", fails |-> 0, missedPolos |-> 0]]
  /\ silent = {}
  /\ told = {}

SetPhase(c, phase) == beat' = [beat EXCEPT ![c].phase = phase]

-----------------------------------------------------------------------------
(* What the connection tasks do to heartbeats.                             *)

(* init_idescriptor_device spawns it paused; the device has just answered. *)
Spawn(u) ==
  /\ nextId <= MaxConn
  /\ u \notin silent
  /\ beat' = [beat EXCEPT ![nextId].udid = u, ![nextId].phase = "waiting"]
  /\ nextId' = nextId + 1
  /\ UNCHANGED <<registry, silent, told>>

(* abort() has no effect on a task that is past its last await, or over.   *)
Aborted(b) == IF b.phase \in Running \cup {"waiting"} THEN [b EXCEPT !.phase = "aborted"] ELSE b

(* Mutant of AbortRegistered: the heartbeat of the old entry goes on.      *)
AbortNobody(u, b) == b

AbortRegistered(u, b) ==
  IF registry[u].wireless THEN [b EXCEPT ![registry[u].id] = Aborted(@)] ELSE b

(* insert_device accepted it: emit_initialized_device sends the signal.    *)
Accepted(c) ==
  /\ beat[c].phase = "waiting"
  /\ Insert(beat[c].udid, c, TRUE)
  /\ beat' = AbortRegistered(beat[c].udid, [beat EXCEPT ![c].phase = "marco"])
  /\ UNCHANGED <<nextId, silent, told>>

(* Rejected, timed out or aborted: the signal's sender is dropped.         *)
StartDropped(c) ==
  /\ beat[c].phase = "waiting"
  /\ SetPhase(c, "ended")
  /\ UNCHANGED <<registry, nextId, silent, told>>

UsbTakesOver(u) ==
  /\ nextId <= MaxConn
  /\ Insert(u, nextId, FALSE)
  /\ beat' = AbortRegistered(u, beat)
  /\ nextId' = nextId + 1
  /\ UNCHANGED <<silent, told>>

(* remove_device, or a pulled cable.                                       *)
Removed(u) ==
  /\ registry[u] # NoDevice
  /\ RemoveIfCurrent(u, registry[u].id)
  /\ beat' = AbortRegistered(u, beat)
  /\ UNCHANGED <<nextId, silent, told>>

-----------------------------------------------------------------------------
(* The loop.                                                               *)

(* The device's marco came within the interval.                            *)
MarcoAnswered(c) ==
  /\ beat[c].phase = "marco"
  /\ beat[c].udid \notin silent
  /\ beat' = [beat EXCEPT ![c].phase = "polo", ![c].fails = 0]
  /\ UNCHANGED <<registry, nextId, silent, told>>

(* Mutant of Failed: one failure too many.                                 *)
FailedLate(b) ==
  [b EXCEPT !.fails = @ + 1,
            !.phase = IF b.fails + 1 > MaxFails THEN "givingUp" ELSE "sleeping"]

Failed(b) ==
  [b EXCEPT !.fails = @ + 1,
            !.phase = IF b.fails + 1 >= MaxFails THEN "givingUp" ELSE "sleeping"]

(* Too late, an error, or the device says that it goes to sleep.           *)
MarcoFails(c) ==
  /\ beat[c].phase = "marco"
  /\ beat' = [beat EXCEPT ![c] = Failed(@)]
  /\ UNCHANGED <<registry, nextId, silent, told>>

(* A write can succeed although nobody reads it any more.                  *)
PoloSent(c) ==
  /\ beat[c].phase = "polo"
  /\ beat' = [beat EXCEPT ![c].phase = "marco", ![c].missedPolos = 0]
  /\ UNCHANGED <<registry, nextId, silent, told>>

PoloFails(c) ==
  /\ beat[c].phase = "polo"
  /\ LET missed == beat[c].missedPolos
     IN beat' = [beat EXCEPT ![c] =
           [Failed(@) EXCEPT !.missedPolos = IF missed < MaxFails THEN missed + 1 ELSE missed]]
  /\ UNCHANGED <<registry, nextId, silent, told>>

(* Mutant of Slept: the loop starts over and forgets its failures.         *)
SleptAndForgot(c) ==
  /\ beat[c].phase = "sleeping"
  /\ beat' = [beat EXCEPT ![c].phase = "marco", ![c].fails = 0]
  /\ UNCHANGED <<registry, nextId, silent, told>>

Slept(c) ==
  /\ beat[c].phase = "sleeping"
  /\ SetPhase(c, "marco")
  /\ UNCHANGED <<registry, nextId, silent, told>>

GiveUp(c) ==
  /\ beat[c].phase = "givingUp"
  /\ \/ RemoveIfCurrent(beat[c].udid, c) /\ SetPhase(c, "cleaning")
     \/ /\ ~IsCurrent(beat[c].udid, c)
        /\ SetPhase(c, "ended")
        /\ UNCHANGED registry
  /\ UNCHANGED <<nextId, silent, told>>

Cleaned(c) ==
  /\ beat[c].phase = "cleaning"
  /\ told' = told \cup {c}
  /\ SetPhase(c, "ended")
  /\ UNCHANGED <<registry, nextId, silent>>

-----------------------------------------------------------------------------
(* A device leaves the network, or sleeps, and may come back.              *)
FallSilent(u) == silent' = silent \cup {u} /\ u \notin silent
                 /\ UNCHANGED <<registry, nextId, beat, told>>
WakeUp(u) == silent' = silent \ {u} /\ u \in silent
             /\ UNCHANGED <<registry, nextId, beat, told>>

BeatStep(c) ==
  \/ MarcoAnswered(c) \/ MarcoFails(c) \/ PoloSent(c) \/ PoloFails(c)
  \/ Slept(c) \/ GiveUp(c) \/ Cleaned(c)

Next ==
  \/ \E c \in ConnId : BeatStep(c) \/ Accepted(c) \/ StartDropped(c)
  \/ \E u \in Udid : \/ Spawn(u) \/ UsbTakesOver(u) \/ Removed(u)
                     \/ FallSilent(u) \/ WakeUp(u)

(* The runtime polls a task that can go on, and get_marco ends after its   *)
(* interval at the latest; devices owe nothing.                            *)
Fairness == \A c \in ConnId : WF_vars(BeatStep(c))

Spec == Init /\ [][Next]_vars /\ Fairness

-----------------------------------------------------------------------------
(* Properties.                                                             *)

(* The entry of a wireless connection has a loop behind it that still can  *)
(* drop it: whatever order spawning, replacing, removing and giving up     *)
(* take, no entry is left whose heartbeat is over, and no other loop runs  *)
(* (insert_device, clean_removed_device, spawn_heartbeat_task).            *)
EntryWatched ==
  \A c \in ConnId :
    beat[c].phase \in Running <=> IsCurrent(beat[c].udid, c) /\ registry[beat[c].udid].wireless

(* A device that leaves the network does not stay in the registry: its     *)
(* heartbeat counts to three, drops it and says so, unless it comes back   *)
(* or the connection is replaced or removed first                          *)
(* (spawn_heartbeat_task, src/core.rs:1528).                               *)
SilentDeviceDropped ==
  \A u \in Udid, c \in ConnId :
    (u \in silent /\ IsCurrent(u, c) /\ registry[u].wireless)
      ~> (u \notin silent \/ c \in told \/ beat[c].phase = "aborted")

(* The loop's own words for a polo that cannot be sent, "too many          *)
(* failures, giving up" (src/core.rs:1567): after the third in a row the   *)
(* heartbeat gives up.                                                     *)
PoloFailuresEnd ==
  \A c \in ConnId : beat[c].missedPolos = MaxFails => beat[c].phase \notin {"marco", "polo"}
=============================================================================
