--------------------------- MODULE HeartbeatProofs ---------------------------
(***************************************************************************)
(* The types of Heartbeat, and the promise of EntryWatched, for any number *)
(* of devices and connections.                                             *)
(***************************************************************************)
EXTENDS MCHeartbeatAndTransfers, FileTransfersProofs, TLAPS

(* A number that was not handed out yet is nowhere in use.                 *)
FreshNumbers ==
  /\ \A c \in ConnId : c >= nextId => beat[c].phase = "none"
  /\ \A u \in Udid : registry[u] # NoDevice => registry[u].id < nextId

(* A wireless entry has its own device's heartbeat, a USB one has none.    *)
OwnHeartbeat ==
  \A u \in Udid : registry[u] # NoDevice =>
    IF registry[u].wireless THEN beat[registry[u].id].udid = u
    ELSE beat[registry[u].id].phase = "none"

(* The loop counts on only below the limit.                                *)
BelowLimit ==
  \A c \in ConnId :
    beat[c].phase \in {"none", "waiting", "marco", "polo", "sleeping"} => beat[c].fails < MaxFails

HeartbeatInv ==
  /\ HeartbeatTypeOK
  /\ FreshNumbers
  /\ OwnHeartbeat
  /\ BelowLimit
  /\ EntryWatched

-----------------------------------------------------------------------------
(* The parts of the state.                                                 *)

LEMMA RegistryFacts ==
  ASSUME HeartbeatTypeOK
  PROVE  /\ NoDevice.id \notin ConnId
         /\ \A u \in Udid : registry[u] # NoDevice =>
              /\ registry[u].id \in ConnId
              /\ registry[u].wireless \in BOOLEAN
         /\ \A u \in Udid : registry[u].wireless => registry[u] # NoDevice
         /\ \A c \in ConnId : beat[c] \in Beat /\ c \in Nat
         /\ nextId \in Nat
         /\ nextId <= MaxConn => nextId \in ConnId
<1>1. \A u \in Udid : registry[u] \in Connection \cup {NoDevice}
  BY DEF HeartbeatTypeOK, RegistryTypeOK
<1>2. nextId \in Nat /\ (nextId <= MaxConn => nextId \in ConnId)
  BY MaxConnAssumption DEF HeartbeatTypeOK, ConnId
<1>3. \A c \in ConnId : beat[c] \in Beat /\ c \in Nat
  BY MaxConnAssumption DEF HeartbeatTypeOK, ConnId
<1>4. NoDevice.id \notin ConnId /\ NoDevice.wireless = FALSE
  BY MaxConnAssumption DEF NoDevice, ConnId
<1>5. \A r \in Connection : r.id \in ConnId /\ r.wireless \in BOOLEAN
  BY DEF Connection
<1>6. \A u \in Udid : registry[u] # NoDevice =>
        registry[u].id \in ConnId /\ registry[u].wireless \in BOOLEAN
  BY <1>1, <1>5
<1>7. \A u \in Udid : registry[u].wireless => registry[u] # NoDevice
  BY <1>4
<1> QED
  BY <1>2, <1>3, <1>4, <1>6, <1>7

LEMMA InsertFacts ==
  ASSUME HeartbeatTypeOK, NEW u \in Udid, NEW c \in ConnId, NEW w \in BOOLEAN, Insert(u, c, w)
  PROVE  /\ RegistryTypeOK'
         /\ registry'[u] # NoDevice /\ registry'[u].id = c /\ registry'[u].wireless = w
         /\ \A v \in Udid : v # u => registry'[v] = registry[v]
<1>1. [id |-> c, wireless |-> w] \in Connection
  BY DEF Connection
<1>2. /\ RegistryTypeOK'
      /\ registry'[u] = [id |-> c, wireless |-> w]
      /\ \A v \in Udid : v # u => registry'[v] = registry[v]
  BY <1>1 DEF Insert, HeartbeatTypeOK, RegistryTypeOK
<1> QED
  BY <1>2, MaxConnAssumption DEF NoDevice, ConnId

LEMMA RemoveFacts ==
  ASSUME HeartbeatTypeOK, NEW u \in Udid, NEW c, RemoveIfCurrent(u, c)
  PROVE  /\ RegistryTypeOK'
         /\ registry'[u] = NoDevice /\ ~registry'[u].wireless
         /\ \A v \in Udid : v # u => registry'[v] = registry[v]
BY DEF RemoveIfCurrent, HeartbeatTypeOK, RegistryTypeOK, NoDevice

(* Only the heartbeat behind a wireless entry is aborted.                  *)
LEMMA AbortFacts ==
  ASSUME HeartbeatTypeOK, NEW u \in Udid, NEW b \in [ConnId -> Beat]
  PROVE  /\ AbortRegistered(u, b) \in [ConnId -> Beat]
         /\ \A c \in ConnId :
              LET a == AbortRegistered(u, b)[c]
              IN /\ a.udid = b[c].udid /\ a.fails = b[c].fails
                 /\ a.phase \in {b[c].phase, "aborted"}
                 /\ a.phase # b[c].phase =>
                      registry[u].wireless /\ c = registry[u].id /\ b[c].phase # "none"
                 /\ registry[u].wireless /\ c = registry[u].id => a.phase \notin Running
<1>1. \A p \in Beat : /\ Aborted(p) \in Beat
                      /\ Aborted(p).udid = p.udid /\ Aborted(p).fails = p.fails
                      /\ Aborted(p).phase \in {p.phase, "aborted"}
                      /\ Aborted(p).phase # p.phase => p.phase # "none"
                      /\ Aborted(p).phase \notin Running
  BY DEF Aborted, Beat, Phase, Running
<1>2. CASE registry[u].wireless
  <2>1. registry[u].id \in ConnId
    BY <1>2, RegistryFacts
  <2>2. AbortRegistered(u, b) = [b EXCEPT ![registry[u].id] = Aborted(b[registry[u].id])]
    BY <1>2 DEF AbortRegistered
  <2> QED
    BY <1>1, <1>2, <2>1, <2>2
<1>3. CASE ~registry[u].wireless
  <2>1. AbortRegistered(u, b) = b
    BY <1>3 DEF AbortRegistered
  <2> QED
    BY <1>3, <2>1
<1> QED
  BY <1>2, <1>3

-----------------------------------------------------------------------------
(* What the connection tasks do to heartbeats.                             *)

LEMMA SpawnKeepsInv ==
  ASSUME HeartbeatInv, NEW u \in Udid, Spawn(u)
  PROVE  HeartbeatInv'
<1>1. /\ nextId \in ConnId /\ nextId \in Nat /\ nextId' = nextId + 1
      /\ registry' = registry /\ silent' = silent /\ told' = told
      /\ beat[nextId].phase = "none" /\ beat[nextId] \in Beat
  BY RegistryFacts DEF Spawn, HeartbeatInv, FreshNumbers
<1>2. /\ beat' \in [ConnId -> Beat]
      /\ beat'[nextId].udid = u /\ beat'[nextId].phase = "waiting"
      /\ beat'[nextId].fails = beat[nextId].fails
      /\ \A c \in ConnId : c # nextId => beat'[c] = beat[c]
  <2>1. beat' = [beat EXCEPT ![nextId] =
                  [[beat[nextId] EXCEPT !.udid = u] EXCEPT !.phase = "waiting"]]
    BY <1>1 DEF Spawn, HeartbeatInv, HeartbeatTypeOK
  <2>2. /\ [[beat[nextId] EXCEPT !.udid = u] EXCEPT !.phase = "waiting"] \in Beat
        /\ [[beat[nextId] EXCEPT !.udid = u] EXCEPT !.phase = "waiting"].udid = u
        /\ [[beat[nextId] EXCEPT !.udid = u] EXCEPT !.phase = "waiting"].phase = "waiting"
        /\ [[beat[nextId] EXCEPT !.udid = u] EXCEPT !.phase = "waiting"].fails = beat[nextId].fails
    BY <1>1 DEF Beat, Phase
  <2> QED
    BY <1>1, <2>1, <2>2 DEF HeartbeatInv, HeartbeatTypeOK
<1>3. HeartbeatTypeOK'
  <2>1. nextId' \in 1 .. MaxConn + 1
    BY <1>1, MaxConnAssumption DEF ConnId
  <2> QED
    BY <1>1, <1>2, <2>1 DEF HeartbeatInv, HeartbeatTypeOK, RegistryTypeOK
<1>4. \A v \in Udid : registry[v] # NoDevice =>
        registry[v].id \in ConnId /\ registry[v].id # nextId /\ registry[v].id < nextId
  BY <1>1, RegistryFacts DEF HeartbeatInv, FreshNumbers, ConnId
<1>5. FreshNumbers'
  BY <1>1, <1>2, <1>4 DEF HeartbeatInv, FreshNumbers, ConnId
<1>6. OwnHeartbeat'
  BY <1>1, <1>2, <1>4 DEF HeartbeatInv, OwnHeartbeat
<1>7. BelowLimit'
  BY <1>1, <1>2 DEF HeartbeatInv, BelowLimit
<1>8. EntryWatched'
  <2>1. ~IsCurrent(u, nextId)
    BY <1>4 DEF IsCurrent
  <2> QED
    BY <1>1, <1>2, <2>1 DEF HeartbeatInv, EntryWatched, IsCurrent, Running
<1> QED
  BY <1>3, <1>5, <1>6, <1>7, <1>8 DEF HeartbeatInv

(* Both ways to register a connection: a heartbeat that waited starts, or  *)
(* a USB connection comes, which has none.  In between, b is the function  *)
(* of heartbeats before the old entry's is aborted.                        *)
Registers(u, c, w, b) ==
  /\ Insert(u, c, w) /\ beat' = AbortRegistered(u, b)
  /\ \A d \in ConnId : d # c => b[d] = beat[d]
  /\ b[c].udid = beat[c].udid /\ b[c].fails = beat[c].fails
  /\ w => beat[c].udid = u /\ beat[c].phase = "waiting" /\ b[c].phase = "marco"
  /\ ~w => beat[c].phase = "none" /\ b[c].phase = "none"
  /\ nextId' \in {nextId, nextId + 1} /\ nextId' \in 1 .. MaxConn + 1 /\ c < nextId'
  /\ silent' = silent /\ told' = told
  /\ \A v \in Udid : registry[v] # NoDevice => registry[v].id # c

(* However a connection is registered, the inductive invariant survives.   *)
LEMMA RegisterKeepsInv ==
  ASSUME HeartbeatInv, NEW u \in Udid, NEW c \in ConnId, NEW w \in BOOLEAN,
         NEW b \in [ConnId -> Beat], Registers(u, c, w, b)
  PROVE  HeartbeatInv'
<1> USE DEF Registers
<1>1. /\ RegistryTypeOK'
      /\ registry'[u] # NoDevice /\ registry'[u].id = c /\ registry'[u].wireless = w
      /\ \A v \in Udid : v # u => registry'[v] = registry[v]
  BY InsertFacts DEF HeartbeatInv
<1>2. /\ beat' \in [ConnId -> Beat]
      /\ \A d \in ConnId :
           /\ beat'[d].udid = beat[d].udid /\ beat'[d].fails = beat[d].fails
           /\ beat'[d].phase \in {b[d].phase, "aborted"}
           /\ beat'[d].phase # b[d].phase =>
                registry[u].wireless /\ d = registry[u].id /\ b[d].phase # "none"
           /\ registry[u].wireless /\ d = registry[u].id => beat'[d].phase \notin Running
  BY AbortFacts DEF HeartbeatInv
<1>3. beat'[c].phase = b[c].phase
  BY <1>2, RegistryFacts DEF HeartbeatInv
<1>4. HeartbeatTypeOK'
  BY <1>1, <1>2 DEF HeartbeatInv, HeartbeatTypeOK
<1>5. nextId \in Nat /\ nextId' \in Nat /\ nextId' >= nextId
  BY RegistryFacts DEF HeartbeatInv
<1>6. FreshNumbers'
  <2>1. ASSUME NEW d \in ConnId, d >= nextId'
        PROVE  beat'[d].phase = "none"
    <3>1. d # c /\ beat[d].phase = "none"
      BY <1>5, <2>1, MaxConnAssumption DEF HeartbeatInv, FreshNumbers, ConnId
    <3> QED
      BY <1>2, <3>1
  <2>2. ASSUME NEW v \in Udid, registry'[v] # NoDevice
        PROVE  registry'[v].id < nextId'
    <3>1. CASE v = u
      BY <1>1, <3>1
    <3>2. CASE v # u
      <4>1. registry[v].id \in ConnId /\ registry[v].id < nextId
        BY <1>1, <2>2, <3>2, RegistryFacts DEF HeartbeatInv, FreshNumbers
      <4> QED
        BY <1>1, <1>5, <3>2, <4>1, MaxConnAssumption DEF ConnId
    <3> QED
      BY <3>1, <3>2
  <2> QED
    BY <2>1, <2>2 DEF FreshNumbers
<1>7. OwnHeartbeat'
  <2> SUFFICES ASSUME NEW v \in Udid, registry'[v] # NoDevice
               PROVE  IF registry'[v].wireless THEN beat'[registry'[v].id].udid = v
                      ELSE beat'[registry'[v].id].phase = "none"
    BY DEF OwnHeartbeat
  <2>1. CASE v = u
    BY <1>1, <1>2, <1>3, <2>1
  <2>2. CASE v # u
    <3>1. registry'[v] = registry[v] /\ registry[v].id \in ConnId /\ registry[v].id # c
      BY <1>1, <2>2, RegistryFacts DEF HeartbeatInv
    <3> QED
      BY <1>2, <3>1 DEF HeartbeatInv, OwnHeartbeat
  <2> QED
    BY <2>1, <2>2
<1>8. BelowLimit'
  BY <1>2 DEF HeartbeatInv, BelowLimit
<1>9. EntryWatched'
  <2> SUFFICES ASSUME NEW d \in ConnId
               PROVE  beat'[d].phase \in Running <=>
                        /\ registry'[beat'[d].udid] # NoDevice
                        /\ registry'[beat'[d].udid].id = d
                        /\ registry'[beat'[d].udid].wireless
    BY DEF EntryWatched, IsCurrent
  <2>1. beat'[d].udid = beat[d].udid /\ beat[d].udid \in Udid
    BY <1>2, RegistryFacts DEF Beat, HeartbeatInv
  <2>2. CASE d = c /\ w
    <3>1. beat[c].udid = u /\ b[c].phase = "marco"
      BY <2>2
    <3>2. beat'[d].phase \in Running
      BY <1>3, <2>2, <3>1 DEF Running
    <3>3. beat'[d].udid = u
      BY <2>1, <2>2, <3>1
    <3>4. /\ registry'[beat'[d].udid] # NoDevice
          /\ registry'[beat'[d].udid].id = d
          /\ registry'[beat'[d].udid].wireless
      BY <1>1, <2>2, <3>3
    <3> HIDE <2>2 DEF Registers
    <3> QED
      BY <3>2, <3>4, Zenon
  <2>3. CASE d = c /\ ~w
    <3>1. beat'[d].phase \notin Running
      BY <1>3, <2>3 DEF Running
    <3>2. registry'[beat[d].udid].id = d => beat[d].udid = u
      BY <1>1, <2>1, <2>3, RegistryFacts DEF HeartbeatInv
    <3>3. ~registry'[u].wireless
      BY <1>1, <2>3
    <3>4. ~( /\ registry'[beat'[d].udid] # NoDevice
             /\ registry'[beat'[d].udid].id = d
             /\ registry'[beat'[d].udid].wireless)
      BY <2>1, <3>2, <3>3
    <3> HIDE <2>3 DEF Registers
    <3> QED
      BY <3>1, <3>4, Zenon
  <2>4. CASE d # c /\ beat[d].udid = u
    <3>1. registry'[u].id # d
      BY <1>1, <2>4
    <3>2. beat[d].phase \in Running => registry[u].wireless /\ registry[u].id = d
      BY <2>4 DEF HeartbeatInv, EntryWatched, IsCurrent
    <3>3. beat'[d].phase \in Running => beat[d].phase \in Running
      BY <1>2, <2>4 DEF Running
    <3> QED
      BY <1>2, <2>1, <2>4, <3>1, <3>2, <3>3
  <2>5. CASE d # c /\ beat[d].udid # u
    <3>1. ~(registry[u].wireless /\ registry[u].id = d)
      BY <2>5, RegistryFacts DEF HeartbeatInv, OwnHeartbeat
    <3>2. beat'[d].phase = beat[d].phase
      BY <1>2, <2>5, <3>1
    <3>3. registry'[beat[d].udid] = registry[beat[d].udid]
      BY <1>1, <2>1, <2>5
    <3> QED
      BY <2>1, <3>2, <3>3 DEF HeartbeatInv, EntryWatched, IsCurrent
  <2> QED
    BY <2>2, <2>3, <2>4, <2>5
<1> QED
  BY <1>4, <1>6, <1>7, <1>8, <1>9 DEF HeartbeatInv

(* An entry leaves the registry: its heartbeat is aborted, or is the one   *)
(* that gave it up.                                                        *)
LEMMA UnregisterKeepsInv ==
  ASSUME HeartbeatInv, NEW u \in Udid, registry[u] # NoDevice,
         RemoveIfCurrent(u, registry[u].id),
         beat' \in [ConnId -> Beat],
         \A d \in ConnId :
           /\ beat'[d].udid = beat[d].udid /\ beat'[d].fails = beat[d].fails
           /\ beat'[d].phase \in {beat[d].phase, "aborted", "cleaning"}
           /\ beat'[d].phase # beat[d].phase =>
                registry[u].wireless /\ d = registry[u].id /\ beat[d].phase # "none"
           /\ registry[u].wireless /\ d = registry[u].id => beat'[d].phase \notin Running,
         nextId' = nextId, silent' = silent, told' = told
  PROVE  HeartbeatInv'
<1>1. /\ RegistryTypeOK'
      /\ registry'[u] = NoDevice /\ ~registry'[u].wireless
      /\ \A v \in Udid : v # u => registry'[v] = registry[v]
  BY RemoveFacts DEF HeartbeatInv
<1>2. HeartbeatTypeOK'
  BY <1>1 DEF HeartbeatInv, HeartbeatTypeOK
<1>3. ASSUME NEW v \in Udid, registry'[v] # NoDevice
      PROVE  v # u /\ registry'[v] = registry[v] /\ registry[v].id \in ConnId
  BY <1>1, <1>3, RegistryFacts DEF HeartbeatInv
<1>4. \A d \in ConnId : beat[d].phase = "none" => beat'[d].phase = "none"
  OBVIOUS
<1>5. FreshNumbers'
  BY <1>3, <1>4 DEF HeartbeatInv, FreshNumbers
<1>6. OwnHeartbeat'
  BY <1>3, <1>4 DEF HeartbeatInv, OwnHeartbeat
<1>7. BelowLimit'
  BY DEF HeartbeatInv, BelowLimit
<1>8. EntryWatched'
  <2> SUFFICES ASSUME NEW d \in ConnId
               PROVE  beat'[d].phase \in Running <=>
                        /\ registry'[beat[d].udid] # NoDevice
                        /\ registry'[beat[d].udid].id = d
                        /\ registry'[beat[d].udid].wireless
    BY DEF EntryWatched, IsCurrent
  <2>1. beat[d].udid \in Udid
    BY RegistryFacts DEF Beat, HeartbeatInv
  <2>2. CASE beat[d].udid = u
    <3>1. beat[d].phase \in Running => registry[u].wireless /\ registry[u].id = d
      BY <2>2 DEF HeartbeatInv, EntryWatched, IsCurrent
    <3>2. beat'[d].phase \in Running => beat[d].phase \in Running
      BY DEF Running
    <3> QED
      BY <1>1, <2>2, <3>1, <3>2
  <2>3. CASE beat[d].udid # u
    <3>1. ~(registry[u].wireless /\ registry[u].id = d)
      BY <2>3 DEF HeartbeatInv, OwnHeartbeat
    <3> QED
      BY <1>1, <2>1, <2>3, <3>1 DEF HeartbeatInv, EntryWatched, IsCurrent
  <2> QED
    BY <2>2, <2>3
<1> QED
  BY <1>2, <1>5, <1>6, <1>7, <1>8 DEF HeartbeatInv

-----------------------------------------------------------------------------
(* The loop.                                                               *)

(* A heartbeat moves on: it goes on running, or was over and stays so.     *)
LEMMA LoopKeepsInv ==
  ASSUME HeartbeatInv, NEW c \in ConnId, NEW r \in Beat,
         beat' = [beat EXCEPT ![c] = r],
         r.udid = beat[c].udid,
         beat[c].phase # "none",
         r.phase \in Running <=> beat[c].phase \in Running,
         r.phase \in {"none", "waiting", "marco", "polo", "sleeping"} => r.fails < MaxFails,
         registry' = registry, nextId' = nextId, silent' = silent, told' \subseteq ConnId
  PROVE  HeartbeatInv'
<1>1. /\ beat' \in [ConnId -> Beat] /\ beat'[c] = r
      /\ \A d \in ConnId : d # c => beat'[d] = beat[d]
  BY DEF HeartbeatInv, HeartbeatTypeOK
<1>2. HeartbeatTypeOK'
  BY <1>1 DEF HeartbeatInv, HeartbeatTypeOK, RegistryTypeOK
<1>3. FreshNumbers'
  BY <1>1 DEF HeartbeatInv, FreshNumbers
<1>4. OwnHeartbeat'
  <2> SUFFICES ASSUME NEW v \in Udid, registry[v] # NoDevice
               PROVE  IF registry[v].wireless THEN beat'[registry[v].id].udid = v
                      ELSE beat'[registry[v].id].phase = "none"
    BY DEF OwnHeartbeat
  <2>1. registry[v].id \in ConnId
    BY RegistryFacts DEF HeartbeatInv
  <2> QED
    BY <1>1, <2>1 DEF HeartbeatInv, OwnHeartbeat
<1>5. BelowLimit'
  BY <1>1 DEF HeartbeatInv, BelowLimit
<1>6. EntryWatched'
  BY <1>1 DEF HeartbeatInv, EntryWatched, IsCurrent
<1> QED
  BY <1>2, <1>3, <1>4, <1>5, <1>6 DEF HeartbeatInv

(* A failure below the limit leads to a pause, the last one to the end.    *)
LEMMA FailedFacts ==
  ASSUME NEW b \in Beat, b.fails < MaxFails
  PROVE  /\ Failed(b) \in Beat /\ Failed(b).udid = b.udid
         /\ Failed(b).phase \in {"sleeping", "givingUp"}
         /\ Failed(b).phase = "sleeping" => Failed(b).fails < MaxFails
<1> PICK phase : phase = IF b.fails + 1 >= MaxFails THEN "givingUp" ELSE "sleeping"
  OBVIOUS
<1>1. /\ b.udid \in Udid /\ b.missedPolos \in 0 .. MaxFails
      /\ b.fails \in Nat /\ b.fails + 1 \in 0 .. MaxFails
  BY DEF Beat, MaxFails
<1>2. phase \in {"sleeping", "givingUp"} /\ (phase = "sleeping" => b.fails + 1 < MaxFails)
  BY <1>1 DEF MaxFails
<1>3. Failed(b) = [udid |-> b.udid, phase |-> phase, fails |-> b.fails + 1,
                   missedPolos |-> b.missedPolos]
  <2>1. Failed(b) = [[b EXCEPT !.fails = b.fails + 1] EXCEPT !.phase = phase]
    BY DEF Failed
  <2>2. [b EXCEPT !.fails = b.fails + 1] =
          [udid |-> b.udid, phase |-> b.phase, fails |-> b.fails + 1,
           missedPolos |-> b.missedPolos]
    BY DEF Beat
  <2> QED
    BY <2>1, <2>2
<1> QED
  BY <1>1, <1>2, <1>3 DEF Beat, Phase, Running

LEMMA BeatKeepsInv ==
  ASSUME HeartbeatInv, NEW c \in ConnId, BeatStep(c) \/ StartDropped(c)
  PROVE  HeartbeatInv'
<1>1. beat[c] \in Beat /\ beat \in [ConnId -> Beat]
  BY DEF HeartbeatInv, HeartbeatTypeOK
<1>2. beat[c].phase \in {"waiting", "marco", "polo", "sleeping"} => beat[c].fails < MaxFails
  BY DEF HeartbeatInv, BelowLimit
<1>3. CASE MarcoAnswered(c)
  <2> PICK r : r = [[beat[c] EXCEPT !.phase = "polo"] EXCEPT !.fails = 0]
    OBVIOUS
  <2>1. r \in Beat /\ r.udid = beat[c].udid /\ r.phase = "polo" /\ r.fails < MaxFails
    <3>1. r = [udid |-> beat[c].udid, phase |-> "polo", fails |-> 0,
               missedPolos |-> beat[c].missedPolos]
      BY <1>1 DEF Beat
    <3>2. 0 \in 0 .. MaxFails /\ 0 < MaxFails /\ "polo" \in Phase
      BY DEF MaxFails, Phase, Running
    <3> QED
      BY <1>1, <3>1, <3>2 DEF Beat
  <2>2. beat' = [beat EXCEPT ![c] = r]
    BY <1>1, <1>3 DEF MarcoAnswered
  <2> QED
    BY <1>3, <2>1, <2>2, LoopKeepsInv
       DEF MarcoAnswered, Running, HeartbeatInv, HeartbeatTypeOK
<1>4. CASE MarcoFails(c)
  <2>1. beat' = [beat EXCEPT ![c] = Failed(beat[c])] /\ beat[c].fails < MaxFails
    BY <1>2, <1>4 DEF MarcoFails
  <2> QED
    BY <1>1, <1>4, <2>1, FailedFacts, LoopKeepsInv
       DEF MarcoFails, Running, HeartbeatInv, HeartbeatTypeOK
<1>5. CASE PoloSent(c)
  <2> PICK r : r = [[beat[c] EXCEPT !.phase = "marco"] EXCEPT !.missedPolos = 0]
    OBVIOUS
  <2>1. r \in Beat /\ r.udid = beat[c].udid /\ r.phase = "marco" /\ r.fails = beat[c].fails
    <3>1. r = [udid |-> beat[c].udid, phase |-> "marco", fails |-> beat[c].fails,
               missedPolos |-> 0]
      BY <1>1 DEF Beat
    <3>2. 0 \in 0 .. MaxFails /\ "marco" \in Phase
      BY DEF MaxFails, Phase, Running
    <3> QED
      BY <1>1, <3>1, <3>2 DEF Beat
  <2>2. beat' = [beat EXCEPT ![c] = r]
    BY <1>1, <1>5 DEF PoloSent
  <2> QED
    BY <1>2, <1>5, <2>1, <2>2, LoopKeepsInv
       DEF PoloSent, Running, HeartbeatInv, HeartbeatTypeOK
<1>6. CASE PoloFails(c)
  <2> PICK f, m : /\ f = Failed(beat[c])
                  /\ m = IF beat[c].missedPolos < MaxFails THEN beat[c].missedPolos + 1
                         ELSE beat[c].missedPolos
    OBVIOUS
  <2>1. /\ f \in Beat /\ f.udid = beat[c].udid /\ f.phase \in {"sleeping", "givingUp"}
        /\ f.phase = "sleeping" => f.fails < MaxFails
    BY <1>1, <1>2, <1>6, FailedFacts DEF PoloFails
  <2>2. m \in 0 .. MaxFails
    BY <1>1 DEF Beat, MaxFails
  <2> PICK r : r = [f EXCEPT !.missedPolos = m]
    OBVIOUS
  <2>3. r \in Beat /\ r.udid = f.udid /\ r.phase = f.phase /\ r.fails = f.fails
    BY <2>1, <2>2 DEF Beat
  <2>4. beat' = [beat EXCEPT ![c] = r]
    BY <1>6 DEF PoloFails
  <2> QED
    <3>1. /\ r \in Beat /\ r.udid = beat[c].udid
          /\ beat[c].phase # "none" /\ beat[c].phase \in Running /\ r.phase \in Running
          /\ r.phase \in {"none", "waiting", "marco", "polo", "sleeping"} =>
               r.fails < MaxFails
      BY <1>6, <2>1, <2>3 DEF PoloFails, Running
    <3>2. /\ registry' = registry /\ nextId' = nextId /\ silent' = silent
          /\ told' \subseteq ConnId
      BY <1>6 DEF PoloFails, HeartbeatInv, HeartbeatTypeOK
    <3> QED
      BY <2>4, <3>1, <3>2, LoopKeepsInv
<1>7. ASSUME NEW phase \in Phase, SetPhase(c, phase), beat[c].phase # "none",
             phase \in Running <=> beat[c].phase \in Running,
             phase \in {"none", "waiting", "marco", "polo", "sleeping"} =>
               beat[c].fails < MaxFails,
             registry' = registry, nextId' = nextId, silent' = silent, told' \subseteq ConnId
      PROVE  HeartbeatInv'
  <2> PICK r : r = [beat[c] EXCEPT !.phase = phase]
    OBVIOUS
  <2>1. r \in Beat /\ r.udid = beat[c].udid /\ r.phase = phase /\ r.fails = beat[c].fails
    BY <1>1 DEF Beat
  <2>2. beat' = [beat EXCEPT ![c] = r]
    BY <1>1, <1>7 DEF SetPhase
  <2> QED
    BY <1>7, <2>1, <2>2, LoopKeepsInv
<1>8. CASE Slept(c) \/ StartDropped(c) \/ Cleaned(c)
  BY <1>2, <1>7, <1>8
     DEF Slept, StartDropped, Cleaned, Phase, Running, HeartbeatInv, HeartbeatTypeOK
<1>9. CASE GiveUp(c)
  <2> PICK u \in Udid : u = beat[c].udid
    BY <1>1 DEF Beat
  <2>1. IsCurrent(u, c) /\ registry[u].wireless /\ beat[c].phase = "givingUp"
    BY <1>9 DEF GiveUp, HeartbeatInv, EntryWatched, Running
  <2>2. RemoveIfCurrent(u, registry[u].id) /\ registry[u] # NoDevice /\ registry[u].id = c
    BY <1>9, <2>1 DEF GiveUp, IsCurrent
  <2>3. /\ beat' = [beat EXCEPT ![c].phase = "cleaning"]
        /\ nextId' = nextId /\ silent' = silent /\ told' = told
    BY <1>9, <2>1 DEF GiveUp, SetPhase
  <2> PICK r : r = [beat[c] EXCEPT !.phase = "cleaning"]
    OBVIOUS
  <2>4. /\ r \in Beat /\ r.udid = beat[c].udid /\ r.fails = beat[c].fails
        /\ r.phase = "cleaning" /\ r.phase \notin Running
    BY <1>1 DEF Beat, Phase, Running
  <2>5. /\ beat' \in [ConnId -> Beat] /\ beat'[c] = r
        /\ \A d \in ConnId : d # c => beat'[d] = beat[d]
    BY <1>1, <2>3, <2>4
  <2> QED
    BY <2>1, <2>2, <2>3, <2>4, <2>5, UnregisterKeepsInv
<1> QED
  BY <1>3, <1>4, <1>5, <1>6, <1>8, <1>9 DEF BeatStep

LEMMA AcceptedKeepsInv ==
  ASSUME HeartbeatInv, NEW c \in ConnId, Accepted(c)
  PROVE  HeartbeatInv'
<1>t. beat \in [ConnId -> Beat] /\ beat[c] \in Beat
  BY DEF HeartbeatInv, HeartbeatTypeOK
<1>1. PICK u \in Udid : u = beat[c].udid
  BY <1>t DEF Beat
<1>2. /\ Insert(u, c, TRUE) /\ beat[c].phase = "waiting"
      /\ nextId' = nextId /\ silent' = silent /\ told' = told
  BY <1>1 DEF Accepted
<1>3. PICK b \in [ConnId -> Beat] :
        /\ beat' = AbortRegistered(u, b)
        /\ \A d \in ConnId : d # c => b[d] = beat[d]
        /\ b[c].udid = beat[c].udid /\ b[c].fails = beat[c].fails /\ b[c].phase = "marco"
  <2> PICK r : r = [beat[c] EXCEPT !.phase = "marco"]
    OBVIOUS
  <2>1. /\ r \in Beat /\ r.udid = beat[c].udid /\ r.fails = beat[c].fails
        /\ r.phase = "marco"
    BY <1>t DEF Beat, Phase, Running
  <2> PICK b : b = [beat EXCEPT ![c] = r]
    OBVIOUS
  <2>2. /\ b \in [ConnId -> Beat] /\ b[c] = r
        /\ \A d \in ConnId : d # c => b[d] = beat[d]
    BY <1>t, <2>1
  <2>3. beat' = AbortRegistered(u, b)
    BY <1>t, <1>1 DEF Accepted
  <2> QED
    BY <2>1, <2>2, <2>3
<1>4. nextId' \in 1 .. MaxConn + 1 /\ c < nextId'
  BY <1>2, MaxConnAssumption DEF HeartbeatInv, HeartbeatTypeOK, FreshNumbers, ConnId
<1>5. ASSUME NEW v \in Udid, registry[v] # NoDevice, registry[v].id = c
      PROVE  FALSE
  <2>1. IsCurrent(v, c)
    BY <1>5 DEF IsCurrent
  <2>2. CASE registry[v].wireless
    BY <1>2, <1>5, <2>1, <2>2 DEF HeartbeatInv, OwnHeartbeat, EntryWatched, Running
  <2>3. CASE ~registry[v].wireless
    BY <1>2, <1>5, <2>3 DEF HeartbeatInv, OwnHeartbeat
  <2> QED
    BY <2>2, <2>3
<1>6. Registers(u, c, TRUE, b)
  BY <1>1, <1>2, <1>3, <1>4, <1>5 DEF Registers
<1> QED
  BY <1>6, RegisterKeepsInv

LEMMA ConnectionsKeepInv ==
  ASSUME HeartbeatInv,
         \/ \E c \in ConnId : Accepted(c)
         \/ \E u \in Udid : UsbTakesOver(u) \/ Removed(u)
  PROVE  HeartbeatInv'
<1>1. beat \in [ConnId -> Beat] /\ \A c \in ConnId : beat[c] \in Beat
  BY DEF HeartbeatInv, HeartbeatTypeOK
<1>2. ASSUME NEW u \in Udid, UsbTakesOver(u)
      PROVE  HeartbeatInv'
  <2> PICK c : c = nextId
    OBVIOUS
  <2>1. c \in ConnId /\ c \in Nat /\ nextId' = c + 1
    BY <1>2, RegistryFacts DEF UsbTakesOver, HeartbeatInv
  <2>2. nextId' \in 1 .. MaxConn + 1 /\ c < nextId'
    BY <2>1, MaxConnAssumption DEF ConnId
  <2>3. beat[c].phase = "none"
    BY <2>1 DEF HeartbeatInv, FreshNumbers
  <2>4. \A v \in Udid : registry[v] # NoDevice => registry[v].id # c
    BY <2>1 DEF HeartbeatInv, FreshNumbers
  <2>5. /\ Insert(u, c, FALSE) /\ beat' = AbortRegistered(u, beat)
        /\ silent' = silent /\ told' = told
    BY <1>2 DEF UsbTakesOver
  <2>6. Registers(u, c, FALSE, beat)
    BY <1>1, <2>1, <2>2, <2>3, <2>4, <2>5 DEF Registers
  <2> QED
    BY <1>1, <2>1, <2>6, RegisterKeepsInv
<1>3. ASSUME NEW u \in Udid, Removed(u)
      PROVE  HeartbeatInv'
  <2>1. /\ registry[u] # NoDevice /\ RemoveIfCurrent(u, registry[u].id)
        /\ beat' = AbortRegistered(u, beat)
        /\ nextId' = nextId /\ silent' = silent /\ told' = told
    BY <1>3 DEF Removed
  <2>2. /\ beat' \in [ConnId -> Beat]
        /\ \A d \in ConnId :
             /\ beat'[d].udid = beat[d].udid /\ beat'[d].fails = beat[d].fails
             /\ beat'[d].phase \in {beat[d].phase, "aborted"}
             /\ beat'[d].phase # beat[d].phase =>
                  registry[u].wireless /\ d = registry[u].id /\ beat[d].phase # "none"
             /\ registry[u].wireless /\ d = registry[u].id => beat'[d].phase \notin Running
    BY <1>1, <2>1, AbortFacts DEF HeartbeatInv
  <2> QED
    BY <2>1, <2>2, UnregisterKeepsInv
<1> QED
  BY <1>2, <1>3, AcceptedKeepsInv

-----------------------------------------------------------------------------
(* The theorems.                                                           *)

LEMMA HeartbeatInit == Init => HeartbeatInv
<1> SUFFICES ASSUME Init PROVE HeartbeatInv
  OBVIOUS
<1>1. PICK u \in Udid :
        beat = [c \in ConnId |-> [udid |-> u, phase |-> "none", fails |-> 0, missedPolos |-> 0]]
  BY DEF Init
<1>2. 0 \in 0 .. MaxFails /\ 0 < MaxFails /\ "none" \in Phase
  BY DEF MaxFails, Phase
<1>3. beat \in [ConnId -> Beat]
  BY <1>1, <1>2 DEF Beat
<1>4. registry = [v \in Udid |-> NoDevice]
  BY DEF Init, RegistryInit
<1>5. HeartbeatTypeOK
  BY <1>3, <1>4, MaxConnAssumption DEF Init, HeartbeatTypeOK, RegistryTypeOK
<1>6. FreshNumbers
  BY <1>1, <1>4 DEF FreshNumbers
<1>7. OwnHeartbeat
  BY <1>4 DEF OwnHeartbeat
<1>8. BelowLimit
  BY <1>1, <1>2 DEF BelowLimit
<1>9. EntryWatched
  BY <1>1, <1>4 DEF EntryWatched, IsCurrent, Running
<1> QED
  BY <1>5, <1>6, <1>7, <1>8, <1>9 DEF HeartbeatInv

LEMMA HeartbeatStep == HeartbeatInv /\ [Next]_vars => HeartbeatInv'
<1> SUFFICES ASSUME HeartbeatInv, [Next]_vars PROVE HeartbeatInv'
  OBVIOUS
<1>1. CASE \E c \in ConnId : BeatStep(c) \/ StartDropped(c)
  BY <1>1, BeatKeepsInv
<1>2. CASE \/ \E c \in ConnId : Accepted(c)
           \/ \E u \in Udid : UsbTakesOver(u) \/ Removed(u)
  BY <1>2, ConnectionsKeepInv
<1>3. CASE \E u \in Udid : Spawn(u)
  BY <1>3, SpawnKeepsInv
<1>4. CASE \/ \E u \in Udid : FallSilent(u) \/ WakeUp(u)
           \/ UNCHANGED vars
  <2>1. /\ registry' = registry /\ nextId' = nextId /\ beat' = beat /\ told' = told
        /\ silent' \subseteq Udid
    BY <1>4 DEF FallSilent, WakeUp, vars, HeartbeatInv, HeartbeatTypeOK
  <2> QED
    BY <2>1 DEF HeartbeatInv, HeartbeatTypeOK, RegistryTypeOK, FreshNumbers, OwnHeartbeat,
                BelowLimit, EntryWatched, IsCurrent
<1> QED
  BY <1>1, <1>2, <1>3, <1>4 DEF Next

LEMMA HeartbeatAlways == Spec => []HeartbeatInv
BY HeartbeatInit, HeartbeatStep, PTL DEF Spec

(* Every variable keeps its type: above all, the loop never counts past    *)
(* its limit.                                                              *)
THEOREM HeartbeatTypes == Spec => []HeartbeatTypeOK
<1>1. HeartbeatInv => HeartbeatTypeOK
  BY DEF HeartbeatInv
<1> QED
  BY <1>1, HeartbeatAlways, PTL

(* A wireless entry of the registry always has a running heartbeat, and no *)
(* other heartbeat runs, in whatever order connections are started,        *)
(* replaced, removed and given up.                                         *)
THEOREM EntriesWatched == Spec => []EntryWatched
<1>1. HeartbeatInv => EntryWatched
  BY DEF HeartbeatInv
<1> QED
  BY <1>1, HeartbeatAlways, PTL

-----------------------------------------------------------------------------
LEMMA RunningInitial == MCInit => HeartbeatInv /\ TransfersInv
BY HeartbeatInit, TransfersInitial DEF MCInit

LEMMA RunningStep ==
  HeartbeatInv /\ TransfersInv /\ [MCNext]_mcVars => HeartbeatInv' /\ TransfersInv'
<1> SUFFICES ASSUME HeartbeatInv, TransfersInv, [MCNext]_mcVars
             PROVE  HeartbeatInv' /\ TransfersInv'
  OBVIOUS
<1>1. [Next]_vars /\ [TransfersNext]_transferVars
  BY DEF MCNext, mcVars
<1> QED
  BY <1>1, HeartbeatStep, TransfersStep

(* Side by side, heartbeats and transfers keep their types: neither writes *)
(* what the other reads.                                                   *)
THEOREM RunningKeepTypes == MCSpec => []MCTypeOK
<1>1. HeartbeatInv /\ TransfersInv => MCTypeOK
  BY DEF HeartbeatInv, TransfersInv, MCTypeOK
<1> QED
  BY <1>1, RunningInitial, RunningStep, PTL DEF MCSpec
=============================================================================
