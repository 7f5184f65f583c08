---------------------------- MODULE MediaProofs ----------------------------
(***************************************************************************)
(* What the thumbnails of the gallery and the previews of its videos keep, *)
(* for any number of devices, files, requests, jobs, previews and chunks.  *)
(***************************************************************************)
EXTENDS MCMedia, FiniteSetTheorems, TLAPS

-----------------------------------------------------------------------------
(* The loader of thumbnails.                                               *)

(* Every job that is not over is the one in flight for its key, and what   *)
(* is in flight is such a job.                                             *)
Alive(q) == q.stage \notin {"unused", "over"}

FlightAlive ==
  \A k \in Key : inFlight[k] # 0 =>
    inFlight[k] < nextJob /\ job[inFlight[k]].key = k /\ Alive(job[inFlight[k]])

AliveInFlight == \A j \in Job : Alive(job[j]) => inFlight[job[j].key] = j

(* Each request was counted once, before its key was queued and its job    *)
(* started: the numbers of the jobs do not run out.                        *)
JobsCounted == IsFiniteSet(pq) /\ nextJob - 1 + Cardinality(pq) <= requests

LoaderInv ==
  LoaderTypeOK /\ QueueConsistent /\ FlightAlive /\ AliveInFlight /\ JobsCounted

-----------------------------------------------------------------------------
JobRecord == [key : Key, stage : JobStage, conn : 0 .. MaxConn, cancelled : BOOLEAN]

LEMMA LoaderFacts ==
  /\ AnyKey \in Key
  /\ \A k \in Key : k[1] \in Udid
  /\ \A j \in Job : j \in Nat /\ j # 0 /\ j \in 0 .. MaxRequest
  /\ 0 \in 0 .. MaxRequest /\ 0 \in 0 .. MaxConn
  /\ ConnId \subseteq 0 .. MaxConn
  /\ \A n \in 0 .. MaxRequest : n # 0 => n \in Job
<1>1. PICK u \in Udid, p \in Path : TRUE
  BY LoaderAssumption
<1>2. <<u, p>> \in Key
  BY DEF Key
<1>3. AnyKey \in Key
  BY <1>2 DEF AnyKey
<1> QED
  BY <1>3, LoaderAssumption, MaxConnAssumption DEF Key, Job, ConnId

LEMMA LoaderInitial == LoaderInit => LoaderInv
<1> SUFFICES ASSUME LoaderInit PROVE LoaderInv
  OBVIOUS
<1>1. [key |-> AnyKey, stage |-> "unused", conn |-> 0, cancelled |-> FALSE] \in JobRecord
  BY LoaderFacts DEF JobRecord, JobStage
<1>2. [udid |-> AnyKey[1], stage |-> "none", jobs |-> {}]
        \in [udid : Udid, stage : CleanerStage, jobs : SUBSET Job]
  BY LoaderFacts DEF CleanerStage
<1>3. LoaderTypeOK
  <2>1. cleaner \in [ConnId -> [udid : Udid, stage : CleanerStage, jobs : SUBSET Job]]
    BY <1>2 DEF LoaderInit
  <2>2. job \in [Job -> JobRecord]
    BY <1>1 DEF LoaderInit
  <2>3. RegistryTypeOK
    BY DEF LoaderInit, RegistryInit, RegistryTypeOK
  <2>4. /\ payloads \in [Key -> SUBSET Payload] /\ joined \in [Key -> SUBSET Payload]
        /\ inFlight \in [Key -> 0 .. MaxRequest]
    BY LoaderFacts DEF LoaderInit
  <2>5. /\ nextConnection \in 1 .. MaxConn + 1 /\ nextJob \in 1 .. MaxRequest + 1
        /\ requests \in 0 .. MaxRequest
    BY LoaderAssumption, MaxConnAssumption DEF LoaderInit
  <2>6. /\ cache \subseteq Key /\ pq \subseteq Key /\ caller = "idle" /\ scheduler = "ready"
        /\ notified \in BOOLEAN
    BY DEF LoaderInit
  <2> QED
    BY <2>1, <2>2, <2>3, <2>4, <2>5, <2>6 DEF LoaderTypeOK, JobRecord
<1>4. QueueConsistent /\ FlightAlive
  BY DEF LoaderInit, QueueConsistent, FlightAlive
<1>5. AliveInFlight
  BY DEF LoaderInit, AliveInFlight, Alive
<1>6. JobsCounted
  BY FS_EmptySet DEF LoaderInit, JobsCounted
<1> QED
  BY <1>3, <1>4, <1>5, <1>6 DEF LoaderInv

-----------------------------------------------------------------------------
(* A step after which the tables of keys are as before, and every job is   *)
(* alive that was, for the same key.                                       *)
LEMMA QuietKeepsInv ==
  ASSUME LoaderInv, LoaderTypeOK', UNCHANGED <<queueVars, nextJob, requests>>,
         \A j \in Job : job'[j].key = job[j].key /\ (Alive(job'[j]) <=> Alive(job[j]))
  PROVE  LoaderInv'
<1>1. QueueConsistent'
  BY DEF LoaderInv, QueueConsistent, queueVars
<1>2. FlightAlive'
  <2> SUFFICES ASSUME NEW k \in Key, inFlight[k] # 0
               PROVE  inFlight[k] < nextJob /\ job'[inFlight[k]].key = k /\ Alive(job'[inFlight[k]])
    BY DEF FlightAlive, queueVars, Alive
  <2>1. inFlight[k] \in Job
    BY LoaderFacts DEF LoaderInv, LoaderTypeOK
  <2>2. Alive(job'[inFlight[k]]) <=> Alive(job[inFlight[k]])
    BY <2>1
  <2> QED
    BY <2>1, <2>2 DEF LoaderInv, FlightAlive
<1>3. AliveInFlight'
  BY DEF LoaderInv, AliveInFlight, queueVars
<1>4. JobsCounted'
  BY DEF LoaderInv, JobsCounted, queueVars
<1> QED
  BY <1>1, <1>2, <1>3, <1>4 DEF LoaderInv

(* Neither jobs nor queue move.                                            *)
LEMMA StillKeepsInv ==
  ASSUME LoaderInv, LoaderTypeOK', UNCHANGED <<queueVars, jobVars, requests>>
  PROVE  LoaderInv'
<1>1. \A j \in Job : job'[j].key = job[j].key /\ (Alive(job'[j]) <=> Alive(job[j]))
  BY DEF jobVars, Alive
<1> QED
  BY <1>1, QuietKeepsInv DEF jobVars

LEMMA WaitingKeepsInv ==
  ASSUME LoaderInv, NotifyOne \/ PopNothing \/ AwaitNotify PROVE LoaderInv'
<1>1. LoaderTypeOK /\ UNCHANGED <<deviceVars, cleaner, cache, requests, queueVars, jobVars>>
  BY DEF LoaderInv, NotifyOne, PopNothing, AwaitNotify
<1>2. caller' \in {"idle", "notify"}
      /\ scheduler' \in {"ready", "empty", "asleep", "permit"}
  BY <1>1 DEF LoaderTypeOK, NotifyOne, PopNothing, AwaitNotify
<1>3. notified' \in BOOLEAN
  <2>1. CASE NotifyOne
    BY <2>1 DEF NotifyOne
  <2>2. CASE PopNothing \/ AwaitNotify
    BY <1>1, <2>2 DEF LoaderTypeOK, PopNothing, AwaitNotify
  <2> QED
    BY <2>1, <2>2
<1>4. LoaderTypeOK'
  BY <1>1, <1>2, <1>3 DEF LoaderTypeOK, RegistryTypeOK, deviceVars, queueVars, jobVars
<1> QED
  BY <1>1, <1>4, StillKeepsInv

LEMMA RequestKeepsInv ==
  ASSUME LoaderInv, NEW k \in Key, Request(k) PROVE LoaderInv'
<1> DEFINE p == registry[k[1]].id
<1>1. LoaderTypeOK /\ UNCHANGED <<deviceVars, cleaner, cache, inFlight, jobVars, scheduler, notified>>
  BY DEF LoaderInv, Request
<1>2. p \in Payload
  <2>1. registry[k[1]] \in Connection \cup {NoDevice}
    BY <1>1, LoaderFacts DEF LoaderTypeOK, RegistryTypeOK
  <2> QED
    BY <2>1, LoaderFacts, MaxConnAssumption DEF Connection, ConnId, NoDevice, Payload
<1> HIDE DEF p
<1>3. requests' = requests + 1 /\ requests \in Nat /\ requests' \in 0 .. MaxRequest
  BY <1>1, LoaderAssumption DEF LoaderTypeOK, Request
<1>4. IsFiniteSet(pq) /\ Cardinality(pq) \in Nat
  BY FS_CardinalityType DEF LoaderInv, JobsCounted
<1>5. FlightAlive'
  BY <1>1 DEF LoaderInv, FlightAlive, jobVars, Alive
<1>6. AliveInFlight'
  BY <1>1 DEF LoaderInv, AliveInFlight, jobVars, Alive
<1>7. CASE Join(k)
  <2>1. /\ UNCHANGED <<pq, payloads, caller>>
        /\ joined' = [joined EXCEPT ![k] =
                         IF job[inFlight[k]].cancelled THEN joined[k] ELSE joined[k] \cup {p}]
    BY <1>7 DEF Request, p
  <2>2. joined' \in [Key -> SUBSET Payload] /\ \A i \in Key : i # k => joined'[i] = joined[i]
    BY <1>1, <1>2, <2>1 DEF LoaderTypeOK
  <2>3. LoaderTypeOK'
    BY <1>1, <1>3, <2>1, <2>2 DEF LoaderTypeOK, RegistryTypeOK, deviceVars, jobVars
  <2>4. QueueConsistent'
    BY <1>1, <1>7, <2>1, <2>2 DEF LoaderInv, QueueConsistent, Join
  <2>5. JobsCounted'
    BY <1>1, <1>3, <1>4, <2>1 DEF LoaderInv, JobsCounted, jobVars, LoaderTypeOK
  <2> QED
    BY <1>5, <1>6, <2>3, <2>4, <2>5 DEF LoaderInv
<1>8. CASE ~Join(k)
  <2>1. /\ payloads' = [payloads EXCEPT ![k] = payloads[k] \cup {p}]
        /\ pq' = pq \cup {k}
        /\ caller' = "notify"
        /\ UNCHANGED joined
    BY <1>8 DEF Request, p
  <2>2. payloads' \in [Key -> SUBSET Payload] /\ p \in payloads'[k]
        /\ \A i \in Key : i # k => payloads'[i] = payloads[i]
    BY <1>1, <1>2, <2>1 DEF LoaderTypeOK
  <2>3. LoaderTypeOK'
    BY <1>1, <1>3, <2>1, <2>2 DEF LoaderTypeOK, RegistryTypeOK, deviceVars, jobVars
  <2>4. QueueConsistent'
    BY <1>1, <1>8, <2>1, <2>2 DEF LoaderInv, QueueConsistent, Join
  <2>5. /\ IsFiniteSet(pq') /\ Cardinality(pq') \in Nat
        /\ Cardinality(pq') <= Cardinality(pq) + 1
    BY <1>4, <2>1, FS_AddElement, FS_CardinalityType
  <2>6. JobsCounted'
    BY <1>1, <1>3, <1>4, <2>5 DEF LoaderInv, JobsCounted, jobVars, LoaderTypeOK
  <2> QED
    BY <1>5, <1>6, <2>3, <2>4, <2>6 DEF LoaderInv
<1> QED
  BY <1>7, <1>8

(* The count leaves a number for the job.                                  *)
LEMMA PopNextKeepsInv ==
  ASSUME LoaderInv, NEW k \in Key, PopNext(k) PROVE LoaderInv'
<1>1. LoaderTypeOK /\ UNCHANGED <<deviceVars, cleaner, cache, requests, caller, notified>>
      /\ QueueConsistent /\ FlightAlive /\ AliveInFlight
  BY DEF LoaderInv, PopNext
<1>2. /\ IsFiniteSet(pq') /\ Cardinality(pq') \in Nat
      /\ Cardinality(pq) \in Nat /\ Cardinality(pq') = Cardinality(pq) - 1
  <2>1. IsFiniteSet(pq) /\ k \in pq /\ pq' = pq \ {k}
    BY DEF LoaderInv, JobsCounted, PopNext
  <2> QED
    BY <2>1, FS_RemoveElement, FS_CardinalityType
<1>3. /\ nextJob \in Nat /\ requests \in 0 .. MaxRequest
      /\ nextJob - 1 + Cardinality(pq) <= requests
  BY <1>1 DEF LoaderInv, JobsCounted, LoaderTypeOK
<1>4. nextJob \in Job /\ nextJob \in 0 .. MaxRequest /\ nextJob' \in 1 .. MaxRequest + 1
      /\ nextJob' = nextJob + 1
  BY <1>1, <1>2, <1>3, LoaderAssumption DEF LoaderTypeOK, Job, PopNext
<1>5. JobsCounted'
  BY <1>1, <1>2, <1>3, <1>4 DEF JobsCounted
<1>6. /\ pq' = pq \ {k} /\ k \in pq
      /\ payloads' = [payloads EXCEPT ![k] = {}]
      /\ inFlight' = [inFlight EXCEPT ![k] = nextJob]
      /\ joined' = [joined EXCEPT ![k] = payloads[k]]
  BY DEF PopNext
<1> DEFINE q == [job[nextJob] EXCEPT !.key = k, !.stage = "permit"]
<1>7. job[nextJob] \in JobRecord
  BY <1>1, <1>4 DEF LoaderTypeOK, JobRecord
<1>8. q \in JobRecord /\ q.key = k /\ q.stage = "permit"
  BY <1>7 DEF JobRecord, JobStage
<1>9. job' = [job EXCEPT ![nextJob] = q]
  BY <1>1, <1>4 DEF PopNext, LoaderTypeOK
<1> HIDE DEF q
<1>10. job' \in [Job -> JobRecord] /\ job'[nextJob] = q
       /\ \A j \in Job : j # nextJob => job'[j] = job[j]
  BY <1>1, <1>4, <1>8, <1>9 DEF LoaderTypeOK, JobRecord
<1>11. /\ payloads' \in [Key -> SUBSET Payload] /\ inFlight' \in [Key -> 0 .. MaxRequest]
       /\ joined' \in [Key -> SUBSET Payload]
       /\ payloads'[k] = {} /\ inFlight'[k] = nextJob
       /\ \A i \in Key : i # k => /\ payloads'[i] = payloads[i] /\ inFlight'[i] = inFlight[i]
                                  /\ joined'[i] = joined[i]
  BY <1>1, <1>4, <1>6 DEF LoaderTypeOK
<1>12. LoaderTypeOK'
  <2>1. scheduler' = "permit" /\ pq' \subseteq Key
    BY <1>1 DEF PopNext, LoaderTypeOK
  <2> QED
    BY <1>1, <1>4, <1>10, <1>11, <2>1 DEF LoaderTypeOK, RegistryTypeOK, JobRecord, deviceVars
<1>13. QueueConsistent'
  BY <1>1, <1>4, <1>6, <1>11, LoaderFacts DEF QueueConsistent
<1>14. FlightAlive'
  <2> SUFFICES ASSUME NEW i \in Key, inFlight'[i] # 0
               PROVE  inFlight'[i] < nextJob' /\ job'[inFlight'[i]].key = i /\ Alive(job'[inFlight'[i]])
    BY DEF FlightAlive, Alive
  <2>1. CASE i = k
    BY <1>3, <1>4, <1>8, <1>10, <1>11, <2>1 DEF Alive
  <2>2. CASE i # k
    <3>1. inFlight'[i] = inFlight[i] /\ inFlight[i] \in Job /\ inFlight[i] < nextJob
          /\ job[inFlight[i]].key = i /\ Alive(job[inFlight[i]])
      BY <1>1, <1>11, <2>2, LoaderFacts DEF FlightAlive, LoaderTypeOK
    <3>2. job'[inFlight[i]] = job[inFlight[i]]
      BY <1>3, <1>10, <3>1
    <3>3. inFlight[i] \in Nat
      BY <3>1, LoaderFacts
    <3>4. inFlight'[i] < nextJob'
      BY <1>3, <1>4, <3>1, <3>3
    <3> QED
      BY <3>1, <3>2, <3>4
  <2> QED
    BY <2>1, <2>2
<1>15. AliveInFlight'
  <2> SUFFICES ASSUME NEW j \in Job, Alive(job'[j])
               PROVE  inFlight'[job'[j].key] = j
    BY DEF AliveInFlight
  <2>1. CASE j = nextJob
    BY <1>8, <1>10, <1>11, <2>1
  <2>2. CASE j # nextJob
    <3>1. job'[j] = job[j] /\ job[j].key \in Key /\ Alive(job[j])
      BY <1>1, <1>10, <2>2 DEF Alive, LoaderTypeOK
    <3>2. inFlight[job[j].key] = j
      BY <1>1, <3>1 DEF AliveInFlight
    <3>3. job[j].key # k
      BY <1>1, <1>6, <3>1, <3>2, LoaderFacts DEF QueueConsistent
    <3> QED
      BY <1>11, <3>1, <3>2, <3>3
  <2> QED
    BY <2>1, <2>2
<1> QED
  BY <1>5, <1>12, <1>13, <1>14, <1>15 DEF LoaderInv

-----------------------------------------------------------------------------
(* A job moves on.                                                         *)
LEMMA JobMovesKeepsInv ==
  ASSUME LoaderInv, NEW j \in Job, NEW q \in JobRecord,
         job' = [job EXCEPT ![j] = q],
         q.key = job[j].key, Alive(job[j]), q.stage \notin {"unused", "over"},
         cache' \subseteq Key, scheduler' \in {scheduler, "ready"},
         UNCHANGED <<deviceVars, cleaner, requests, caller, queueVars, nextJob, notified>>
  PROVE  LoaderInv'
<1>1. LoaderTypeOK
  BY DEF LoaderInv
<1>2. job' \in [Job -> JobRecord] /\ job'[j] = q /\ \A i \in Job : i # j => job'[i] = job[i]
  BY <1>1 DEF LoaderTypeOK, JobRecord
<1>3. LoaderTypeOK'
  BY <1>1, <1>2 DEF LoaderTypeOK, RegistryTypeOK, JobRecord, deviceVars, queueVars
<1>4. \A i \in Job : job'[i].key = job[i].key /\ (Alive(job'[i]) <=> Alive(job[i]))
  BY <1>2 DEF Alive
<1> QED
  BY <1>3, <1>4, QuietKeepsInv

(* A job ends, and takes what is in flight for its key.                    *)
LEMMA JobEndsKeepsInv ==
  ASSUME LoaderInv, NEW j \in Job, Alive(job[j]), EndJob(j), Take(job[j].key),
         scheduler' \in {scheduler, "ready"},
         UNCHANGED <<deviceVars, cleaner, cache, requests, caller, pq, payloads, nextJob, notified>>
  PROVE  LoaderInv'
<1> DEFINE k == job[j].key
           q == [job[j] EXCEPT !.stage = "over", !.conn = 0, !.cancelled = FALSE]
<1>1. LoaderTypeOK /\ job[j] \in JobRecord /\ k \in Key
  BY DEF LoaderInv, LoaderTypeOK, JobRecord
<1>2. q \in JobRecord /\ q.stage = "over"
  BY <1>1, LoaderFacts DEF JobRecord, JobStage
<1>3. job' = [job EXCEPT ![j] = q]
  BY <1>1 DEF EndJob, LoaderTypeOK
<1> HIDE DEF q
<1>4. job' \in [Job -> JobRecord] /\ job'[j] = q /\ \A i \in Job : i # j => job'[i] = job[i]
  BY <1>1, <1>2, <1>3 DEF LoaderTypeOK, JobRecord
<1>5. /\ inFlight' \in [Key -> 0 .. MaxRequest] /\ joined' \in [Key -> SUBSET Payload]
      /\ inFlight'[k] = 0 /\ joined'[k] = {}
      /\ \A i \in Key : i # k => inFlight'[i] = inFlight[i] /\ joined'[i] = joined[i]
  BY <1>1, LoaderFacts DEF Take, LoaderTypeOK
<1>6. inFlight[k] = j
  BY DEF LoaderInv, AliveInFlight
<1> HIDE DEF k
<1>7. LoaderTypeOK'
  BY <1>1, <1>4, <1>5 DEF LoaderTypeOK, RegistryTypeOK, JobRecord, deviceVars
<1>8. QueueConsistent'
  BY <1>5 DEF LoaderInv, QueueConsistent
<1>9. FlightAlive'
  <2> SUFFICES ASSUME NEW i \in Key, inFlight'[i] # 0
               PROVE  inFlight'[i] < nextJob /\ job'[inFlight'[i]].key = i /\ Alive(job'[inFlight'[i]])
    BY DEF FlightAlive, Alive
  <2>1. inFlight'[i] = inFlight[i] /\ inFlight[i] \in Job /\ inFlight[i] < nextJob
        /\ job[inFlight[i]].key = i /\ Alive(job[inFlight[i]])
    BY <1>1, <1>5, LoaderFacts DEF LoaderInv, FlightAlive, LoaderTypeOK
  <2>2. inFlight[i] # j
    BY <1>5, <2>1 DEF k
  <2> QED
    BY <1>4, <2>1, <2>2 DEF Alive
<1>10. AliveInFlight'
  <2> SUFFICES ASSUME NEW i \in Job, Alive(job'[i])
               PROVE  inFlight'[job'[i].key] = i
    BY DEF AliveInFlight
  <2>1. i # j
    BY <1>2, <1>4 DEF Alive
  <2>2. job'[i] = job[i] /\ job[i].key \in Key /\ inFlight[job[i].key] = i
    BY <1>1, <1>4, <2>1 DEF LoaderInv, AliveInFlight, Alive, LoaderTypeOK
  <2> QED
    BY <1>5, <1>6, <2>1, <2>2
<1>11. JobsCounted'
  BY DEF LoaderInv, JobsCounted
<1> QED
  BY <1>7, <1>8, <1>9, <1>10, <1>11 DEF LoaderInv

(* What SetJob makes of a job.                                             *)
LEMMA SetJobFacts ==
  ASSUME LoaderTypeOK, NEW j \in Job, NEW stage \in JobStage, SetJob(j, stage)
  PROVE  \E q \in JobRecord : /\ job' = [job EXCEPT ![j] = q]
                              /\ q.key = job[j].key /\ q.stage = stage
<1> DEFINE q == [job[j] EXCEPT !.stage = stage]
<1>1. job[j] \in JobRecord
  BY DEF LoaderTypeOK, JobRecord
<1>2. q \in JobRecord /\ q.key = job[j].key /\ q.stage = stage
  BY <1>1 DEF JobRecord
<1>3. job' = [job EXCEPT ![j] = q]
  BY DEF SetJob, LoaderTypeOK
<1> QED
  BY <1>2, <1>3

LEMMA StageFacts ==
  /\ {"abandoned", "error", "stored", "working", "checked", "spawned", "over"} \subseteq JobStage
  /\ Result = {"stored", "abandoned", "error"}
BY DEF JobStage, Result

LEMMA JobStepKeepsInv ==
  ASSUME LoaderInv, NEW j \in Job, JobStep(j) \/ AcquirePermit(j) \/ CancelledWaiting(j)
  PROVE  LoaderInv'
<1>1. LoaderTypeOK /\ cache \subseteq Key /\ job[j] \in JobRecord /\ job[j].key \in Key
  BY DEF LoaderInv, LoaderTypeOK, JobRecord
<1>2. CASE AcquirePermit(j)
  <2>1. PICK q \in JobRecord : /\ job' = [job EXCEPT ![j] = q]
                               /\ q.key = job[j].key /\ q.stage = "spawned"
    BY <1>1, <1>2, SetJobFacts, StageFacts DEF AcquirePermit
  <2>2. Alive(job[j]) /\ scheduler' = "ready"
        /\ UNCHANGED <<deviceVars, cleaner, cache, requests, caller, queueVars, nextJob, notified>>
    BY <1>2 DEF AcquirePermit, Alive
  <2> QED
    BY <1>1, <2>1, <2>2, JobMovesKeepsInv
<1>3. CASE CancelledWaiting(j)
  <2>1. Alive(job[j])
    BY <1>3 DEF CancelledWaiting, Alive
  <2> QED
    BY <1>3, <2>1, JobEndsKeepsInv DEF CancelledWaiting
<1>4. CASE BeginJob(j)
  <2>1. Alive(job[j])
        /\ UNCHANGED <<deviceVars, cleaner, cache, requests, caller, queueVars, nextJob,
                       scheduler, notified>>
    BY <1>4 DEF BeginJob, Alive
  <2>2. CASE SetJob(j, "abandoned") \/ SetJob(j, "error")
    <3>1. PICK q \in JobRecord : /\ job' = [job EXCEPT ![j] = q]
                                 /\ q.key = job[j].key /\ q.stage \in {"abandoned", "error"}
      BY <1>1, <2>2, SetJobFacts, StageFacts
    <3> QED
      BY <1>1, <2>1, <3>1, JobMovesKeepsInv
  <2>3. CASE /\ registry[job[j].key[1]] # NoDevice
             /\ job' = [job EXCEPT ![j].stage = "working", ![j].conn = registry[job[j].key[1]].id]
    <3> DEFINE device == registry[job[j].key[1]]
               q == [job[j] EXCEPT !.stage = "working", !.conn = device.id]
    <3>1. device.id \in 0 .. MaxConn
      BY <1>1, <2>3, LoaderFacts DEF LoaderTypeOK, RegistryTypeOK, Connection
    <3>2. job' = [job EXCEPT ![j] = q]
      BY <1>1, <2>3 DEF LoaderTypeOK
    <3> HIDE DEF device
    <3>3. q \in JobRecord /\ q.key = job[j].key /\ q.stage = "working"
      BY <1>1, <3>1, StageFacts DEF JobRecord
    <3> HIDE DEF q
    <3> QED
      BY <1>1, <2>1, <3>2, <3>3, JobMovesKeepsInv
  <2> QED
    BY <1>4, <2>2, <2>3 DEF BeginJob
<1>5. CASE JobStops(j) \/ CheckConnection(j)
  <2>1. Alive(job[j])
        /\ UNCHANGED <<deviceVars, cleaner, cache, requests, caller, queueVars, nextJob,
                       scheduler, notified>>
    BY <1>5 DEF JobStops, CheckConnection, Alive
  <2>2. PICK stage \in {"error", "abandoned", "checked"} : SetJob(j, stage)
    BY <1>5 DEF JobStops, CheckConnection
  <2>3. PICK q \in JobRecord : /\ job' = [job EXCEPT ![j] = q]
                               /\ q.key = job[j].key /\ q.stage = stage
    BY <1>1, <2>2, SetJobFacts, StageFacts
  <2> QED
    BY <1>1, <2>1, <2>2, <2>3, JobMovesKeepsInv
<1>6. CASE Store(j)
  <2>1. Alive(job[j]) /\ cache' \subseteq Key
        /\ UNCHANGED <<deviceVars, cleaner, requests, caller, queueVars, nextJob,
                       scheduler, notified>>
    BY <1>1, <1>6 DEF Store, Alive
  <2>2. PICK q \in JobRecord : /\ job' = [job EXCEPT ![j] = q]
                               /\ q.key = job[j].key /\ q.stage = "stored"
    BY <1>1, <1>6, SetJobFacts, StageFacts DEF Store
  <2> QED
    BY <2>1, <2>2, JobMovesKeepsInv
<1>7. CASE Finish(j)
  <2>1. Alive(job[j])
    BY <1>7, StageFacts DEF Finish, Alive
  <2> QED
    BY <1>7, <2>1, JobEndsKeepsInv DEF Finish
<1> QED
  BY <1>2, <1>3, <1>4, <1>5, <1>6, <1>7 DEF JobStep

LEMMA CleanerRecord ==
  ASSUME NEW R, NEW S, NEW b \in [udid : Udid, stage : S, jobs : R],
         NEW u \in Udid, NEW stage \in S, NEW js \in R
  PROVE  /\ [b EXCEPT !.udid = u, !.stage = stage] \in [udid : Udid, stage : S, jobs : R]
         /\ [b EXCEPT !.stage = stage, !.jobs = js] \in [udid : Udid, stage : S, jobs : R]
OBVIOUS

-----------------------------------------------------------------------------
LEMMA RegistryKeepsInv ==
  ASSUME LoaderInv, NEW u \in Udid, Connect(u) \/ \E c \in ConnId : Remove(u, c)
  PROVE  LoaderInv'
<1>1. LoaderTypeOK /\ UNCHANGED <<cache, requests, caller, queueVars, jobVars, scheduler, notified>>
  BY DEF LoaderInv, Connect, Remove
<1>2. RegistryTypeOK' /\ nextConnection' \in 1 .. MaxConn + 1
  <2>1. CASE Connect(u)
    <3>1. nextConnection \in ConnId /\ nextConnection' = nextConnection + 1
      BY <1>1, <2>1, MaxConnAssumption DEF Connect, ConnId, LoaderTypeOK
    <3>2. [id |-> nextConnection, wireless |-> TRUE] \in Connection
      BY <3>1 DEF Connection
    <3>3. registry' = [registry EXCEPT ![u] = [id |-> nextConnection, wireless |-> TRUE]]
      BY <2>1 DEF Connect, Insert
    <3>4. RegistryTypeOK'
      BY <1>1, <3>2, <3>3 DEF LoaderTypeOK, RegistryTypeOK
    <3> QED
      BY <3>1, <3>4, MaxConnAssumption DEF ConnId
  <2>2. CASE \E c \in ConnId : Remove(u, c)
    BY <1>1, <2>2 DEF Remove, RemoveIfCurrent, LoaderTypeOK, RegistryTypeOK
  <2> QED
    BY <2>1, <2>2
<1>3. cleaner' \in [ConnId -> [udid : Udid, stage : CleanerStage, jobs : SUBSET Job]]
  <2>1. CASE Connect(u)
    BY <1>1, <2>1 DEF Connect, LoaderTypeOK
  <2>2. ASSUME NEW c \in ConnId, Remove(u, c)
        PROVE  cleaner' \in [ConnId -> [udid : Udid, stage : CleanerStage, jobs : SUBSET Job]]
    <3> DEFINE q == [cleaner[c] EXCEPT !.udid = u, !.stage = "cancel"]
    <3>0. cleaner[c] \in [udid : Udid, stage : CleanerStage, jobs : SUBSET Job]
      BY <1>1 DEF LoaderTypeOK
    <3>1. q \in [udid : Udid, stage : CleanerStage, jobs : SUBSET Job]
      BY <3>0, CleanerRecord DEF CleanerStage
    <3>2. cleaner' = [cleaner EXCEPT ![c] = q]
      BY <1>1, <2>2 DEF Remove, LoaderTypeOK
    <3> QED
      BY <1>1, <3>1, <3>2 DEF LoaderTypeOK
  <2> QED
    BY <2>1, <2>2
<1>4. LoaderTypeOK'
  BY <1>1, <1>2, <1>3 DEF LoaderTypeOK, queueVars, jobVars
<1> QED
  BY <1>1, <1>4, StillKeepsInv

LEMMA CleanerFacts ==
  ASSUME LoaderTypeOK, NEW c \in ConnId, NEW stage \in CleanerStage, NEW js \in SUBSET Job,
         cleaner' = [cleaner EXCEPT ![c].stage = stage, ![c].jobs = js]
  PROVE  cleaner' \in [ConnId -> [udid : Udid, stage : CleanerStage, jobs : SUBSET Job]]
<1> DEFINE q == [cleaner[c] EXCEPT !.stage = stage, !.jobs = js]
<1>0. cleaner[c] \in [udid : Udid, stage : CleanerStage, jobs : SUBSET Job]
  BY DEF LoaderTypeOK
<1>1. q \in [udid : Udid, stage : CleanerStage, jobs : SUBSET Job]
  BY <1>0, CleanerRecord
<1>2. cleaner' = [cleaner EXCEPT ![c] = q]
  BY DEF LoaderTypeOK
<1> QED
  BY <1>1, <1>2 DEF LoaderTypeOK

LEMMA CancelForUdidKeepsInv ==
  ASSUME LoaderInv, NEW c \in ConnId, CancelForUdid(c) PROVE LoaderInv'
<1> DEFINE mine == {k \in Key : k[1] = cleaner[c].udid}
<1>1. LoaderTypeOK
      /\ UNCHANGED <<deviceVars, cache, requests, caller, inFlight, joined, jobVars,
                     scheduler, notified>>
      /\ pq' = pq \ mine
      /\ payloads' = [k \in Key |-> IF k \in mine THEN {} ELSE payloads[k]]
  BY DEF LoaderInv, CancelForUdid
<1>2. cleaner' \in [ConnId -> [udid : Udid, stage : CleanerStage, jobs : SUBSET Job]]
  <2>1. {inFlight[k] : k \in mine} \ {0} \in SUBSET Job
    BY <1>1, LoaderFacts DEF LoaderTypeOK
  <2>2. "flag" \in CleanerStage
    BY DEF CleanerStage
  <2> QED
    BY <1>1, <2>1, <2>2, CleanerFacts DEF CancelForUdid
<1> HIDE DEF mine
<1>3. payloads' \in [Key -> SUBSET Payload] /\ pq' \subseteq Key
  BY <1>1 DEF LoaderTypeOK
<1>4. LoaderTypeOK'
  BY <1>1, <1>2, <1>3 DEF LoaderTypeOK, RegistryTypeOK, deviceVars, jobVars
<1>5. QueueConsistent'
  BY <1>1 DEF LoaderInv, QueueConsistent
<1>6. FlightAlive' /\ AliveInFlight'
  BY <1>1 DEF LoaderInv, FlightAlive, AliveInFlight, Alive, jobVars
<1>7. JobsCounted'
  <2>1. IsFiniteSet(pq) /\ pq' \subseteq pq
    BY <1>1 DEF LoaderInv, JobsCounted
  <2>2. IsFiniteSet(pq') /\ Cardinality(pq') <= Cardinality(pq)
        /\ Cardinality(pq) \in Nat /\ Cardinality(pq') \in Nat
    BY <2>1, FS_Subset, FS_CardinalityType
  <2> QED
    BY <1>1, <2>2 DEF LoaderInv, JobsCounted, LoaderTypeOK, jobVars
<1> QED
  BY <1>4, <1>5, <1>6, <1>7 DEF LoaderInv

LEMMA CancelTokensKeepsInv ==
  ASSUME LoaderInv, NEW c \in ConnId, CancelTokens(c) PROVE LoaderInv'
<1>1. LoaderTypeOK
      /\ UNCHANGED <<deviceVars, cache, requests, caller, queueVars, nextJob, scheduler, notified>>
  BY DEF LoaderInv, CancelTokens
<1>2. cleaner' \in [ConnId -> [udid : Udid, stage : CleanerStage, jobs : SUBSET Job]]
  <2>1. "streams" \in CleanerStage /\ {} \in SUBSET Job
    BY DEF CleanerStage
  <2> QED
    BY <1>1, <2>1, CleanerFacts DEF CancelTokens
<1>3. \A j \in Job : /\ job'[j] \in JobRecord
                     /\ job'[j].key = job[j].key /\ job'[j].stage = job[j].stage
  <2> SUFFICES ASSUME NEW j \in Job
               PROVE  /\ job'[j] \in JobRecord
                      /\ job'[j].key = job[j].key /\ job'[j].stage = job[j].stage
    OBVIOUS
  <2> DEFINE b == job[j].cancelled \/ (j \in cleaner[c].jobs /\ job[j].stage # "over")
  <2>1. job'[j] = [job[j] EXCEPT !.cancelled = b]
    BY DEF CancelTokens
  <2>2. b \in BOOLEAN
    OBVIOUS
  <2> HIDE DEF b
  <2> QED
    BY <1>1, <2>1, <2>2 DEF LoaderTypeOK, JobRecord
<1>4. job' \in [Job -> JobRecord]
  BY <1>3 DEF CancelTokens
<1>5. LoaderTypeOK'
  BY <1>1, <1>2, <1>4 DEF LoaderTypeOK, RegistryTypeOK, JobRecord, deviceVars, queueVars
<1>6. \A j \in Job : job'[j].key = job[j].key /\ (Alive(job'[j]) <=> Alive(job[j]))
  BY <1>3 DEF Alive
<1> QED
  BY <1>1, <1>5, <1>6, QuietKeepsInv

LEMMA ClearCacheKeepsInv ==
  ASSUME LoaderInv, NEW c \in ConnId, ClearCache(c) PROVE LoaderInv'
<1>1. LoaderTypeOK /\ UNCHANGED <<deviceVars, requests, caller, queueVars, jobVars, scheduler, notified>>
  BY DEF LoaderInv, ClearCache
<1>2. cache' \subseteq Key
  BY <1>1 DEF ClearCache, LoaderTypeOK
<1>3. cleaner' \in [ConnId -> [udid : Udid, stage : CleanerStage, jobs : SUBSET Job]]
  BY <1>1 DEF ClearCache, LoaderTypeOK, CleanerStage
<1>4. LoaderTypeOK'
  BY <1>1, <1>2, <1>3 DEF LoaderTypeOK, RegistryTypeOK, deviceVars, queueVars, jobVars
<1> QED
  BY <1>1, <1>4, StillKeepsInv

-----------------------------------------------------------------------------
LEMMA LoaderStep == LoaderInv /\ [LoaderNext]_loaderVars => LoaderInv'
<1> SUFFICES ASSUME LoaderInv, [LoaderNext]_loaderVars PROVE LoaderInv'
  OBVIOUS
<1>1. CASE UNCHANGED loaderVars
  <2>1. LoaderTypeOK'
    BY <1>1 DEF LoaderInv, loaderVars, LoaderTypeOK, RegistryTypeOK, deviceVars, queueVars, jobVars
  <2> QED
    BY <1>1, <2>1, StillKeepsInv DEF loaderVars
<1>2. CASE NotifyOne \/ PopNothing \/ AwaitNotify
  BY <1>2, WaitingKeepsInv
<1>3. CASE \E k \in Key : Request(k)
  BY <1>3, RequestKeepsInv
<1>4. CASE \E k \in Key : PopNext(k)
  BY <1>4, PopNextKeepsInv
<1>5. CASE \E j \in Job : JobStep(j) \/ AcquirePermit(j) \/ CancelledWaiting(j)
  BY <1>5, JobStepKeepsInv
<1>6. CASE \E c \in ConnId : CleanerStep(c)
  BY <1>6, CancelForUdidKeepsInv, CancelTokensKeepsInv, ClearCacheKeepsInv DEF CleanerStep
<1>7. CASE \E u \in Udid : Connect(u) \/ \E c \in ConnId : Remove(u, c)
  BY <1>7, RegistryKeepsInv
<1> QED
  BY <1>1, <1>2, <1>3, <1>4, <1>5, <1>6, <1>7 DEF LoaderNext, SchedulerStep

LEMMA LoaderAlways == LoaderSpec => []LoaderInv
BY LoaderInitial, LoaderStep, PTL DEF LoaderSpec

(* Every variable keeps its type: above all, no job is spawned past those  *)
(* the requests account for.                                               *)
THEOREM LoaderTypes == LoaderSpec => []LoaderTypeOK
<1>1. LoaderInv => LoaderTypeOK
  BY DEF LoaderInv
<1> QED
  BY <1>1, LoaderAlways, PTL

(* The queue, the waiting payloads and the jobs in flight agree, whatever  *)
(* is asked for, joined and cancelled between two steps of a job: so the   *)
(* scheduler never meets a key without payloads, which would stop it.      *)
THEOREM QueueStaysConsistent == LoaderSpec => []QueueConsistent
<1>1. LoaderInv => QueueConsistent
  BY DEF LoaderInv
<1> QED
  BY <1>1, LoaderAlways, PTL

LEMMA InvOwnEntry == LoaderInv => OwnEntry
<1> SUFFICES ASSUME LoaderInv, NEW j \in Job
             PROVE  Alive(job[j]) <=> j < nextJob /\ \E k \in Key : inFlight[k] = j /\ job[j].key = k
  BY DEF OwnEntry, Alive
<1>1. job[j].key \in Key /\ j # 0
  BY LoaderFacts DEF LoaderInv, LoaderTypeOK
<1>2. ASSUME Alive(job[j]) PROVE inFlight[job[j].key] = j /\ j < nextJob
  BY <1>1, <1>2 DEF LoaderInv, AliveInFlight, FlightAlive
<1>3. ASSUME NEW k \in Key, inFlight[k] = j PROVE Alive(job[j])
  BY <1>1, <1>3 DEF LoaderInv, FlightAlive
<1> QED
  BY <1>1, <1>2, <1>3

(* A job that ends takes its own entry and no other: of all the jobs ever  *)
(* spawned for a key, the one in flight is the one that is not over.       *)
THEOREM EntriesAreOwn == LoaderSpec => []OwnEntry
BY InvOwnEntry, LoaderAlways, PTL

-----------------------------------------------------------------------------
(* Wakeups and permits: what RequestsSettle rests on at every moment.      *)

(* No wakeup is lost: when keys wait while run is between its look at the  *)
(* empty queue and its sleep, or asleep, a notification is there or still  *)
(* to be given (enqueue gives it after the mutex, src/image_loader.rs:117).*)
WakeupKept ==
  pq # {} /\ scheduler \in {"empty", "asleep"} => notified \/ caller = "notify"

(* run waits for the permit of one job, and of the one it took last.       *)
Waits(j) == job[j].stage = "permit"

OneWaits ==
  /\ \A j \in Job : Waits(j) => scheduler = "permit"
  /\ scheduler = "permit" => \E j \in Job : Waits(j)
  /\ \A i, j \in Job : Waits(i) /\ Waits(j) => i = j

(* No more jobs read from devices at once than the pool has permits.       *)
Holders == {j \in Job : Spawned(j)}

PermitsKept == IsFiniteSet(Holders) /\ Cardinality(Holders) <= Permits

PoolInv == WakeupKept /\ OneWaits /\ PermitsKept

LEMMA PoolInitial == LoaderInit => PoolInv
<1> SUFFICES ASSUME LoaderInit PROVE PoolInv
  OBVIOUS
<1>1. Holders = {} /\ \A j \in Job : ~Waits(j)
  BY StageFacts DEF LoaderInit, Holders, Spawned, Waits
<1>2. IsFiniteSet(Holders) /\ Cardinality(Holders) = 0
  BY <1>1, FS_EmptySet
<1>3. PermitsKept
  BY <1>2, LoaderAssumption DEF PermitsKept
<1>4. WakeupKept /\ OneWaits
  BY <1>1 DEF LoaderInit, WakeupKept, OneWaits
<1> QED
  BY <1>3, <1>4 DEF PoolInv

(* Permits are kept when no job takes one.                                 *)
LEMMA NoneTakesPermit ==
  ASSUME PermitsKept, \A j \in Job : Spawned(j)' => Spawned(j) PROVE PermitsKept'
<1>1. Holders' \subseteq Holders
  BY DEF Holders
<1>2. /\ IsFiniteSet(Holders') /\ Cardinality(Holders') <= Cardinality(Holders)
      /\ Cardinality(Holders) \in Nat /\ Cardinality(Holders') \in Nat
  BY <1>1, FS_Subset, FS_CardinalityType DEF PermitsKept
<1> QED
  BY <1>2, LoaderAssumption DEF PermitsKept

(* A step that moves no job between the stages these speak of.             *)
LEMMA StagesStayKeepsPool ==
  ASSUME PoolInv, WakeupKept', scheduler' = "permit" <=> scheduler = "permit",
         \A j \in Job : (Waits(j)' <=> Waits(j)) /\ (Spawned(j)' => Spawned(j))
  PROVE  PoolInv'
<1>1. OneWaits'
  BY DEF PoolInv, OneWaits
<1> QED
  BY <1>1, NoneTakesPermit DEF PoolInv

LEMMA QueueStepKeepsPool ==
  ASSUME PoolInv, UNCHANGED jobVars,
         \/ NotifyOne \/ PopNothing \/ AwaitNotify
         \/ \E k \in Key : Request(k)
         \/ \E c \in ConnId : CancelForUdid(c) \/ ClearCache(c)
         \/ \E u \in Udid : Connect(u) \/ \E c \in ConnId : Remove(u, c)
         \/ UNCHANGED loaderVars
  PROVE  PoolInv'
<1>1. \A j \in Job : (Waits(j)' <=> Waits(j)) /\ (Spawned(j)' => Spawned(j))
  BY DEF jobVars, Waits, Spawned
<1>2. WakeupKept
  BY DEF PoolInv
<1>3. ASSUME NotifyOne \/ PopNothing \/ AwaitNotify
      PROVE  WakeupKept' /\ (scheduler' = "permit" <=> scheduler = "permit")
  BY <1>2, <1>3 DEF WakeupKept, NotifyOne, PopNothing, AwaitNotify, queueVars
<1>4. ASSUME \E k \in Key : Request(k)
      PROVE  WakeupKept' /\ (scheduler' = "permit" <=> scheduler = "permit")
  BY <1>2, <1>4 DEF WakeupKept, Request
<1>5. ASSUME NEW c \in ConnId, CancelForUdid(c) \/ ClearCache(c)
      PROVE  WakeupKept' /\ (scheduler' = "permit" <=> scheduler = "permit")
  BY <1>2, <1>5 DEF WakeupKept, CancelForUdid, ClearCache, queueVars
<1>6. ASSUME NEW u \in Udid, Connect(u) \/ \E c \in ConnId : Remove(u, c)
      PROVE  WakeupKept' /\ (scheduler' = "permit" <=> scheduler = "permit")
  BY <1>2, <1>6 DEF WakeupKept, Connect, Remove, queueVars
<1>7. ASSUME UNCHANGED loaderVars
      PROVE  WakeupKept' /\ (scheduler' = "permit" <=> scheduler = "permit")
  BY <1>2, <1>7 DEF WakeupKept, loaderVars, queueVars
<1> QED
  BY <1>1, <1>3, <1>4, <1>5, <1>6, <1>7, StagesStayKeepsPool

(* The count leaves a number for the job of a queued key.                  *)
LEMMA NextJobFree == ASSUME LoaderInv, NEW k \in pq PROVE nextJob \in Job
<1>1. IsFiniteSet(pq) /\ Cardinality(pq) \in Nat /\ Cardinality(pq \ {k}) \in Nat
      /\ Cardinality(pq \ {k}) = Cardinality(pq) - 1
  BY FS_RemoveElement, FS_CardinalityType DEF LoaderInv, JobsCounted
<1>2. /\ nextJob \in 1 .. MaxRequest + 1 /\ requests \in 0 .. MaxRequest
      /\ nextJob - 1 + Cardinality(pq) <= requests
  BY DEF LoaderInv, JobsCounted, LoaderTypeOK
<1> QED
  BY <1>1, <1>2, LoaderAssumption DEF Job

LEMMA PopNextKeepsPool ==
  ASSUME LoaderInv, PoolInv, NEW k \in Key, PopNext(k) PROVE PoolInv'
<1>1. nextJob \in Job
  BY NextJobFree DEF PopNext
<1>2. \A j \in Job : job'[j].stage = IF j = nextJob THEN "permit" ELSE job[j].stage
  <2>1. job \in [Job -> JobRecord]
    BY DEF LoaderInv, LoaderTypeOK, JobRecord
  <2> QED
    BY <1>1, <2>1 DEF PopNext, JobRecord
<1>3. \A j \in Job : ~Waits(j)
  BY DEF PoolInv, OneWaits, PopNext
<1>4. \A j \in Job : (Waits(j)' <=> j = nextJob) /\ (Spawned(j)' => Spawned(j))
  BY <1>2, <1>3, StageFacts DEF Waits, Spawned
<1>5. scheduler' = "permit"
  BY DEF PopNext
<1>6. OneWaits'
  BY <1>1, <1>4, <1>5 DEF OneWaits
<1>7. WakeupKept'
  BY <1>5 DEF WakeupKept
<1> QED
  BY <1>4, <1>6, <1>7, NoneTakesPermit DEF PoolInv

(* The stages after one job moved.                                         *)
LEMMA StageAfter ==
  ASSUME LoaderInv, NEW j \in Job, NEW q, job' = [job EXCEPT ![j] = q]
  PROVE  job'[j] = q /\ \A i \in Job : i # j => job'[i] = job[i]
BY DEF LoaderInv, LoaderTypeOK

LEMMA StageSet ==
  ASSUME LoaderInv, NEW j \in Job, NEW stage \in JobStage, SetJob(j, stage)
  PROVE  job'[j].stage = stage /\ \A i \in Job : i # j => job'[i] = job[i]
BY SetJobFacts, StageAfter DEF LoaderInv

LEMMA StageOver ==
  ASSUME LoaderInv, NEW j \in Job, EndJob(j)
  PROVE  job'[j].stage = "over" /\ \A i \in Job : i # j => job'[i] = job[i]
<1> DEFINE q == [job[j] EXCEPT !.stage = "over", !.conn = 0, !.cancelled = FALSE]
<1>1. job[j] \in JobRecord
  BY DEF LoaderInv, LoaderTypeOK, JobRecord
<1>2. q.stage = "over"
  BY <1>1 DEF JobRecord
<1>3. job' = [job EXCEPT ![j] = q]
  BY DEF EndJob, LoaderInv, LoaderTypeOK
<1> HIDE DEF q
<1> QED
  BY <1>2, <1>3, StageAfter

LEMMA StageStarted ==
  ASSUME LoaderInv, NEW j \in Job, JobStep(j)
  PROVE  /\ \A i \in Job : i # j => job'[i] = job[i]
         /\ Spawned(j) /\ ~Waits(j) /\ ~Waits(j)'
         /\ UNCHANGED <<pq, caller, scheduler, notified>>
<1>1. job[j] \in JobRecord
  BY DEF LoaderInv, LoaderTypeOK, JobRecord
<1>2. Spawned(j) /\ ~Waits(j)
  BY StageFacts DEF Spawned, Waits, JobStep, BeginJob, JobStops, CheckConnection, Store, Finish
<1>3. UNCHANGED <<pq, caller, scheduler, notified>>
  BY DEF JobStep, BeginJob, JobStops, CheckConnection, Store, Finish, queueVars
<1>4. CASE EndJob(j)
  BY <1>2, <1>3, <1>4, StageOver DEF Waits
<1>5. CASE \E stage \in {"error", "abandoned", "checked", "stored"} : SetJob(j, stage)
  BY <1>2, <1>3, <1>5, StageSet, StageFacts DEF Waits
<1>6. CASE job' = [job EXCEPT ![j].stage = "working", ![j].conn = registry[job[j].key[1]].id]
  <2> DEFINE q == [job[j] EXCEPT !.stage = "working", !.conn = registry[job[j].key[1]].id]
  <2>1. q.stage = "working"
    BY <1>1 DEF JobRecord
  <2>2. job' = [job EXCEPT ![j] = q]
    BY <1>6 DEF LoaderInv, LoaderTypeOK
  <2> HIDE DEF q
  <2> QED
    BY <1>2, <1>3, <2>1, <2>2, StageAfter DEF Waits
<1>7. CASE BeginJob(j)
  BY <1>5, <1>6, <1>7 DEF BeginJob
<1>8. CASE JobStops(j) \/ CheckConnection(j) \/ Store(j)
  BY <1>5, <1>8 DEF JobStops, CheckConnection, Store
<1>9. CASE Finish(j)
  BY <1>4, <1>9 DEF Finish
<1> QED
  BY <1>7, <1>8, <1>9 DEF JobStep

LEMMA JobStepKeepsPool ==
  ASSUME LoaderInv, PoolInv, NEW j \in Job,
         JobStep(j) \/ AcquirePermit(j) \/ CancelledWaiting(j)
  PROVE  PoolInv'
<1>1. /\ \A i \in Job : i # j => job'[i] = job[i]
      /\ AcquirePermit(j) => job'[j].stage = "spawned"
      /\ CancelledWaiting(j) => job'[j].stage = "over"
  <2>1. AcquirePermit(j) => SetJob(j, "spawned")
    BY DEF AcquirePermit
  <2>2. CancelledWaiting(j) => EndJob(j)
    BY DEF CancelledWaiting
  <2>3. AcquirePermit(j) =>
          job'[j].stage = "spawned" /\ \A i \in Job : i # j => job'[i] = job[i]
    BY <2>1, StageSet, StageFacts
  <2>4. CancelledWaiting(j) =>
          job'[j].stage = "over" /\ \A i \in Job : i # j => job'[i] = job[i]
    BY <2>2, StageOver
  <2>5. JobStep(j) => \A i \in Job : i # j => job'[i] = job[i]
    BY StageStarted
  <2> QED
    BY <2>3, <2>4, <2>5
<1>2. \A i \in Job : i # j => (Waits(i)' <=> Waits(i)) /\ (Spawned(i)' <=> Spawned(i))
  BY <1>1 DEF Waits, Spawned
<1>3. CASE JobStep(j)
  <2>1. /\ Spawned(j) /\ ~Waits(j) /\ ~Waits(j)'
        /\ UNCHANGED <<pq, caller, scheduler, notified>>
    BY <1>3, StageStarted
  <2>2. WakeupKept'
    BY <2>1 DEF PoolInv, WakeupKept
  <2> QED
    BY <1>2, <2>1, <2>2, StagesStayKeepsPool
<1>4. CASE AcquirePermit(j) \/ CancelledWaiting(j)
  <2>1. scheduler' = "ready" /\ Waits(j) /\ ~Waits(j)'
    BY <1>1, <1>4 DEF AcquirePermit, CancelledWaiting, Waits
  <2>2. \A i \in Job : ~Waits(i)'
    BY <1>2, <2>1 DEF PoolInv, OneWaits
  <2>3. OneWaits' /\ WakeupKept'
    BY <2>1, <2>2 DEF OneWaits, WakeupKept
  <2>4. CASE CancelledWaiting(j)
    <3>1. ~Spawned(j)'
      BY <1>1, <2>4, StageFacts DEF Spawned
    <3> QED
      BY <1>2, <2>3, <3>1, NoneTakesPermit DEF PoolInv
  <2>5. CASE AcquirePermit(j)
    <3>1. Holders' \subseteq Holders \cup {j}
      BY <1>2 DEF Holders
    <3>2. IsFiniteSet(Holders) /\ Cardinality(Holders) < Permits /\ Cardinality(Holders) \in Nat
      BY <2>5, FS_CardinalityType DEF AcquirePermit, HasPermit, Holders, PoolInv, PermitsKept
    <3>3. /\ IsFiniteSet(Holders \cup {j})
          /\ Cardinality(Holders \cup {j}) \in Nat
          /\ Cardinality(Holders \cup {j}) <= Cardinality(Holders) + 1
      BY <3>2, FS_AddElement, FS_CardinalityType
    <3>4. /\ IsFiniteSet(Holders') /\ Cardinality(Holders') \in Nat
          /\ Cardinality(Holders') <= Cardinality(Holders \cup {j})
      BY <3>1, <3>3, FS_Subset, FS_CardinalityType
    <3>5. PermitsKept'
      BY <3>2, <3>3, <3>4, LoaderAssumption DEF PermitsKept
    <3> QED
      BY <2>3, <3>5 DEF PoolInv
  <2> QED
    BY <1>4, <2>4, <2>5
<1> QED
  BY <1>3, <1>4

LEMMA CancelTokensKeepsPool ==
  ASSUME LoaderInv, PoolInv, NEW c \in ConnId, CancelTokens(c) PROVE PoolInv'
<1>1. \A j \in Job : job'[j].stage = job[j].stage
  <2> SUFFICES ASSUME NEW j \in Job PROVE job'[j].stage = job[j].stage
    OBVIOUS
  <2> DEFINE b == job[j].cancelled \/ (j \in cleaner[c].jobs /\ job[j].stage # "over")
  <2>1. job'[j] = [job[j] EXCEPT !.cancelled = b]
    BY DEF CancelTokens
  <2>2. job[j] \in JobRecord
    BY DEF LoaderInv, LoaderTypeOK, JobRecord
  <2> HIDE DEF b
  <2> QED
    BY <2>1, <2>2 DEF JobRecord
<1>2. \A j \in Job : (Waits(j)' <=> Waits(j)) /\ (Spawned(j)' => Spawned(j))
  BY <1>1 DEF Waits, Spawned
<1>3. WakeupKept' /\ scheduler' = scheduler
  BY DEF CancelTokens, PoolInv, WakeupKept, queueVars
<1> QED
  BY <1>2, <1>3, StagesStayKeepsPool

LEMMA PoolStep == LoaderInv /\ PoolInv /\ [LoaderNext]_loaderVars => PoolInv'
<1> SUFFICES ASSUME LoaderInv, PoolInv, [LoaderNext]_loaderVars PROVE PoolInv'
  OBVIOUS
<1> DEFINE Outside ==
             \/ NotifyOne \/ PopNothing \/ AwaitNotify
             \/ \E k \in Key : Request(k)
             \/ \E c \in ConnId : CancelForUdid(c) \/ ClearCache(c)
             \/ \E u \in Udid : Connect(u) \/ \E c \in ConnId : Remove(u, c)
             \/ UNCHANGED loaderVars
<1>1. CASE Outside
  <2>1. UNCHANGED jobVars
    BY <1>1 DEF NotifyOne, PopNothing, AwaitNotify, Request, CancelForUdid, ClearCache,
                Connect, Remove, loaderVars, jobVars
  <2> QED
    BY <1>1, <2>1, QueueStepKeepsPool
<1>2. CASE \E k \in Key : PopNext(k)
  BY <1>2, PopNextKeepsPool
<1>3. CASE \E j \in Job : JobStep(j) \/ AcquirePermit(j) \/ CancelledWaiting(j)
  BY <1>3, JobStepKeepsPool
<1>4. CASE \E c \in ConnId : CancelTokens(c)
  BY <1>4, CancelTokensKeepsPool
<1> QED
  BY <1>1, <1>2, <1>3, <1>4 DEF LoaderNext, SchedulerStep, CleanerStep

LEMMA PoolAlways == LoaderSpec => []PoolInv
BY LoaderInitial, LoaderStep, PoolInitial, PoolStep, PTL DEF LoaderSpec

(* A request that comes between the scheduler's look at the empty queue    *)
(* and its wait is not left behind: the permit of notify_one, or the call  *)
(* that still gives it, is there whenever run would sleep over a key.      *)
THEOREM WakeupsAreKept == LoaderSpec => []WakeupKept
<1>1. PoolInv => WakeupKept
  BY DEF PoolInv
<1> QED
  BY <1>1, PoolAlways, PTL

(* The pool's permits bound the jobs that talk to devices, however jobs    *)
(* are cancelled and end.                                                  *)
THEOREM PermitsAreKept == LoaderSpec => []PermitsKept
<1>1. PoolInv => PermitsKept
  BY DEF PoolInv
<1> QED
  BY <1>1, PoolAlways, PTL

-----------------------------------------------------------------------------
(* The previews.                                                           *)

Reads(r) == producer[r].stage \in {"opened", "reading", "sending", "closing"}

(* Between taking the mutex and giving it back, a producer is its holder.  *)
HolderReads ==
  \A r \in MediaRequest : producer[r].stage = "opening" \/ Reads(r) => afcHolder = r

(* A descriptor is open only in those stages that end in closing it.       *)
DescriptorsRead == \A r \in descriptors : Reads(r)

(* A chunk that waits for room was counted.                                *)
SendingHasChunk == \A r \in MediaRequest : producer[r].stage = "sending" => producer[r].left > 0

MediaInv ==
  /\ MediaTypeOK
  /\ HolderReads
  /\ DescriptorsRead
  /\ SendingHasChunk

-----------------------------------------------------------------------------
LEMMA RequestFacts ==
  ASSUME MediaTypeOK
  PROVE  /\ \A r \in MediaRequest : /\ r \in Nat /\ r > 0 /\ r \in 0 .. MaxMediaRequest
                                    /\ producer[r] \in Producer
         /\ 0 \in 0 .. MaxMediaRequest
BY MediaAssumption DEF MediaTypeOK, MediaRequest

LEMMA CountFacts ==
  /\ 0 \in 0 .. MaxBody /\ 0 \in 0 .. ChannelCapacity /\ MaxBody \in 0 .. MaxBody
  /\ \A n \in 0 .. MaxBody : n > 0 => n - 1 \in 0 .. MaxBody
  /\ \A n \in 0 .. ChannelCapacity : /\ n > 0 => n - 1 \in 0 .. ChannelCapacity
                                     /\ n < ChannelCapacity => n + 1 \in 0 .. ChannelCapacity
BY MediaAssumption

LEMMA MediaInitial == MediaInit => MediaInv
<1> SUFFICES ASSUME MediaInit PROVE MediaInv
  OBVIOUS
<1>1. [preview |-> "nobody", stage |-> "unused", left |-> 0, sent |-> 0, open |-> FALSE]
        \in Producer
  BY CountFacts DEF Producer, ProducerStage
<1>2. MediaTypeOK
  BY <1>1, MediaAssumption DEF MediaInit, MediaTypeOK, WindowStage
<1>3. \A r \in MediaRequest : producer[r].stage = "unused"
  BY DEF MediaInit
<1> QED
  BY <1>2, <1>3 DEF MediaInit, MediaInv, HolderReads, DescriptorsRead, SendingHasChunk, Reads

(* A step of the windows, the table or the removal, which moves no         *)
(* producer: at most connections close, or a producer begins to wait.      *)
LEMMA OutsideKeepsInv ==
  ASSUME MediaInv, MediaTypeOK',
         \A r \in MediaRequest :
           \/ producer'[r].stage = producer[r].stage /\ producer'[r].left = producer[r].left
           \/ producer[r].stage = "unused" /\ producer'[r].stage = "waiting",
         UNCHANGED <<afcHolder, descriptors>>
  PROVE  MediaInv'
<1>1. \A r \in MediaRequest : Reads(r) <=> Reads(r)'
  BY DEF Reads
<1>2. HolderReads'
  BY <1>1 DEF MediaInv, HolderReads
<1>3. DescriptorsRead'
  BY <1>1 DEF MediaInv, DescriptorsRead, MediaTypeOK
<1>4. SendingHasChunk'
  BY DEF MediaInv, SendingHasChunk
<1> QED
  BY <1>2, <1>3, <1>4 DEF MediaInv

(* Everything the producers share is left alone.                           *)
OthersKept == UNCHANGED <<present, cleaning, draining, window, videoStreams, cancelled, releasing>>

-----------------------------------------------------------------------------
LEMMA WindowsKeepInv ==
  ASSUME MediaInv, NEW p \in Preview,
         \/ StartVideoStream(p) \/ SessionStarts(p) \/ StoreSession(p)
         \/ PauseOrPlay(p) \/ ReleaseVideoStream(p)
  PROVE  MediaInv'
<1>1. MediaTypeOK
  BY DEF MediaInv
<1>2. UNCHANGED <<present, cleaning, draining, producer, afcHolder, descriptors>>
  BY DEF StartVideoStream, SessionStarts, StoreSession, PauseOrPlay, ReleaseVideoStream
<1>3. window' \in [Preview -> WindowStage]
  BY <1>1 DEF MediaTypeOK, WindowStage, StartVideoStream, SessionStarts, StoreSession,
              PauseOrPlay, ReleaseVideoStream
<1>4. videoStreams' \subseteq Preview /\ cancelled' \subseteq Preview /\ releasing' \subseteq Preview
  BY <1>1 DEF MediaTypeOK, StartVideoStream, SessionStarts, StoreSession,
              PauseOrPlay, ReleaseVideoStream
<1>5. MediaTypeOK'
  BY <1>1, <1>2, <1>3, <1>4 DEF MediaTypeOK
<1> QED
  BY <1>2, <1>5, OutsideKeepsInv

LEMMA CloseWindowKeepsInv ==
  ASSUME MediaInv, NEW p \in Preview, CloseWindow(p) PROVE MediaInv'
<1>1. MediaTypeOK
  BY DEF MediaInv
<1>2. /\ window' \in [Preview -> WindowStage] /\ releasing' \subseteq Preview
      /\ UNCHANGED <<present, cleaning, draining, videoStreams, cancelled, afcHolder, descriptors>>
  BY <1>1 DEF MediaTypeOK, WindowStage, CloseWindow
<1>3. producer' = [r \in MediaRequest |->
        IF producer[r].preview = p THEN [producer[r] EXCEPT !.open = FALSE, !.sent = 0]
        ELSE producer[r]]
  BY DEF CloseWindow
<1>4. ASSUME NEW r \in MediaRequest
      PROVE  /\ producer'[r] \in Producer
             /\ producer'[r].stage = producer[r].stage /\ producer'[r].left = producer[r].left
  <2>1. producer[r] \in Producer
    BY <1>1 DEF MediaTypeOK
  <2>2. [producer[r] EXCEPT !.open = FALSE, !.sent = 0] \in Producer
    BY <2>1, CountFacts DEF Producer
  <2> QED
    BY <1>3, <2>1, <2>2 DEF Producer
<1>5. producer' \in [MediaRequest -> Producer]
  BY <1>3, <1>4
<1>6. MediaTypeOK'
  BY <1>1, <1>2, <1>5 DEF MediaTypeOK
<1> QED
  BY <1>2, <1>4, <1>6, OutsideKeepsInv

LEMMA RemovalKeepsInv ==
  ASSUME MediaInv, RemovePresent \/ CleaningStep PROVE MediaInv'
<1>1. MediaTypeOK
  BY DEF MediaInv
<1>2. UNCHANGED <<window, releasing, producer, afcHolder, descriptors>>
  BY DEF RemovePresent, CleaningStep, DrainStreams, ShutDownNext, ServerEnds, CleaningEnds
<1>3. present' \in BOOLEAN /\ cleaning' \in {"no", "begin", "drain", "done"} \cup Preview
  BY <1>1 DEF MediaTypeOK, RemovePresent, CleaningStep, DrainStreams, ShutDownNext, ServerEnds,
              CleaningEnds
<1>4. /\ draining' \subseteq Preview
      /\ videoStreams' \subseteq Preview /\ cancelled' \subseteq Preview
  BY <1>1 DEF MediaTypeOK, RemovePresent, CleaningStep, DrainStreams, ShutDownNext, ServerEnds,
              CleaningEnds
<1>5. MediaTypeOK'
  BY <1>1, <1>2, <1>3, <1>4 DEF MediaTypeOK
<1> QED
  BY <1>2, <1>5, OutsideKeepsInv

LEMMA PlayerKeepsInv ==
  ASSUME MediaInv, NEW r \in MediaRequest,
         \/ DropOlder(r) \/ Consume(r) \/ ResponseEnds(r)
         \/ \E p \in Preview : AskForRange(p, r)
  PROVE  MediaInv'
<1>1. MediaTypeOK /\ producer[r] \in Producer
  BY RequestFacts DEF MediaInv
<1>2. OthersKept /\ UNCHANGED <<afcHolder, descriptors>>
  BY DEF DropOlder, Consume, ResponseEnds, AskForRange, OthersKept
<1>3. PICK q \in Producer :
        /\ producer' = [producer EXCEPT ![r] = q]
        /\ \/ q.stage = producer[r].stage /\ q.left = producer[r].left
           \/ producer[r].stage = "unused" /\ q.stage = "waiting"
  <2>1. CASE DropOlder(r)
    <3>1. [producer[r] EXCEPT !.open = FALSE, !.sent = 0] \in Producer
      BY <1>1, CountFacts DEF Producer
    <3> QED
      BY <1>1, <2>1, <3>1 DEF DropOlder, Producer
  <2>2. CASE Consume(r)
    <3>1. [producer[r] EXCEPT !.sent = @ - 1] \in Producer
      BY <1>1, <2>2, CountFacts DEF Producer, Consume
    <3> QED
      BY <1>1, <2>2, <3>1 DEF Consume, Producer
  <2>3. CASE ResponseEnds(r)
    <3>1. [producer[r] EXCEPT !.open = FALSE] \in Producer
      BY <1>1 DEF Producer
    <3> QED
      BY <1>1, <2>3, <3>1 DEF ResponseEnds, Producer
  <2>4. ASSUME NEW p \in Preview, AskForRange(p, r)
        PROVE  \E q \in Producer :
                 /\ producer' = [producer EXCEPT ![r] = q]
                 /\ producer[r].stage = "unused" /\ q.stage = "waiting"
    <3> DEFINE q == [preview |-> p, stage |-> "waiting", left |-> MaxBody, sent |-> 0, open |-> TRUE]
    <3>1. q \in Producer
      BY CountFacts DEF Producer, ProducerStage
    <3> QED
      BY <2>4, <3>1 DEF AskForRange
  <2> QED
    BY <2>1, <2>2, <2>3, <2>4
<1>4. producer' \in [MediaRequest -> Producer]
  BY <1>1, <1>3 DEF MediaTypeOK
<1>5. MediaTypeOK'
  BY <1>1, <1>2, <1>4 DEF MediaTypeOK, OthersKept
<1>6. \A k \in MediaRequest :
        \/ producer'[k].stage = producer[k].stage /\ producer'[k].left = producer[k].left
        \/ producer[k].stage = "unused" /\ producer'[k].stage = "waiting"
  BY <1>1, <1>3 DEF MediaTypeOK
<1> QED
  BY <1>2, <1>5, <1>6, OutsideKeepsInv

-----------------------------------------------------------------------------
(* One step of a producer, which holds the mutex or takes it, or ends      *)
(* without it.                                                             *)
LEMMA ProducesKeepsInv ==
  ASSUME MediaInv, NEW r \in MediaRequest, NEW q \in Producer,
         producer' = [producer EXCEPT ![r] = q], OthersKept,
         q.stage = "sending" => q.left > 0,
         afcHolder' \in {afcHolder, 0, r},
         descriptors' \subseteq descriptors \cup {r},
         \A k \in MediaRequest : k # r /\ afcHolder = k => afcHolder' = k,
         q.stage \in {"opening", "opened", "reading", "sending", "closing"} => afcHolder' = r,
         r \in descriptors' => q.stage \in {"opened", "reading", "sending", "closing"}
  PROVE  MediaInv'
<1>1. MediaTypeOK
  BY DEF MediaInv
<1>2. producer' \in [MediaRequest -> Producer] /\ producer'[r] = q
      /\ \A k \in MediaRequest : k # r => producer'[k] = producer[k]
  BY <1>1 DEF MediaTypeOK
<1>3. MediaTypeOK'
  BY <1>1, <1>2, RequestFacts DEF MediaTypeOK, OthersKept
<1>4. HolderReads'
  BY <1>2 DEF MediaInv, HolderReads, Reads
<1>5. DescriptorsRead'
  BY <1>1, <1>2 DEF MediaInv, DescriptorsRead, Reads, MediaTypeOK
<1>6. SendingHasChunk'
  BY <1>2 DEF MediaInv, SendingHasChunk
<1> QED
  BY <1>3, <1>4, <1>5, <1>6 DEF MediaInv

(* The two ways a step leaves its producer.                                *)
LEMMA ProducesFacts ==
  ASSUME MediaTypeOK, NEW r \in MediaRequest
  PROVE  /\ \A stage \in ProducerStage : Produces(r, stage) =>
              \E q \in Producer : /\ producer' = [producer EXCEPT ![r] = q] /\ OthersKept
                                  /\ q.stage = stage /\ q.left = producer[r].left
         /\ EndProducer(r) =>
              \E q \in Producer : /\ producer' = [producer EXCEPT ![r] = q] /\ OthersKept
                                  /\ q.stage = "over"
<1>1. producer[r] \in Producer
  BY RequestFacts
<1>2. ASSUME NEW stage \in ProducerStage, Produces(r, stage)
      PROVE  \E q \in Producer : /\ producer' = [producer EXCEPT ![r] = q] /\ OthersKept
                                 /\ q.stage = stage /\ q.left = producer[r].left
  <2> DEFINE q == [producer[r] EXCEPT !.stage = stage]
  <2>1. q \in Producer /\ q.stage = stage /\ q.left = producer[r].left
    BY <1>1 DEF Producer
  <2> QED
    BY <1>2, <2>1 DEF Produces, OthersKept
<1>3. ASSUME EndProducer(r)
      PROVE  \E q \in Producer : /\ producer' = [producer EXCEPT ![r] = q] /\ OthersKept
                                 /\ q.stage = "over"
  <2> DEFINE q == [producer[r] EXCEPT !.stage = "over", !.left = 0]
  <2>1. q \in Producer /\ q.stage = "over"
    BY <1>1, CountFacts DEF Producer, ProducerStage
  <2> QED
    BY <1>3, <2>1 DEF EndProducer, OthersKept
<1> QED
  BY <1>2, <1>3

LEMMA ProducerKeepsInv ==
  ASSUME MediaInv, NEW r \in MediaRequest,
         LockAfc(r) \/ OpenFile(r) \/ SeekFile(r) \/ ReadChunk(r) \/ SendChunk(r) \/ CloseFile(r)
  PROVE  MediaInv'
<1>1. MediaTypeOK /\ producer[r] \in Producer
  BY RequestFacts DEF MediaInv
<1>2. /\ r > 0 /\ r \in Nat
      /\ \A k \in MediaRequest : k # 0
  BY <1>1, RequestFacts
<1>3. /\ producer[r].stage = "opening" \/ Reads(r) => afcHolder = r
      /\ r \in descriptors => Reads(r)
  BY DEF MediaInv, HolderReads, DescriptorsRead
<1>4. {"opening", "opened", "reading", "sending", "closing", "over"} \subseteq ProducerStage
  BY DEF ProducerStage
<1>5. CASE LockAfc(r)
  <2>1. CASE afcHolder = 0 /\ afcHolder' = r /\ Produces(r, "opening") /\ descriptors' = descriptors
    <3>1. PICK q \in Producer : /\ producer' = [producer EXCEPT ![r] = q] /\ OthersKept
                                /\ q.stage = "opening"
      BY <1>1, <1>4, <2>1, ProducesFacts
    <3> QED
      BY <1>2, <1>3, <1>5, <2>1, <3>1, ProducesKeepsInv DEF LockAfc, Reads
  <2>2. CASE EndProducer(r) /\ UNCHANGED <<afcHolder, descriptors>>
    <3>1. PICK q \in Producer : /\ producer' = [producer EXCEPT ![r] = q] /\ OthersKept
                                /\ q.stage = "over"
      BY <1>1, <2>2, ProducesFacts
    <3> QED
      BY <1>2, <1>3, <1>5, <2>2, <3>1, ProducesKeepsInv DEF LockAfc, Reads
  <2> QED
    BY <1>5, <2>1, <2>2 DEF LockAfc
<1>6. CASE OpenFile(r)
  <2>1. CASE descriptors' = descriptors \cup {r} /\ Produces(r, "opened") /\ afcHolder' = afcHolder
    <3>1. PICK q \in Producer : /\ producer' = [producer EXCEPT ![r] = q] /\ OthersKept
                                /\ q.stage = "opened"
      BY <1>1, <1>4, <2>1, ProducesFacts
    <3> QED
      BY <1>2, <1>3, <1>6, <2>1, <3>1, ProducesKeepsInv DEF OpenFile
  <2>2. CASE afcHolder' = 0 /\ EndProducer(r) /\ descriptors' = descriptors
    <3>1. PICK q \in Producer : /\ producer' = [producer EXCEPT ![r] = q] /\ OthersKept
                                /\ q.stage = "over"
      BY <1>1, <2>2, ProducesFacts
    <3> QED
      BY <1>2, <1>3, <1>6, <2>2, <3>1, ProducesKeepsInv DEF OpenFile, Reads
  <2> QED
    BY <1>6, <2>1, <2>2 DEF OpenFile
<1>7. CASE SeekFile(r) \/ ReadChunk(r)
  <2>1. Reads(r) /\ UNCHANGED <<afcHolder, descriptors>>
    BY <1>7 DEF SeekFile, ReadChunk, Reads
  <2>2. PICK q \in Producer : /\ producer' = [producer EXCEPT ![r] = q] /\ OthersKept
                              /\ q.stage \in {"reading", "sending", "closing"}
                              /\ q.stage = "sending" => q.left > 0
    BY <1>1, <1>4, <1>7, ProducesFacts DEF SeekFile, ReadChunk
  <2> QED
    BY <1>2, <1>3, <2>1, <2>2, ProducesKeepsInv
<1>8. CASE SendChunk(r)
  <2>1. Reads(r) /\ UNCHANGED <<afcHolder, descriptors>> /\ producer[r].left > 0
    BY <1>8 DEF SendChunk, Reads, MediaInv, SendingHasChunk
  <2>2. PICK q \in Producer : /\ producer' = [producer EXCEPT ![r] = q] /\ OthersKept
                              /\ q.stage \in {"reading", "closing"}
    <3>1. CASE Produces(r, "closing")
      BY <1>1, <1>4, <3>1, ProducesFacts
    <3>2. CASE /\ producer[r].open /\ producer[r].sent < ChannelCapacity
               /\ producer' = [producer EXCEPT ![r].stage = "reading", ![r].left = @ - 1,
                                               ![r].sent = @ + 1]
               /\ OthersKept
      <4> DEFINE q == [producer[r] EXCEPT !.stage = "reading", !.left = @ - 1, !.sent = @ + 1]
      <4>1. q \in Producer /\ q.stage = "reading"
        BY <1>1, <2>1, <3>2, CountFacts DEF Producer, ProducerStage
      <4>2. producer' = [producer EXCEPT ![r] = q]
        BY <1>1, <3>2 DEF MediaTypeOK
      <4> QED
        BY <3>2, <4>1, <4>2
    <3> QED
      BY <1>8, <3>1, <3>2 DEF SendChunk, OthersKept
  <2> QED
    BY <1>2, <1>3, <2>1, <2>2, ProducesKeepsInv
<1>9. CASE CloseFile(r)
  <2>1. PICK q \in Producer : /\ producer' = [producer EXCEPT ![r] = q] /\ OthersKept
                              /\ q.stage = "over"
    BY <1>1, <1>9, ProducesFacts DEF CloseFile
  <2> QED
    BY <1>2, <1>3, <1>9, <2>1, ProducesKeepsInv DEF CloseFile, Reads
<1> QED
  BY <1>5, <1>6, <1>7, <1>8, <1>9

-----------------------------------------------------------------------------
LEMMA MediaStep == MediaInv /\ [MediaNext]_mediaVars => MediaInv'
<1> SUFFICES ASSUME MediaInv, [MediaNext]_mediaVars PROVE MediaInv'
  OBVIOUS
<1>1. CASE UNCHANGED mediaVars
  BY <1>1 DEF mediaVars, MediaInv, MediaTypeOK, HolderReads, DescriptorsRead, SendingHasChunk, Reads
<1>2. CASE \E p \in Preview :
             \/ StartVideoStream(p) \/ SessionStarts(p) \/ StoreSession(p)
             \/ PauseOrPlay(p) \/ CloseWindow(p) \/ ReleaseVideoStream(p)
  BY <1>2, WindowsKeepInv, CloseWindowKeepsInv
<1>3. CASE RemovePresent \/ CleaningStep
  BY <1>3, RemovalKeepsInv
<1>4. CASE \E r \in MediaRequest :
             \/ DropOlder(r) \/ Consume(r) \/ ResponseEnds(r)
             \/ \E p \in Preview : AskForRange(p, r)
  BY <1>4, PlayerKeepsInv
<1>5. CASE \E r \in MediaRequest :
             LockAfc(r) \/ OpenFile(r) \/ SeekFile(r) \/ ReadChunk(r) \/ SendChunk(r) \/ CloseFile(r)
  BY <1>5, ProducerKeepsInv
<1> QED
  BY <1>1, <1>2, <1>3, <1>4, <1>5 DEF MediaNext, ProducerStep

LEMMA MediaAlways == MediaSpec => []MediaInv
BY MediaInitial, MediaStep, PTL DEF MediaSpec

(* Every variable keeps its type: above all, the channels keep to their    *)
(* capacity and no producer sends more chunks than its range has.          *)
THEOREM MediaTypes == MediaSpec => []MediaTypeOK
<1>1. MediaInv => MediaTypeOK
  BY DEF MediaInv
<1> QED
  BY <1>1, MediaAlways, PTL

(* An open descriptor belongs to the producer that holds the AFC client.   *)
THEOREM DescriptorsAreHeld == MediaSpec => []DescriptorsHeld
<1>1. ASSUME MediaInv PROVE DescriptorsHeld
  BY <1>1 DEF MediaInv, DescriptorsHeld, DescriptorsRead, HolderReads, MediaTypeOK
<1> QED
  BY <1>1, MediaAlways, PTL

-----------------------------------------------------------------------------
(* The mutex of the AFC client has no holder but a producer that still has *)
(* a step to take before it gives it back: with HolderReads, a producer    *)
(* holds it exactly between the two.                                       *)
Holding(r) == producer[r].stage = "opening" \/ Reads(r)

HolderLives == afcHolder # 0 => afcHolder \in MediaRequest /\ Holding(afcHolder)

MutexKept == \A r \in MediaRequest : Holding(r) <=> afcHolder = r

LEMMA HoldingKept ==
  ASSUME HolderLives, afcHolder' = afcHolder,
         \A r \in MediaRequest : Holding(r) => Holding(r)'
  PROVE  HolderLives'
BY DEF HolderLives, Holding, Reads

LEMMA OutsideKeepsHolder ==
  ASSUME MediaInv, HolderLives,
         \/ \E p \in Preview :
              \/ StartVideoStream(p) \/ SessionStarts(p) \/ StoreSession(p)
              \/ PauseOrPlay(p) \/ CloseWindow(p) \/ ReleaseVideoStream(p)
         \/ RemovePresent \/ CleaningStep
         \/ UNCHANGED mediaVars
  PROVE  HolderLives'
<1>1. producer \in [MediaRequest -> Producer]
  BY DEF MediaInv, MediaTypeOK
<1>2. afcHolder' = afcHolder
  BY DEF StartVideoStream, SessionStarts, StoreSession, PauseOrPlay, CloseWindow,
         ReleaseVideoStream, RemovePresent, CleaningStep, DrainStreams, ShutDownNext, ServerEnds,
         CleaningEnds, mediaVars
<1>3. CASE producer' = producer
  BY <1>2, <1>3, HoldingKept DEF Holding, Reads
<1>4. CASE \E p \in Preview : CloseWindow(p)
  <2>1. PICK p \in Preview : CloseWindow(p)
    BY <1>4
  <2>2. ASSUME NEW r \in MediaRequest PROVE producer'[r].stage = producer[r].stage
    <3>1. producer[r] \in Producer
      BY <1>1
    <3>2. [producer[r] EXCEPT !.open = FALSE, !.sent = 0].stage = producer[r].stage
      BY <3>1 DEF Producer
    <3>3. producer'[r] \in {producer[r], [producer[r] EXCEPT !.open = FALSE, !.sent = 0]}
      BY <2>1 DEF CloseWindow
    <3> QED
      BY <3>2, <3>3
  <2> QED
    BY <1>2, <2>2, HoldingKept DEF Holding, Reads
<1> QED
  BY <1>3, <1>4 DEF StartVideoStream, SessionStarts, StoreSession, PauseOrPlay,
         ReleaseVideoStream, RemovePresent, CleaningStep, DrainStreams, ShutDownNext, ServerEnds,
         CleaningEnds, mediaVars

LEMMA PlayersKeepHolder ==
  ASSUME MediaInv, HolderLives, NEW r \in MediaRequest,
         \/ DropOlder(r) \/ Consume(r) \/ ResponseEnds(r)
         \/ \E p \in Preview : AskForRange(p, r)
  PROVE  HolderLives'
<1>1. producer \in [MediaRequest -> Producer] /\ producer[r] \in Producer
  BY DEF MediaInv, MediaTypeOK
<1>2. afcHolder' = afcHolder
  BY DEF DropOlder, Consume, ResponseEnds, AskForRange
<1>3. \A s \in MediaRequest : s # r => producer'[s] = producer[s]
  BY <1>1 DEF DropOlder, Consume, ResponseEnds, AskForRange
<1>4. Holding(r) => producer'[r].stage = producer[r].stage
  BY <1>1 DEF DropOlder, Consume, ResponseEnds, AskForRange, Producer, Holding, Reads
<1> QED
  BY <1>2, <1>3, <1>4, HoldingKept DEF Holding, Reads

LEMMA ProducerKeepsHolder ==
  ASSUME MediaInv, HolderLives, NEW r \in MediaRequest,
         LockAfc(r) \/ OpenFile(r) \/ SeekFile(r) \/ ReadChunk(r) \/ SendChunk(r) \/ CloseFile(r)
  PROVE  HolderLives'
<1>1. producer \in [MediaRequest -> Producer] /\ producer[r] \in Producer
  BY DEF MediaInv, MediaTypeOK
<1>2. ASSUME NEW stage, Produces(r, stage)
      PROVE  producer'[r].stage = stage
             /\ \A s \in MediaRequest : s # r => producer'[s] = producer[s]
  BY <1>1, <1>2 DEF Produces, Producer
<1>3. CASE LockAfc(r)
  <2>1. CASE afcHolder' = r /\ Produces(r, "opening")
    BY <1>2, <2>1 DEF HolderLives, Holding
  <2>2. CASE EndProducer(r) /\ UNCHANGED afcHolder
    <3>1. \A s \in MediaRequest : s # r => producer'[s] = producer[s]
      BY <1>1, <2>2 DEF EndProducer
    <3>2. ~Holding(r)
      BY <1>3 DEF LockAfc, Holding, Reads
    <3> QED
      BY <2>2, <3>1, <3>2, HoldingKept DEF Holding, Reads
  <2> QED
    BY <1>3, <2>1, <2>2 DEF LockAfc
<1>4. CASE afcHolder' = 0
  BY <1>4 DEF HolderLives
<1>5. CASE OpenFile(r) \/ SeekFile(r) \/ ReadChunk(r) \/ SendChunk(r)
  <2>1. CASE UNCHANGED afcHolder /\
             \E stage \in {"opened", "reading", "sending", "closing"} : Produces(r, stage)
    BY <1>2, <2>1, HoldingKept DEF Holding, Reads
  <2>2. CASE UNCHANGED afcHolder /\
             producer' = [producer EXCEPT ![r].stage = "reading",
                                          ![r].left = producer[r].left - 1,
                                          ![r].sent = producer[r].sent + 1]
    <3>1. producer'[r].stage = "reading"
          /\ \A s \in MediaRequest : s # r => producer'[s] = producer[s]
      BY <1>1, <2>2 DEF Producer
    <3> QED
      BY <2>2, <3>1, HoldingKept DEF Holding, Reads
  <2>3. CASE SendChunk(r)
    <3>1. CASE Produces(r, "closing")
      BY <2>1, <2>3, <3>1 DEF SendChunk
    <3>2. CASE ~Produces(r, "closing")
      <4>1. producer' = [producer EXCEPT ![r].stage = "reading",
                                         ![r].left = producer[r].left - 1,
                                         ![r].sent = producer[r].sent + 1]
        BY <1>1, <2>3, <3>2 DEF SendChunk, Producer
      <4> QED
        BY <2>2, <2>3, <4>1 DEF SendChunk
    <3> QED
      BY <3>1, <3>2
  <2>4. CASE OpenFile(r) \/ SeekFile(r) \/ ReadChunk(r)
    BY <1>4, <2>1, <2>4 DEF OpenFile, SeekFile, ReadChunk
  <2> QED
    BY <1>5, <2>3, <2>4
<1>6. CASE CloseFile(r)
  BY <1>4, <1>6 DEF CloseFile
<1> QED
  BY <1>3, <1>5, <1>6

LEMMA HolderStep == MediaInv /\ HolderLives /\ [MediaNext]_mediaVars => HolderLives'
BY OutsideKeepsHolder, PlayersKeepHolder, ProducerKeepsHolder DEF MediaNext, ProducerStep

(* The AFC client's mutex is held by exactly the producer that is between  *)
(* taking it and giving it back: no way out of produce_range leaves it     *)
(* locked, and no two producers read through the client at once.           *)
THEOREM MutexIsKept == MediaSpec => []MutexKept
<1>1. MediaInit => HolderLives
  BY DEF MediaInit, HolderLives
<1>2. ASSUME MediaInv, HolderLives PROVE MutexKept
  <2>1. \A r \in MediaRequest : r # 0
    BY <1>2, RequestFacts DEF MediaInv
  <2> QED
    BY <1>2, <2>1 DEF MediaInv, HolderReads, HolderLives, Holding, MutexKept
<1> QED
  BY <1>1, <1>2, HolderStep, MediaInitial, MediaStep, PTL DEF MediaSpec

-----------------------------------------------------------------------------
(* Sessions and the mutex of the AFC client: what RemovalUnblocks and      *)
(* NoStrandedSession rest on at every moment.                              *)

(* A session that serves a window or a request is found by whoever may     *)
(* shut it down: it is in the device's table, among those the removal took *)
(* from it, or cancelled already.                                          *)
Known == videoStreams \cup draining \cup cancelled

Opened(p) == window[p] \in {"playing", "paused"}

Blocks(p) == window[p] \in {"starting", "listening"}

SessionsKnown ==
  /\ \A p \in Preview : Opened(p) => p \in Known
  /\ \A r \in MediaRequest : producer[r].preview \in Preview => producer[r].preview \in Known

(* The Qt thread waits for one start at a time; a start that outlives the  *)
(* removal's look at the table finds nothing else stored after it.         *)
StartsAlone ==
  /\ \A p, q \in Preview : Blocks(p) /\ Blocks(q) => p = q
  /\ QtBlocked /\ cleaning \notin {"no", "begin"} => videoStreams = {}

RemovalOrdered ==
  /\ present <=> cleaning = "no"
  /\ draining # {} => cleaning \notin {"no", "begin", "done"}
  /\ cleaning = "done" => videoStreams = {}

(* While the device is there, the table holds sessions of windows that are *)
(* open or have a release under way.                                       *)
TableWanted == present => \A p \in videoStreams : Opened(p) \/ p \in releasing

StreamsInv == SessionsKnown /\ StartsAlone /\ RemovalOrdered /\ TableWanted

(* The session of a closed window is not forgotten: while it is in the     *)
(* table, its release or the removal has still to come and take it.        *)
ReleaseOwed ==
  \A p \in Preview : window[p] = "over" /\ p \in videoStreams =>
    p \in releasing \/ cleaning \notin {"no", "done"}

(* After the removal, every session there was is cancelled, those included *)
(* that were stored while it went on.                                      *)
CleaningCancels ==
  cleaning = "done" =>
    /\ \A p \in Preview : Opened(p) => p \in cancelled
    /\ \A r \in MediaRequest : producer[r].preview \in Preview => Cancels(r)

LEMMA StreamsInitial == MediaInit => StreamsInv
<1> SUFFICES ASSUME MediaInit PROVE StreamsInv
  OBVIOUS
<1>1. /\ \A p \in Preview : window[p] = "closed"
      /\ \A r \in MediaRequest : producer[r].preview = "nobody"
      /\ present /\ cleaning = "no" /\ draining = {} /\ videoStreams = {}
  BY DEF MediaInit
<1>2. "nobody" \notin Preview
  BY MediaAssumption
<1> QED
  BY <1>1, <1>2 DEF StreamsInv, SessionsKnown, StartsAlone, RemovalOrdered, TableWanted,
                    Opened, Blocks, QtBlocked

(* The windows: a producer keeps its session.                              *)
SessionsKept == \A r \in MediaRequest : producer'[r].preview = producer[r].preview

LEMMA WindowsKeepStreams ==
  ASSUME MediaInv, StreamsInv, NEW p \in Preview,
         StartVideoStream(p) \/ SessionStarts(p) \/ PauseOrPlay(p)
  PROVE  StreamsInv'
<1>1. window \in [Preview -> WindowStage]
  BY DEF MediaInv, MediaTypeOK
<1>2. UNCHANGED <<present, cleaning, draining, videoStreams, cancelled, releasing, producer>>
  BY DEF StartVideoStream, SessionStarts, PauseOrPlay
<1>3. \A q \in Preview : Opened(q)' <=> Opened(q)
  BY <1>1 DEF StartVideoStream, SessionStarts, PauseOrPlay, Opened
<1>4. SessionsKnown' /\ RemovalOrdered' /\ TableWanted'
  BY <1>2, <1>3 DEF StreamsInv, SessionsKnown, RemovalOrdered, TableWanted, Known, MediaInv,
                    MediaTypeOK
<1>5. StartsAlone'
  <2>1. CASE StartVideoStream(p)
    <3>1. ~QtBlocked /\ \A q \in Preview : Blocks(q)' => q = p /\ present
      BY <1>1, <2>1 DEF StartVideoStream, QtBlocked, Blocks
    <3> QED
      BY <1>2, <3>1 DEF StartsAlone, StreamsInv, RemovalOrdered, QtBlocked, Blocks
  <2>2. CASE SessionStarts(p) \/ PauseOrPlay(p)
    <3>1. \A q \in Preview : Blocks(q)' => Blocks(q)
      BY <1>1, <2>2 DEF SessionStarts, PauseOrPlay, Blocks
    <3> QED
      BY <1>2, <3>1 DEF StartsAlone, StreamsInv, QtBlocked, Blocks
  <2> QED
    BY <2>1, <2>2
<1> QED
  BY <1>4, <1>5 DEF StreamsInv

LEMMA StoreKeepsStreams ==
  ASSUME MediaInv, StreamsInv, NEW p \in Preview, StoreSession(p) PROVE StreamsInv'
<1>1. window \in [Preview -> WindowStage]
  BY DEF MediaInv, MediaTypeOK
<1>2. UNCHANGED <<present, cleaning, draining, releasing, producer>> /\ Blocks(p)
  BY DEF StoreSession, Blocks
<1>3. /\ \A q \in Preview : /\ Opened(q)' <=> Opened(q) \/ q = p
                            /\ Blocks(q)' <=> Blocks(q) /\ q # p
      /\ Opened(p)'
  BY <1>1 DEF StoreSession, Opened, Blocks
<1>4. ~QtBlocked'
  BY <1>2, <1>3 DEF StreamsInv, StartsAlone, QtBlocked, Blocks
<1>5. /\ Known \cup {p} \subseteq Known'
      /\ cleaning = "done" => videoStreams' = {}
      /\ videoStreams' \subseteq videoStreams \cup {p}
  BY DEF StoreSession, Known
<1>6. SessionsKnown'
  BY <1>2, <1>3, <1>5 DEF StreamsInv, SessionsKnown
<1>7. StartsAlone' /\ RemovalOrdered'
  BY <1>2, <1>3, <1>4, <1>5 DEF StreamsInv, StartsAlone, RemovalOrdered
<1>8. TableWanted'
  BY <1>2, <1>3, <1>5 DEF StreamsInv, TableWanted, MediaInv, MediaTypeOK
<1> QED
  BY <1>6, <1>7, <1>8 DEF StreamsInv

LEMMA CloseKeepsStreams ==
  ASSUME MediaInv, StreamsInv, NEW p \in Preview, CloseWindow(p) \/ ReleaseVideoStream(p)
  PROVE  StreamsInv'
<1>1. window \in [Preview -> WindowStage] /\ videoStreams \subseteq Preview
      /\ producer \in [MediaRequest -> Producer]
  BY DEF MediaInv, MediaTypeOK
<1>2. UNCHANGED <<present, cleaning, draining>>
  BY DEF CloseWindow, ReleaseVideoStream
<1>3. SessionsKept
  <2> SUFFICES ASSUME NEW r \in MediaRequest PROVE producer'[r].preview = producer[r].preview
    BY DEF SessionsKept
  <2>1. producer[r] \in Producer
    BY <1>1
  <2>2. [producer[r] EXCEPT !.open = FALSE, !.sent = 0].preview = producer[r].preview
    BY <2>1 DEF Producer
  <2>3. producer'[r] \in {producer[r], [producer[r] EXCEPT !.open = FALSE, !.sent = 0]}
    <3>1. CASE CloseWindow(p)
      BY <3>1 DEF CloseWindow
    <3>2. CASE ReleaseVideoStream(p)
      BY <3>2 DEF ReleaseVideoStream
    <3> QED
      BY <3>1, <3>2
  <2> QED
    BY <2>2, <2>3
<1>4. \A q \in Preview : /\ Blocks(q)' <=> Blocks(q)
                         /\ Opened(q)' => Opened(q)
  BY <1>1 DEF CloseWindow, ReleaseVideoStream, Blocks, Opened
<1>5. videoStreams' \subseteq videoStreams /\ Known \subseteq Known'
  BY DEF CloseWindow, ReleaseVideoStream, Known
<1>6. SessionsKnown'
  BY <1>3, <1>4, <1>5 DEF StreamsInv, SessionsKnown, SessionsKept
<1>7. QtBlocked' <=> QtBlocked
  BY <1>4 DEF QtBlocked, Blocks
<1>8. StartsAlone' /\ RemovalOrdered'
  BY <1>2, <1>4, <1>5, <1>7 DEF StreamsInv, StartsAlone, RemovalOrdered
<1>9. TableWanted'
  <2>1. CASE CloseWindow(p)
    <3>1. /\ videoStreams' = videoStreams /\ releasing' = releasing \cup {p}
          /\ \A q \in Preview : q # p => window'[q] = window[q]
      BY <1>1, <2>1 DEF CloseWindow
    <3> SUFFICES ASSUME present, NEW q \in videoStreams PROVE Opened(q)' \/ q \in releasing'
      BY <1>2, <3>1 DEF TableWanted
    <3>2. q \in Preview /\ (Opened(q) \/ q \in releasing)
      BY <1>1 DEF StreamsInv, TableWanted
    <3> QED
      BY <3>1, <3>2 DEF Opened
  <2>2. CASE ReleaseVideoStream(p)
    <3>1. /\ window' = window /\ releasing' = releasing \ {p}
          /\ present /\ p \in videoStreams => videoStreams' = videoStreams \ {p}
          /\ ~(present /\ p \in videoStreams) => videoStreams' = videoStreams
      BY <2>2 DEF ReleaseVideoStream
    <3>2. present => p \notin videoStreams'
      BY <3>1
    <3> QED
      BY <1>2, <1>5, <3>1, <3>2 DEF StreamsInv, TableWanted, Opened
  <2> QED
    BY <2>1, <2>2
<1> QED
  BY <1>6, <1>8, <1>9 DEF StreamsInv

LEMMA RemovalKeepsStreams ==
  ASSUME MediaInv, StreamsInv, RemovePresent \/ CleaningStep PROVE StreamsInv'
<1>1. /\ UNCHANGED <<window, releasing, producer>>
      /\ \A q \in Preview : (Blocks(q)' <=> Blocks(q)) /\ (Opened(q)' <=> Opened(q))
      /\ QtBlocked' <=> QtBlocked
  BY DEF RemovePresent, CleaningStep, DrainStreams, ShutDownNext, ServerEnds, CleaningEnds,
         Blocks, Opened, QtBlocked
<1>2. \A q \in Preview : q \notin {"nobody", "no", "begin", "drain", "done"}
  BY MediaAssumption
<1>3. Known \subseteq Known'
  BY DEF Known, RemovePresent, CleaningStep, DrainStreams, ShutDownNext, ServerEnds,
         CleaningEnds, StreamsInv, RemovalOrdered
<1>4. ~present' /\ cleaning' # "no"
  BY <1>2 DEF RemovePresent, CleaningStep, DrainStreams, ShutDownNext, ServerEnds, CleaningEnds,
              StreamsInv, RemovalOrdered
<1>5. SessionsKnown'
  BY <1>1, <1>3 DEF StreamsInv, SessionsKnown
<1>6. StartsAlone'
  BY <1>1, <1>2 DEF RemovePresent, CleaningStep, DrainStreams, ShutDownNext, ServerEnds,
                    CleaningEnds, StreamsInv, StartsAlone
<1>7. RemovalOrdered'
  BY <1>2, <1>4 DEF RemovePresent, CleaningStep, DrainStreams, ShutDownNext, ServerEnds,
                    CleaningEnds, StreamsInv, RemovalOrdered, StartsAlone
<1>8. TableWanted'
  BY <1>4 DEF TableWanted
<1> QED
  BY <1>5, <1>6, <1>7, <1>8 DEF StreamsInv

(* A request is for the session of the window it comes from.               *)
LEMMA RequestsKeepStreams ==
  ASSUME MediaInv, StreamsInv,
         UNCHANGED <<present, cleaning, draining, window, videoStreams, cancelled, releasing>>,
         \A r \in MediaRequest :
           \/ producer'[r].preview = producer[r].preview
           \/ \E p \in Preview : Opened(p) /\ producer'[r].preview = p
  PROVE  StreamsInv'
<1>1. SessionsKnown'
  BY DEF StreamsInv, SessionsKnown, Known, Opened
<1> QED
  BY <1>1 DEF StreamsInv, StartsAlone, RemovalOrdered, TableWanted, Opened, Blocks, QtBlocked

LEMMA PlayersKeepStreams ==
  ASSUME MediaInv, StreamsInv, NEW r \in MediaRequest,
         \/ DropOlder(r) \/ Consume(r) \/ ProducerStep(r)
         \/ \E p \in Preview : AskForRange(p, r)
  PROVE  StreamsInv'
<1>1. producer \in [MediaRequest -> Producer] /\ producer[r] \in Producer
  BY DEF MediaInv, MediaTypeOK
<1>2. UNCHANGED <<present, cleaning, draining, window, videoStreams, cancelled, releasing>>
  BY DEF DropOlder, Consume, ProducerStep, AskForRange, LockAfc, OpenFile, SeekFile, ReadChunk,
         SendChunk, CloseFile, ResponseEnds, Produces, EndProducer
<1>3. CASE \E p \in Preview : AskForRange(p, r)
  <2>1. PICK p \in Preview : AskForRange(p, r)
    BY <1>3
  <2>2. Opened(p) /\ producer'[r].preview = p
        /\ \A s \in MediaRequest : s # r => producer'[s] = producer[s]
    BY <1>1, <2>1 DEF AskForRange, Opened
  <2>3. \A s \in MediaRequest :
           \/ producer'[s].preview = producer[s].preview
           \/ Opened(p) /\ producer'[s].preview = p
    BY <2>2
  <2> QED
    BY <1>2, <2>3, RequestsKeepStreams
<1>4. CASE DropOlder(r) \/ Consume(r) \/ ProducerStep(r)
  <2>1. producer'[r].preview = producer[r].preview
        /\ \A s \in MediaRequest : s # r => producer'[s] = producer[s]
    <3>1. ASSUME NEW stage, Produces(r, stage)
          PROVE  producer'[r].preview = producer[r].preview
                 /\ \A s \in MediaRequest : s # r => producer'[s] = producer[s]
      BY <1>1, <3>1 DEF Produces, Producer
    <3>2. ASSUME EndProducer(r)
          PROVE  producer'[r].preview = producer[r].preview
                 /\ \A s \in MediaRequest : s # r => producer'[s] = producer[s]
      BY <1>1, <3>2 DEF EndProducer, Producer
    <3>3. CASE DropOlder(r) \/ Consume(r) \/ ResponseEnds(r)
      BY <1>1, <3>3 DEF DropOlder, Consume, ResponseEnds, Producer
    <3>4. CASE SendChunk(r)
      <4>1. CASE Produces(r, "closing")
        BY <3>1, <4>1
      <4>2. CASE ~Produces(r, "closing")
        BY <1>1, <3>4, <4>2 DEF SendChunk, Producer
      <4> QED
        BY <4>1, <4>2
    <3>5. CASE LockAfc(r) \/ OpenFile(r) \/ SeekFile(r) \/ ReadChunk(r) \/ CloseFile(r)
      <4>1. EndProducer(r) \/ \E stage \in ProducerStage : Produces(r, stage)
        BY <3>5 DEF LockAfc, OpenFile, SeekFile, ReadChunk, CloseFile, ProducerStage
      <4> QED
        BY <3>1, <3>2, <4>1
    <3> QED
      BY <1>4, <3>3, <3>4, <3>5 DEF ProducerStep
  <2>2. SessionsKept
    BY <2>1 DEF SessionsKept
  <2> QED
    BY <1>2, <2>2, RequestsKeepStreams DEF SessionsKept
<1> QED
  BY <1>3, <1>4

LEMMA StreamsStep == MediaInv /\ StreamsInv /\ [MediaNext]_mediaVars => StreamsInv'
<1> SUFFICES ASSUME MediaInv, StreamsInv, [MediaNext]_mediaVars PROVE StreamsInv'
  OBVIOUS
<1>1. CASE \E p \in Preview : StartVideoStream(p) \/ SessionStarts(p) \/ PauseOrPlay(p)
  BY <1>1, WindowsKeepStreams
<1>2. CASE \E p \in Preview : StoreSession(p) \/ CloseWindow(p) \/ ReleaseVideoStream(p)
  BY <1>2, StoreKeepsStreams, CloseKeepsStreams
<1>3. CASE RemovePresent \/ CleaningStep
  BY <1>3, RemovalKeepsStreams
<1>4. CASE \E r \in MediaRequest :
             \/ DropOlder(r) \/ Consume(r) \/ ProducerStep(r)
             \/ \E p \in Preview : AskForRange(p, r)
  BY <1>4, PlayersKeepStreams
<1>5. CASE UNCHANGED mediaVars
  BY <1>5 DEF mediaVars, StreamsInv, SessionsKnown, StartsAlone, RemovalOrdered, TableWanted,
              Known, Opened, Blocks, QtBlocked
<1> QED
  BY <1>1, <1>2, <1>3, <1>4, <1>5 DEF MediaNext

LEMMA StreamsAlways == MediaSpec => []StreamsInv
BY MediaInitial, MediaStep, StreamsInitial, StreamsStep, PTL DEF MediaSpec

(* While the session of a closed window is in the table, somebody still    *)
(* has to take it: the release task before it looks up a device that is    *)
(* there, or the removal before it is done.                                *)
THEOREM ReleaseIsOwed == MediaSpec => []ReleaseOwed
<1>1. ASSUME StreamsInv PROVE ReleaseOwed
  BY <1>1 DEF StreamsInv, RemovalOrdered, TableWanted, ReleaseOwed, Opened
<1> QED
  BY <1>1, StreamsAlways, PTL

(* clean_removed_device leaves no session alive, although a start it does  *)
(* not wait for may store one behind its back.                             *)
THEOREM CleaningCancelsAll == MediaSpec => []CleaningCancels
<1>1. ASSUME StreamsInv PROVE CleaningCancels
  BY <1>1 DEF StreamsInv, SessionsKnown, RemovalOrdered, Known, CleaningCancels, Cancels
<1> QED
  BY <1>1, StreamsAlways, PTL

-----------------------------------------------------------------------------
(* Both together.                                                          *)

LEMMA MCMediaInitial == MCInit => LoaderInv /\ MediaInv
BY LoaderInitial, MediaInitial DEF MCInit

LEMMA MCMediaStep ==
  LoaderInv /\ MediaInv /\ [MCNext]_mcVars => LoaderInv' /\ MediaInv'
<1> SUFFICES ASSUME LoaderInv, MediaInv, [MCNext]_mcVars PROVE LoaderInv' /\ MediaInv'
  OBVIOUS
<1>1. [LoaderNext]_loaderVars /\ [MediaNext]_mediaVars
  BY DEF MCNext, mcVars
<1> QED
  BY <1>1, LoaderStep, MediaStep

(* Side by side, the thumbnails and the previews keep their types: neither *)
(* writes what the other reads.                                            *)
THEOREM MediaKeepTypes == MCSpec => []MCTypeOK
<1>1. LoaderInv /\ MediaInv => MCTypeOK
  BY DEF LoaderInv, MediaInv, MCTypeOK
<1> QED
  BY <1>1, MCMediaInitial, MCMediaStep, PTL DEF MCSpec
=============================================================================
