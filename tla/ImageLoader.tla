----------------------------- MODULE ImageLoader -----------------------------
(***************************************************************************)
(* The thumbnail scheduler of src/image_loader.rs, with the image provider *)
(* that asks it for thumbnails and the registry that cancels them: one     *)
(* task takes keys off a queue, waits for one of a few permits and spawns  *)
(* a job that reads the file from the device, and stores the image in the  *)
(* cache.  The scheduler's mutex makes each of its methods one step; the   *)
(* order of the queue (row, then age) and the decoding are left out.       *)
(***************************************************************************)
EXTENDS DeviceRegistry, FiniteSets

CONSTANTS
  Path,         \* what a key names beside its device: file, source and size
  Permits,      \* POOL_SEM
  MaxRequest    \* bound: how many requests reach the scheduler

(* There is a device and a file to ask for.                                *)
ASSUME LoaderAssumption ==
  Permits \in Nat \ {0} /\ MaxRequest \in Nat /\ Udid # {} /\ Path # {}

VARIABLES
  nextConnection,   \* NEXT_CONNECTION_ID
  cleaner,    \* clean_removed_device, for every connection it runs for
  cache,      \* the keys whose image the cache holds
  requests,   \* how many requests reached the scheduler
  caller,     \* the image provider: idle, or between enqueue's unlock and notify_one
  pq,         \* the keys in the priority queue
  payloads,   \* the payloads of the keys in the queue
  inFlight,   \* the job of every key that was taken off the queue, 0 for none
  joined,     \* the payloads of those jobs
  job,        \* the jobs
  nextJob,    \* the number of the next job (the program does not count them)
  scheduler,  \* what run is doing
  notified    \* notify holds a permit

deviceVars == <<registry, nextConnection>>
queueVars == <<pq, payloads, inFlight, joined>>
jobVars == <<job, nextJob>>
loaderVars == <<deviceVars, cleaner, cache, requests, caller, queueVars, jobVars,
          scheduler, notified>>

-----------------------------------------------------------------------------
Key == Udid \X Path
Job == 1 .. MaxRequest

(* A payload is told apart by the connection its request was made under,   *)
(* 0 when the device was not connected.                                    *)
Payload == 0 .. MaxConn

(* "permit": run waits for its permit; "spawned": about to look the device   *)
(* up; "working": reading and decoding; "checked": about to store the      *)
(* image; then its result, and "over".                                     *)
Result == {"stored", "abandoned", "error"}
JobStage == {"unused", "permit", "spawned", "working", "checked", "over"} \cup Result

CleanerStage == {"none", "cancel", "flag", "streams", "over"}

LoaderTypeOK ==
  /\ RegistryTypeOK
  /\ nextConnection \in 1 .. MaxConn + 1
  /\ cleaner \in [ConnId -> [udid : Udid, stage : CleanerStage, jobs : SUBSET Job]]
  /\ cache \subseteq Key
  /\ requests \in 0 .. MaxRequest
  /\ caller \in {"idle", "notify"}
  /\ pq \subseteq Key
  /\ payloads \in [Key -> SUBSET Payload]
  /\ inFlight \in [Key -> 0 .. MaxRequest]
  /\ joined \in [Key -> SUBSET Payload]
  /\ job \in [Job -> [key : Key, stage : JobStage, conn : 0 .. MaxConn, cancelled : BOOLEAN]]
  /\ nextJob \in 1 .. MaxRequest + 1
  /\ scheduler \in {"ready", "empty", "asleep", "permit"}
  /\ notified \in BOOLEAN

(* For jobs and cleaners that do not exist yet.                            *)
AnyKey == CHOOSE k \in Key : TRUE

LoaderInit ==
  /\ RegistryInit
  /\ nextConnection = 1
  /\ cleaner = [c \in ConnId |-> [udid |-> AnyKey[1], stage |-> "none", jobs |-> {}]]
  /\ job = [j \in Job |->
               [key |-> AnyKey, stage |-> "unused", conn |-> 0, cancelled |-> FALSE]]
  /\ cache = {} /\ pq = {}
  /\ requests = 0 /\ nextJob = 1
  /\ payloads = [k \in Key |-> {}] /\ joined = [k \in Key |-> {}]
  /\ inFlight = [k \in Key |-> 0]
  /\ caller = "idle" /\ scheduler = "ready" /\ notified = FALSE

SetJob(j, stage) == job' = [job EXCEPT ![j].stage = stage]

(* A job that is over keeps no locals.                                     *)
EndJob(j) == job' = [job EXCEPT ![j] =
                       [@ EXCEPT !.stage = "over", !.conn = 0, !.cancelled = FALSE]]

-----------------------------------------------------------------------------
(* request_image and enqueue.                                              *)

(* Mutant of Join: a request for a job that is being cancelled queues the  *)
(* key again.                                                              *)
JoinUnlessCancelled(k) == inFlight[k] # 0 /\ ~job[inFlight[k]].cancelled

Join(k) == inFlight[k] # 0

(* A key that the cache holds is answered at once.  A request joins the    *)
(* job in flight for its key, is lost when that job was cancelled, or      *)
(* waits with the others for the key.                                      *)
Request(k) ==
  LET p == registry[k[1]].id
  IN /\ k \notin cache
     /\ caller = "idle"
     /\ requests < MaxRequest
     /\ requests' = requests + 1
     /\ \/ /\ Join(k)
           /\ joined' = [joined EXCEPT ![k] =
                             IF job[inFlight[k]].cancelled THEN @ ELSE @ \cup {p}]
           /\ UNCHANGED <<pq, payloads, caller>>
        \/ /\ ~Join(k)
           /\ payloads' = [payloads EXCEPT ![k] = @ \cup {p}]
           /\ pq' = pq \cup {k}
           /\ caller' = "notify"
           /\ UNCHANGED joined
     /\ UNCHANGED <<deviceVars, cleaner, cache, inFlight, jobVars, scheduler, notified>>

(* Mutant of NotifyOne: only a task that already waits is woken, as        *)
(* notify_waiters() would.                                                 *)
NotifyWaiters ==
  /\ caller = "notify"
  /\ caller' = "idle"
  /\ scheduler' = IF scheduler = "asleep" THEN "ready" ELSE scheduler
  /\ UNCHANGED <<deviceVars, cleaner, cache, requests, queueVars, jobVars, notified>>

(* notify_one wakes the task that waits, or leaves a permit for it.        *)
NotifyOne ==
  /\ caller = "notify"
  /\ caller' = "idle"
  /\ scheduler' = IF scheduler = "asleep" THEN "ready" ELSE scheduler
  /\ notified' = (notified \/ scheduler # "asleep")
  /\ UNCHANGED <<deviceVars, cleaner, cache, requests, queueVars, jobVars>>

-----------------------------------------------------------------------------
(* The loop of run.                                                        *)

PopNothing ==
  /\ scheduler = "ready"
  /\ pq = {}
  /\ scheduler' = "empty"
  /\ UNCHANGED <<deviceVars, cleaner, cache, requests, caller, queueVars, jobVars, notified>>

(* notified().await returns at once when a permit is there.                *)
AwaitNotify ==
  /\ scheduler = "empty"
  /\ scheduler' = IF notified THEN "ready" ELSE "asleep"
  /\ notified' = FALSE
  /\ UNCHANGED <<deviceVars, cleaner, cache, requests, caller, queueVars, jobVars>>

PopNext(k) ==
  /\ scheduler = "ready"
  /\ k \in pq
  /\ pq' = pq \ {k}
  /\ payloads' = [payloads EXCEPT ![k] = {}]
  /\ inFlight' = [inFlight EXCEPT ![k] = nextJob]
  /\ joined' = [joined EXCEPT ![k] = payloads[k]]
  /\ job' = [job EXCEPT ![nextJob].key = k, ![nextJob].stage = "permit"]
  /\ nextJob' = nextJob + 1
  /\ scheduler' = "permit"
  /\ UNCHANGED <<deviceVars, cleaner, cache, requests, caller, notified>>

(* finish(key): whatever is in flight for the key is taken.                *)
Take(k) ==
  /\ inFlight' = [inFlight EXCEPT ![k] = 0]
  /\ joined' = [joined EXCEPT ![k] = {}]

Spawned(j) == job[j].stage \in {"spawned", "working", "checked"} \cup Result

HasPermit == Cardinality({j \in Job : Spawned(j)}) < Permits

(* The select! of run: a permit or the job's cancellation, and either when *)
(* both are there.                                                         *)
AcquirePermit(j) ==
  /\ job[j].stage = "permit"
  /\ HasPermit
  /\ SetJob(j, "spawned")
  /\ scheduler' = "ready"
  /\ UNCHANGED <<deviceVars, cleaner, cache, requests, caller, queueVars, nextJob, notified>>

CancelledWaiting(j) ==
  /\ job[j].stage = "permit"
  /\ job[j].cancelled
  /\ EndJob(j)
  /\ Take(job[j].key)
  /\ scheduler' = "ready"
  /\ UNCHANGED <<deviceVars, cleaner, cache, requests, caller, pq, payloads, nextJob, notified>>

-----------------------------------------------------------------------------
(* A job.                                                                  *)

(* A cancelled job ends silently, one whose device is gone with an error.  *)
BeginJob(j) ==
  LET device == registry[job[j].key[1]]
  IN /\ job[j].stage = "spawned"
     /\ \/ job[j].cancelled /\ SetJob(j, "abandoned")
        \/ ~job[j].cancelled /\ device = NoDevice /\ SetJob(j, "error")
        \/ /\ ~job[j].cancelled /\ device # NoDevice
           /\ job' = [job EXCEPT ![j].stage = "working", ![j].conn = device.id]
     /\ UNCHANGED <<deviceVars, cleaner, cache, requests, caller, queueVars, nextJob,
                    scheduler, notified>>

(* Reading and decoding fail, or notice the cancellation at one of the     *)
(* awaits between them.                                                    *)
JobStops(j) ==
  /\ job[j].stage = "working"
  /\ \/ SetJob(j, "error")
     \/ job[j].cancelled /\ SetJob(j, "abandoned")
  /\ UNCHANGED <<deviceVars, cleaner, cache, requests, caller, queueVars, nextJob,
                 scheduler, notified>>

(* The image is decoded: is it still wanted, and from this connection?     *)
CheckConnection(j) ==
  /\ job[j].stage = "working"
  /\ SetJob(j, IF job[j].cancelled \/ ~IsCurrent(job[j].key[1], job[j].conn)
               THEN "abandoned" ELSE "checked")
  /\ UNCHANGED <<deviceVars, cleaner, cache, requests, caller, queueVars, nextJob,
                 scheduler, notified>>

Store(j) ==
  /\ job[j].stage = "checked"
  /\ SetJob(j, "stored")
  /\ cache' = cache \cup {job[j].key}
  /\ UNCHANGED <<deviceVars, cleaner, requests, caller, queueVars, nextJob,
                 scheduler, notified>>

(* A stored image is announced to every payload (thumbnailReady), and the  *)
(* permit is free again.                                                   *)
Finish(j) ==
  LET k == job[j].key
  IN /\ job[j].stage \in Result
     /\ EndJob(j)
     /\ Take(k)
     /\ UNCHANGED <<deviceVars, cleaner, cache, requests, caller, pq, payloads, nextJob,
                    scheduler, notified>>

-----------------------------------------------------------------------------
(* Connections come and go (insert_device, clean_removed_device).          *)

(* A connection that replaces another cleans nothing up after it.          *)
Connect(u) ==
  /\ nextConnection <= MaxConn
  /\ Insert(u, nextConnection, TRUE)
  /\ nextConnection' = nextConnection + 1
  /\ UNCHANGED <<cleaner, cache, requests, caller, queueVars, jobVars, scheduler, notified>>

Remove(u, c) ==
  /\ RemoveIfCurrent(u, c)
  /\ cleaner' = [cleaner EXCEPT ![c].udid = u, ![c].stage = "cancel"]
  /\ UNCHANGED <<nextConnection, cache, requests, caller, queueVars, jobVars, scheduler, notified>>

(* Mutant of CancelForUdid: the keys stay in the priority queue.           *)
CancelPayloads(c) ==
  LET mine == {k \in Key : k[1] = cleaner[c].udid}
  IN /\ cleaner[c].stage = "cancel"
     /\ payloads' = [k \in Key |-> IF k \in mine THEN {} ELSE payloads[k]]
     /\ cleaner' = [cleaner EXCEPT ![c].stage = "flag",
                                   ![c].jobs = {inFlight[k] : k \in mine} \ {0}]
     /\ UNCHANGED <<deviceVars, cache, requests, caller, pq, inFlight, joined, jobVars,
                    scheduler, notified>>

(* cancel_for_udid under the mutex: what waits for the device is dropped,  *)
(* and the tokens of its jobs are collected.                               *)
CancelForUdid(c) ==
  LET mine == {k \in Key : k[1] = cleaner[c].udid}
  IN /\ cleaner[c].stage = "cancel"
     /\ pq' = pq \ mine
     /\ payloads' = [k \in Key |-> IF k \in mine THEN {} ELSE payloads[k]]
     /\ cleaner' = [cleaner EXCEPT ![c].stage = "flag",
                                   ![c].jobs = {inFlight[k] : k \in mine} \ {0}]
     /\ UNCHANGED <<deviceVars, cache, requests, caller, inFlight, joined, jobVars,
                    scheduler, notified>>

(* The tokens are cancelled once the mutex is free again.                  *)
CancelTokens(c) ==
  /\ cleaner[c].stage = "flag"
  /\ job' = [j \in Job |->
               [job[j] EXCEPT !.cancelled =
                    @ \/ (j \in cleaner[c].jobs /\ job[j].stage # "over")]]
  /\ cleaner' = [cleaner EXCEPT ![c].stage = "streams", ![c].jobs = {}]
  /\ UNCHANGED <<deviceVars, cache, requests, caller, queueVars, nextJob,
                 scheduler, notified>>

(* The media streams are shut down in between.                             *)
ClearCache(c) ==
  /\ cleaner[c].stage = "streams"
  /\ cache' = {k \in cache : k[1] # cleaner[c].udid}
  /\ cleaner' = [cleaner EXCEPT ![c].stage = "over"]
  /\ UNCHANGED <<deviceVars, requests, caller, queueVars, jobVars, scheduler, notified>>

-----------------------------------------------------------------------------
SchedulerStep ==
  \/ PopNothing \/ AwaitNotify
  \/ \E k \in Key : PopNext(k)
  \/ \E j \in Job : AcquirePermit(j) \/ CancelledWaiting(j)

JobStep(j) == BeginJob(j) \/ JobStops(j) \/ CheckConnection(j) \/ Store(j) \/ Finish(j)

CleanerStep(c) == CancelForUdid(c) \/ CancelTokens(c) \/ ClearCache(c)

LoaderNext ==
  \/ SchedulerStep \/ NotifyOne
  \/ \E j \in Job : JobStep(j)
  \/ \E c \in ConnId : CleanerStep(c)
  \/ \E k \in Key : Request(k)
  \/ \E u \in Udid : Connect(u) \/ \E c \in ConnId : Remove(u, c)

(* The runtime polls the scheduler and the jobs, the caller goes on to     *)
(* notify_one, and a job's reads and decoding come to an end.  Nothing is  *)
(* owed by devices, by the interface or by the cleaners.                   *)
SchedulerFairness == WF_loaderVars(SchedulerStep)
RequestFairness == WF_loaderVars(NotifyOne) /\ \A j \in Job : WF_loaderVars(JobStep(j))

LoaderSpec ==
  LoaderInit /\ [][LoaderNext]_loaderVars /\ SchedulerFairness /\ RequestFairness

-----------------------------------------------------------------------------
(* Properties.                                                             *)

(* The three tables of QueueState agree: a key waits in the queue exactly  *)
(* when it has payloads there, and never while a job is in flight for it.  *)
(* pop_next gives up on a key without payloads, and with it on everything  *)
(* behind it until the next request (src/image_loader.rs:123).             *)
QueueConsistent ==
  \A k \in Key :
    /\ k \in pq <=> payloads[k] # {}
    /\ k \in pq => inFlight[k] = 0
    /\ joined[k] # {} => inFlight[k] # 0

(* A job that ends takes its own entry: however cancelling, joining and    *)
(* asking again interleave, what is in flight for a key is the one job     *)
(* that is not over, so finish() never answers or drops the requests of    *)
(* another job.                                                            *)
OwnEntry ==
  \A j \in Job :
    job[j].stage \notin {"unused", "over"} <=>
      j < nextJob /\ \E k \in Key : inFlight[k] = j /\ job[j].key = k

(* No request waits for ever: a wakeup between the scheduler's look at the *)
(* empty queue and its wait is not lost, a cancelled job makes room, and   *)
(* permits come back.                                                      *)
RequestsSettle ==
  \A k \in Key : (k \in pq \/ inFlight[k] # 0) ~> (k \notin pq /\ inFlight[k] = 0)
=============================================================================
