-------------------------- MODULE ManagersProofs --------------------------
(***************************************************************************)
(* What the managers keep, for any number of devices, operations,          *)
(* browsings and downloads: the busy flag of BackupManager and the table   *)
(* it is computed from, the devices that NetworkBrowse lists and the state *)
(* it shows, the list of ImageDownloads, and the types of all of them.     *)
(***************************************************************************)
EXTENDS MCManagers, MountTableProofs, ImageCacheProofs, SequenceTheorems, TLAPS

-----------------------------------------------------------------------------
(* The operations of BackupManager.                                        *)

HasTask(u) == tasks[u] # 0

Queued(o) == \E i \in 1 .. Len(queue) : queue[i] = o

(* A handle in the table belongs to its device and was not aborted; when   *)
(* its operation has reported, the completion that will take the handle    *)
(* out still waits.                                                        *)
TableInv ==
  \A u \in Udid : HasTask(u) =>
    /\ tasks[u] < nextOp
    /\ op[tasks[u]].udid = u
    /\ op[tasks[u]].stage \in {"working", "ending", "returning", "ended"}
    /\ op[tasks[u]].stage \in {"returning", "ended"} => Queued(tasks[u])

(* busy stays set only for a handle in the table.                          *)
BusyInv == busy => \E u \in Udid : HasTask(u)

(* Only operations that were started have left their first stage.          *)
UnusedInv == \A o \in Op : o >= nextOp => op[o].stage = "unused"

ManagerInv == ManagerTypeOK /\ TableInv /\ BusyInv /\ UnusedInv /\ BusyWhileWorking

-----------------------------------------------------------------------------

LEMMA AbortFacts ==
  ASSUME NEW ops \in [Op -> [udid : Udid, stage : Stage]], NEW aborted
  PROVE  /\ Abort(ops, aborted) \in [Op -> [udid : Udid, stage : Stage]]
         /\ \A o \in Op : /\ Abort(ops, aborted)[o].udid = ops[o].udid
                          /\ o \notin aborted => Abort(ops, aborted)[o] = ops[o]
                          /\ ops[o].stage = "unused" => Abort(ops, aborted)[o] = ops[o]
<1>1. ASSUME NEW o \in Op
      PROVE  /\ Abort(ops, aborted)[o] \in [udid : Udid, stage : Stage]
             /\ Abort(ops, aborted)[o].udid = ops[o].udid
             /\ o \notin aborted => Abort(ops, aborted)[o] = ops[o]
             /\ ops[o].stage = "unused" => Abort(ops, aborted)[o] = ops[o]
  BY DEF Abort, Stage
<1> QED
  BY <1>1 DEF Abort

LEMMA SpawnedFacts ==
  ASSUME ManagerTypeOK, NEW u \in Udid, nextOp <= MaxOp
  PROVE  /\ nextOp \in Op
         /\ Spawned(u) \in [Op -> [udid : Udid, stage : Stage]]
         /\ Spawned(u)[nextOp] = [udid |-> u, stage |-> "working"]
         /\ \A o \in Op : o # nextOp => Spawned(u)[o] = op[o]
BY MaxOpAssumption DEF ManagerTypeOK, Spawned, Op, Stage

(* Handles are distinct: each belongs to its device.                       *)
LEMMA HandlesDiffer ==
  ASSUME TableInv, NEW u \in Udid, NEW v \in Udid, HasTask(u), tasks[u] = tasks[v]
  PROVE  u = v
BY DEF TableInv, HasTask

LEMMA TableOps ==
  ASSUME ManagerTypeOK, NEW u \in Udid, HasTask(u)
  PROVE  tasks[u] \in Op
BY MaxOpAssumption DEF ManagerTypeOK, HasTask, Op

-----------------------------------------------------------------------------
(* The methods.                                                            *)

(* Start and ChangePassword: the new operation takes the table's entry,    *)
(* and at most the entry's former operation is aborted.                    *)
LEMMA StartBackupKeepsInv ==
  ASSUME ManagerInv, NEW u \in Udid, Start(u) \/ ChangePassword(u)
  PROVE  ManagerInv'
<1>1. nextOp <= MaxOp /\ nextOp \in Op /\ nextOp \in Nat
  BY MaxOpAssumption DEF Start, ChangePassword, ManagerInv, ManagerTypeOK, Op
<1>2. /\ tasks' = [tasks EXCEPT ![u] = nextOp] /\ nextOp' = nextOp + 1
      /\ busy' = TRUE /\ queue' = queue
      /\ op' = Abort(Spawned(u), {tasks[u]}) \/ op' = Spawned(u)
  BY DEF Start, ChangePassword
<1>3. tasks[u] # nextOp
  BY <1>1 DEF ManagerInv, TableInv, HasTask, Op
<1>4. /\ op' \in [Op -> [udid : Udid, stage : Stage]]
      /\ op'[nextOp] = [udid |-> u, stage |-> "working"]
      /\ \A o \in Op : o \notin {nextOp, tasks[u]} => op'[o] = op[o]
      /\ \A o \in Op : o # nextOp /\ op[o].stage = "unused" => op'[o].stage = "unused"
  <2> PICK ops, former : ops = Spawned(u) /\ former = {tasks[u]}
    OBVIOUS
  <2>1. /\ ops \in [Op -> [udid : Udid, stage : Stage]]
        /\ ops[nextOp] = [udid |-> u, stage |-> "working"]
        /\ \A o \in Op : o # nextOp => ops[o] = op[o]
    BY <1>1, SpawnedFacts DEF ManagerInv
  <2>2. CASE op' = ops
    BY <2>1, <2>2
  <2>3. CASE op' = Abort(ops, former)
    <3>1. /\ op' \in [Op -> [udid : Udid, stage : Stage]]
          /\ \A o \in Op : /\ o # tasks[u] => op'[o] = ops[o]
                           /\ ops[o].stage = "unused" => op'[o] = ops[o]
      BY <2>1, <2>3, AbortFacts
    <3>2. op'[nextOp] = ops[nextOp]
      BY <1>1, <1>3, <3>1
    <3>3. ASSUME NEW o \in Op, o # nextOp
          PROVE  /\ o # tasks[u] => op'[o] = op[o]
                 /\ op[o].stage = "unused" => op'[o].stage = "unused"
      BY <2>1, <3>1, <3>3
    <3> QED
      BY <2>1, <3>1, <3>2, <3>3
  <2> QED
    BY <1>2, <2>2, <2>3
<1>5. ManagerTypeOK'
  <2>1. tasks' \in [Udid -> 0 .. MaxOp] /\ nextOp' \in 1 .. MaxOp + 1
    BY <1>1, <1>2, MaxOpAssumption DEF ManagerInv, ManagerTypeOK
  <2> QED
    BY <1>2, <1>4, <2>1 DEF ManagerInv, ManagerTypeOK
<1>6. TableInv'
  <2> SUFFICES ASSUME NEW v \in Udid, HasTask(v)'
               PROVE  /\ tasks'[v] < nextOp'
                      /\ op'[tasks'[v]].udid = v
                      /\ op'[tasks'[v]].stage \in {"working", "ending", "returning", "ended"}
                      /\ op'[tasks'[v]].stage \in {"returning", "ended"} => Queued(tasks[v])'
    BY DEF TableInv
  <2>1. CASE v = u
    <3>1. tasks'[v] = nextOp
      BY <1>2, <2>1 DEF ManagerInv, ManagerTypeOK
    <3> QED
      BY <1>1, <1>2, <1>4, <2>1, <3>1
  <2>2. CASE v # u
    <3>1. tasks'[v] = tasks[v] /\ HasTask(v)
      BY <1>2, <2>2 DEF ManagerInv, ManagerTypeOK, HasTask
    <3>2. tasks[v] \in Op /\ tasks[v] < nextOp /\ tasks[v] # tasks[u]
      BY <2>2, <3>1, TableOps, HandlesDiffer DEF ManagerInv, TableInv
    <3>3. op'[tasks[v]] = op[tasks[v]] /\ tasks[v] # nextOp
      BY <1>1, <1>4, <3>2 DEF Op
    <3>4. Queued(tasks[v]) => Queued(tasks[v])'
      BY <1>2, <3>1 DEF Queued
    <3> QED
      BY <1>1, <1>2, <3>1, <3>2, <3>3, <3>4 DEF ManagerInv, TableInv, Op
  <2> QED
    BY <2>1, <2>2
<1>7. BusyInv'
  BY <1>1, <1>2 DEF BusyInv, HasTask, Op, ManagerInv, ManagerTypeOK
<1>8. UnusedInv'
  BY <1>1, <1>2, <1>4 DEF ManagerInv, UnusedInv, Op
<1> QED
  BY <1>2, <1>5, <1>6, <1>7, <1>8 DEF ManagerInv, BusyWhileWorking

(* The handles of some devices are aborted and leave the table, and busy   *)
(* is recomputed: both ways to cancel.                                     *)
LEMMA CancelKeepsInv ==
  ASSUME ManagerInv, NEW gone \in SUBSET Udid,
         op' = Abort(op, {tasks[u] : u \in gone}),
         tasks' = [u \in Udid |-> IF u \in gone THEN 0 ELSE tasks[u]],
         busy' = Active, nextOp' = nextOp, queue' = queue
  PROVE  ManagerInv'
<1>1. /\ op' \in [Op -> [udid : Udid, stage : Stage]]
      /\ \A o \in Op : o \notin {tasks[u] : u \in gone} => op'[o] = op[o]
      /\ \A o \in Op : op[o].stage = "unused" => op'[o].stage = "unused"
  <2> PICK aborted : aborted = {tasks[u] : u \in gone}
    OBVIOUS
  <2>1. op' = Abort(op, aborted) /\ op \in [Op -> [udid : Udid, stage : Stage]]
    BY DEF ManagerInv, ManagerTypeOK
  <2> QED
    BY <2>1, AbortFacts
<1>2. Active \in BOOLEAN
  BY DEF Active
<1>3. ManagerTypeOK'
  <2>1. tasks' \in [Udid -> 0 .. MaxOp]
    BY MaxOpAssumption DEF ManagerInv, ManagerTypeOK
  <2> QED
    BY <1>1, <1>2, <2>1 DEF ManagerInv, ManagerTypeOK
<1>4. ASSUME NEW v \in Udid, HasTask(v)'
      PROVE  /\ HasTask(v) /\ tasks'[v] = tasks[v]
             /\ tasks[v] \in Op /\ op'[tasks[v]] = op[tasks[v]]
  <2>1. v \notin gone /\ tasks'[v] = tasks[v] /\ HasTask(v)
    BY <1>4 DEF HasTask
  <2>2. \A u \in gone : tasks[u] # tasks[v]
    BY <2>1, HandlesDiffer DEF ManagerInv
  <2> QED
    BY <1>1, <2>1, <2>2, TableOps DEF ManagerInv
<1>5. TableInv'
  <2>1. ASSUME NEW v \in Udid, HasTask(v)'
        PROVE  /\ tasks'[v] < nextOp'
               /\ op'[tasks'[v]].udid = v
               /\ op'[tasks'[v]].stage \in {"working", "ending", "returning", "ended"}
               /\ op'[tasks'[v]].stage \in {"returning", "ended"} => Queued(tasks[v])'
    <3>1. Queued(tasks[v])' <=> Queued(tasks[v])
      BY <1>4, <2>1 DEF Queued
    <3> QED
      BY <1>4, <2>1, <3>1 DEF ManagerInv, TableInv
  <2> QED
    BY <2>1 DEF TableInv
<1>6. BusyInv'
  BY DEF Active, BusyInv, HasTask
<1>7. UnusedInv'
  BY <1>1 DEF ManagerInv, UnusedInv
<1>8. BusyWhileWorking'
  BY DEF BusyWhileWorking, Active, IsFinished
<1> QED
  BY <1>3, <1>5, <1>6, <1>7, <1>8 DEF ManagerInv

-----------------------------------------------------------------------------
(* The tasks and their completions.                                        *)

(* An operation moves to a later stage; its completion is queued when it   *)
(* reports.                                                                *)
LEMMA TaskKeepsInv ==
  ASSUME ManagerInv, NEW o \in Op, LastAwait(o) \/ Report(o) \/ Return(o)
  PROVE  ManagerInv'
<1>1. PICK stage \in {"ending", "returning", "ended"} :
        /\ SetStage(o, stage)
        /\ op[o].stage \in {"working", "ending", "returning"}
        /\ queue' \in {queue, Append(queue, o)}
        /\ stage = "returning" => queue' = Append(queue, o)
        /\ stage = "ended" => op[o].stage = "returning"
  BY DEF LastAwait, Report, Return
<1>2. /\ op' = [op EXCEPT ![o].stage = stage]
      /\ tasks' = tasks /\ busy' = busy /\ nextOp' = nextOp
  BY <1>1 DEF SetStage
<1>3. /\ op' \in [Op -> [udid : Udid, stage : Stage]]
      /\ op'[o].stage = stage /\ op'[o].udid = op[o].udid
      /\ \A p \in Op : p # o => op'[p] = op[p]
  BY <1>1, <1>2 DEF ManagerInv, ManagerTypeOK, Stage
<1>4. /\ queue' \in Seq(Op)
      /\ \A p \in Op : Queued(p) => Queued(p)'
      /\ stage = "returning" => Queued(o)'
  <2>1. queue \in Seq(Op) /\ Len(queue) \in Nat
    BY DEF ManagerInv, ManagerTypeOK
  <2>2. CASE queue' = queue
    BY <1>1, <2>1, <2>2 DEF Queued
  <2>3. CASE queue' = Append(queue, o)
    <3>1. /\ queue' \in Seq(Op) /\ Len(queue') = Len(queue) + 1
          /\ \A i \in 1 .. Len(queue) : queue'[i] = queue[i]
          /\ queue'[Len(queue) + 1] = o
      BY <2>1, <2>3
    <3>2. Queued(o)'
      BY <2>1, <3>1 DEF Queued
    <3>3. ASSUME NEW p \in Op, Queued(p)
          PROVE  Queued(p)'
      BY <2>1, <3>1, <3>3 DEF Queued
    <3> QED
      BY <3>1, <3>2, <3>3
  <2> QED
    BY <1>1, <2>2, <2>3
<1>5. ManagerTypeOK'
  BY <1>2, <1>3, <1>4 DEF ManagerInv, ManagerTypeOK
<1>6. TableInv'
  <2>1. ASSUME NEW v \in Udid, HasTask(v)'
        PROVE  /\ tasks'[v] < nextOp'
               /\ op'[tasks'[v]].udid = v
               /\ op'[tasks'[v]].stage \in {"working", "ending", "returning", "ended"}
               /\ op'[tasks'[v]].stage \in {"returning", "ended"} => Queued(tasks[v])'
    <3>1. HasTask(v) /\ tasks'[v] = tasks[v] /\ tasks[v] \in Op
      BY <1>2, <2>1, TableOps DEF HasTask, ManagerInv
    <3>2. Queued(tasks[v]) => Queued(tasks[v])'
      <4> PICK p \in Op : p = tasks[v]
        BY <3>1
      <4> QED
        BY <1>2, <1>4 DEF Queued
    <3>3. CASE tasks[v] = o
      <4>1. op[o].stage = "returning" => Queued(tasks[v])
        BY <3>1, <3>3 DEF ManagerInv, TableInv
      <4>2. stage = "returning" => Queued(tasks[v])'
        BY <1>2, <1>4, <3>3 DEF Queued
      <4> QED
        BY <1>1, <1>2, <1>3, <3>1, <3>2, <3>3, <4>1, <4>2 DEF ManagerInv, TableInv
    <3>4. CASE tasks[v] # o
      BY <1>2, <1>3, <3>1, <3>2, <3>4 DEF ManagerInv, TableInv
    <3> QED
      BY <3>3, <3>4
  <2> QED
    BY <2>1 DEF TableInv
<1>7. BusyInv'
  BY <1>2 DEF ManagerInv, BusyInv, HasTask
<1>8. UnusedInv'
  <2>1. o < nextOp
    BY <1>1 DEF ManagerInv, UnusedInv, ManagerTypeOK, Op
  <2> QED
    BY <1>2, <1>3, <2>1 DEF ManagerInv, UnusedInv, ManagerTypeOK, Op
<1>9. BusyWhileWorking'
  <2>1. ASSUME NEW v \in Udid, HasTask(v)', op'[tasks'[v]].stage = "working"
        PROVE  busy'
    <3>1. HasTask(v) /\ tasks'[v] = tasks[v] /\ tasks[v] \in Op
      BY <1>2, <2>1, TableOps DEF HasTask, ManagerInv
    <3>2. op[tasks[v]].stage = "working"
      BY <1>1, <1>3, <2>1, <3>1
    <3> QED
      BY <1>2, <3>1, <3>2 DEF ManagerInv, BusyWhileWorking, HasTask
  <2> QED
    BY <2>1 DEF BusyWhileWorking, HasTask
<1> QED
  BY <1>5, <1>6, <1>7, <1>8, <1>9 DEF ManagerInv

(* The completion takes out whatever handle its device has, so no handle   *)
(* that stays loses its completion.                                        *)
LEMMA CompleteKeepsInv ==
  ASSUME ManagerInv, Complete
  PROVE  ManagerInv'
<1>1. /\ Head(queue) \in Op /\ Len(queue) \in Nat \ {0}
      /\ queue' \in Seq(Op) /\ Len(queue') = Len(queue) - 1
      /\ \A i \in 1 .. Len(queue') : queue'[i] = queue[i + 1]
      /\ Head(queue) = queue[1]
  BY DEF Complete, ManagerInv, ManagerTypeOK
<1>2. PICK u \in Udid : u = op[Head(queue)].udid
  BY <1>1 DEF ManagerInv, ManagerTypeOK
<1>3. /\ tasks' = [tasks EXCEPT ![u] = 0]
      /\ op' = op /\ nextOp' = nextOp /\ busy' = Active
  BY <1>2 DEF Complete
<1>4. Active \in BOOLEAN
  BY DEF Active
<1>5. ManagerTypeOK'
  <2>1. tasks' \in [Udid -> 0 .. MaxOp]
    BY <1>3, MaxOpAssumption DEF ManagerInv, ManagerTypeOK
  <2> QED
    BY <1>1, <1>3, <1>4, <2>1 DEF ManagerInv, ManagerTypeOK
<1>6. ASSUME NEW o \in Op, Queued(o), op[o].udid # u
      PROVE  Queued(o)'
  <2>1. PICK i \in 1 .. Len(queue) : queue[i] = o
    BY <1>6 DEF Queued
  <2>2. i # 1
    BY <1>1, <1>2, <1>6, <2>1
  <2>3. i - 1 \in 1 .. Len(queue') /\ queue'[i - 1] = o
    BY <1>1, <2>1, <2>2
  <2> QED
    BY <2>3 DEF Queued
<1>7. TableInv'
  <2>1. ASSUME NEW v \in Udid, HasTask(v)'
        PROVE  /\ tasks'[v] < nextOp'
               /\ op'[tasks'[v]].udid = v
               /\ op'[tasks'[v]].stage \in {"working", "ending", "returning", "ended"}
               /\ op'[tasks'[v]].stage \in {"returning", "ended"} => Queued(tasks[v])'
    <3>1. v # u /\ tasks'[v] = tasks[v] /\ HasTask(v)
      BY <1>3, <2>1 DEF HasTask, ManagerInv, ManagerTypeOK
    <3>2. PICK o \in Op : o = tasks[v]
      BY <3>1, TableOps DEF ManagerInv
    <3>3. op[o].udid = v
      BY <3>1, <3>2 DEF ManagerInv, TableInv
    <3>4. Queued(o) => Queued(o)'
      BY <1>6, <3>1, <3>3
    <3>5. Queued(tasks[v])' <=> Queued(o)'
      BY <3>1, <3>2 DEF Queued
    <3> QED
      BY <1>3, <3>1, <3>2, <3>4, <3>5 DEF ManagerInv, TableInv
  <2> QED
    BY <2>1 DEF TableInv
<1>8. BusyInv'
  BY <1>3 DEF Active, BusyInv, HasTask
<1>9. UnusedInv'
  BY <1>3 DEF ManagerInv, UnusedInv
<1>10. BusyWhileWorking'
  BY <1>3 DEF BusyWhileWorking, Active, IsFinished
<1> QED
  BY <1>5, <1>7, <1>8, <1>9, <1>10 DEF ManagerInv

-----------------------------------------------------------------------------
(* The theorems.                                                           *)

LEMMA ManagerInit == BackupInit => ManagerInv
<1> SUFFICES ASSUME BackupInit PROVE ManagerInv
  OBVIOUS
<1>1. ManagerTypeOK
  <2>1. op \in [Op -> [udid : Udid, stage : Stage]]
    BY DEF BackupInit, Stage
  <2>2. tasks \in [Udid -> 0 .. MaxOp] /\ nextOp \in 1 .. MaxOp + 1
    BY MaxOpAssumption DEF BackupInit
  <2>3. busy \in BOOLEAN
    BY DEF BackupInit
  <2>4. queue \in Seq(Op)
    <3>1. queue = <<>>
      BY DEF BackupInit
    <3> QED
      BY <3>1
  <2> QED
    BY <2>1, <2>2, <2>3, <2>4 DEF ManagerTypeOK
<1>2. \A u \in Udid : ~HasTask(u)
  BY DEF BackupInit, HasTask
<1>3. UnusedInv
  BY DEF BackupInit, UnusedInv
<1> QED
  BY <1>1, <1>2, <1>3 DEF BackupInit, ManagerInv, TableInv, BusyInv, BusyWhileWorking, HasTask

LEMMA ManagerStep == ManagerInv /\ [BackupNext]_backupVars => ManagerInv'
<1> SUFFICES ASSUME ManagerInv, [BackupNext]_backupVars PROVE ManagerInv'
  OBVIOUS
<1>1. CASE \E u \in Udid : Start(u) \/ ChangePassword(u)
  BY <1>1, StartBackupKeepsInv
<1>2. ASSUME NEW u \in Udid, CancelOperation(u)
      PROVE  ManagerInv'
  <2> PICK gone \in SUBSET Udid : gone = {u}
    OBVIOUS
  <2>1. {tasks[u]} = {tasks[v] : v \in gone}
    OBVIOUS
  <2>2. tasks' = [v \in Udid |-> IF v \in gone THEN 0 ELSE tasks[v]]
    BY <1>2 DEF CancelOperation, ManagerInv, ManagerTypeOK
  <2> QED
    BY <1>2, <2>1, <2>2, CancelKeepsInv DEF CancelOperation
<1>3. CASE CancelAllOperations
  <2> PICK gone \in SUBSET Udid : gone = Udid
    OBVIOUS
  <2>1. tasks' = [v \in Udid |-> IF v \in gone THEN 0 ELSE tasks[v]]
    BY <1>3 DEF CancelAllOperations
  <2>2. op' = Abort(op, {tasks[v] : v \in gone})
    BY <1>3 DEF CancelAllOperations
  <2> QED
    BY <1>3, <2>1, <2>2, CancelKeepsInv DEF CancelAllOperations
<1>4. CASE \E o \in Op : LastAwait(o) \/ Report(o) \/ Return(o)
  BY <1>4, TaskKeepsInv
<1>5. CASE Complete
  BY <1>5, CompleteKeepsInv
<1>6. CASE UNCHANGED backupVars
  BY <1>6 DEF backupVars, ManagerInv, ManagerTypeOK, TableInv, BusyInv, UnusedInv,
              BusyWhileWorking, HasTask, Queued
<1> QED
  BY <1>1, <1>2, <1>3, <1>4, <1>5, <1>6 DEF BackupNext

LEMMA ManagerAlways == BackupSpec => []ManagerInv
BY ManagerInit, ManagerStep, PTL DEF BackupSpec

(* While the table holds an operation that works, busy is set, however     *)
(* starting, cancelling and late completions interleave.                   *)
THEOREM BusyNeverLags == BackupSpec => []BusyWhileWorking
<1>1. ManagerInv => BusyWhileWorking
  BY DEF ManagerInv
<1> QED
  BY <1>1, ManagerAlways, PTL

(* Once all operations are over and all completions have run, busy is      *)
(* false: a handle stays in the table only while its operation works or    *)
(* its completion waits.                                                   *)
THEOREM BusyNeverSticks == BackupSpec => []BusyClears
<1>1. ManagerInv => BusyClears
  <2> SUFFICES ASSUME ManagerInv, queue = <<>>, busy,
                      \A o \in Op : op[o].stage \in {"unused", "ended", "aborted"}
               PROVE  FALSE
    BY DEF BusyClears
  <2>1. PICK u \in Udid : HasTask(u)
    BY DEF ManagerInv, BusyInv
  <2>2. tasks[u] \in Op
    BY <2>1, TableOps DEF ManagerInv
  <2>3. op[tasks[u]].stage = "ended"
    BY <2>1, <2>2 DEF ManagerInv, TableInv
  <2>4. Queued(tasks[u])
    BY <2>1, <2>3 DEF ManagerInv, TableInv
  <2> QED
    BY <2>4 DEF Queued
<1> QED
  BY <1>1, ManagerAlways, PTL

-----------------------------------------------------------------------------
(* Browsing the network.                                                   *)

On(threads, g) == threads[g].stage \in {"starting", "polling"}

IsFailure(e, g) == e.what = "failed" /\ e.generation = g
IsStart(e, g) == e.what = "started" /\ e.generation = g

(* Nobody browses or reports for a number that is still to come.           *)
NoneFromLater ==
  /\ \A g \in Generation : On(browser, g) => g <= generation
  /\ \A i \in 1 .. Len(events) : events[i].generation <= generation

(* A thread that reported its failure is over, and that was its last word. *)
FailureIsLast ==
  \A i \in 1 .. Len(events) : events[i].what = "failed" =>
    /\ ~On(browser, events[i].generation)
    /\ \A j \in i + 1 .. Len(events) : ~IsStart(events[j], events[i].generation)

(* The same of a failure that the Qt thread was told of.                   *)
FailedIsLast ==
  generation > 0 /\ discovery = "failed" =>
    /\ ~On(browser, generation)
    /\ \A i \in 1 .. Len(events) : ~IsStart(events[i], generation)

(* StateTruthful, with the numbers of the queue.                           *)
NotFailedGoesOn ==
  generation > 0 /\ discovery # "failed" =>
    \/ On(browser, generation)
    \/ \E i \in 1 .. Len(events) : IsFailure(events[i], generation)

BrowseInv ==
  /\ BrowseTypeOK
  /\ NoneFromLater
  /\ FailureIsLast
  /\ FailedIsLast
  /\ NotFailedGoesOn
  /\ NoStaleDevice

-----------------------------------------------------------------------------
(* Numbers, reports and the queue.                                         *)

LEMMA BrowseFacts ==
  ASSUME BrowseTypeOK
  PROVE  /\ generation \in Nat /\ Generation \subseteq Nat
         /\ \A g \in Generation : g > 0
         /\ \A i \in 1 .. Len(events) : events[i] \in Event /\ events[i].generation \in Generation
         /\ Len(events) \in Nat
         /\ events \in Seq(Event)
         /\ generation > 0 => generation \in Generation
<1>1. Generation \subseteq Nat /\ \A g \in Generation : g > 0
  BY BrowseAssumption DEF Generation
<1>2. events \in Seq(Event) /\ Len(events) \in Nat
  BY LenProperties DEF BrowseTypeOK
<1>3. \A i \in 1 .. Len(events) : events[i] \in Event
  BY <1>2, ElementOfSeq
<1>4. \A e \in Event : e.generation \in Generation
  BY DEF Event
<1>5. generation \in Nat /\ (generation > 0 => generation \in Generation)
  BY BrowseAssumption DEF BrowseTypeOK, Generation
<1> QED
  BY <1>1, <1>2, <1>3, <1>4, <1>5

(* What queueing a report does to the queue.                               *)
LEMMA QueueFacts ==
  ASSUME BrowseTypeOK, NEW e \in Event, Queue(e)
  PROVE  /\ events' \in Seq(Event)
         /\ Len(events') = Len(events) + 1
         /\ \A i \in 1 .. Len(events) : events'[i] = events[i]
         /\ events'[Len(events) + 1] = e
<1>1. events \in Seq(Event) /\ events' = Append(events, e)
  BY DEF BrowseTypeOK, Queue
<1> QED
  BY <1>1, AppendProperties

LEMMA BrowseInitial == BrowseInit => BrowseInv
<1> SUFFICES ASSUME BrowseInit PROVE BrowseInv
  OBVIOUS
<1>1. BrowseTypeOK
  <2>1. events \in Seq(Event) /\ Len(events) = 0
    BY EmptySeq DEF BrowseInit
  <2>2. Thread("auto", "none") \in Browser
    BY DEF Thread, Browser, Selection
  <2> QED
    BY <2>1, <2>2, BrowseAssumption DEF BrowseInit, BrowseTypeOK
<1>2. Len(events) = 0 /\ generation = 0
  BY EmptySeq DEF BrowseInit
<1>3. NoStaleDevice /\ \A g \in Generation : ~On(browser, g)
  BY DEF BrowseInit, NoStaleDevice, Thread, On
<1> QED
  BY <1>1, <1>2, <1>3 DEF BrowseInv, NoneFromLater, FailureIsLast, FailedIsLast, NotFailedGoesOn

-----------------------------------------------------------------------------
(* A new number: no report has it, and its thread is about to browse.      *)
LEMMA NewNumberKeepsInv ==
  ASSUME BrowseInv, NEW g, NEW selection \in Selection,
         StartInner(g, selection), g > generation,
         configured' \in Selection, events' = events,
         found' = [m \in Mac |-> 0]
  PROVE  BrowseInv'
<1> USE DEF On, IsFailure, IsStart
<1>1. BrowseTypeOK
  BY DEF BrowseInv
<1>2. /\ g \in Generation /\ generation' = g /\ discovery' = "loading"
      /\ browser' = [browser EXCEPT ![g] = Thread(selection, "starting")]
  BY DEF StartInner
<1>3. Thread(selection, "starting") \in Browser
  BY DEF Thread, Browser, Selection
<1>4. BrowseTypeOK'
  BY <1>1, <1>2, <1>3, BrowseAssumption DEF BrowseTypeOK, Generation
<1>5. browser'[g].stage = "starting"
  BY <1>1, <1>2 DEF BrowseTypeOK, Thread
<1>6. \A i \in 1 .. Len(events) : events[i].generation < g
  BY <1>1, <1>2, BrowseFacts DEF BrowseInv, NoneFromLater
<1>7. \A k \in Generation : k # g => browser'[k] = browser[k]
  BY <1>1, <1>2 DEF BrowseTypeOK
<1>8. NoneFromLater' /\ FailureIsLast'
  BY <1>1, <1>2, <1>6, <1>7, BrowseFacts DEF BrowseInv, NoneFromLater, FailureIsLast
<1>9. FailedIsLast' /\ NotFailedGoesOn'
  BY <1>2, <1>5 DEF FailedIsLast, NotFailedGoesOn
<1>10. NoStaleDevice'
  BY DEF NoStaleDevice
<1> QED
  BY <1>4, <1>8, <1>9, <1>10 DEF BrowseInv

(* The window opens: there was no browsing, and nothing was found.         *)
LEMMA StartBrowsingKeepsInv ==
  ASSUME BrowseInv, \/ StartBrowsing \/ RestartBrowsing
                    \/ \E selection \in Selection : SetBackend(selection)
  PROVE  BrowseInv'
<1>1. BrowseTypeOK /\ configured \in Selection /\ generation \in Nat
  BY BrowseFacts DEF BrowseInv, BrowseTypeOK
<1>2. CASE StartBrowsing
  <2>1. found \in [Mac -> 0 .. MaxGeneration] /\ \A m \in Mac : found[m] = 0
    BY <1>1, <1>2 DEF BrowseInv, NoStaleDevice, StartBrowsing, BrowseTypeOK
  <2>2. found' = [m \in Mac |-> 0]
    BY <2>1, <1>2 DEF StartBrowsing
  <2>3. StartInner(1, configured) /\ 1 > generation /\ configured' = configured /\ events' = events
    BY <1>2 DEF StartBrowsing
  <2> QED
    BY <1>1, <2>2, <2>3, NewNumberKeepsInv
<1>3. CASE RestartBrowsing
  <2>1. /\ StartInner(generation + 2, configured) /\ generation + 2 > generation
        /\ configured' = configured /\ events' = events /\ found' = [m \in Mac |-> 0]
    BY <1>1, <1>3 DEF RestartBrowsing
  <2> QED
    BY <1>1, <2>1, NewNumberKeepsInv
<1>4. ASSUME NEW selection \in Selection, SetBackend(selection)
      PROVE  BrowseInv'
  <2>1. /\ StartInner(generation + 2, selection) /\ generation + 2 > generation
        /\ configured' = selection /\ events' = events /\ found' = [m \in Mac |-> 0]
    BY <1>1, <1>4 DEF SetBackend
  <2> QED
    BY <2>1, NewNumberKeepsInv
<1> QED
  BY <1>2, <1>3, <1>4

-----------------------------------------------------------------------------
(* A report reaches the Qt thread: the queue loses its head.               *)
LEMMA RunEventKeepsInv == ASSUME BrowseInv, RunEvent PROVE BrowseInv'
<1> USE DEF On, IsFailure, IsStart
<1>1. BrowseTypeOK /\ events # <<>> /\ events' = Tail(events)
  BY DEF BrowseInv, RunEvent
<1>2. /\ Len(events) \in Nat /\ Len(events) > 0 /\ events[1] = Head(events)
      /\ Head(events) \in Event
      /\ events' \in Seq(Event) /\ Len(events') = Len(events) - 1
      /\ \A i \in 1 .. Len(events') : events'[i] = events[i + 1]
  BY <1>1, BrowseFacts, HeadTailProperties, EmptySeq
<1>3. generation' = generation /\ configured' = configured /\ browser' = browser
  BY DEF RunEvent
<1>4. PICK e \in Event : e = events[1] /\
        \/ e.generation # generation /\ UNCHANGED <<discovery, found>>
        \/ /\ e.generation = generation /\ e.what \in {"started", "failed"}
           /\ discovery' = e.what /\ found' = found
        \/ /\ e.generation = generation /\ e.what \in {"add", "remove"}
           /\ found' = FoundAfter(e) /\ discovery' = discovery
  BY <1>2 DEF RunEvent, IsCurrentEvent
<1>5. generation \in Nat /\ (generation > 0 => generation \in Generation)
  BY <1>1, BrowseFacts
<1>6. BrowseTypeOK' /\ NoStaleDevice'
  <2>1. CASE found' = found
    BY <1>1, <1>2, <1>3, <1>4, <2>1 DEF BrowseInv, BrowseTypeOK, NoStaleDevice
  <2>2. CASE /\ e.generation = generation /\ e.what \in {"add", "remove"}
             /\ found' = FoundAfter(e) /\ discovery' = discovery
    <3>1. e.mac \in Mac /\ generation \in 0 .. MaxGeneration
      BY <1>1, <2>2 DEF Event, BrowseTypeOK
    <3>2. \A m \in Mac : found'[m] \in {found[m], 0, generation}
      BY <1>1, <2>2, <3>1 DEF FoundAfter, BrowseTypeOK
    <3>3. found' \in [Mac -> 0 .. MaxGeneration]
      BY <1>1, <2>2, <3>1, BrowseAssumption DEF FoundAfter, BrowseTypeOK
    <3> QED
      BY <1>1, <1>2, <1>3, <2>2, <3>2, <3>3 DEF BrowseInv, BrowseTypeOK, NoStaleDevice
  <2> QED
    BY <1>4, <2>1, <2>2
<1>7. NoneFromLater'
  BY <1>2, <1>3 DEF BrowseInv, NoneFromLater
<1>8. FailureIsLast'
  <2> SUFFICES ASSUME NEW i \in 1 .. Len(events'), events'[i].what = "failed"
               PROVE  /\ ~On(browser', events'[i].generation)
                      /\ \A j \in i + 1 .. Len(events') : ~IsStart(events'[j], events'[i].generation)
    BY DEF FailureIsLast
  <2>1. i + 1 \in 1 .. Len(events) /\ events'[i] = events[i + 1]
    BY <1>2
  <2>2. /\ ~On(browser, events[i + 1].generation)
        /\ \A j \in i + 2 .. Len(events) : ~IsStart(events[j], events[i + 1].generation)
    BY <2>1 DEF BrowseInv, FailureIsLast
  <2>3. \A j \in i + 1 .. Len(events') : j + 1 \in i + 2 .. Len(events) /\ events'[j] = events[j + 1]
    BY <1>2
  <2> QED
    BY <1>3, <2>1, <2>2, <2>3
<1>9. FailedIsLast'
  <2>1. CASE e.what = "failed" /\ e.generation = generation
    BY <1>2, <1>3, <1>4, <2>1 DEF BrowseInv, FailureIsLast, FailedIsLast
  <2>2. CASE ~(e.what = "failed" /\ e.generation = generation)
    BY <1>2, <1>3, <1>4, <2>2 DEF BrowseInv, FailedIsLast
  <2> QED
    BY <2>1, <2>2
<1>10. NotFailedGoesOn'
  <2> SUFFICES ASSUME generation > 0, discovery' # "failed", ~On(browser, generation)
               PROVE  \E i \in 1 .. Len(events') : IsFailure(events'[i], generation)
    BY <1>3 DEF NotFailedGoesOn
  <2>1. ~(e.what = "failed" /\ e.generation = generation)
    BY <1>4
  <2>2. discovery # "failed"
    <3>1. SUFFICES ASSUME discovery = "failed" PROVE FALSE
      OBVIOUS
    <3>2. e.what = "started" /\ e.generation = generation
      BY <1>4, <2>1, <3>1
    <3> QED
      BY <1>2, <1>4, <3>1, <3>2 DEF BrowseInv, FailedIsLast
  <2>3. PICK i \in 1 .. Len(events) : IsFailure(events[i], generation)
    BY <2>2 DEF BrowseInv, NotFailedGoesOn
  <2>4. i # 1 /\ i - 1 \in 1 .. Len(events') /\ events'[i - 1] = events[i]
    BY <1>2, <1>4, <2>1, <2>3
  <2> QED
    BY <2>3, <2>4
<1> QED
  BY <1>6, <1>7, <1>8, <1>9, <1>10 DEF BrowseInv

-----------------------------------------------------------------------------
(* A thread that still browses reports something that is no failure.       *)
LEMMA ReportKeepsInv ==
  ASSUME BrowseInv, NEW g \in Generation, NEW e \in Event, Queue(e),
         e.generation = g, e.what # "failed", On(browser, g),
         browser' \in [Generation -> Browser],
         \A k \in Generation : On(browser, k) <=> On(browser', k),
         UNCHANGED <<generation, configured, discovery, found>>
  PROVE  BrowseInv'
<1> USE DEF IsFailure, IsStart
<1>1. BrowseTypeOK
  BY DEF BrowseInv
<1>2. /\ events' \in Seq(Event) /\ Len(events) \in Nat /\ Len(events') = Len(events) + 1
      /\ \A i \in 1 .. Len(events) : events'[i] = events[i]
      /\ events'[Len(events) + 1] = e
  BY <1>1, QueueFacts, BrowseFacts
<1>3. \A i \in 1 .. Len(events) : events[i].generation \in Generation
  BY <1>1, BrowseFacts
<1>4. generation > 0 => generation \in Generation
  BY <1>1, BrowseFacts
<1>5. BrowseTypeOK' /\ NoStaleDevice'
  BY <1>1, <1>2 DEF BrowseInv, BrowseTypeOK, NoStaleDevice
<1>6. NoneFromLater'
  <2>1. /\ \A k \in Generation : On(browser, k) => k <= generation
        /\ \A i \in 1 .. Len(events) : events[i].generation <= generation
        /\ e.generation <= generation
    BY DEF BrowseInv, NoneFromLater
  <2> QED
    BY <1>2, <2>1 DEF NoneFromLater
<1>7. FailureIsLast'
  <2> SUFFICES ASSUME NEW i \in 1 .. Len(events'), events'[i].what = "failed"
               PROVE  /\ ~On(browser', events'[i].generation)
                      /\ \A j \in i + 1 .. Len(events') : ~IsStart(events'[j], events'[i].generation)
    BY DEF FailureIsLast
  <2>1. i \in 1 .. Len(events) /\ events'[i] = events[i]
    BY <1>2
  <2>2. ~On(browser, events[i].generation)
    BY <2>1 DEF BrowseInv, FailureIsLast
  <2>3. events[i].generation # g
    BY <2>2
  <2>4. ASSUME NEW j \in i + 1 .. Len(events')
        PROVE  ~IsStart(events'[j], events[i].generation)
    <3>1. CASE j = Len(events) + 1
      BY <1>2, <2>3, <3>1
    <3>2. CASE j # Len(events) + 1
      BY <1>2, <2>1, <3>2 DEF BrowseInv, FailureIsLast
    <3> QED
      BY <3>1, <3>2
  <2> QED
    BY <1>3, <2>1, <2>2, <2>4
<1>8. FailedIsLast'
  <2> SUFFICES ASSUME generation > 0, discovery = "failed"
               PROVE  /\ ~On(browser', generation)
                      /\ \A i \in 1 .. Len(events') : ~IsStart(events'[i], generation)
    BY DEF FailedIsLast
  <2>1. ~On(browser, generation) /\ generation # g
    BY DEF BrowseInv, FailedIsLast
  <2> QED
    BY <1>2, <1>4, <2>1 DEF BrowseInv, FailedIsLast
<1>9. NotFailedGoesOn'
  BY <1>2, <1>4 DEF BrowseInv, NotFailedGoesOn
<1> QED
  BY <1>5, <1>6, <1>7, <1>8, <1>9 DEF BrowseInv

(* A thread goes on, ends because it is outdated, or fails over.           *)
LEMMA ThreadKeepsInv ==
  ASSUME BrowseInv, NEW g \in Generation, On(browser, g),
         browser' \in [Generation -> Browser],
         \A k \in Generation : k # g => browser'[k] = browser[k],
         g = generation => On(browser', g),
         UNCHANGED <<generation, configured, discovery, found, events>>
  PROVE  BrowseInv'
<1>1. BrowseTypeOK
  BY DEF BrowseInv
<1>2. /\ \A i \in 1 .. Len(events) : events[i].generation \in Generation
      /\ generation > 0 => generation \in Generation
  BY <1>1, BrowseFacts
<1>3. \A k \in Generation : /\ ~On(browser, k) => ~On(browser', k)
                            /\ k = generation /\ On(browser, k) => On(browser', k)
  BY DEF On
<1>4. BrowseTypeOK' /\ NoStaleDevice'
  BY <1>1 DEF BrowseInv, BrowseTypeOK, NoStaleDevice
<1>6. NoneFromLater'
  BY DEF BrowseInv, NoneFromLater, On
<1>5. FailureIsLast' /\ FailedIsLast' /\ NotFailedGoesOn'
  BY <1>2, <1>3 DEF BrowseInv, FailureIsLast, FailedIsLast, NotFailedGoesOn
<1> QED
  BY <1>4, <1>5, <1>6 DEF BrowseInv

(* The current thread fails: its last report.                              *)
LEMMA FailureKeepsInv ==
  ASSUME BrowseInv, NEW g \in Generation, g = generation, On(browser, g), ~On(browser', g),
         Queue([what |-> "failed", generation |-> g]),
         browser' \in [Generation -> Browser],
         \A k \in Generation : k # g => browser'[k] = browser[k],
         UNCHANGED <<generation, configured, discovery, found>>
  PROVE  BrowseInv'
<1> USE DEF IsFailure, IsStart
<1>1. BrowseTypeOK
  BY DEF BrowseInv
<1> DEFINE e == [what |-> "failed", generation |-> g]
<1>2. e \in Event
  BY DEF Event
<1>3. /\ events' \in Seq(Event) /\ Len(events) \in Nat /\ Len(events') = Len(events) + 1
      /\ \A i \in 1 .. Len(events) : events'[i] = events[i]
      /\ events'[Len(events) + 1] = e
  BY <1>1, <1>2, QueueFacts, BrowseFacts
<1>4. \A i \in 1 .. Len(events) : events[i].generation \in Generation
  BY <1>1, BrowseFacts
<1>5. \A k \in Generation : ~On(browser, k) => ~On(browser', k)
  BY DEF On
<1>6. BrowseTypeOK' /\ NoStaleDevice'
  BY <1>1, <1>3 DEF BrowseInv, BrowseTypeOK, NoStaleDevice
<1>7. NoneFromLater'
  <2>1. e.generation <= generation
    BY <1>1, BrowseFacts
  <2>2. \A i \in 1 .. Len(events') : events'[i].generation <= generation
    BY <1>3, <2>1 DEF BrowseInv, NoneFromLater
  <2>3. \A k \in Generation : On(browser', k) => k <= generation
    BY <1>5 DEF BrowseInv, NoneFromLater
  <2> QED
    BY <2>2, <2>3 DEF NoneFromLater
<1>8. FailureIsLast'
  <2> SUFFICES ASSUME NEW i \in 1 .. Len(events'), events'[i].what = "failed"
               PROVE  /\ ~On(browser', events'[i].generation)
                      /\ \A j \in i + 1 .. Len(events') : ~IsStart(events'[j], events'[i].generation)
    BY DEF FailureIsLast
  <2>1. CASE i = Len(events) + 1
    BY <1>3, <2>1
  <2>2. CASE i # Len(events) + 1
    <3>1. i \in 1 .. Len(events) /\ events'[i] = events[i]
      BY <1>3, <2>2
    <3>2. ~On(browser', events[i].generation)
      BY <1>4, <1>5, <3>1 DEF BrowseInv, FailureIsLast
    <3>3. \A j \in i + 1 .. Len(events) : ~IsStart(events[j], events[i].generation)
      BY <3>1 DEF BrowseInv, FailureIsLast
    <3>4. ~IsStart(events'[Len(events) + 1], events[i].generation)
      BY <1>3
    <3>5. ASSUME NEW j \in i + 1 .. Len(events')
          PROVE  ~IsStart(events'[j], events[i].generation)
      <4>1. CASE j = Len(events) + 1
        BY <3>4, <4>1
      <4>2. CASE j # Len(events) + 1
        <5>1. j \in i + 1 .. Len(events)
          BY <1>3, <4>2
        <5>2. events'[j] = events[j]
          BY <1>3, <5>1
        <5> QED
          BY <3>3, <5>1, <5>2
      <4> QED
        BY <4>1, <4>2
    <3> QED
      BY <3>1, <3>2, <3>5
  <2> QED
    BY <2>1, <2>2
<1>9. FailedIsLast'
  BY <1>1, BrowseFacts DEF BrowseInv, FailedIsLast
<1>10. NotFailedGoesOn'
  BY <1>3 DEF NotFailedGoesOn
<1> QED
  BY <1>6, <1>7, <1>8, <1>9, <1>10 DEF BrowseInv

-----------------------------------------------------------------------------
LEMMA BrowserFailsKeepsInv ==
  ASSUME BrowseInv, NEW g \in Generation, BrowserFails(g) PROVE BrowseInv'
<1> USE DEF On
<1>1. BrowseTypeOK /\ On(browser, g)
  BY DEF BrowseInv, BrowserFails
<1>2. CASE g = generation /\ browser[g].selection = "auto" /\ browser[g].backend = "native"
  <2>1. browser' = [browser EXCEPT ![g].stage = "starting", ![g].backend = "rust"]
        /\ UNCHANGED <<generation, configured, discovery, found, events>>
    BY <1>2 DEF BrowserFails
  <2>2. /\ browser' \in [Generation -> Browser] /\ browser'[g].stage = "starting"
        /\ \A k \in Generation : k # g => browser'[k] = browser[k]
    BY <1>1, <2>1 DEF BrowseTypeOK, Browser
  <2> QED
    BY <1>1, <2>1, <2>2, ThreadKeepsInv
<1>3. CASE ~(g = generation /\ browser[g].selection = "auto" /\ browser[g].backend = "native")
  <2>1. /\ browser' = [browser EXCEPT ![g].stage = "over"]
        /\ UNCHANGED <<generation, configured, discovery, found>>
        /\ IF g = generation THEN Queue([what |-> "failed", generation |-> g])
           ELSE UNCHANGED events
    BY <1>3 DEF BrowserFails
  <2>2. /\ browser' \in [Generation -> Browser] /\ browser'[g].stage = "over"
        /\ \A k \in Generation : k # g => browser'[k] = browser[k]
    BY <1>1, <2>1 DEF BrowseTypeOK, Browser
  <2>3. CASE g = generation
    BY <1>1, <2>1, <2>2, <2>3, FailureKeepsInv
  <2>4. CASE g # generation
    BY <1>1, <2>1, <2>2, <2>4, ThreadKeepsInv
  <2> QED
    BY <2>3, <2>4
<1> QED
  BY <1>2, <1>3

LEMMA ServicesKeepInv ==
  ASSUME BrowseInv, NEW g \in Generation, BrowseServices(g) PROVE BrowseInv'
<1> DEFINE e == [what |-> "started", generation |-> g]
<1>1. BrowseTypeOK
  BY DEF BrowseInv
<1>2. e \in Event /\ e.generation = g /\ e.what # "failed"
  BY DEF Event
<1>3. /\ Queue(e) /\ browser[g].stage = "starting"
      /\ browser' = [browser EXCEPT ![g].stage = "polling"]
      /\ UNCHANGED <<generation, configured, discovery, found>>
  BY DEF BrowseServices, BrowsingAt
<1>4. /\ browser' \in [Generation -> Browser] /\ browser'[g].stage = "polling"
      /\ \A k \in Generation : k # g => browser'[k] = browser[k]
  BY <1>1, <1>3 DEF BrowseTypeOK, Browser
<1>5. On(browser, g) /\ \A k \in Generation : On(browser, k) <=> On(browser', k)
  BY <1>3, <1>4 DEF On
<1> HIDE DEF e
<1> QED
  BY <1>2, <1>3, <1>4, <1>5, ReportKeepsInv

LEMMA ThreadsKeepInv ==
  ASSUME BrowseInv, NEW g \in Generation,
         \/ BrowseServices(g) \/ BrowserFails(g) \/ BrowserEnds(g)
         \/ \E what \in {"add", "remove"}, m \in Mac : ServiceEvent(g, what, m)
  PROVE  BrowseInv'
<1> USE DEF On
<1>1. BrowseTypeOK
  BY DEF BrowseInv
<1>2. CASE BrowseServices(g)
  BY <1>1, <1>2, ServicesKeepInv
<1>3. CASE BrowserFails(g)
  BY <1>3, BrowserFailsKeepsInv
<1>4. CASE BrowserEnds(g)
  <2>1. /\ On(browser, g) /\ g # generation
        /\ browser' = [browser EXCEPT ![g].stage = "over"]
        /\ UNCHANGED <<generation, configured, discovery, found, events>>
    BY <1>4 DEF BrowserEnds, BrowsingAt
  <2>2. /\ browser' \in [Generation -> Browser]
        /\ \A k \in Generation : k # g => browser'[k] = browser[k]
    BY <1>1, <2>1 DEF BrowseTypeOK, Browser
  <2> QED
    BY <2>1, <2>2, ThreadKeepsInv
<1>5. ASSUME NEW what \in {"add", "remove"}, NEW m \in Mac, ServiceEvent(g, what, m)
      PROVE  BrowseInv'
  <2> DEFINE e == [what |-> what, generation |-> g, mac |-> m]
  <2>1. e \in Event /\ e.generation = g /\ e.what # "failed"
    BY DEF Event
  <2>2. /\ Queue(e) /\ On(browser, g) /\ g = generation /\ browser' = browser
        /\ UNCHANGED <<generation, configured, discovery, found>>
    BY <1>5 DEF ServiceEvent, BrowsingAt
  <2>3. browser' \in [Generation -> Browser]
    BY <1>1, <2>2 DEF BrowseTypeOK
  <2> HIDE DEF e
  <2> QED
    BY <2>1, <2>2, <2>3, ReportKeepsInv
<1> QED
  BY <1>2, <1>3, <1>4, <1>5

-----------------------------------------------------------------------------
LEMMA BrowseStep == BrowseInv /\ [BrowseNext]_browseVars => BrowseInv'
<1> SUFFICES ASSUME BrowseInv, [BrowseNext]_browseVars PROVE BrowseInv'
  OBVIOUS
<1>1. CASE UNCHANGED browseVars
  BY <1>1 DEF browseVars, BrowseInv, BrowseTypeOK, NoneFromLater, FailureIsLast, FailedIsLast,
              NotFailedGoesOn, NoStaleDevice, On, IsFailure, IsStart
<1>2. CASE BrowseNext
  BY <1>2, StartBrowsingKeepsInv, RunEventKeepsInv, ThreadsKeepInv DEF BrowseNext
<1> QED
  BY <1>1, <1>2

LEMMA BrowseAlways == BrowseSpec => []BrowseInv
BY BrowseInitial, BrowseStep, PTL DEF BrowseSpec

(* No device of an earlier browsing is ever listed, however many restarts  *)
(* come while reports wait for the Qt thread.                              *)
THEOREM NoDeviceIsStale == BrowseSpec => []NoStaleDevice
<1>1. BrowseInv => NoStaleDevice
  BY DEF BrowseInv
<1> QED
  BY <1>1, BrowseAlways, PTL

(* "failed" means that nothing browses, and anything else that something   *)
(* does or that its failure waits for the Qt thread.                       *)
THEOREM StateIsTruthful == BrowseSpec => []StateTruthful
<1>1. ASSUME BrowseInv PROVE StateTruthful
  <2> SUFFICES ASSUME generation > 0, discovery # "failed", ~On(browser, generation)
               PROVE  FailureQueued
    BY <1>1 DEF StateTruthful, BrowseInv, FailedIsLast, On
  <2>1. PICK i \in 1 .. Len(events) : IsFailure(events[i], generation)
    BY <1>1 DEF BrowseInv, NotFailedGoesOn
  <2>2. events[i] \in Event /\ i \in DOMAIN events
    BY <1>1, BrowseFacts, LenProperties DEF BrowseInv, BrowseTypeOK
  <2>3. events[i] = [what |-> "failed", generation |-> generation]
    BY <2>1, <2>2 DEF Event, IsFailure
  <2> QED
    BY <2>2, <2>3 DEF FailureQueued
<1> QED
  BY <1>1, BrowseAlways, PTL

-----------------------------------------------------------------------------
(* The downloads of developer images.                                      *)

Closure == [what : {"finished"}, version : Version] \cup [what : {"list"}, revision : Revision]

Waits(c) == \E i \in 1 .. Len(closures) : closures[i] = c
Completion(v) == [what |-> "finished", version |-> v]
ListReady(r) == [what |-> "list", revision |-> r]

(* A handle is that of a download of its version, and was not aborted.     *)
HandlesOwned ==
  \A v \in Version : activeDownloads[v] # 0 =>
    /\ download[activeDownloads[v]].version = v
    /\ ~download[activeDownloads[v]].cancelled
    /\ activeDownloads[v] <= lastDownload

DownloadsStaged ==
  \A d \in Download :
    /\ download[d].stage # "unused" => download[d].version \in Version
    /\ download[d].stage = "aborted" => download[d].cancelled
    /\ d > lastDownload => download[d].stage = "unused" /\ ~download[d].cancelled

(* The newest load has been started before the window that is open was.    *)
NewestLoads ==
  /\ imagesOpen => listRevision # 0
  /\ listRevision # 0 => listing[listRevision].stage # "none"

SeenOnDisk == \A r \in Revision : listing[r].seen \subseteq onDisk

(* What the newest load has found is shown, or waits to be.                *)
NewestShown ==
  listRevision # 0 /\ listing[listRevision].stage = "over" /\ listing[listRevision].ok =>
    \/ Waits(ListReady(listRevision))
    \/ imageRows.downloaded = listing[listRevision].seen

(* An image that the newest load has not found was extracted after it, and *)
(* the completion that will start another load is still to come, unless    *)
(* the download was cancelled.                                             *)
Accounted(v) ==
  \/ Waits(Completion(v))
  \/ \E d \in Download : /\ download[d].version = v
                         /\ download[d].cancelled \/ download[d].stage = "extracted"

UnseenAccounted ==
  imagesOpen /\ listRevision # 0 =>
    (listing[listRevision].stage \in {"read", "over"} /\ listing[listRevision].ok =>
       \A v \in onDisk \ listing[listRevision].seen : Accounted(v))

RowsHandled == imageRows.downloading \subseteq InTable

DownloadsInv ==
  /\ DownloadsTypeOK /\ RowsHandled
  /\ HandlesOwned /\ DownloadsStaged
  /\ NewestLoads /\ SeenOnDisk /\ NewestShown /\ UnseenAccounted

-----------------------------------------------------------------------------
DownloadRecord == [version : Version \cup {"none"}, stage : DownloadStage, cancelled : BOOLEAN]

LEMMA DownloadFacts ==
  /\ \A d \in Download : d \in Nat /\ d # 0 /\ d \in 0 .. MaxDownload
  /\ \A r \in Revision : r \in Nat /\ r # 0 /\ r \in 0 .. MaxList
  /\ \A n \in 0 .. MaxDownload : n \in Nat /\ (n # 0 => n \in Download)
                                 /\ (n < MaxDownload => n + 1 \in Download)
  /\ \A n \in 0 .. MaxList : n \in Nat /\ (n # 0 => n \in Revision)
                             /\ (n < MaxList => n + 1 \in Revision)
  /\ 0 \in 0 .. MaxDownload /\ 0 \in 0 .. MaxList
BY DownloadAssumption DEF Download, Revision

LEMMA DownloadsTypes ==
  ASSUME DownloadsTypeOK
  PROVE  /\ closures \in Seq(Closure) /\ Len(closures) \in Nat
         /\ \A d \in Download : download[d] \in DownloadRecord
         /\ \A r \in Revision : listing[r] \in Load
         /\ imageRows \in Rows /\ onDisk \subseteq Version
         /\ lastDownload \in 0 .. MaxDownload /\ listRevision \in 0 .. MaxList
         /\ \A v \in Version : activeDownloads[v] \in 0 .. MaxDownload
<1>1. closures \in Seq(Closure)
  BY DEF DownloadsTypeOK, Closure
<1>2. Len(closures) \in Nat
  BY <1>1, LenProperties
<1> QED
  BY <1>1, <1>2 DEF DownloadsTypeOK, DownloadRecord

LEMMA DownloadsInitial == DownloadsInit => DownloadsInv
<1> SUFFICES ASSUME DownloadsInit PROVE DownloadsInv
  OBVIOUS
<1>1. [version |-> "none", stage |-> "unused", cancelled |-> FALSE] \in DownloadRecord
  BY DEF DownloadRecord, DownloadStage
<1>2. [stage |-> "none", seen |-> {}, ok |-> FALSE] \in Load
  BY DEF Load
<1>3. closures \in Seq(Closure)
  BY EmptySeq DEF DownloadsInit
<1>4. download \in [Download -> DownloadRecord] /\ listing \in [Revision -> Load]
  BY <1>1, <1>2 DEF DownloadsInit
<1>5. imageRows \in Rows /\ activeDownloads \in [Version -> 0 .. MaxDownload]
  BY DownloadFacts DEF DownloadsInit, Rows
<1>6. /\ lastDownload \in 0 .. MaxDownload /\ listRevision \in 0 .. MaxList
      /\ onDisk \subseteq Version /\ imagesOpen \in BOOLEAN
  BY DownloadFacts DEF DownloadsInit
<1>7. DownloadsTypeOK
  BY <1>3, <1>4, <1>5, <1>6 DEF DownloadsTypeOK, Closure, DownloadRecord
<1>8. RowsHandled /\ HandlesOwned /\ DownloadsStaged /\ NewestLoads
  BY DEF DownloadsInit, RowsHandled, HandlesOwned, DownloadsStaged, NewestLoads
<1>9. SeenOnDisk /\ NewestShown /\ UnseenAccounted
  BY DEF DownloadsInit, SeenOnDisk, NewestShown, UnseenAccounted
<1> QED
  BY <1>7, <1>8, <1>9 DEF DownloadsInv

-----------------------------------------------------------------------------
(* The closures of the Qt thread.                                          *)
LEMMA ClosureQueued ==
  ASSUME DownloadsTypeOK, NEW e \in Closure, closures' = Append(closures, e)
  PROVE  /\ closures' \in Seq(Closure)
         /\ Waits(e)' /\ \A c : Waits(c) => Waits(c)'
<1>1. closures \in Seq(Closure) /\ Len(closures) \in Nat
  BY DownloadsTypes
<1>2. /\ closures' \in Seq(Closure) /\ Len(closures') = Len(closures) + 1
      /\ \A i \in 1 .. Len(closures) : closures'[i] = closures[i]
      /\ closures'[Len(closures) + 1] = e
  BY <1>1, AppendProperties
<1>3. Waits(e)'
  <2>1. Len(closures) + 1 \in 1 .. Len(closures')
    BY <1>1, <1>2
  <2> QED
    BY <1>2, <2>1 DEF Waits
<1>4. ASSUME NEW c, Waits(c) PROVE Waits(c)'
  <2>1. PICK i \in 1 .. Len(closures) : closures[i] = c
    BY <1>4 DEF Waits
  <2>2. i \in 1 .. Len(closures') /\ closures'[i] = c
    BY <1>1, <1>2, <2>1
  <2> QED
    BY <2>2 DEF Waits
<1> QED
  BY <1>2, <1>3, <1>4

LEMMA ClosureTaken ==
  ASSUME DownloadsTypeOK, closures # <<>>, closures' = Tail(closures)
  PROVE  /\ closures' \in Seq(Closure) /\ Head(closures) \in Closure
         /\ \A c : Waits(c) => c = Head(closures) \/ Waits(c)'
<1>1. closures \in Seq(Closure) /\ Len(closures) \in Nat
  BY DownloadsTypes
<1>2. /\ closures' \in Seq(Closure) /\ Len(closures') = Len(closures) - 1
      /\ \A i \in 1 .. Len(closures') : closures'[i] = closures[i + 1]
      /\ Head(closures) = closures[1] /\ Head(closures) \in Closure
  BY <1>1, HeadTailProperties
<1>3. ASSUME NEW c, Waits(c), c # Head(closures) PROVE Waits(c)'
  <2>1. PICK i \in 1 .. Len(closures) : closures[i] = c
    BY <1>3 DEF Waits
  <2>2. i # 1
    BY <1>2, <1>3, <2>1
  <2>3. i - 1 \in 1 .. Len(closures') /\ closures'[i - 1] = closures[(i - 1) + 1] /\ (i - 1) + 1 = i
    BY <1>1, <1>2, <2>1, <2>2
  <2> QED
    BY <2>1, <2>3 DEF Waits
<1> QED
  BY <1>2, <1>3

(* A new load of the list: nothing is owed to it yet.                      *)
LEMMA LoadFacts ==
  ASSUME DownloadsInv, LoadImageList
  PROVE  /\ listing' \in [Revision -> Load] /\ listRevision' \in 0 .. MaxList
         /\ listRevision' # 0 /\ listing'[listRevision'].stage = "loading"
         /\ \A r \in Revision : listing'[r].seen = listing[r].seen
<1>1. DownloadsTypeOK
  BY DEF DownloadsInv
<1> DEFINE r == listRevision + 1
           q == [listing[r] EXCEPT !.stage = "loading"]
<1>2. r \in Revision /\ listRevision' = r
  BY <1>1, DownloadsTypes, DownloadFacts, DownloadAssumption DEF LoadImageList, Revision
<1>3. listing[r] \in Load
  BY <1>1, <1>2, DownloadsTypes
<1>4. q \in Load /\ q.stage = "loading" /\ q.seen = listing[r].seen
  BY <1>3 DEF Load
<1>5. listing' = [listing EXCEPT ![r] = q]
  BY <1>1, <1>2 DEF LoadImageList, DownloadsTypeOK
<1> HIDE DEF r, q
<1>6. /\ listing' \in [Revision -> Load] /\ listing'[r] = q
      /\ \A i \in Revision : i # r => listing'[i] = listing[i]
  BY <1>1, <1>2, <1>4, <1>5 DEF DownloadsTypeOK
<1> QED
  BY <1>2, <1>4, <1>6, DownloadFacts

(* With a new load only the types and the handles remain to be shown.      *)
LEMMA NewLoadKeepsInv ==
  ASSUME DownloadsInv, LoadImageList, RowsHandled', HandlesOwned',
         UNCHANGED <<download, lastDownload, onDisk>>,
         activeDownloads' \in [Version -> 0 .. MaxDownload], imageRows' \in Rows,
         imagesOpen' \in BOOLEAN, closures' \in Seq(Closure)
  PROVE  DownloadsInv'
<1>1. DownloadsTypeOK
  BY DEF DownloadsInv
<1>2. /\ listing' \in [Revision -> Load] /\ listRevision' \in 0 .. MaxList
      /\ listRevision' # 0 /\ listing'[listRevision'].stage = "loading"
      /\ \A r \in Revision : listing'[r].seen = listing[r].seen
  BY LoadFacts
<1>3. DownloadsTypeOK'
  BY <1>1, <1>2 DEF DownloadsTypeOK, Closure
<1>4. DownloadsStaged' /\ SeenOnDisk'
  BY <1>2 DEF DownloadsInv, DownloadsStaged, SeenOnDisk
<1>5. NewestLoads' /\ NewestShown' /\ UnseenAccounted'
  BY <1>2 DEF NewestLoads, NewestShown, UnseenAccounted
<1> QED
  BY <1>3, <1>4, <1>5 DEF DownloadsInv

LEMMA WindowKeepsInv ==
  ASSUME DownloadsInv, OpenImages \/ CloseImages \/ RefreshImages PROVE DownloadsInv'
<1>1. DownloadsTypeOK /\ UNCHANGED <<activeDownloads, download, lastDownload, onDisk, imageRows, closures>>
  BY DEF DownloadsInv, OpenImages, CloseImages, RefreshImages
<1>2. RowsHandled' /\ HandlesOwned'
  BY <1>1 DEF DownloadsInv, RowsHandled, HandlesOwned, InTable
<1>3. imagesOpen' \in BOOLEAN
  BY <1>1 DEF DownloadsTypeOK, OpenImages, CloseImages, RefreshImages
<1>4. CASE OpenImages \/ RefreshImages
  <2>1. LoadImageList
    BY <1>4 DEF OpenImages, RefreshImages
  <2>2. /\ activeDownloads' \in [Version -> 0 .. MaxDownload] /\ imageRows' \in Rows
        /\ closures' \in Seq(Closure)
    BY <1>1 DEF DownloadsTypeOK, Closure
  <2> QED
    BY <1>1, <1>2, <1>3, <2>1, <2>2, NewLoadKeepsInv
<1>5. CASE CloseImages
  <2>1. imagesOpen' = FALSE /\ UNCHANGED <<listRevision, listing>>
    BY <1>5 DEF CloseImages
  <2>2. DownloadsTypeOK'
    BY <1>1, <1>3, <2>1 DEF DownloadsTypeOK
  <2>3. DownloadsStaged' /\ SeenOnDisk' /\ NewestLoads' /\ UnseenAccounted'
    BY <1>1, <2>1 DEF DownloadsInv, DownloadsStaged, SeenOnDisk, NewestLoads, UnseenAccounted
  <2>4. NewestShown'
    BY <1>1, <2>1 DEF DownloadsInv, NewestShown, Waits
  <2> QED
    BY <1>2, <2>2, <2>3, <2>4 DEF DownloadsInv
<1> QED
  BY <1>4, <1>5

-----------------------------------------------------------------------------
(* A step of one download that leaves the list alone: what accounted for   *)
(* an image still does, and a new image is accounted for.                  *)
LEMMA DownloadMovesKeepsInv ==
  ASSUME DownloadsInv, DownloadsTypeOK', RowsHandled', HandlesOwned', DownloadsStaged',
         UNCHANGED <<listRevision, listing, imagesOpen>>,
         imageRows'.downloaded = imageRows.downloaded,
         onDisk \subseteq onDisk',
         \A c : Waits(c) => Waits(c)',
         \A v \in Version : Accounted(v) \/ (v \in onDisk' /\ v \notin onDisk) => Accounted(v)'
  PROVE  DownloadsInv'
<1>1. DownloadsTypeOK
  BY DEF DownloadsInv
<1>2. NewestLoads' /\ SeenOnDisk'
  BY DEF DownloadsInv, NewestLoads, SeenOnDisk
<1>3. NewestShown'
  BY DEF DownloadsInv, NewestShown, ListReady
<1>4. UnseenAccounted'
  <2> SUFFICES ASSUME imagesOpen, listRevision # 0,
                      listing[listRevision].stage \in {"read", "over"}, listing[listRevision].ok,
                      NEW v \in onDisk' \ listing[listRevision].seen
               PROVE  Accounted(v)'
    BY DEF UnseenAccounted
  <2>1. v \in Version
    BY DEF DownloadsTypeOK
  <2>2. CASE v \in onDisk
    BY <2>1, <2>2 DEF DownloadsInv, UnseenAccounted
  <2> QED
    BY <2>1, <2>2
<1> QED
  BY <1>2, <1>3, <1>4 DEF DownloadsInv

(* One download becomes q.                                                 *)
LEMMA OneDownloadMoves ==
  ASSUME DownloadsInv, NEW d \in Download, NEW q \in DownloadRecord,
         download' = [download EXCEPT ![d] = q]
  PROVE  /\ download' \in [Download -> DownloadRecord] /\ download'[d] = q
         /\ \A i \in Download : i # d => download'[i] = download[i]
BY DEF DownloadsInv, DownloadsTypeOK, DownloadRecord

LEMMA DownloadImageKeepsInv ==
  ASSUME DownloadsInv, NEW v \in Version, DownloadImage(v) PROVE DownloadsInv'
<1> DEFINE d == lastDownload + 1
           q == [download[d] EXCEPT !.version = v, !.stage = "receiving"]
<1>1. DownloadsTypeOK
      /\ UNCHANGED <<onDisk, listRevision, listing, imagesOpen, closures>>
  BY DEF DownloadsInv, DownloadImage
<1>2. d \in Download /\ lastDownload' = d /\ lastDownload \in Nat /\ d \in 0 .. MaxDownload
  BY <1>1, DownloadsTypes, DownloadFacts, DownloadAssumption DEF DownloadImage, Download
<1>3. /\ download[d] \in DownloadRecord /\ download[d].stage = "unused"
      /\ ~download[d].cancelled
  BY <1>1, <1>2, DownloadsTypes DEF DownloadsInv, DownloadsStaged
<1>4. q \in DownloadRecord /\ q.version = v /\ q.stage = "receiving" /\ ~q.cancelled
  BY <1>3 DEF DownloadRecord, DownloadStage
<1>5. download' = [download EXCEPT ![d] = q]
  BY <1>1, <1>2 DEF DownloadImage, DownloadsTypeOK
<1>6. activeDownloads' = [activeDownloads EXCEPT ![v] = d]
      /\ imageRows' = [imageRows EXCEPT !.downloading = imageRows.downloading \cup {v}]
  BY DEF DownloadImage
<1>7. d > lastDownload /\ \A i \in Download : i > d => i > lastDownload
  BY <1>2, DownloadFacts
<1> HIDE DEF d, q
<1>8. /\ download' \in [Download -> DownloadRecord] /\ download'[d] = q
      /\ \A i \in Download : i # d => download'[i] = download[i]
  BY <1>2, <1>4, <1>5, OneDownloadMoves
<1>9. /\ activeDownloads' \in [Version -> 0 .. MaxDownload] /\ activeDownloads'[v] = d
      /\ \A i \in Version : i # v => activeDownloads'[i] = activeDownloads[i]
  BY <1>1, <1>2, <1>6 DEF DownloadsTypeOK
<1>10. /\ imageRows' \in Rows /\ imageRows'.downloading = imageRows.downloading \cup {v}
       /\ imageRows'.downloaded = imageRows.downloaded
  BY <1>1, <1>6 DEF DownloadsTypeOK, Rows
<1>11. DownloadsTypeOK'
  BY <1>1, <1>2, <1>8, <1>9, <1>10 DEF DownloadsTypeOK, DownloadRecord
<1>12. RowsHandled'
  <2>1. InTable' = InTable \cup {v}
    BY <1>2, <1>9, DownloadFacts DEF InTable
  <2> QED
    BY <1>10, <2>1 DEF DownloadsInv, RowsHandled
<1>13. HandlesOwned'
  <2> SUFFICES ASSUME NEW w \in Version, activeDownloads'[w] # 0
               PROVE  /\ download'[activeDownloads'[w]].version = w
                      /\ ~download'[activeDownloads'[w]].cancelled
                      /\ activeDownloads'[w] <= lastDownload'
    BY DEF HandlesOwned
  <2>1. CASE w = v
    BY <1>2, <1>4, <1>8, <1>9, <2>1, DownloadFacts
  <2>2. CASE w # v
    <3>1. /\ activeDownloads'[w] = activeDownloads[w] /\ activeDownloads[w] \in Download
          /\ download[activeDownloads[w]].version = w
          /\ ~download[activeDownloads[w]].cancelled
          /\ activeDownloads[w] <= lastDownload
      BY <1>1, <1>9, <2>2, DownloadsTypes, DownloadFacts DEF DownloadsInv, HandlesOwned
    <3>2. activeDownloads[w] # d /\ activeDownloads[w] <= d
      BY <1>2, <3>1, DownloadFacts DEF d
    <3> QED
      BY <1>2, <1>8, <3>1, <3>2
  <2> QED
    BY <2>1, <2>2
<1>14. DownloadsStaged'
  <2> SUFFICES ASSUME NEW i \in Download
               PROVE  /\ download'[i].stage # "unused" => download'[i].version \in Version
                      /\ download'[i].stage = "aborted" => download'[i].cancelled
                      /\ i > lastDownload' => download'[i].stage = "unused" /\ ~download'[i].cancelled
    BY DEF DownloadsStaged
  <2>1. CASE i = d
    BY <1>2, <1>4, <1>8, <2>1, DownloadFacts
  <2>2. CASE i # d
    BY <1>2, <1>7, <1>8, <2>2 DEF DownloadsInv, DownloadsStaged
  <2> QED
    BY <2>1, <2>2
<1>15. \A c : Waits(c) => Waits(c)'
  BY <1>1 DEF Waits
<1>16. \A w \in Version : Accounted(w) => Accounted(w)'
  <2> SUFFICES ASSUME NEW w \in Version, NEW i \in Download, download[i].version = w,
                      download[i].cancelled \/ download[i].stage = "extracted"
               PROVE  Accounted(w)'
    BY <1>15 DEF Accounted, Completion
  <2>1. i # d
    BY <1>3
  <2> QED
    BY <1>8, <2>1 DEF Accounted
<1> QED
  BY <1>1, <1>10, <1>11, <1>12, <1>13, <1>14, <1>15, <1>16, DownloadMovesKeepsInv

LEMMA CancelDownloadKeepsInv ==
  ASSUME DownloadsInv, NEW v \in Version, CancelDownload(v) PROVE DownloadsInv'
<1> DEFINE d == activeDownloads[v]
           stage == CASE download[d].stage = "extracting" -> "aborted"
                      [] download[d].stage \in {"receiving", "extracted"} -> "over"
                      [] OTHER -> download[d].stage
           q == [download[d] EXCEPT !.cancelled = (download[d].stage # "over"), !.stage = stage]
<1>1. DownloadsTypeOK
      /\ UNCHANGED <<lastDownload, onDisk, listRevision, listing, imagesOpen, closures>>
  BY DEF DownloadsInv, CancelDownload
<1>2. d \in Download /\ download[d] \in DownloadRecord /\ d <= lastDownload
      /\ download[d].version = v /\ ~download[d].cancelled /\ d # 0
  BY <1>1, DownloadsTypes, DownloadFacts DEF DownloadsInv, HandlesOwned, CancelDownload
<1>3. stage \in DownloadStage
  BY <1>2 DEF DownloadRecord, DownloadStage
<1>4. /\ q \in DownloadRecord /\ q.version = v
      /\ q.cancelled <=> download[d].stage # "over"
      /\ q.stage = stage
  BY <1>2, <1>3 DEF DownloadRecord
<1>5. download' = [download EXCEPT ![d] = q]
  BY <1>1, <1>2 DEF CancelDownload, AbortDownload, DownloadsTypeOK
<1>6. /\ stage = "aborted" => q.cancelled
      /\ stage # "unused" => v \in Version
      /\ download[d].stage = "extracted" => q.cancelled
  BY <1>4
<1>7. activeDownloads' = [activeDownloads EXCEPT ![v] = 0]
      /\ imageRows' = [imageRows EXCEPT !.downloading = imageRows.downloading \ {v}]
  BY DEF CancelDownload
<1> HIDE DEF q, stage, d
<1>8. /\ download' \in [Download -> DownloadRecord] /\ download'[d] = q
      /\ \A i \in Download : i # d => download'[i] = download[i]
  BY <1>2, <1>4, <1>5, OneDownloadMoves
<1>9. /\ activeDownloads' \in [Version -> 0 .. MaxDownload] /\ activeDownloads'[v] = 0
      /\ \A i \in Version : i # v => activeDownloads'[i] = activeDownloads[i]
  BY <1>1, <1>7, DownloadFacts DEF DownloadsTypeOK
<1>10. /\ imageRows' \in Rows /\ imageRows'.downloading = imageRows.downloading \ {v}
       /\ imageRows'.downloaded = imageRows.downloaded
  BY <1>1, <1>7 DEF DownloadsTypeOK, Rows
<1>11. DownloadsTypeOK'
  BY <1>1, <1>8, <1>9, <1>10 DEF DownloadsTypeOK, DownloadRecord
<1>12. RowsHandled'
  <2>1. InTable' = InTable \ {v}
    BY <1>9 DEF InTable
  <2> QED
    BY <1>10, <2>1 DEF DownloadsInv, RowsHandled
<1>13. HandlesOwned'
  <2> SUFFICES ASSUME NEW w \in Version, activeDownloads'[w] # 0
               PROVE  /\ download'[activeDownloads'[w]].version = w
                      /\ ~download'[activeDownloads'[w]].cancelled
                      /\ activeDownloads'[w] <= lastDownload'
    BY DEF HandlesOwned
  <2>1. w # v /\ activeDownloads'[w] = activeDownloads[w]
    BY <1>9
  <2>2. /\ activeDownloads[w] \in Download
        /\ download[activeDownloads[w]].version = w
        /\ ~download[activeDownloads[w]].cancelled
        /\ activeDownloads[w] <= lastDownload
    BY <1>1, <2>1, DownloadsTypes, DownloadFacts DEF DownloadsInv, HandlesOwned
  <2>3. activeDownloads[w] # d
    BY <1>2, <2>1, <2>2
  <2> QED
    BY <1>1, <1>8, <2>1, <2>2, <2>3
<1>14. DownloadsStaged'
  <2> SUFFICES ASSUME NEW i \in Download
               PROVE  /\ download'[i].stage # "unused" => download'[i].version \in Version
                      /\ download'[i].stage = "aborted" => download'[i].cancelled
                      /\ i > lastDownload => download'[i].stage = "unused" /\ ~download'[i].cancelled
    BY <1>1 DEF DownloadsStaged
  <2>1. CASE i = d
    <3>1. ~(d > lastDownload)
      BY <1>1, <1>2, DownloadFacts, DownloadsTypes
    <3> QED
      BY <1>4, <1>6, <1>8, <2>1, <3>1
  <2>2. CASE i # d
    BY <1>8, <2>2 DEF DownloadsInv, DownloadsStaged
  <2> QED
    BY <2>1, <2>2
<1>15. \A c : Waits(c) => Waits(c)'
  BY <1>1 DEF Waits
<1>16. \A w \in Version : Accounted(w) => Accounted(w)'
  <2> SUFFICES ASSUME NEW w \in Version, NEW i \in Download, download[i].version = w,
                      download[i].cancelled \/ download[i].stage = "extracted"
               PROVE  Accounted(w)'
    BY <1>15 DEF Accounted, Completion
  <2>1. CASE i = d
    <3>1. w = v /\ q.cancelled
      BY <1>2, <1>6, <2>1
    <3> QED
      BY <1>2, <1>4, <1>8, <3>1 DEF Accounted
  <2>2. CASE i # d
    BY <1>8, <2>2 DEF Accounted
  <2> QED
    BY <2>1, <2>2
<1> QED
  BY <1>1, <1>10, <1>11, <1>12, <1>13, <1>14, <1>15, <1>16, DownloadMovesKeepsInv

-----------------------------------------------------------------------------
(* A task moves on, without a handle or a row.                             *)
LEMMA TaskMovesKeepsInv ==
  ASSUME DownloadsInv, NEW d \in Download, NEW q \in DownloadRecord,
         download' = [download EXCEPT ![d] = q],
         q.version = download[d].version, q.cancelled = download[d].cancelled,
         download[d].stage # "unused", q.stage \notin {"unused", "aborted"},
         UNCHANGED <<activeDownloads, lastDownload, listRevision, listing, imageRows, imagesOpen>>,
         closures' \in Seq(Closure), \A c : Waits(c) => Waits(c)',
         onDisk' \in {onDisk, onDisk \cup {q.version}},
         \/ download[d].stage = "extracted" => Waits(Completion(q.version))'
         \/ q.stage = "extracted",
         onDisk' # onDisk => q.stage = "extracted" \/ q.cancelled
  PROVE  DownloadsInv'
<1>1. DownloadsTypeOK /\ download[d].version \in Version
  BY DEF DownloadsInv, DownloadsStaged
<1>2. /\ download' \in [Download -> DownloadRecord] /\ download'[d] = q
      /\ \A i \in Download : i # d => download'[i] = download[i]
  BY OneDownloadMoves
<1>3. DownloadsTypeOK'
  BY <1>1, <1>2 DEF DownloadsTypeOK, DownloadRecord, Closure
<1>4. RowsHandled'
  BY DEF DownloadsInv, RowsHandled, InTable
<1>5. \A i \in Download : /\ download'[i].version = download[i].version
                          /\ download'[i].cancelled = download[i].cancelled
  BY <1>2
<1>6. HandlesOwned'
  <2> SUFFICES ASSUME NEW v \in Version, activeDownloads[v] # 0
               PROVE  /\ download'[activeDownloads[v]].version = v
                      /\ ~download'[activeDownloads[v]].cancelled
                      /\ activeDownloads[v] <= lastDownload
    BY DEF HandlesOwned
  <2>1. activeDownloads[v] \in Download
    BY <1>1, DownloadsTypes, DownloadFacts
  <2> QED
    BY <1>5, <2>1 DEF DownloadsInv, HandlesOwned
<1>7. DownloadsStaged'
  <2> SUFFICES ASSUME NEW i \in Download
               PROVE  /\ download'[i].stage # "unused" => download'[i].version \in Version
                      /\ download'[i].stage = "aborted" => download'[i].cancelled
                      /\ i > lastDownload => download'[i].stage = "unused" /\ ~download'[i].cancelled
    BY DEF DownloadsStaged
  <2>1. CASE i = d
    BY <1>1, <1>2, <2>1 DEF DownloadsInv, DownloadsStaged
  <2>2. CASE i # d
    BY <1>2, <2>2 DEF DownloadsInv, DownloadsStaged
  <2> QED
    BY <2>1, <2>2
<1>8. onDisk \subseteq onDisk'
  OBVIOUS
<1>9. ASSUME NEW v \in Version, Accounted(v) \/ (v \in onDisk' /\ v \notin onDisk)
      PROVE  Accounted(v)'
  <2>1. CASE Waits(Completion(v))
    BY <2>1 DEF Accounted, Completion
  <2>2. CASE v \in onDisk' /\ v \notin onDisk
    <3>1. v = q.version /\ (q.stage = "extracted" \/ q.cancelled)
      BY <2>2
    <3> QED
      BY <1>2, <3>1 DEF Accounted
  <2>3. ASSUME NEW i \in Download, download[i].version = v,
               download[i].cancelled \/ download[i].stage = "extracted"
        PROVE  Accounted(v)'
    <3>1. CASE i # d
      BY <1>2, <2>3, <3>1 DEF Accounted
    <3>2. CASE i = d /\ download[i].cancelled
      BY <1>2, <2>3, <3>2 DEF Accounted
    <3>3. CASE i = d /\ download[i].stage = "extracted"
      <4>1. q.version = v /\ (Waits(Completion(q.version))' \/ q.stage = "extracted")
        BY <2>3, <3>3
      <4>2. CASE q.stage = "extracted"
        BY <1>2, <4>1, <4>2 DEF Accounted
      <4>3. CASE Waits(Completion(q.version))'
        BY <4>1, <4>3 DEF Accounted, Completion, Waits
      <4> QED
        BY <4>1, <4>2, <4>3
    <3> QED
      BY <2>3, <3>1, <3>2, <3>3
  <2> QED
    BY <1>9, <2>1, <2>2, <2>3 DEF Accounted
<1> QED
  BY <1>3, <1>4, <1>6, <1>7, <1>8, <1>9, DownloadMovesKeepsInv

LEMMA StageOfTask ==
  ASSUME DownloadsTypeOK, NEW d \in Download, NEW stage \in DownloadStage,
         download' = [download EXCEPT ![d].stage = stage]
  PROVE  \E q \in DownloadRecord :
           /\ download' = [download EXCEPT ![d] = q] /\ q.version = download[d].version
           /\ q.cancelled = download[d].cancelled /\ q.stage = stage
<1> DEFINE q == [download[d] EXCEPT !.stage = stage]
<1>1. download[d] \in DownloadRecord
  BY DownloadsTypes
<1>2. /\ q \in DownloadRecord /\ q.version = download[d].version
      /\ q.cancelled = download[d].cancelled /\ q.stage = stage
  BY <1>1 DEF DownloadRecord
<1>3. download' = [download EXCEPT ![d] = q]
  BY DEF DownloadsTypeOK
<1> QED
  BY <1>2, <1>3

LEMMA FinishedFacts ==
  ASSUME DownloadsInv, NEW d \in Download, download[d].stage # "unused", Finished(d),
         NEW v \in Version, download[d].version = v
  PROVE  /\ closures' \in Seq(Closure) /\ \A c : Waits(c) => Waits(c)'
         /\ Waits(Completion(v))'
<1>1. DownloadsTypeOK
  BY DEF DownloadsInv
<1> DEFINE e == Completion(v)
<1>2. e \in Closure
  BY DEF Completion, Closure
<1>3. closures' = Append(closures, e)
  BY DEF Finished, Completion
<1> HIDE DEF e
<1>4. closures' \in Seq(Closure) /\ Waits(e)' /\ \A c : Waits(c) => Waits(c)'
  BY <1>1, <1>2, <1>3, ClosureQueued
<1> QED
  BY <1>4 DEF e

LEMMA TaskKeepsDownloads ==
  ASSUME DownloadsInv, NEW d \in Download, ReceiveArchive(d) \/ ExtractArchive(d) \/ ReportDownload(d)
  PROVE  DownloadsInv'
<1>1. DownloadsTypeOK /\ closures \in Seq(Closure) /\ download[d].stage # "unused"
      /\ UNCHANGED <<activeDownloads, lastDownload, listRevision, listing, imageRows, imagesOpen>>
  BY DownloadsTypes DEF DownloadsInv, ReceiveArchive, ExtractArchive, ReportDownload
<1>2. {"extracting", "extracted", "over"} \subseteq DownloadStage
  BY DEF DownloadStage
<1>3. ASSUME Finished(d), onDisk' = onDisk PROVE DownloadsInv'
  <2>1. PICK q \in DownloadRecord :
          /\ download' = [download EXCEPT ![d] = q] /\ q.version = download[d].version
          /\ q.cancelled = download[d].cancelled /\ q.stage = "over"
    BY <1>1, <1>2, <1>3, StageOfTask DEF Finished
  <2>2. /\ closures' \in Seq(Closure) /\ \A c : Waits(c) => Waits(c)'
        /\ Waits(Completion(q.version))'
    <3>1. q.version \in Version
      BY <1>1, <2>1 DEF DownloadsInv, DownloadsStaged
    <3> QED
      BY <1>1, <1>3, <2>1, <3>1, FinishedFacts
  <2> QED
    BY <1>1, <1>3, <2>1, <2>2, TaskMovesKeepsInv
<1>4. CASE ReceiveArchive(d) /\ download' = [download EXCEPT ![d].stage = "extracting"]
           /\ UNCHANGED closures
  <2>1. PICK q \in DownloadRecord :
          /\ download' = [download EXCEPT ![d] = q] /\ q.version = download[d].version
          /\ q.cancelled = download[d].cancelled /\ q.stage = "extracting"
    BY <1>1, <1>2, <1>4, StageOfTask
  <2>2. download[d].stage = "receiving" /\ onDisk' = onDisk /\ \A c : Waits(c) => Waits(c)'
    BY <1>4 DEF ReceiveArchive, Waits
  <2> QED
    BY <1>1, <1>4, <2>1, <2>2, TaskMovesKeepsInv
<1>5. CASE ExtractArchive(d)
  <2> DEFINE stage == IF download[d].stage = "aborted" THEN "over" ELSE "extracted"
  <2>1. download' = [download EXCEPT ![d].stage = stage]
    BY <1>5 DEF ExtractArchive
  <2>2. PICK q \in DownloadRecord :
          /\ download' = [download EXCEPT ![d] = q] /\ q.version = download[d].version
          /\ q.cancelled = download[d].cancelled /\ q.stage = stage
    <3>1. stage \in DownloadStage
      BY <1>2
    <3> HIDE DEF stage
    <3> QED
      BY <1>1, <2>1, <3>1, StageOfTask
  <2>3. /\ download[d].stage \in {"extracting", "aborted"} /\ UNCHANGED closures
        /\ onDisk' \in {onDisk, onDisk \cup {q.version}}
    BY <1>5, <2>2 DEF ExtractArchive
  <2>4. q.stage = "extracted" \/ (q.stage = "over" /\ q.cancelled)
    BY <2>2, <2>3 DEF DownloadsInv, DownloadsStaged
  <2>5. \A c : Waits(c) => Waits(c)'
    BY <2>3 DEF Waits
  <2> HIDE DEF stage
  <2> QED
    BY <1>1, <2>2, <2>3, <2>4, <2>5, TaskMovesKeepsInv
<1> QED
  BY <1>3, <1>4, <1>5 DEF ReceiveArchive, ReportDownload

-----------------------------------------------------------------------------
LEMMA ReadDirectoryKeepsInv ==
  ASSUME DownloadsInv, NEW r \in Revision, ReadDirectory(r) PROVE DownloadsInv'
<1>1. DownloadsTypeOK
      /\ UNCHANGED <<activeDownloads, download, lastDownload, onDisk, listRevision, imageRows,
                     imagesOpen, closures>>
  BY DEF DownloadsInv, ReadDirectory
<1>2. PICK ok \in BOOLEAN : listing' = [listing EXCEPT ![r] =
        [stage |-> "read", seen |-> IF ok THEN onDisk ELSE {}, ok |-> ok]]
  BY DEF ReadDirectory
<1> DEFINE q == [stage |-> "read", seen |-> IF ok THEN onDisk ELSE {}, ok |-> ok]
<1>3. /\ q \in Load /\ q.stage = "read" /\ q.seen \subseteq onDisk
      /\ q.ok => q.seen = onDisk
  BY <1>1 DEF Load, DownloadsTypeOK
<1> HIDE DEF q
<1>4. /\ listing' \in [Revision -> Load] /\ listing'[r] = q
      /\ \A i \in Revision : i # r => listing'[i] = listing[i]
  BY <1>1, <1>2, <1>3 DEF DownloadsTypeOK, q
<1>5. DownloadsTypeOK'
  BY <1>1, <1>4 DEF DownloadsTypeOK
<1>6. RowsHandled' /\ HandlesOwned' /\ DownloadsStaged'
  BY <1>1 DEF DownloadsInv, RowsHandled, HandlesOwned, DownloadsStaged, InTable
<1>7. listRevision # 0 => listRevision \in Revision
  BY <1>1, DownloadsTypes, DownloadFacts
<1>8. NewestLoads' /\ SeenOnDisk'
  BY <1>1, <1>3, <1>4, <1>7 DEF DownloadsInv, NewestLoads, SeenOnDisk
<1>9. CASE listRevision = r
  <2>1. NewestShown' /\ UnseenAccounted'
    BY <1>1, <1>3, <1>4, <1>9 DEF NewestShown, UnseenAccounted
  <2> QED
    BY <1>5, <1>6, <1>8, <2>1 DEF DownloadsInv
<1>10. CASE listRevision # r
  <2>1. listRevision # 0 => listing'[listRevision] = listing[listRevision]
    BY <1>4, <1>7, <1>10
  <2>2. NewestShown'
    BY <1>1, <2>1 DEF DownloadsInv, NewestShown, Waits, ListReady
  <2>3. UnseenAccounted'
    BY <1>1, <2>1 DEF DownloadsInv, UnseenAccounted, Accounted, Waits, Completion
  <2> QED
    BY <1>5, <1>6, <1>8, <2>2, <2>3 DEF DownloadsInv
<1> QED
  BY <1>9, <1>10

LEMMA ListLoadedKeepsInv ==
  ASSUME DownloadsInv, NEW r \in Revision, ListLoaded(r) PROVE DownloadsInv'
<1>1. DownloadsTypeOK
      /\ UNCHANGED <<activeDownloads, download, lastDownload, onDisk, listRevision, imageRows,
                     imagesOpen>>
  BY DEF DownloadsInv, ListLoaded
<1> DEFINE q == [listing[r] EXCEPT !.stage = "over"]
<1>2. listing[r] \in Load /\ listing[r].stage = "read"
  BY <1>1, DownloadsTypes DEF ListLoaded
<1>3. q \in Load /\ q.stage = "over" /\ q.seen = listing[r].seen /\ q.ok = listing[r].ok
  BY <1>2 DEF Load
<1>4. listing' = [listing EXCEPT ![r] = q]
  BY <1>1 DEF ListLoaded, DownloadsTypeOK
<1> HIDE DEF q
<1>5. /\ listing' \in [Revision -> Load] /\ listing'[r] = q
      /\ \A i \in Revision : i # r => listing'[i] = listing[i]
  BY <1>1, <1>3, <1>4 DEF DownloadsTypeOK
<1>6. closures' \in Seq(Closure) /\ Waits(ListReady(r))' /\ \A c : Waits(c) => Waits(c)'
  <2>1. ListReady(r) \in Closure /\ closures' = Append(closures, ListReady(r))
    BY DEF ListReady, Closure, ListLoaded
  <2> QED
    BY <1>1, <2>1, ClosureQueued
<1>7. DownloadsTypeOK'
  BY <1>1, <1>5, <1>6 DEF DownloadsTypeOK, Closure
<1>8. RowsHandled' /\ HandlesOwned' /\ DownloadsStaged'
  BY <1>1 DEF DownloadsInv, RowsHandled, HandlesOwned, DownloadsStaged, InTable
<1>9. listRevision # 0 => listRevision \in Revision
  BY <1>1, DownloadsTypes, DownloadFacts
<1>10. NewestLoads' /\ SeenOnDisk'
  BY <1>1, <1>3, <1>5, <1>9 DEF DownloadsInv, NewestLoads, SeenOnDisk
<1>11. NewestShown'
  <2>1. CASE listRevision = r
    BY <1>1, <1>6, <2>1 DEF NewestShown, ListReady, Waits
  <2>2. CASE listRevision # r
    BY <1>1, <1>5, <1>6, <1>9, <2>2 DEF DownloadsInv, NewestShown, ListReady
  <2> QED
    BY <2>1, <2>2
<1>12. UnseenAccounted'
  <2> SUFFICES ASSUME imagesOpen, listRevision # 0,
                      listing'[listRevision].stage \in {"read", "over"}, listing'[listRevision].ok,
                      NEW v \in onDisk \ listing'[listRevision].seen
               PROVE  Accounted(v)'
    BY <1>1 DEF UnseenAccounted
  <2>1. /\ listing[listRevision].stage \in {"read", "over"} /\ listing[listRevision].ok
        /\ listing[listRevision].seen = listing'[listRevision].seen
    BY <1>2, <1>3, <1>5, <1>9
  <2>2. Accounted(v)
    BY <2>1 DEF DownloadsInv, UnseenAccounted
  <2> QED
    BY <1>1, <1>6, <2>2 DEF Accounted, Completion
<1> QED
  BY <1>7, <1>8, <1>10, <1>11, <1>12 DEF DownloadsInv

(* The completion of a download takes its row and its handle.              *)
LEMMA FinishedKeepsInv ==
  ASSUME DownloadsInv, RunClosure, NEW v \in Version,
         Head(closures) = Completion(v), DownloadFinished(v)
  PROVE  DownloadsInv'
<1>1. DownloadsTypeOK /\ UNCHANGED <<download, lastDownload, onDisk, imagesOpen>>
  BY DEF DownloadsInv, RunClosure
<1>2. closures' \in Seq(Closure) /\ \A c : Waits(c) => c = Head(closures) \/ Waits(c)'
  BY <1>1, ClosureTaken DEF RunClosure
<1>3. imageRows' = [imageRows EXCEPT !.downloading = imageRows.downloading \ {v}]
  BY DEF DownloadFinished
<1>4. /\ imageRows' \in Rows /\ imageRows'.downloading = imageRows.downloading \ {v}
      /\ imageRows'.downloaded = imageRows.downloaded
  BY <1>1, <1>3 DEF DownloadsTypeOK, Rows
<1>5. CASE imagesOpen /\ activeDownloads' = [activeDownloads EXCEPT ![v] = 0] /\ LoadImageList
  <2>1. /\ activeDownloads' \in [Version -> 0 .. MaxDownload] /\ activeDownloads'[v] = 0
        /\ \A i \in Version : i # v => activeDownloads'[i] = activeDownloads[i]
    BY <1>1, <1>5, DownloadFacts DEF DownloadsTypeOK
  <2>2. RowsHandled'
    <3>1. InTable' = InTable \ {v}
      BY <2>1 DEF InTable
    <3> QED
      BY <1>4, <3>1 DEF DownloadsInv, RowsHandled
  <2>3. HandlesOwned'
    BY <1>1, <2>1 DEF DownloadsInv, HandlesOwned
  <2>4. imagesOpen' \in BOOLEAN
    BY <1>1 DEF DownloadsTypeOK
  <2> QED
    BY <1>1, <1>2, <1>4, <1>5, <2>1, <2>2, <2>3, <2>4, NewLoadKeepsInv
<1>6. CASE ~imagesOpen /\ UNCHANGED <<activeDownloads, listRevision, listing>>
  <2>1. DownloadsTypeOK'
    BY <1>1, <1>2, <1>4, <1>6 DEF DownloadsTypeOK, Closure
  <2>2. RowsHandled'
    BY <1>4, <1>6 DEF DownloadsInv, RowsHandled, InTable
  <2>3. HandlesOwned' /\ DownloadsStaged' /\ NewestLoads' /\ SeenOnDisk' /\ UnseenAccounted'
    BY <1>1, <1>6 DEF DownloadsInv, HandlesOwned, DownloadsStaged, NewestLoads, SeenOnDisk,
                      UnseenAccounted
  <2>4. NewestShown'
    <3>1. ListReady(listRevision) # Completion(v)
      BY DEF ListReady, Completion
    <3> QED
      BY <1>2, <1>4, <1>6, <3>1 DEF DownloadsInv, NewestShown, ListReady
  <2> QED
    BY <2>1, <2>2, <2>3, <2>4 DEF DownloadsInv
<1> QED
  BY <1>5, <1>6 DEF DownloadFinished

LEMMA ApplyListKeepsInv ==
  ASSUME DownloadsInv, RunClosure, NEW r \in Revision,
         Head(closures) = ListReady(r), ApplyList(r)
  PROVE  DownloadsInv'
<1>1. DownloadsTypeOK
      /\ UNCHANGED <<download, lastDownload, onDisk, imagesOpen, activeDownloads, listRevision,
                     listing>>
  BY DEF DownloadsInv, RunClosure, ApplyList
<1>2. closures' \in Seq(Closure) /\ \A c : Waits(c) => c = Head(closures) \/ Waits(c)'
  BY <1>1, ClosureTaken DEF RunClosure
<1>3. listing[r] \in Load /\ InTable \subseteq Version
  BY <1>1, DownloadsTypes DEF InTable
<1>4. ListedRows(listing[r].seen) \in Rows
  BY <1>3 DEF ListedRows, Rows, Load
<1>5. DownloadsTypeOK'
  BY <1>1, <1>2, <1>4 DEF DownloadsTypeOK, Closure, ApplyList
<1>6. RowsHandled'
  BY <1>1 DEF DownloadsInv, RowsHandled, InTable, ApplyList, ListedRows
<1>7. HandlesOwned' /\ DownloadsStaged' /\ NewestLoads' /\ SeenOnDisk'
  BY <1>1 DEF DownloadsInv, HandlesOwned, DownloadsStaged, NewestLoads, SeenOnDisk
<1>8. UnseenAccounted'
  <2>1. \A v \in Version : Accounted(v) => Accounted(v)'
    <3>1. \A v : Completion(v) # ListReady(r)
      BY DEF ListReady, Completion
    <3> QED
      BY <1>1, <1>2, <3>1 DEF Accounted, Completion
  <2> QED
    BY <1>1, <2>1 DEF DownloadsInv, UnseenAccounted, DownloadsTypeOK
<1>9. NewestShown'
  <2> SUFFICES ASSUME listRevision # 0, listing[listRevision].stage = "over", listing[listRevision].ok
               PROVE  \/ Waits(ListReady(listRevision))'
                      \/ imageRows'.downloaded = listing[listRevision].seen
    BY <1>1 DEF NewestShown, ListReady
  <2>1. CASE r = listRevision
    BY <2>1 DEF ApplyList, ListedRows
  <2>2. CASE r # listRevision
    <3>1. imageRows' = imageRows /\ ListReady(r) # ListReady(listRevision)
      BY <2>2 DEF ApplyList, ListReady
    <3> QED
      BY <1>1, <1>2, <3>1 DEF DownloadsInv, NewestShown, ListReady
  <2> QED
    BY <2>1, <2>2
<1> QED
  BY <1>5, <1>6, <1>7, <1>8, <1>9 DEF DownloadsInv

LEMMA RunClosureKeepsInv == ASSUME DownloadsInv, RunClosure PROVE DownloadsInv'
<1>1. Head(closures) \in Closure
  BY ClosureTaken DEF DownloadsInv, RunClosure
<1>2. CASE Head(closures).what = "finished" /\ DownloadFinished(Head(closures).version)
  <2>1. PICK v \in Version : Head(closures) = Completion(v)
    BY <1>1, <1>2 DEF Closure, Completion
  <2>2. Head(closures).version = v
    BY <2>1 DEF Completion
  <2> QED
    BY <1>2, <2>1, <2>2, FinishedKeepsInv
<1>3. CASE Head(closures).what = "list" /\ ApplyList(Head(closures).revision)
  <2>1. PICK r \in Revision : Head(closures) = ListReady(r)
    BY <1>1, <1>3 DEF Closure, ListReady
  <2>2. Head(closures).revision = r
    BY <2>1 DEF ListReady
  <2> QED
    BY <1>3, <2>1, <2>2, ApplyListKeepsInv
<1> QED
  BY <1>2, <1>3 DEF RunClosure

-----------------------------------------------------------------------------
LEMMA DownloadsStep == DownloadsInv /\ [DownloadsNext]_downloadVars => DownloadsInv'
<1> SUFFICES ASSUME DownloadsInv, [DownloadsNext]_downloadVars PROVE DownloadsInv'
  OBVIOUS
<1>1. CASE UNCHANGED downloadVars
  <2>1. DownloadsTypeOK' /\ RowsHandled' /\ HandlesOwned' /\ DownloadsStaged'
    BY <1>1 DEF DownloadsInv, downloadVars, DownloadsTypeOK, RowsHandled, InTable, HandlesOwned,
                DownloadsStaged
  <2>2. \A c : Waits(c) => Waits(c)'
    BY <1>1 DEF downloadVars, Waits
  <2>3. \A v : Accounted(v) => Accounted(v)'
    BY <1>1, <2>2 DEF downloadVars, Accounted, Completion
  <2> QED
    BY <1>1, <2>1, <2>2, <2>3, DownloadMovesKeepsInv DEF downloadVars
<1>2. CASE OpenImages \/ CloseImages \/ RefreshImages
  BY <1>2, WindowKeepsInv
<1>3. CASE \E v \in Version : DownloadImage(v) \/ CancelDownload(v)
  BY <1>3, DownloadImageKeepsInv, CancelDownloadKeepsInv
<1>4. CASE \E d \in Download : ReceiveArchive(d) \/ ExtractArchive(d) \/ ReportDownload(d)
  BY <1>4, TaskKeepsDownloads
<1>5. CASE \E r \in Revision : ReadDirectory(r) \/ ListLoaded(r)
  BY <1>5, ReadDirectoryKeepsInv, ListLoadedKeepsInv
<1> QED
  BY <1>1, <1>2, <1>3, <1>4, <1>5, RunClosureKeepsInv DEF DownloadsNext

LEMMA DownloadsAlways == DownloadsSpec => []DownloadsInv
BY DownloadsInitial, DownloadsStep, PTL DEF DownloadsSpec

(* Everything a download, a load of the list and the window keep has its   *)
(* type, for any number of images, downloads and loads.                    *)
THEOREM DownloadsKeepTypes == DownloadsSpec => []DownloadsTypeOK
<1>1. DownloadsInv => DownloadsTypeOK
  BY DEF DownloadsInv
<1> QED
  BY <1>1, DownloadsAlways, PTL

LEMMA InvTruthful == DownloadsInv => ImagesTruthful
<1> SUFFICES ASSUME DownloadsInv PROVE ImagesTruthful
  OBVIOUS
<1>1. DownloadsTypeOK /\ imageRows.downloading \subseteq InTable
  BY DEF DownloadsInv, RowsHandled
<1>2. ASSUME DownloadsRest, imagesOpen, listing[listRevision].ok
      PROVE  /\ imageRows.downloaded \subseteq onDisk
             /\ \A v \in onDisk \ imageRows.downloaded :
                  \E d \in Download : download[d].version = v /\ download[d].cancelled
  <2>1. listRevision # 0 /\ listRevision \in Revision
    BY <1>1, <1>2, DownloadsTypes, DownloadFacts DEF DownloadsInv, NewestLoads
  <2>2. listing[listRevision].stage = "over"
    BY <1>2, <2>1 DEF DownloadsInv, NewestLoads, DownloadsRest
  <2>3. \A c : ~Waits(c)
    BY <1>2, EmptySeq DEF DownloadsRest, Waits
  <2>4. imageRows.downloaded = listing[listRevision].seen
    BY <1>2, <2>1, <2>2, <2>3 DEF DownloadsInv, NewestShown
  <2>5. \A d \in Download : download[d].stage # "extracted"
    BY <1>2 DEF DownloadsRest
  <2>6. \A v \in onDisk \ imageRows.downloaded : Accounted(v)
    BY <1>2, <2>1, <2>2, <2>4 DEF DownloadsInv, UnseenAccounted
  <2> QED
    BY <2>1, <2>3, <2>4, <2>5, <2>6 DEF DownloadsInv, SeenOnDisk, Accounted
<1> QED
  BY <1>1, <1>2 DEF ImagesTruthful

(* What the window of developer images lists is true: a row that downloads *)
(* can be cancelled, and at rest the images listed as downloaded are those *)
(* on the disk, but for archives whose download was cancelled.             *)
THEOREM ImagesAreTruthful == DownloadsSpec => []ImagesTruthful
BY InvTruthful, DownloadsAlways, PTL

-----------------------------------------------------------------------------
(* All managers together.                                                  *)

LEMMA ManagersInitial ==
  ManagersInit => ManagerInv /\ CacheInv /\ TypesInv /\ ClaimsInv /\ BrowseInv /\ DownloadsInv
BY ManagerInit, CacheInitial, MountsInitial, BrowseInitial, DownloadsInitial DEF ManagersInit

LEMMA ManagersStep ==
  ASSUME ManagerInv, CacheInv, TypesInv, ClaimsInv, BrowseInv, DownloadsInv,
         [ManagersNext]_managersVars
  PROVE  ManagerInv' /\ CacheInv' /\ TypesInv' /\ ClaimsInv' /\ BrowseInv' /\ DownloadsInv'
<1>1. /\ [BackupNext]_backupVars /\ [CacheNext]_cacheVars /\ [MountsNext]_mountVars
      /\ [BrowseNext]_browseVars /\ [DownloadsNext]_downloadVars
  BY DEF ManagersNext, managersVars, Backups, Cache, Mounts, Browse, Images
<1> QED
  BY <1>1, ManagerStep, CacheStep, MountsStep, BrowseStep, DownloadsStep

(* Side by side, the managers keep their types: none writes what another   *)
(* reads.                                                                  *)
THEOREM ManagersKeepTypes == ManagersSpec => []ManagersTypeOK
<1> DEFINE Inv == /\ ManagerInv /\ CacheInv /\ TypesInv /\ ClaimsInv
                  /\ BrowseInv /\ DownloadsInv
<1>1. ManagersInit => Inv
  BY ManagersInitial
<1>2. Inv /\ [ManagersNext]_managersVars => Inv'
  BY ManagersStep
<1>3. Inv => ManagersTypeOK
  BY DEF ManagerInv, CacheInv, TypesInv, BrowseInv, DownloadsInv, ManagersTypeOK
<1> QED
  BY <1>1, <1>2, <1>3, PTL DEF ManagersSpec
=============================================================================
