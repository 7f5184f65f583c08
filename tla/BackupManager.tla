---------------------------- MODULE BackupManager ----------------------------
(***************************************************************************)
(* The operations of src/backup_manager.rs: backups, restores, erasures    *)
(* and password changes, each a task of the runtime, at most one of them   *)
(* per device in the manager's table.  The methods and the completions run *)
(* on the Qt thread, one at a time; a completion is queued there by the    *)
(* task itself, just before it ends.                                       *)
(***************************************************************************)
EXTENDS Devices, Naturals, Sequences

CONSTANT
  MaxOp     \* bound: how many operations are started

ASSUME MaxOpAssumption == MaxOp \in Nat

VARIABLES
  tasks,    \* the operation whose handle the table holds, 0 for none
  busy,     \* the property the interface reads
  nextOp,   \* the number of the next operation
  op,       \* every operation
  queue     \* completions that wait for the Qt thread

backupVars == <<tasks, busy, nextOp, op, queue>>

Op == 1 .. MaxOp

(* "working": it has an await ahead, where abort() stops it; "ending": it  *)
(* is past the last one; "returning": its completion is queued.            *)
Stage == {"unused", "working", "ending", "returning", "ended", "aborted"}

ManagerTypeOK ==
  /\ tasks \in [Udid -> 0 .. MaxOp]
  /\ busy \in BOOLEAN
  /\ nextOp \in 1 .. MaxOp + 1
  /\ op \in [Op -> [udid : Udid, stage : Stage]]
  /\ queue \in Seq(Op)

BackupInit ==
  /\ tasks = [u \in Udid |-> 0]
  /\ busy = FALSE
  /\ nextOp = 1
  /\ \E u \in Udid : op = [o \in Op |-> [udid |-> u, stage |-> "unused"]]
  /\ queue = <<>>

(* A handle that is not in the table (0) aborts nothing.                   *)
Abort(ops, aborted) ==
  [o \in Op |-> IF o \in aborted /\ ops[o].stage = "working"
                THEN [ops[o] EXCEPT !.stage = "aborted"] ELSE ops[o]]

IsFinished(o) == op'[o].stage \in {"ended", "aborted"}

(* has_active_tasks(), after the step.                                     *)
Active == \E u \in Udid : tasks'[u] # 0 /\ ~IsFinished(tasks'[u])

Spawned(u) == [op EXCEPT ![nextOp] = [udid |-> u, stage |-> "working"]]

-----------------------------------------------------------------------------
(* The methods.                                                            *)

(* Mutant of Start: busy is left to the completions.                       *)
StartQuietly(u) ==
  /\ nextOp <= MaxOp
  /\ op' = Abort(Spawned(u), {tasks[u]})
  /\ tasks' = [tasks EXCEPT ![u] = nextOp]
  /\ nextOp' = nextOp + 1
  /\ UNCHANGED <<busy, queue>>

(* start_backup, start_restore and erase_device: the handle of a previous  *)
(* operation leaves the table and is aborted.                              *)
Start(u) ==
  /\ nextOp <= MaxOp
  /\ op' = Abort(Spawned(u), {tasks[u]})
  /\ tasks' = [tasks EXCEPT ![u] = nextOp]
  /\ nextOp' = nextOp + 1
  /\ busy' = TRUE
  /\ UNCHANGED queue

(* change_backup_password refuses instead when the table has a handle.     *)
ChangePassword(u) ==
  /\ tasks[u] = 0
  /\ nextOp <= MaxOp
  /\ op' = Spawned(u)
  /\ tasks' = [tasks EXCEPT ![u] = nextOp]
  /\ nextOp' = nextOp + 1
  /\ busy' = TRUE
  /\ UNCHANGED queue

CancelOperation(u) ==
  /\ tasks[u] # 0
  /\ op' = Abort(op, {tasks[u]})
  /\ tasks' = [tasks EXCEPT ![u] = 0]
  /\ busy' = Active
  /\ UNCHANGED <<nextOp, queue>>

(* Mutant of CancelAllOperations: it does not update busy.                 *)
CancelAllQuietly ==
  /\ op' = Abort(op, {tasks[u] : u \in Udid})
  /\ tasks' = [u \in Udid |-> 0]
  /\ UNCHANGED <<busy, nextOp, queue>>

CancelAllOperations ==
  /\ op' = Abort(op, {tasks[u] : u \in Udid})
  /\ tasks' = [u \in Udid |-> 0]
  /\ busy' = Active
  /\ UNCHANGED <<nextOp, queue>>

-----------------------------------------------------------------------------
(* The tasks and their completions.                                        *)

SetStage(o, stage) ==
  /\ op' = [op EXCEPT ![o].stage = stage]
  /\ UNCHANGED <<tasks, busy, nextOp>>

LastAwait(o) == op[o].stage = "working" /\ SetStage(o, "ending") /\ UNCHANGED queue

Report(o) == op[o].stage = "ending" /\ SetStage(o, "returning") /\ queue' = Append(queue, o)

Return(o) == op[o].stage = "returning" /\ SetStage(o, "ended") /\ UNCHANGED queue

(* The completion takes its device's handle from the table, whichever      *)
(* operation that handle belongs to by then.                               *)
Complete ==
  /\ queue # <<>>
  /\ tasks' = [tasks EXCEPT ![op[Head(queue)].udid] = 0]
  /\ queue' = Tail(queue)
  /\ UNCHANGED op
  /\ busy' = Active
  /\ UNCHANGED nextOp

BackupNext ==
  \/ \E u \in Udid : Start(u) \/ ChangePassword(u) \/ CancelOperation(u)
  \/ CancelAllOperations
  \/ \E o \in Op : LastAwait(o) \/ Report(o) \/ Return(o)
  \/ Complete

BackupSpec == BackupInit /\ [][BackupNext]_backupVars

-----------------------------------------------------------------------------
(* Properties.                                                             *)

(* The cached flag is never behind the table: while the table holds an     *)
(* operation that works, busy is set, so that the buttons of the backup    *)
(* window stay disabled and the window asks before it closes               *)
(* (update_busy_from_tasks, src/backup_manager.rs:419).                    *)
BusyWhileWorking ==
  (\E u \in Udid : tasks[u] # 0 /\ op[tasks[u]].stage = "working") => busy

(* The flag is never left behind: once every operation is over and every   *)
(* completion has run, busy is false, whichever of cancelling, replacing   *)
(* and completing came last for each device.  Otherwise every button of    *)
(* the backup window would stay disabled until the program restarts.       *)
BusyClears ==
  (queue = <<>> /\ \A o \in Op : op[o].stage \in {"unused", "ended", "aborted"}) => ~busy

(* What start_backup's comment promises, "cancel if there was any prev     *)
(* task running for the same udid" (src/backup_manager.rs:382), and what   *)
(* change_backup_password answers, "Another backup operation is already    *)
(* running for this device": no two operations work on one device.         *)
OneAtATime ==
  \A o, p \in Op :
    op[o].stage = "working" /\ op[p].stage = "working" /\ op[o].udid = op[p].udid => o = p
=============================================================================
