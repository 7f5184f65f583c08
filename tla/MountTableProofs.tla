--------------------------- MODULE MountTableProofs ---------------------------
(***************************************************************************)
(* The types of MountTable, NoOrphanMount and InterfaceSettles, for any    *)
(* number of devices, directories and operations.  The heart of the second *)
(* is that of all the operations under way for a directory at most one has *)
(* a claim to it; of the third, that after the last change something is    *)
(* left that makes the sidebar look again.                                 *)
(***************************************************************************)
EXTENDS MountTable, SequenceTheorems, TLAPS

(* Only a page's operation mounts, and it knows its device.                *)
PageTasks ==
  \A o \in MountOp :
    /\ mountOp[o].stage \in {"mount", "mounted", "failed"} => mountOp[o].by = "page"
    /\ mountOp[o].by = "page" /\ mountOp[o].stage \notin {"unused", "over"} => mountOp[o].udid \in Udid

TypesInv == MountsTypeOK /\ PageTasks

Notice == [to : {"page"}, udid : Udid, page : Page]
          \cup [to : {"list", "unmounted"}, paths : SUBSET MountPath]

(* An ifuse that runs, or that failed and has to give its reservation      *)
(* back, claims the directory, and so does an unmount that succeeded and   *)
(* has to remove the entry.                                                *)
Claims(o, p) ==
  mountOp[o].path = p /\ mountOp[o].stage \in {"mount", "failed", "unmounted"}

ClaimedOnce ==
  \A p \in MountPath : \A o, q \in MountOp : Claims(o, p) /\ Claims(q, p) => o = q

(* Nothing is mounted where there is a claim, and the table has an entry.  *)
ClaimHasEntry ==
  \A p \in MountPath : \A o \in MountOp : Claims(o, p) => attached[p] = 0 /\ mounts[p] # NoEntry

ClaimsInv == ClaimedOnce /\ ClaimHasEntry /\ NoOrphanMount

Resting == {"unused", "over"}

(* Something will still make the sidebar read the table and the mounts: a  *)
(* refresh, an operation that is not done with them, or a page's notice.   *)
LookPending ==
  \/ refreshes > 0
  \/ \E o \in MountOp : mountOp[o].stage \notin Resting \cup {"listing"}
  \/ \E n \in 1 .. Len(posted) : posted[n].to = "page"

ThereNow == Registered \cup Attached

(* If not, the last look found what is there: it is in the hands of who    *)
(* holds the lock, the last to be shown, or shown.                         *)
LastLookRight ==
  \/ LookPending
  \/ lock # Unlocked /\ seenPaths = Registered
  \/ lock = Unlocked /\ posted # <<>> /\ posted[Len(posted)].paths = ThereNow
  \/ lock = Unlocked /\ posted = <<>> /\ shownPaths = ThereNow

FreshOps == \A o \in MountOp : o > lastMountOp => mountOp[o].stage = "unused"

(* An unmount of the sidebar works under the lock, and only it lists.      *)
Locks(task) == task.by = "sidebar" /\ task.stage \notin Resting \cup {"queued"}

LockHeld == \A o \in MountOp : Locks(mountOp[o]) => lock = o

ListedBySidebar == \A o \in MountOp : mountOp[o].stage = "listing" => mountOp[o].by = "sidebar"

(* Whatever is busy is to hear of it.                                      *)
NoticesIdle == \A n \in 1 .. Len(posted) : posted[n].to = "page" => ~posted[n].page.busy

WorksFor(task, u) == task.by = "page" /\ task.udid = u /\ task.stage \notin Resting

BusyPagesHear ==
  \A u \in Udid : pages[u].busy =>
    \/ \E o \in MountOp : WorksFor(mountOp[o], u)
    \/ \E n \in 1 .. Len(posted) : posted[n].to = "page" /\ posted[n].udid = u

InSidebar(task) == task.by = "sidebar" /\ task.stage \notin Resting

BusyPathHears ==
  busyPath # "nowhere" =>
    \/ \E o \in MountOp : InSidebar(mountOp[o])
    \/ \E n \in 1 .. Len(posted) : posted[n].to = "unmounted"

SettleInv ==
  /\ FreshOps /\ ListedBySidebar /\ LockHeld /\ LastLookRight
  /\ NoticesIdle /\ BusyPagesHear /\ BusyPathHears

-----------------------------------------------------------------------------
(* Tasks and entries.                                                      *)

LEMMA TaskFacts ==
  ASSUME TypesInv, NEW o \in MountOp
  PROVE  /\ mountOp[o] \in MountTask /\ PathOf(o) \in MountPath \cup {"nowhere"}
         /\ mountOp[o].by = "page" /\ mountOp[o].stage \notin {"unused", "over"}
              => mountOp[o].udid \in Udid
         /\ o \in Nat /\ o \in 0 .. MaxMountOp /\ o \in 0 .. Unlocked /\ o # 0
BY MountAssumption DEF TypesInv, PageTasks, MountsTypeOK, MountTask, PathOf, MountOp, Unlocked

LEMMA NumberFacts ==
  /\ 0 \in 0 .. MaxMountOp /\ 0 \in 0 .. Unlocked /\ Unlocked \in 0 .. Unlocked
  /\ \A n \in 0 .. MaxMountOp : n < MaxMountOp => n + 1 \in MountOp /\ n + 1 \in 0 .. MaxMountOp
BY MountAssumption DEF MountOp, Unlocked

LEMMA NewTaskFacts ==
  ASSUME NEW by \in {"page", "sidebar"}, NEW u \in Udid \cup {"nobody"},
         NEW p \in MountPath \cup {"nowhere"}, NEW stage \in MountStage
  PROVE  /\ NewTask(by, u, p, stage) \in MountTask
         /\ NewTask(by, u, p, stage).by = by /\ NewTask(by, u, p, stage).udid = u
         /\ NewTask(by, u, p, stage).path = p /\ NewTask(by, u, p, stage).stage = stage
BY DEF NewTask, MountTask

LEMMA PostedFacts ==
  ASSUME MountsTypeOK
  PROVE  /\ posted \in Seq(Notice)
         /\ \A m \in Notice : Append(posted, m) \in Seq(Notice)
         /\ posted # <<>> => Head(posted) \in Notice /\ Tail(posted) \in Seq(Notice)
<1>1. posted \in Seq(Notice)
  BY DEF MountsTypeOK, Notice
<1> QED
  BY <1>1, AppendProperties, HeadTailProperties

LEMMA StatusFacts ==
  ASSUME MountsTypeOK, NEW u \in Udid, NEW page \in Page, SetStatus(u, page)
  PROVE  pages' \in [Udid -> Page] /\ refreshes' \in Nat
<1>1. pages \in [Udid -> Page] /\ refreshes \in Nat
  BY DEF MountsTypeOK
<1> QED
  BY <1>1 DEF SetStatus

(* Replacing one task.                                                     *)
LEMMA TaskReplaced ==
  ASSUME TypesInv, NEW o \in MountOp, NEW task \in MountTask,
         mountOp' = [mountOp EXCEPT ![o] = task],
         task.stage \in {"mount", "mounted", "failed"} => task.by = "page",
         task.by = "page" /\ task.stage \notin {"unused", "over"} => task.udid \in Udid
  PROVE  /\ mountOp' \in [MountOp -> MountTask] /\ PageTasks'
         /\ mountOp'[o] = task /\ \A q \in MountOp : q # o => mountOp'[q] = mountOp[q]
<1>1. /\ mountOp' \in [MountOp -> MountTask]
      /\ mountOp'[o] = task /\ \A q \in MountOp : q # o => mountOp'[q] = mountOp[q]
  BY DEF TypesInv, MountsTypeOK
<1> QED
  BY <1>1 DEF TypesInv, PageTasks

-----------------------------------------------------------------------------
LEMMA MountsInitial == MountsInit => TypesInv /\ ClaimsInv
<1> SUFFICES ASSUME MountsInit PROVE TypesInv /\ ClaimsInv
  OBVIOUS
<1>1. NoTask("unused") \in MountTask /\ NoTask("unused").stage = "unused"
  BY NewTaskFacts DEF NoTask, MountStage
<1>2. mountOp \in [MountOp -> MountTask] /\ \A o \in MountOp : mountOp[o].stage = "unused"
  BY <1>1 DEF MountsInit
<1>3. pages \in [Udid -> Page]
  BY DEF MountsInit, Page
<1>4. posted \in Seq(Notice)
  BY EmptySeq DEF MountsInit
<1>5. MountsTypeOK
  BY <1>2, <1>3, <1>4, NumberFacts DEF MountsInit, MountsTypeOK, Notice
<1> QED
  BY <1>2, <1>5 DEF MountsInit, TypesInv, PageTasks, ClaimsInv, ClaimedOnce, ClaimHasEntry,
                    NoOrphanMount, Claims

-----------------------------------------------------------------------------
(* A step that leaves the table and the mounts alone and adds no claim.    *)
LEMMA NoNewClaim ==
  ASSUME ClaimsInv, UNCHANGED <<mounts, attached>>,
         \A p \in MountPath : \A o \in MountOp : Claims(o, p)' => Claims(o, p)
  PROVE  ClaimsInv'
BY DEF ClaimsInv, ClaimedOnce, ClaimHasEntry, NoOrphanMount

(* The Qt thread.                                                          *)
LEMMA MountKeepsInv ==
  ASSUME TypesInv, ClaimsInv, NEW u \in Udid, NEW p \in MountPath, Mount(u, p)
  PROVE  TypesInv' /\ ClaimsInv'
<1>1. MountsTypeOK
  BY DEF TypesInv
<1> DEFINE n == lastMountOp + 1
<1>2. n \in MountOp /\ n \in 0 .. MaxMountOp /\ lastMountOp' = n
      /\ UNCHANGED <<attached, shownPaths, busyPath, lock, seenPaths, posted>>
  BY <1>1, NumberFacts DEF Mount, Ask, MountsTypeOK
<1>3. /\ pages' \in [Udid -> Page] /\ refreshes' \in Nat
  <2>1. /\ Idle \in Page
        /\ [busy |-> TRUE, mounted |-> FALSE, path |-> p] \in Page
    BY DEF Idle, Page
  <2>2. \/ SetStatus(u, Idle)
        \/ SetStatus(u, [busy |-> TRUE, mounted |-> FALSE, path |-> p])
    BY DEF Mount
  <2> QED
    BY <1>1, <2>1, <2>2, StatusFacts
<1> HIDE DEF n
<1>4. CASE MayReserve(u, p)
  <2> DEFINE task == NewTask("page", u, p, "mount")
  <2>1. /\ mountOp' = [mountOp EXCEPT ![n] = task]
        /\ mounts' = [mounts EXCEPT ![p] = [state |-> "pending", udid |-> u]]
    BY <1>4 DEF Mount, Ask, n
  <2>2. task \in MountTask /\ task.by = "page" /\ task.udid = u /\ task.path = p /\ task.stage = "mount"
    BY NewTaskFacts DEF MountStage
  <2> HIDE DEF task
  <2>3. /\ mountOp' \in [MountOp -> MountTask] /\ PageTasks'
        /\ mountOp'[n] = task /\ \A q \in MountOp : q # n => mountOp'[q] = mountOp[q]
    BY <1>2, <2>1, <2>2, TaskReplaced
  <2>4. [state |-> "pending", udid |-> u] \in MountEntry /\ [state |-> "pending", udid |-> u] # NoEntry
    BY DEF MountEntry, NoEntry
  <2>5. /\ mounts' \in [MountPath -> MountEntry \cup {NoEntry}]
        /\ mounts'[p] # NoEntry /\ \A q \in MountPath : q # p => mounts'[q] = mounts[q]
    BY <1>1, <2>1, <2>4 DEF MountsTypeOK
  <2>6. TypesInv'
    BY <1>1, <1>2, <1>3, <2>3, <2>5 DEF TypesInv, MountsTypeOK
  <2>7. mounts[p] = NoEntry
    BY <1>4 DEF MayReserve
  <2>8. attached[p] = 0 /\ \A o \in MountOp : ~Claims(o, p)
    BY <2>7 DEF ClaimsInv, ClaimHasEntry, NoOrphanMount
  <2>9. \A q \in MountPath : \A o \in MountOp :
          Claims(o, q)' => Claims(o, q) \/ (o = n /\ q = p)
    BY <2>2, <2>3 DEF Claims
  <2> QED
    BY <1>2, <2>5, <2>6, <2>8, <2>9 DEF ClaimsInv, ClaimedOnce, ClaimHasEntry, NoOrphanMount
<1>5. CASE ~MayReserve(u, p)
  <2> DEFINE task == NoTask("over")
  <2>1. mountOp' = [mountOp EXCEPT ![n] = task] /\ mounts' = mounts
    BY <1>5 DEF Mount, Ask, n
  <2>2. task \in MountTask /\ task.stage = "over"
    BY NewTaskFacts DEF MountStage, NoTask
  <2> HIDE DEF task
  <2>3. /\ mountOp' \in [MountOp -> MountTask] /\ PageTasks'
        /\ mountOp'[n] = task /\ \A q \in MountOp : q # n => mountOp'[q] = mountOp[q]
    BY <1>2, <2>1, <2>2, TaskReplaced
  <2>4. TypesInv'
    BY <1>1, <1>2, <1>3, <2>1, <2>3 DEF TypesInv, MountsTypeOK
  <2> QED
    BY <1>2, <2>1, <2>2, <2>3, <2>4, NoNewClaim DEF Claims
<1> QED
  BY <1>4, <1>5

LEMMA UnmountKeepsInv ==
  ASSUME TypesInv, ClaimsInv,
         \/ \E u \in Udid : UnmountFromPage(u)
         \/ \E p \in MountPath : UnmountFromSidebar(p)
  PROVE  TypesInv' /\ ClaimsInv'
<1>1. MountsTypeOK
  BY DEF TypesInv
<1> DEFINE n == lastMountOp + 1
<1>2. /\ n \in MountOp /\ n \in 0 .. MaxMountOp /\ lastMountOp' = n
      /\ UNCHANGED <<mounts, attached, shownPaths, lock, seenPaths, posted>>
  BY <1>1, NumberFacts DEF UnmountFromPage, UnmountFromSidebar, Ask, MountsTypeOK
<1>3. PICK task \in MountTask :
        /\ mountOp' = [mountOp EXCEPT ![n] = task]
        /\ task.stage \in {"asked", "queued"}
        /\ task.by = "page" => task.udid \in Udid
  <2>1. ASSUME NEW u \in Udid, UnmountFromPage(u)
        PROVE  \E task \in MountTask :
                 /\ mountOp' = [mountOp EXCEPT ![n] = task]
                 /\ task.stage \in {"asked", "queued"}
                 /\ task.by = "page" => task.udid \in Udid
    <3> DEFINE task == NewTask("page", u, pages[u].path, "asked")
    <3>1. pages \in [Udid -> Page]
      BY <1>1 DEF MountsTypeOK
    <3>2. pages[u].path \in MountPath \cup {"nowhere"}
      BY <3>1 DEF Page
    <3>3. task \in MountTask /\ task.stage = "asked" /\ task.udid = u
      BY <3>2, NewTaskFacts DEF MountStage
    <3>4. mountOp' = [mountOp EXCEPT ![n] = task]
      BY <2>1 DEF UnmountFromPage, Ask
    <3> HIDE DEF task
    <3> QED
      BY <3>3, <3>4
  <2>2. ASSUME NEW p \in MountPath, UnmountFromSidebar(p)
        PROVE  \E task \in MountTask :
                 /\ mountOp' = [mountOp EXCEPT ![n] = task]
                 /\ task.stage \in {"asked", "queued"}
                 /\ task.by = "page" => task.udid \in Udid
    <3> DEFINE task == NewTask("sidebar", "nobody", p, "queued")
    <3>1. task \in MountTask /\ task.stage = "queued" /\ task.by = "sidebar"
      BY NewTaskFacts DEF MountStage
    <3>2. mountOp' = [mountOp EXCEPT ![n] = task]
      BY <2>2 DEF UnmountFromSidebar, Ask
    <3> HIDE DEF task
    <3> QED
      BY <3>1, <3>2
  <2> QED
    BY <2>1, <2>2
<1>4. /\ pages' \in [Udid -> Page] /\ refreshes' \in Nat /\ busyPath' \in MountPath \cup {"nowhere"}
  <2>1. /\ pages \in [Udid -> Page] /\ refreshes \in Nat
        /\ busyPath \in MountPath \cup {"nowhere"}
    BY <1>1 DEF MountsTypeOK
  <2>2. ASSUME NEW u \in Udid, UnmountFromPage(u)
        PROVE  pages' \in [Udid -> Page] /\ refreshes' \in Nat /\ busyPath' = busyPath
    <3>1. [busy |-> TRUE, mounted |-> TRUE, path |-> pages[u].path] \in Page
      BY <2>1 DEF Page
    <3> QED
      BY <1>1, <2>2, <3>1, StatusFacts DEF UnmountFromPage
  <2>3. ASSUME NEW p \in MountPath, UnmountFromSidebar(p)
        PROVE  pages' = pages /\ refreshes' = refreshes /\ busyPath' = p
    BY <2>3 DEF UnmountFromSidebar
  <2> QED
    BY <2>1, <2>2, <2>3
<1> HIDE DEF n
<1>5. /\ mountOp' \in [MountOp -> MountTask] /\ PageTasks'
      /\ mountOp'[n] = task /\ \A q \in MountOp : q # n => mountOp'[q] = mountOp[q]
  BY <1>2, <1>3, TaskReplaced
<1>6. TypesInv'
  BY <1>1, <1>2, <1>4, <1>5 DEF TypesInv, MountsTypeOK
<1> QED
  BY <1>2, <1>3, <1>5, <1>6, NoNewClaim DEF Claims

(* The notices, and the refreshes of the sidebar: no task moves.           *)
LEMMA NoticesKeepInv ==
  ASSUME TypesInv, ClaimsInv, RunPosted \/ RefreshStep PROVE TypesInv' /\ ClaimsInv'
<1>1. MountsTypeOK
  BY DEF TypesInv
<1>2. UNCHANGED <<mounts, attached, mountOp, lastMountOp>>
  BY DEF RunPosted, RefreshStep, StartRefresh, EndRefresh
<1>3. MountsTypeOK'
  <2>1. CASE RunPosted
    <3>1. Head(posted) \in Notice /\ posted' \in Seq(Notice)
          /\ UNCHANGED <<lock, seenPaths>>
      BY <1>1, <2>1, PostedFacts DEF RunPosted
    <3>2. pages' \in [Udid -> Page] /\ refreshes' \in Nat
      BY <1>1, <2>1, <3>1 DEF RunPosted, SetStatus, Notice, MountsTypeOK
    <3>3. shownPaths' \subseteq MountPath /\ busyPath' \in MountPath \cup {"nowhere"}
      BY <1>1, <2>1, <3>1 DEF RunPosted, Notice, MountsTypeOK
    <3> QED
      BY <1>1, <1>2, <3>1, <3>2, <3>3 DEF MountsTypeOK, Notice
  <2>2. CASE StartRefresh
    BY <1>1, <1>2, <2>2, NumberFacts DEF StartRefresh, MountsTypeOK, Registered
  <2>3. CASE EndRefresh
    <3>1. [to |-> "list", paths |-> seenPaths \cup Attached] \in Notice
      BY <1>1 DEF Notice, MountsTypeOK, Attached
    <3>2. posted' \in Seq(Notice)
      BY <1>1, <2>3, <3>1, PostedFacts DEF EndRefresh, Publish
    <3> QED
      BY <1>1, <1>2, <2>3, <3>2, NumberFacts DEF EndRefresh, Publish, MountsTypeOK, Notice
  <2> QED
    BY <2>1, <2>2, <2>3 DEF RefreshStep
<1> QED
  BY <1>2, <1>3, NoNewClaim DEF TypesInv, PageTasks, Claims

-----------------------------------------------------------------------------
(* A task goes on to a stage that claims nothing more.                     *)
LEMMA GoOnFacts ==
  ASSUME TypesInv, NEW o \in MountOp, NEW stage \in MountStage, NEW mounted \in BOOLEAN,
         mountOp' = [mountOp EXCEPT ![o].stage = stage, ![o].mounted = mounted],
         mountOp[o].stage \notin {"unused", "over"},
         stage \in {"mounted", "failed"} => mountOp[o].by = "page",
         stage # "mount"
  PROVE  /\ mountOp' \in [MountOp -> MountTask] /\ PageTasks'
         /\ mountOp'[o].stage = stage /\ mountOp'[o].path = mountOp[o].path
         /\ \A q \in MountOp : q # o => mountOp'[q] = mountOp[q]
<1> DEFINE task == [mountOp[o] EXCEPT !.stage = stage, !.mounted = mounted]
<1>1. mountOp[o] \in MountTask /\ mountOp \in [MountOp -> MountTask]
  BY TaskFacts DEF TypesInv, MountsTypeOK
<1>2. /\ task \in MountTask /\ task.stage = stage /\ task.path = mountOp[o].path
      /\ task.by = mountOp[o].by /\ task.udid = mountOp[o].udid
  BY <1>1 DEF MountTask
<1>3. mountOp' = [mountOp EXCEPT ![o] = task]
  BY <1>1 DEF MountTask
<1>4. /\ task.stage \in {"mount", "mounted", "failed"} => task.by = "page"
      /\ task.by = "page" => task.udid \in Udid
  BY <1>2, TaskFacts
<1> HIDE DEF task
<1>5. /\ mountOp' \in [MountOp -> MountTask] /\ PageTasks'
      /\ mountOp'[o] = task /\ \A q \in MountOp : q # o => mountOp'[q] = mountOp[q]
  BY <1>2, <1>3, <1>4, TaskReplaced
<1> QED
  BY <1>2, <1>5

(* GoOn leaves what the task knows.                                        *)
LEMMA GoOnKeeps ==
  ASSUME TypesInv, NEW o \in MountOp, NEW stage \in MountStage, GoOn(o, stage),
         mountOp[o].stage \notin {"unused", "over"},
         stage \in {"mounted", "failed"} => mountOp[o].by = "page",
         stage # "mount"
  PROVE  /\ mountOp' \in [MountOp -> MountTask] /\ PageTasks'
         /\ mountOp'[o].stage = stage /\ mountOp'[o].path = mountOp[o].path
         /\ \A q \in MountOp : q # o => mountOp'[q] = mountOp[q]
<1>1. mountOp[o] \in MountTask /\ mountOp \in [MountOp -> MountTask]
  BY TaskFacts DEF TypesInv, MountsTypeOK
<1>2. [mountOp[o] EXCEPT !.stage = stage]
        = [mountOp[o] EXCEPT !.stage = stage, !.mounted = mountOp[o].mounted]
  BY <1>1 DEF MountTask
<1>3. /\ mountOp[o].mounted \in BOOLEAN
      /\ mountOp' = [mountOp EXCEPT ![o].stage = stage, ![o].mounted = mountOp[o].mounted]
  BY <1>1, <1>2 DEF GoOn, MountTask
<1> QED
  BY <1>3, GoOnFacts

LEMMA EndTaskFacts ==
  ASSUME TypesInv, NEW o \in MountOp, EndTask(o)
  PROVE  /\ mountOp' \in [MountOp -> MountTask] /\ PageTasks'
         /\ mountOp'[o].stage = "over" /\ \A q \in MountOp : q # o => mountOp'[q] = mountOp[q]
<1>1. NoTask("over") \in MountTask /\ NoTask("over").stage = "over"
  BY NewTaskFacts DEF NoTask, MountStage
<1> QED
  BY <1>1, TaskReplaced DEF EndTask

(* What the tables and the tasks have to be, where nothing else changes.   *)
LEMMA TablesKeepTypes ==
  ASSUME TypesInv, mountOp' \in [MountOp -> MountTask], PageTasks',
         mounts' \in [MountPath -> MountEntry \cup {NoEntry}],
         attached' \in [MountPath -> 0 .. MaxMountOp],
         lock' \in 0 .. Unlocked, seenPaths' \subseteq MountPath,
         UNCHANGED <<lastMountOp, pages, shownPaths, busyPath, refreshes, posted>>
  PROVE  TypesInv'
BY DEF TypesInv, MountsTypeOK

LEMMA IfuseKeepsInv ==
  ASSUME TypesInv, ClaimsInv, NEW o \in MountOp, IfuseEnds(o)
  PROVE  TypesInv' /\ ClaimsInv'
<1> DEFINE p == PathOf(o)
<1>1. /\ mountOp[o].stage = "mount" /\ mountOp[o].by = "page"
      /\ o \in 0 .. MaxMountOp /\ o # 0
  BY TaskFacts DEF IfuseEnds, MountAt, TypesInv, PageTasks
<1>2. UNCHANGED <<mounts, lastMountOp, pages, shownPaths, busyPath, refreshes, lock, seenPaths,
                  posted>>
  BY DEF IfuseEnds
<1>3. PICK stage \in {"mounted", "failed"} :
        /\ GoOn(o, stage)
        /\ \/ /\ stage = "mounted" /\ attached[p] = 0
              /\ attached' = [attached EXCEPT ![p] = o]
           \/ stage = "failed" /\ attached' = attached
  BY DEF IfuseEnds
<1>4. /\ mountOp' \in [MountOp -> MountTask] /\ PageTasks'
      /\ mountOp'[o].stage = stage /\ mountOp'[o].path = mountOp[o].path
      /\ \A q \in MountOp : q # o => mountOp'[q] = mountOp[q]
  <2>1. stage \in MountStage
    BY DEF MountStage
  <2> QED
    BY <1>1, <1>3, <2>1, GoOnKeeps
<1>5. attached' \in [MountPath -> 0 .. MaxMountOp]
  BY <1>1, <1>3 DEF TypesInv, MountsTypeOK
<1>6. TypesInv'
  BY <1>2, <1>4, <1>5, TablesKeepTypes DEF TypesInv, MountsTypeOK
<1>7. \A q \in MountPath : \A k \in MountOp :
        Claims(k, q)' <=> Claims(k, q) /\ ~(k = o /\ stage = "mounted")
  BY <1>1, <1>3, <1>4 DEF Claims
<1>8. CASE stage = "failed"
  <2>1. attached' = attached
    BY <1>3, <1>8
  <2> QED
    BY <1>2, <1>6, <1>7, <2>1, NoNewClaim
<1>9. CASE stage = "mounted"
  <2>1. attached' = [attached EXCEPT ![p] = o]
    BY <1>3, <1>9
  <2>2. \A q \in MountPath : /\ q # p => attached'[q] = attached[q]
                             /\ q = p => Claims(o, q)
    BY <1>1, <2>1 DEF TypesInv, MountsTypeOK, Claims, PathOf
  <2>3. \A q \in MountPath : \A k \in MountOp : Claims(k, q)' => Claims(k, q) /\ q # p
    BY <1>7, <1>9, <2>2 DEF ClaimsInv, ClaimedOnce
  <2>4. p \in MountPath => mounts[p] # NoEntry
    BY <2>2 DEF ClaimsInv, ClaimHasEntry
  <2> QED
    BY <1>2, <1>6, <2>2, <2>3, <2>4 DEF ClaimsInv, ClaimedOnce, ClaimHasEntry, NoOrphanMount
<1> QED
  BY <1>3, <1>8, <1>9

(* finish_external_mount, or cancel_mount_reservation.                     *)
LEMMA FinishMountKeepsInv ==
  ASSUME TypesInv, ClaimsInv, NEW o \in MountOp, FinishMount(o)
  PROVE  TypesInv' /\ ClaimsInv'
<1> DEFINE p == PathOf(o)
           entry == IF MountAt(o, "mounted") THEN [state |-> "external", udid |-> mountOp[o].udid]
                    ELSE NoEntry
<1>1. /\ mountOp[o].stage \in {"mounted", "failed"} /\ mountOp[o].udid \in Udid
      /\ MountAt(o, "mounted") \in BOOLEAN
  BY TaskFacts DEF FinishMount, TypesInv, PageTasks, MountAt
<1>2. /\ UNCHANGED <<attached, lastMountOp, pages, shownPaths, busyPath, refreshes, lock,
                     seenPaths, posted>>
      /\ mounts' = [mounts EXCEPT ![p] = entry]
  BY DEF FinishMount
<1>3. /\ entry \in MountEntry \cup {NoEntry}
      /\ MountAt(o, "mounted") => entry # NoEntry
  BY <1>1 DEF MountEntry, NoEntry
<1> HIDE DEF entry
<1>4. /\ mountOp' \in [MountOp -> MountTask] /\ PageTasks'
      /\ mountOp'[o].stage = "settled" /\ mountOp'[o].path = mountOp[o].path
      /\ \A q \in MountOp : q # o => mountOp'[q] = mountOp[q]
  <2>1. mountOp' = [mountOp EXCEPT ![o].stage = "settled", ![o].mounted = MountAt(o, "mounted")]
    BY DEF FinishMount
  <2>2. "settled" \in MountStage
    BY DEF MountStage
  <2> QED
    BY <1>1, <2>1, <2>2, GoOnFacts
<1>5. /\ mounts' \in [MountPath -> MountEntry \cup {NoEntry}]
      /\ \A q \in MountPath : mounts'[q] = IF q = p THEN entry ELSE mounts[q]
  BY <1>2, <1>3 DEF TypesInv, MountsTypeOK
<1>6. TypesInv'
  BY <1>2, <1>4, <1>5, TablesKeepTypes DEF TypesInv, MountsTypeOK
<1>7. \A q \in MountPath : \A k \in MountOp : Claims(k, q)' => Claims(k, q) /\ k # o
  BY <1>1, <1>4 DEF Claims
<1>8. CASE mountOp[o].stage = "mounted"
  <2>1. entry # NoEntry
    BY <1>3, <1>8 DEF MountAt
  <2> QED
    BY <1>2, <1>5, <1>6, <1>7, <2>1 DEF ClaimsInv, ClaimedOnce, ClaimHasEntry, NoOrphanMount
<1>9. CASE mountOp[o].stage = "failed"
  <2>1. \A q \in MountPath : q = p => Claims(o, q)
    BY <1>9 DEF Claims, PathOf
  <2>2. \A q \in MountPath : \A k \in MountOp : Claims(k, q)' => Claims(k, q) /\ q # p
    BY <1>7, <2>1 DEF ClaimsInv, ClaimedOnce
  <2>3. p \in MountPath => attached[p] = 0
    BY <2>1 DEF ClaimsInv, ClaimHasEntry
  <2> QED
    BY <1>2, <1>5, <1>6, <2>2, <2>3 DEF ClaimsInv, ClaimedOnce, ClaimHasEntry, NoOrphanMount
<1> QED
  BY <1>1, <1>8, <1>9

(* The steps of an unmount before and after fusermount.                    *)
LEMMA UnmountGoesOn ==
  ASSUME TypesInv, ClaimsInv, NEW o \in MountOp,
         TakeLock(o) \/ LookUp(o) \/ DiscoverAfterUnmount(o)
  PROVE  TypesInv' /\ ClaimsInv'
<1>1. PICK stage \in {"asked", "kept", "managed", "unmanaged", "listing"} :
        GoOn(o, stage) /\ mountOp[o].stage \in {"queued", "asked", "settled"}
  BY DEF TakeLock, LookUp, DiscoverAfterUnmount, MountAt
<1>2. UNCHANGED <<mounts, attached, lastMountOp, pages, shownPaths, busyPath, refreshes, posted>>
  BY DEF TakeLock, LookUp, DiscoverAfterUnmount
<1>3. /\ mountOp' \in [MountOp -> MountTask] /\ PageTasks'
      /\ mountOp'[o].stage = stage
      /\ \A q \in MountOp : q # o => mountOp'[q] = mountOp[q]
  <2>1. stage \in MountStage
    BY DEF MountStage
  <2>2. /\ mountOp[o].stage \notin {"unused", "over"}
        /\ stage \notin {"mount", "mounted", "failed"}
    BY <1>1
  <2> QED
    BY <1>1, <2>1, <2>2, GoOnKeeps
<1>4. lock' \in 0 .. Unlocked /\ seenPaths' \subseteq MountPath
  <2>1. o \in 0 .. Unlocked
    BY TaskFacts
  <2>2. lock \in 0 .. Unlocked /\ seenPaths \subseteq MountPath
    BY DEF TypesInv, MountsTypeOK
  <2>3. Registered \subseteq MountPath
    BY DEF Registered
  <2>4. lock' \in {lock, o} /\ seenPaths' \in {seenPaths, Registered}
    BY DEF TakeLock, LookUp, DiscoverAfterUnmount
  <2> QED
    BY <2>1, <2>2, <2>3, <2>4
<1>5. TypesInv'
  BY <1>2, <1>3, <1>4, TablesKeepTypes DEF TypesInv, MountsTypeOK
<1>6. \A q \in MountPath : \A k \in MountOp : Claims(k, q)' => Claims(k, q)
  BY <1>3 DEF Claims
<1> QED
  BY <1>2, <1>5, <1>6, NoNewClaim

(* Detaching what is mounted is what gives an unmount its claim.           *)
LEMMA FusermountKeepsInv ==
  ASSUME TypesInv, ClaimsInv, NEW o \in MountOp, FusermountEnds(o)
  PROVE  TypesInv' /\ ClaimsInv'
<1> DEFINE p == PathOf(o)
<1>1. /\ mountOp[o].stage \in {"managed", "unmanaged"}
      /\ UNCHANGED <<mounts, lastMountOp, pages, shownPaths, busyPath, refreshes, lock, seenPaths,
                     posted>>
  BY DEF FusermountEnds
<1>2. {"unmounted", "settled"} \subseteq MountStage
  BY DEF MountStage
<1>3. CASE /\ mountOp' = [mountOp EXCEPT ![o].stage = "settled", ![o].mounted = TRUE]
           /\ attached' = attached
  <2>1. /\ mountOp' \in [MountOp -> MountTask] /\ PageTasks'
        /\ mountOp'[o].stage = "settled" /\ mountOp'[o].path = mountOp[o].path
        /\ \A q \in MountOp : q # o => mountOp'[q] = mountOp[q]
    BY <1>1, <1>2, <1>3, GoOnFacts
  <2>2. TypesInv'
    BY <1>1, <1>3, <2>1, TablesKeepTypes DEF TypesInv, MountsTypeOK
  <2>3. \A q \in MountPath : \A k \in MountOp : Claims(k, q)' => Claims(k, q)
    BY <2>1 DEF Claims
  <2> QED
    BY <1>1, <1>3, <2>2, <2>3, NoNewClaim
<1>4. CASE /\ attached[p] # 0
           /\ attached' = [attached EXCEPT ![p] = 0]
           /\ mountOp' = [mountOp EXCEPT
                ![o].stage = IF MountAt(o, "managed") THEN "unmounted" ELSE "settled"]
  <2>1. PICK stage \in {"unmounted", "settled"} : GoOn(o, stage)
    BY <1>4 DEF GoOn
  <2>2. /\ mountOp' \in [MountOp -> MountTask] /\ PageTasks'
        /\ mountOp'[o].stage = stage /\ mountOp'[o].path = mountOp[o].path
        /\ \A q \in MountOp : q # o => mountOp'[q] = mountOp[q]
    BY <1>1, <1>2, <2>1, GoOnKeeps
  <2>3. /\ attached' \in [MountPath -> 0 .. MaxMountOp]
        /\ \A q \in MountPath : attached'[q] = IF q = p THEN 0 ELSE attached[q]
    BY <1>4, NumberFacts DEF TypesInv, MountsTypeOK
  <2>4. TypesInv'
    BY <1>1, <2>2, <2>3, TablesKeepTypes DEF TypesInv, MountsTypeOK
  <2>5. \A q \in MountPath : \A k \in MountOp : Claims(k, q)' => Claims(k, q) \/ (k = o /\ q = p)
    BY <2>2 DEF Claims, PathOf
  <2>6. p \in MountPath => mounts[p] # NoEntry /\ \A k \in MountOp : ~Claims(k, p)
    BY <1>4 DEF ClaimsInv, ClaimHasEntry, NoOrphanMount
  <2> QED
    BY <1>1, <2>3, <2>4, <2>5, <2>6 DEF ClaimsInv, ClaimedOnce, ClaimHasEntry, NoOrphanMount
<1> QED
  BY <1>3, <1>4 DEF FusermountEnds

(* The entry that goes is the one that the claim protected.                *)
LEMMA FinishUnmountKeepsInv ==
  ASSUME TypesInv, ClaimsInv, NEW o \in MountOp, FinishUnmount(o)
  PROVE  TypesInv' /\ ClaimsInv'
<1> DEFINE p == PathOf(o)
<1>1. /\ mountOp[o].stage \in {"unmounted", "kept"}
      /\ UNCHANGED <<attached, lastMountOp, pages, shownPaths, busyPath, refreshes, lock, seenPaths,
                     posted>>
  BY DEF FinishUnmount
<1>2. /\ mountOp' \in [MountOp -> MountTask] /\ PageTasks'
      /\ mountOp'[o].stage = "settled" /\ mountOp'[o].path = mountOp[o].path
      /\ \A q \in MountOp : q # o => mountOp'[q] = mountOp[q]
  <2>1. mountOp' = [mountOp EXCEPT ![o].stage = "settled", ![o].mounted = MountAt(o, "kept")]
    BY DEF FinishUnmount
  <2>2. "settled" \in MountStage /\ MountAt(o, "kept") \in BOOLEAN
    BY DEF MountStage, MountAt
  <2> QED
    BY <1>1, <2>1, <2>2, GoOnFacts
<1>3. \A q \in MountPath : \A k \in MountOp : Claims(k, q)' => Claims(k, q) /\ k # o
  BY <1>2 DEF Claims
<1>4. CASE mountOp[o].stage = "kept"
  <2>1. mounts' = mounts
    BY <1>4 DEF FinishUnmount, MountAt
  <2>2. TypesInv'
    BY <1>1, <1>2, <2>1, TablesKeepTypes DEF TypesInv, MountsTypeOK
  <2> QED
    BY <1>1, <1>3, <2>1, <2>2, NoNewClaim
<1>5. CASE mountOp[o].stage = "unmounted"
  <2>1. mounts' = [mounts EXCEPT ![p] = NoEntry]
    BY <1>5 DEF FinishUnmount, MountAt
  <2>2. /\ mounts' \in [MountPath -> MountEntry \cup {NoEntry}]
        /\ \A q \in MountPath : q # p => mounts'[q] = mounts[q]
    BY <2>1 DEF TypesInv, MountsTypeOK
  <2>3. TypesInv'
    BY <1>1, <1>2, <2>2, TablesKeepTypes DEF TypesInv, MountsTypeOK
  <2>4. \A q \in MountPath : q = p => Claims(o, q)
    BY <1>5 DEF Claims, PathOf
  <2>5. \A q \in MountPath : \A k \in MountOp : Claims(k, q)' => Claims(k, q) /\ q # p
    BY <1>3, <2>4 DEF ClaimsInv, ClaimedOnce
  <2>6. p \in MountPath => attached[p] = 0
    BY <2>4 DEF ClaimsInv, ClaimHasEntry
  <2> QED
    BY <1>1, <2>2, <2>3, <2>5, <2>6 DEF ClaimsInv, ClaimedOnce, ClaimHasEntry, NoOrphanMount
<1> QED
  BY <1>1, <1>4, <1>5

(* The operation is over, and the interface is told.                       *)
LEMMA ReportsKeepInv ==
  ASSUME TypesInv, ClaimsInv, NEW o \in MountOp, ReportToPage(o) \/ ReportToSidebar(o)
  PROVE  TypesInv' /\ ClaimsInv'
<1>1. MountsTypeOK /\ mountOp[o] \in MountTask
  BY TaskFacts DEF TypesInv
<1>2. /\ mountOp' \in [MountOp -> MountTask] /\ PageTasks'
      /\ mountOp'[o].stage = "over" /\ \A q \in MountOp : q # o => mountOp'[q] = mountOp[q]
  BY EndTaskFacts DEF ReportToPage, ReportToSidebar
<1>3. UNCHANGED <<mounts, attached, lastMountOp, pages, shownPaths, busyPath, refreshes>>
  BY DEF ReportToPage, ReportToSidebar
<1>4. lock' \in 0 .. Unlocked /\ seenPaths' \subseteq MountPath
  BY <1>1, NumberFacts DEF ReportToPage, ReportToSidebar, Publish, MountsTypeOK
<1>5. posted' \in Seq(Notice)
  <2>1. CASE ReportToPage(o)
    <3> DEFINE page == [busy |-> FALSE, mounted |-> mountOp[o].mounted,
                        path |-> IF mountOp[o].mounted THEN mountOp[o].path ELSE "nowhere"]
               notice == [to |-> "page", udid |-> mountOp[o].udid, page |-> page]
    <3>1. page \in Page
      BY <1>1 DEF Page, MountTask
    <3>2. mountOp[o].udid \in Udid
      BY <2>1, TaskFacts DEF ReportToPage, MountAt
    <3>3. posted' = Append(posted, notice)
      BY <2>1 DEF ReportToPage
    <3> HIDE DEF page
    <3>4. notice \in Notice
      BY <3>1, <3>2 DEF Notice
    <3> QED
      BY <1>1, <3>3, <3>4, PostedFacts
  <2>2. CASE ReportToSidebar(o)
    <3>1. [to |-> "unmounted", paths |-> seenPaths \cup Attached] \in Notice
      BY <1>1 DEF Notice, MountsTypeOK, Attached
    <3> QED
      BY <1>1, <2>2, <3>1, PostedFacts DEF ReportToSidebar, Publish
  <2> QED
    BY <2>1, <2>2
<1>6. TypesInv'
  BY <1>1, <1>2, <1>3, <1>4, <1>5 DEF TypesInv, MountsTypeOK, Notice
<1> QED
  BY <1>2, <1>3, <1>6, NoNewClaim DEF Claims

-----------------------------------------------------------------------------
(* The queue of the Qt thread.                                             *)
LEMMA PostedGrows ==
  ASSUME MountsTypeOK, NEW m \in Notice, posted' = Append(posted, m)
  PROVE  /\ posted' # <<>> /\ Len(posted') \in 1 .. Len(posted') /\ posted'[Len(posted')] = m
         /\ \A n \in 1 .. Len(posted) : n \in 1 .. Len(posted') /\ posted'[n] = posted[n]
         /\ \A n \in 1 .. Len(posted') : n \in 1 .. Len(posted) \/ posted'[n] = m
<1>1. posted \in Seq(Notice)
  BY PostedFacts
<1>2. Len(posted) \in Nat
  BY <1>1, LenProperties
<1>3. /\ posted' # <<>> /\ Len(posted') = Len(posted) + 1
      /\ \A n \in 1 .. Len(posted) : posted'[n] = posted[n]
      /\ posted'[Len(posted) + 1] = m
  BY <1>1, AppendProperties
<1>4. \A n \in 1 .. Len(posted) + 1 : n \in 1 .. Len(posted) \/ n = Len(posted) + 1
  BY <1>2
<1>5. /\ Len(posted) + 1 \in 1 .. Len(posted) + 1
      /\ \A n \in 1 .. Len(posted) : n \in 1 .. Len(posted) + 1
  BY <1>2
<1> QED
  BY <1>3, <1>4, <1>5

LEMMA PostedShrinks ==
  ASSUME MountsTypeOK, posted # <<>>, posted' = Tail(posted)
  PROVE  /\ Len(posted) \in 1 .. Len(posted) /\ 1 \in 1 .. Len(posted)
         /\ posted[1] = Head(posted)
         /\ \A n \in 1 .. Len(posted') : n + 1 \in 1 .. Len(posted) /\ posted'[n] = posted[n + 1]
         /\ \A n \in 1 .. Len(posted) :
              n = 1 \/ (n - 1 \in 1 .. Len(posted') /\ posted'[n - 1] = posted[n])
         /\ posted' = <<>> => Len(posted) = 1
         /\ posted' # <<>> => posted'[Len(posted')] = posted[Len(posted)]
<1> DEFINE N == Len(posted)
<1>1. posted \in Seq(Notice) /\ posted' \in Seq(Notice)
  BY PostedFacts
<1>2. N \in Nat \ {0}
  BY <1>1, EmptySeq
<1>3. Len(posted') = N - 1 /\ \A n \in 1 .. Len(posted') : posted'[n] = posted[n + 1]
  BY <1>1, HeadTailProperties
<1>4. posted[1] = Head(posted)
  BY <1>1
<1>5. /\ N \in 1 .. N /\ 1 \in 1 .. N
      /\ \A n \in 1 .. N - 1 : n + 1 \in 1 .. N
      /\ \A n \in 1 .. N : n = 1 \/ (n - 1 \in 1 .. N - 1 /\ (n - 1) + 1 = n)
  BY <1>2
<1>6. posted' = <<>> => N = 1
  <2>1. Len(<<>>) = 0
    OBVIOUS
  <2> QED
    BY <1>2, <1>3, <2>1
<1>7. ASSUME posted' # <<>> PROVE posted'[Len(posted')] = posted[N]
  <2>1. Len(posted') \in Nat \ {0}
    BY <1>1, <1>7, EmptySeq
  <2>2. N - 1 \in 1 .. N - 1 /\ (N - 1) + 1 = N
    BY <1>2, <1>3, <2>1
  <2> QED
    BY <1>3, <2>2
<1> QED
  BY <1>3, <1>4, <1>5, <1>6, <1>7

(* Where the queue does not change.                                        *)
Quiet == UNCHANGED <<lastMountOp, pages, shownPaths, busyPath, refreshes, posted>>

(* A task that goes on still has to look, or to make somebody look.        *)
Advances(o) ==
  /\ mountOp'[o].by = mountOp[o].by /\ mountOp'[o].udid = mountOp[o].udid
  /\ mountOp[o].stage \notin Resting
  /\ mountOp'[o].stage \notin Resting \cup {"listing"}
  /\ \A q \in MountOp : q # o => mountOp'[q] = mountOp[q]

LEMMA AdvancesKeeps ==
  ASSUME TypesInv, SettleInv, NEW o \in MountOp, Advances(o), Quiet,
         lock' = lock \/ lock = Unlocked,
         mountOp[o].by = "sidebar" => lock' = o
  PROVE  SettleInv'
<1>1. \A q \in MountOp : q \in 0 .. MaxMountOp /\ q # Unlocked
  BY MountAssumption DEF MountOp, Unlocked
<1>2. FreshOps'
  BY DEF SettleInv, FreshOps, Advances, Quiet, Resting
<1>3. LockHeld'
  <2> SUFFICES ASSUME NEW q \in MountOp, Locks(mountOp'[q]) PROVE lock' = q
    BY DEF LockHeld
  <2>1. CASE q = o
    BY <2>1 DEF Locks, Advances
  <2>2. CASE q # o
    <3>1. lock = q
      BY <2>2 DEF SettleInv, LockHeld, Advances
    <3> QED
      BY <1>1, <3>1
  <2> QED
    BY <2>1, <2>2
<1>4. LastLookRight'
  <2>1. LookPending'
    BY DEF LookPending, Advances
  <2> QED
    BY <2>1 DEF LastLookRight
<1>5. NoticesIdle'
  BY DEF SettleInv, NoticesIdle, Quiet
<1>6. BusyPagesHear'
  <2>1. \A q \in MountOp, u \in Udid : WorksFor(mountOp[q], u) => WorksFor(mountOp'[q], u)
    BY DEF WorksFor, Advances
  <2> QED
    BY <2>1 DEF SettleInv, BusyPagesHear, Quiet
<1>7. BusyPathHears'
  <2>1. \A q \in MountOp : InSidebar(mountOp[q]) => InSidebar(mountOp'[q])
    BY DEF InSidebar, Advances
  <2> QED
    BY <2>1 DEF SettleInv, BusyPathHears, Quiet
<1>8. ListedBySidebar'
  BY DEF SettleInv, ListedBySidebar, Advances
<1> QED
  BY <1>2, <1>3, <1>4, <1>5, <1>6, <1>7, <1>8 DEF SettleInv

LEMMA WorkSettles ==
  ASSUME TypesInv, SettleInv, NEW o \in MountOp,
         \/ IfuseEnds(o) \/ FinishMount(o) \/ TakeLock(o) \/ LookUp(o)
         \/ FusermountEnds(o) \/ FinishUnmount(o)
  PROVE  SettleInv'
<1>1. mountOp[o] \in MountTask /\ mountOp \in [MountOp -> MountTask]
  BY TaskFacts DEF TypesInv, MountsTypeOK
<1>2. mountOp[o].stage \in {"mount", "mounted", "failed"} => mountOp[o].by # "sidebar"
  BY DEF TypesInv, PageTasks
<1>3. mountOp[o].by = "sidebar" /\ mountOp[o].stage \notin Resting \cup {"queued"} => lock = o
  BY DEF SettleInv, LockHeld, Locks
<1>4. CASE IfuseEnds(o)
  <2>1. Advances(o)
    BY <1>1, <1>4 DEF IfuseEnds, MountAt, GoOn, Advances, MountTask, Resting
  <2> QED
    BY <1>2, <1>4, <2>1, AdvancesKeeps DEF IfuseEnds, MountAt, Quiet
<1>5. CASE FinishMount(o)
  <2>1. Advances(o)
    BY <1>1, <1>5 DEF FinishMount, Advances, MountTask, Resting
  <2> QED
    BY <1>2, <1>5, <2>1, AdvancesKeeps DEF FinishMount, Quiet
<1>6. CASE TakeLock(o)
  <2>1. Advances(o)
    BY <1>1, <1>6 DEF TakeLock, MountAt, GoOn, Advances, MountTask, Resting
  <2> QED
    BY <1>6, <2>1, AdvancesKeeps DEF TakeLock, Quiet
<1>7. CASE LookUp(o)
  <2>1. Advances(o)
    BY <1>1, <1>7 DEF LookUp, MountAt, GoOn, Advances, MountTask, Resting
  <2>2. mountOp[o].stage = "asked" /\ lock' = lock /\ Quiet
    BY <1>7 DEF LookUp, MountAt, Quiet
  <2>3. mountOp[o].by = "sidebar" => lock' = o
    BY <1>3, <2>2 DEF Resting
  <2> QED
    BY <2>1, <2>2, <2>3, AdvancesKeeps
<1>8. CASE FusermountEnds(o)
  <2>1. Advances(o)
    BY <1>1, <1>8 DEF FusermountEnds, MountAt, Advances, MountTask, Resting
  <2>2. mountOp[o].stage \in {"managed", "unmanaged"} /\ lock' = lock /\ Quiet
    BY <1>8 DEF FusermountEnds, Quiet
  <2>3. mountOp[o].by = "sidebar" => lock' = o
    BY <1>3, <2>2 DEF Resting
  <2> QED
    BY <2>1, <2>2, <2>3, AdvancesKeeps
<1>9. CASE FinishUnmount(o)
  <2>1. Advances(o)
    BY <1>1, <1>9 DEF FinishUnmount, Advances, MountTask, Resting
  <2>2. mountOp[o].stage \in {"unmounted", "kept"} /\ lock' = lock /\ Quiet
    BY <1>9 DEF FinishUnmount, Quiet
  <2>3. mountOp[o].by = "sidebar" => lock' = o
    BY <1>3, <2>2 DEF Resting
  <2> QED
    BY <2>1, <2>2, <2>3, AdvancesKeeps
<1> QED
  BY <1>4, <1>5, <1>6, <1>7, <1>8, <1>9

(* The sidebar's unmount looks, after it changed what there is to see.     *)
LEMMA DiscoverSettles ==
  ASSUME TypesInv, SettleInv, NEW o \in MountOp, DiscoverAfterUnmount(o)
  PROVE  SettleInv'
<1>1. mountOp[o] \in MountTask /\ mountOp \in [MountOp -> MountTask]
  BY TaskFacts DEF TypesInv, MountsTypeOK
<1>2. /\ mountOp'[o].by = "sidebar" /\ mountOp'[o].stage = "listing"
      /\ mountOp[o].by = "sidebar" /\ mountOp[o].stage = "settled"
      /\ \A q \in MountOp : q # o => mountOp'[q] = mountOp[q]
  BY <1>1 DEF DiscoverAfterUnmount, MountAt, GoOn, MountTask
<1>3. UNCHANGED <<mounts, attached, lock>> /\ Quiet /\ seenPaths' = Registered
  BY DEF DiscoverAfterUnmount, Quiet
<1>4. lock = o
  BY <1>2 DEF SettleInv, LockHeld, Locks, Resting
<1>5. o # Unlocked
  BY MountAssumption DEF MountOp, Unlocked
<1>6. FreshOps'
  BY <1>2, <1>3 DEF SettleInv, FreshOps, Quiet
<1>7. LockHeld'
  BY <1>2, <1>3, <1>4 DEF SettleInv, LockHeld
<1>8. LastLookRight'
  <2>1. Registered' = Registered
    BY <1>3 DEF Registered
  <2>2. Unlocked' = Unlocked
    BY DEF Unlocked
  <2> QED
    BY <1>3, <1>4, <1>5, <2>1, <2>2 DEF LastLookRight
<1>9. NoticesIdle'
  BY <1>3 DEF SettleInv, NoticesIdle, Quiet
<1>10. BusyPagesHear'
  <2>1. \A q \in MountOp, u \in Udid : WorksFor(mountOp[q], u) => WorksFor(mountOp'[q], u)
    BY <1>2 DEF WorksFor
  <2> QED
    BY <1>3, <2>1 DEF SettleInv, BusyPagesHear, Quiet
<1>11. BusyPathHears'
  <2>1. \A q \in MountOp : InSidebar(mountOp[q]) => InSidebar(mountOp'[q])
    BY <1>2 DEF InSidebar, Resting
  <2> QED
    BY <1>3, <2>1 DEF SettleInv, BusyPathHears, Quiet
<1>12. ListedBySidebar'
  BY <1>2 DEF SettleInv, ListedBySidebar
<1> QED
  BY <1>6, <1>7, <1>8, <1>9, <1>10, <1>11, <1>12 DEF SettleInv

(* A page's operation leaves a notice, a list the sidebar's.               *)
LEMMA ReportToPageSettles ==
  ASSUME TypesInv, SettleInv, NEW o \in MountOp, ReportToPage(o)
  PROVE  SettleInv'
<1> DEFINE page == [busy |-> FALSE, mounted |-> mountOp[o].mounted,
                    path |-> IF mountOp[o].mounted THEN mountOp[o].path ELSE "nowhere"]
           notice == [to |-> "page", udid |-> mountOp[o].udid, page |-> page]
<1>1. MountsTypeOK /\ mountOp[o] \in MountTask
  BY TaskFacts DEF TypesInv
<1>2. /\ mountOp'[o].stage = "over" /\ mountOp'[o].by = "page"
      /\ \A q \in MountOp : q # o => mountOp'[q] = mountOp[q]
  BY <1>1 DEF ReportToPage, EndTask, NoTask, NewTask, MountsTypeOK
<1>3. UNCHANGED <<mounts, attached, lastMountOp, pages, shownPaths, busyPath, refreshes, lock,
                  seenPaths>>
  BY DEF ReportToPage
<1>4. posted' = Append(posted, notice)
  BY DEF ReportToPage
<1>5. mountOp[o].stage = "settled" /\ mountOp[o].by = "page"
  BY DEF ReportToPage, MountAt
<1>6. page \in Page /\ ~page.busy
  BY <1>1 DEF Page, MountTask
<1> HIDE DEF page
<1>7. notice \in Notice
  BY <1>5, <1>6, TaskFacts DEF Notice
<1>8. notice.to = "page" /\ notice.udid = mountOp[o].udid /\ ~notice.page.busy
  BY <1>6
<1> HIDE DEF notice
<1>9. /\ Len(posted') \in 1 .. Len(posted') /\ posted'[Len(posted')] = notice
      /\ \A n \in 1 .. Len(posted) : n \in 1 .. Len(posted') /\ posted'[n] = posted[n]
      /\ \A n \in 1 .. Len(posted') : n \in 1 .. Len(posted) \/ posted'[n] = notice
  BY <1>1, <1>4, <1>7, PostedGrows
<1>10. FreshOps'
  BY <1>2, <1>3, <1>5 DEF SettleInv, FreshOps
<1>11. LockHeld'
  BY <1>2, <1>3 DEF SettleInv, LockHeld, Locks, Resting
<1>12. LastLookRight'
  <2>1. LookPending'
    BY <1>8, <1>9 DEF LookPending
  <2> QED
    BY <2>1 DEF LastLookRight
<1>13. NoticesIdle'
  <2> SUFFICES ASSUME NEW n \in 1 .. Len(posted'), posted'[n].to = "page"
               PROVE  ~posted'[n].page.busy
    BY DEF NoticesIdle
  <2>1. CASE n \in 1 .. Len(posted)
    <3>1. posted'[n] = posted[n]
      BY <1>9, <2>1
    <3> QED
      BY <2>1, <3>1 DEF SettleInv, NoticesIdle
  <2>2. CASE posted'[n] = notice
    BY <1>8, <2>2
  <2> QED
    BY <1>9, <2>1, <2>2
<1>14. BusyPagesHear'
  <2> SUFFICES ASSUME NEW u \in Udid, pages[u].busy
               PROVE  \/ \E q \in MountOp : WorksFor(mountOp'[q], u)
                      \/ \E n \in 1 .. Len(posted') : posted'[n].to = "page" /\ posted'[n].udid = u
    BY <1>3 DEF BusyPagesHear
  <2>1. CASE mountOp[o].udid = u
    BY <1>8, <1>9, <2>1
  <2>2. CASE \E n \in 1 .. Len(posted) : posted[n].to = "page" /\ posted[n].udid = u
    BY <1>9, <2>2
  <2>3. CASE \E q \in MountOp : WorksFor(mountOp[q], u) /\ mountOp[o].udid # u
    <3>1. PICK q \in MountOp : WorksFor(mountOp[q], u) /\ mountOp[o].udid # u
      BY <2>3
    <3>2. q # o
      BY <3>1 DEF WorksFor
    <3> QED
      BY <1>2, <3>1, <3>2
  <2> QED
    BY <2>1, <2>2, <2>3 DEF SettleInv, BusyPagesHear
<1>15. BusyPathHears'
  <2>1. \A q \in MountOp : InSidebar(mountOp[q]) => q # o
    BY <1>5 DEF InSidebar
  <2> QED
    BY <1>2, <1>3, <1>9, <2>1 DEF SettleInv, BusyPathHears
<1>16. ListedBySidebar'
  BY <1>2 DEF SettleInv, ListedBySidebar
<1> QED
  BY <1>10, <1>11, <1>12, <1>13, <1>14, <1>15, <1>16 DEF SettleInv

(* What was found under the lock is published before the lock is free.     *)
LEMMA PublishFacts ==
  ASSUME TypesInv, SettleInv, NEW to \in {"list", "unmounted"}, Publish(to),
         UNCHANGED <<mounts, attached, lastMountOp, pages, shownPaths, busyPath, refreshes>>,
         lock # Unlocked,
         \A q \in MountOp : /\ Locks(mountOp'[q]) => mountOp'[q] = mountOp[q] /\ lock # q
                            /\ mountOp[q].stage \notin Resting \cup {"listing"}
                                 => mountOp'[q].stage \notin Resting \cup {"listing"}
  PROVE  /\ LastLookRight' /\ LockHeld' /\ NoticesIdle'
         /\ \E n \in 1 .. Len(posted') : posted'[n].to = to
         /\ \A n \in 1 .. Len(posted) : n \in 1 .. Len(posted') /\ posted'[n] = posted[n]
<1> DEFINE notice == [to |-> to, paths |-> seenPaths \cup Attached]
<1>1. MountsTypeOK
  BY DEF TypesInv
<1>2. posted' = Append(posted, notice) /\ lock' = Unlocked
  BY DEF Publish
<1>3. notice \in Notice
  BY <1>1 DEF Notice, MountsTypeOK, Attached
<1>4. notice.to = to /\ notice.paths = seenPaths \cup Attached
  OBVIOUS
<1> HIDE DEF notice
<1>5. /\ posted' # <<>> /\ Len(posted') \in 1 .. Len(posted') /\ posted'[Len(posted')] = notice
      /\ \A n \in 1 .. Len(posted) : n \in 1 .. Len(posted') /\ posted'[n] = posted[n]
      /\ \A n \in 1 .. Len(posted') : n \in 1 .. Len(posted) \/ posted'[n] = notice
  BY <1>1, <1>2, <1>3, PostedGrows
<1>6. LockHeld'
  BY DEF SettleInv, LockHeld
<1>7. LastLookRight'
  <2>1. CASE LookPending
    <3>1. LookPending'
      BY <1>5, <2>1 DEF LookPending
    <3> QED
      BY <3>1 DEF LastLookRight
  <2>2. CASE ~LookPending
    <3>1. seenPaths = Registered
      BY <2>2 DEF SettleInv, LastLookRight
    <3>2. ThereNow' = Registered \cup Attached
      BY DEF ThereNow, Registered, Attached
    <3>3. posted'[Len(posted')].paths = ThereNow'
      BY <1>4, <1>5, <3>1, <3>2
    <3> QED
      BY <1>2, <1>5, <3>3 DEF LastLookRight, Unlocked
  <2> QED
    BY <2>1, <2>2
<1>8. NoticesIdle'
  <2> SUFFICES ASSUME NEW n \in 1 .. Len(posted'), posted'[n].to = "page"
               PROVE  ~posted'[n].page.busy
    BY DEF NoticesIdle
  <2>1. posted'[n] # notice
    BY <1>4
  <2>2. n \in 1 .. Len(posted) /\ posted'[n] = posted[n]
    BY <1>5, <2>1
  <2> QED
    BY <2>2 DEF SettleInv, NoticesIdle
<1> QED
  BY <1>4, <1>5, <1>6, <1>7, <1>8

LEMMA ReportToSidebarSettles ==
  ASSUME TypesInv, SettleInv, NEW o \in MountOp, ReportToSidebar(o)
  PROVE  SettleInv'
<1>1. MountsTypeOK /\ mountOp[o] \in MountTask
  BY TaskFacts DEF TypesInv
<1>2. /\ mountOp'[o].stage = "over" /\ mountOp'[o].by = "page"
      /\ \A q \in MountOp : q # o => mountOp'[q] = mountOp[q]
  BY <1>1 DEF ReportToSidebar, EndTask, NoTask, NewTask, MountsTypeOK
<1>3. /\ UNCHANGED <<mounts, attached, lastMountOp, pages, shownPaths, busyPath, refreshes>>
      /\ Publish("unmounted")
  BY DEF ReportToSidebar
<1>4. mountOp[o].stage = "listing"
  BY DEF ReportToSidebar, MountAt
<1>5. lock = o /\ o # Unlocked
  <2>1. Locks(mountOp[o])
    BY <1>4 DEF SettleInv, ListedBySidebar, Locks, Resting
  <2> QED
    BY <2>1, MountAssumption DEF SettleInv, LockHeld, MountOp, Unlocked
<1>6. /\ LastLookRight' /\ LockHeld' /\ NoticesIdle'
      /\ \E n \in 1 .. Len(posted') : posted'[n].to = "unmounted"
      /\ \A n \in 1 .. Len(posted) : n \in 1 .. Len(posted') /\ posted'[n] = posted[n]
  <2>1. ASSUME NEW q \in MountOp
        PROVE  /\ Locks(mountOp'[q]) => mountOp'[q] = mountOp[q] /\ lock # q
               /\ mountOp[q].stage \notin Resting \cup {"listing"}
                    => mountOp'[q].stage \notin Resting \cup {"listing"}
    BY <1>2, <1>4, <1>5 DEF Locks, Resting
  <2> QED
    BY <1>3, <1>5, <2>1, PublishFacts
<1>7. FreshOps'
  BY <1>2, <1>3, <1>4 DEF SettleInv, FreshOps
<1>8. BusyPagesHear'
  <2>1. ASSUME NEW u \in Udid, NEW q \in MountOp, WorksFor(mountOp[q], u) PROVE q # o
    BY <1>4, <2>1 DEF SettleInv, ListedBySidebar, WorksFor
  <2> QED
    BY <1>2, <1>3, <1>6, <2>1 DEF SettleInv, BusyPagesHear
<1>9. BusyPathHears'
  BY <1>6 DEF BusyPathHears
<1>10. ListedBySidebar'
  BY <1>2 DEF SettleInv, ListedBySidebar
<1> QED
  BY <1>6, <1>7, <1>8, <1>9, <1>10 DEF SettleInv

(* The lock changes hands, and nothing else does.                          *)
LEMMA RefreshSettles ==
  ASSUME TypesInv, SettleInv, RefreshStep
  PROVE  SettleInv'
<1>1. /\ UNCHANGED <<mounts, attached, mountOp, lastMountOp, pages, shownPaths, busyPath>>
      /\ MountsTypeOK
  BY DEF RefreshStep, StartRefresh, EndRefresh, TypesInv
<1>2. FreshOps' /\ ListedBySidebar'
  BY <1>1 DEF SettleInv, FreshOps, ListedBySidebar
<1>3. \A o \in MountOp : o # 0 /\ o # Unlocked
  BY MountAssumption DEF MountOp, Unlocked
<1>4. 0 # Unlocked
  BY MountAssumption DEF Unlocked
<1>5. CASE StartRefresh
  <2>1. lock = Unlocked /\ lock' = 0 /\ seenPaths' = Registered /\ posted' = posted
    BY <1>5 DEF StartRefresh
  <2>2. LockHeld'
    BY <1>1, <1>3, <2>1 DEF SettleInv, LockHeld
  <2>3. Registered' = Registered /\ Unlocked' = Unlocked
    BY <1>1 DEF Registered, Unlocked
  <2>4. LastLookRight'
    BY <1>4, <2>1, <2>3 DEF LastLookRight
  <2>5. NoticesIdle' /\ BusyPagesHear' /\ BusyPathHears'
    BY <1>1, <2>1 DEF SettleInv, NoticesIdle, BusyPagesHear, BusyPathHears
  <2> QED
    BY <1>2, <2>2, <2>4, <2>5 DEF SettleInv
<1>6. CASE EndRefresh
  <2>1. lock = 0 /\ Publish("list") /\ refreshes' = refreshes
    BY <1>6 DEF EndRefresh
  <2>2. \A o \in MountOp : ~Locks(mountOp[o])
    BY <1>3, <2>1 DEF SettleInv, LockHeld
  <2>3. /\ LastLookRight' /\ LockHeld' /\ NoticesIdle'
        /\ \A n \in 1 .. Len(posted) : n \in 1 .. Len(posted') /\ posted'[n] = posted[n]
    BY <1>1, <1>4, <2>1, <2>2, PublishFacts
  <2>4. BusyPagesHear' /\ BusyPathHears'
    BY <1>1, <2>3 DEF SettleInv, BusyPagesHear, BusyPathHears
  <2> QED
    BY <1>2, <2>3, <2>4 DEF SettleInv
<1> QED
  BY <1>5, <1>6 DEF RefreshStep

(* A notice leads to a refresh, a list is shown.                           *)
LEMMA RunPostedSettles ==
  ASSUME TypesInv, SettleInv, RunPosted
  PROVE  SettleInv'
<1> DEFINE m == Head(posted)
<1>1. /\ UNCHANGED <<mounts, attached, mountOp, lastMountOp, lock, seenPaths>>
      /\ MountsTypeOK /\ posted # <<>> /\ posted' = Tail(posted)
  BY DEF RunPosted, TypesInv
<1>2. m \in Notice
  BY <1>1, PostedFacts
<1>3. /\ Len(posted) \in 1 .. Len(posted) /\ 1 \in 1 .. Len(posted) /\ posted[1] = m
      /\ \A n \in 1 .. Len(posted') : n + 1 \in 1 .. Len(posted) /\ posted'[n] = posted[n + 1]
      /\ \A n \in 1 .. Len(posted) :
           n = 1 \/ (n - 1 \in 1 .. Len(posted') /\ posted'[n - 1] = posted[n])
      /\ posted' = <<>> => Len(posted) = 1
      /\ posted' # <<>> => posted'[Len(posted')] = posted[Len(posted)]
  BY <1>1, PostedShrinks
<1>4. FreshOps' /\ ListedBySidebar' /\ LockHeld'
  BY <1>1 DEF SettleInv, FreshOps, ListedBySidebar, LockHeld
<1>5. NoticesIdle'
  BY <1>3 DEF SettleInv, NoticesIdle
<1>6. CASE m.to = "page"
  <2>1. SetStatus(m.udid, m.page) /\ UNCHANGED <<shownPaths, busyPath>>
    BY <1>6 DEF RunPosted
  <2>2. m.udid \in Udid /\ ~m.page.busy /\ refreshes \in Nat /\ pages \in [Udid -> Page]
    BY <1>1, <1>2, <1>3, <1>6 DEF Notice, SettleInv, NoticesIdle, MountsTypeOK
  <2> HIDE DEF m
  <2>3. LastLookRight'
    <3>1. refreshes' > 0
      BY <2>1, <2>2 DEF SetStatus
    <3> QED
      BY <3>1 DEF LookPending, LastLookRight
  <2>4. /\ ~pages'[m.udid].busy
        /\ \A u \in Udid : u # m.udid => pages'[u] = pages[u]
    BY <2>1, <2>2 DEF SetStatus
  <2>5. BusyPagesHear'
    <3> SUFFICES ASSUME NEW u \in Udid, pages'[u].busy
                 PROVE  \/ \E o \in MountOp : WorksFor(mountOp[o], u)
                        \/ \E n \in 1 .. Len(posted') :
                             posted'[n].to = "page" /\ posted'[n].udid = u
      BY <1>1 DEF BusyPagesHear
    <3>1. u # m.udid /\ pages[u].busy
      BY <2>4
    <3>2. CASE \E n \in 1 .. Len(posted) : posted[n].to = "page" /\ posted[n].udid = u
      <4>1. PICK n \in 1 .. Len(posted) : posted[n].to = "page" /\ posted[n].udid = u
        BY <3>2
      <4>2. n # 1
        BY <1>3, <3>1, <4>1
      <4> QED
        BY <1>3, <4>1, <4>2
    <3> QED
      BY <3>1, <3>2 DEF SettleInv, BusyPagesHear
  <2>6. BusyPathHears'
    <3>1. ASSUME NEW n \in 1 .. Len(posted), posted[n].to = "unmounted"
          PROVE  \E k \in 1 .. Len(posted') : posted'[k].to = "unmounted"
      <4>1. n # 1
        BY <1>3, <1>6, <3>1
      <4> QED
        BY <1>3, <3>1, <4>1
    <3> QED
      BY <1>1, <2>1, <3>1 DEF SettleInv, BusyPathHears
  <2> QED
    BY <1>4, <1>5, <2>3, <2>5, <2>6 DEF SettleInv
<1>7. CASE m.to # "page"
  <2>1. /\ shownPaths' = m.paths
        /\ busyPath' = IF m.to = "unmounted" THEN "nowhere" ELSE busyPath
        /\ UNCHANGED <<pages, refreshes>>
    BY <1>7 DEF RunPosted
  <2> HIDE DEF m
  <2>2. LastLookRight'
    <3>1. CASE LookPending
      <4>1. ASSUME NEW n \in 1 .. Len(posted), posted[n].to = "page"
            PROVE  \E k \in 1 .. Len(posted') : posted'[k].to = "page"
        <5>1. n # 1
          BY <1>3, <1>7, <4>1
        <5> QED
          BY <1>3, <4>1, <5>1
      <4>2. LookPending'
        BY <1>1, <2>1, <3>1, <4>1 DEF LookPending
      <4> QED
        BY <4>2 DEF LastLookRight
    <3>2. CASE ~LookPending
      <4>1. Registered' = Registered /\ Unlocked' = Unlocked /\ ThereNow' = ThereNow
        BY <1>1 DEF Registered, Unlocked, ThereNow, Attached
      <4>2. CASE lock # Unlocked
        BY <1>1, <3>2, <4>1, <4>2 DEF SettleInv, LastLookRight
      <4>3. CASE lock = Unlocked
        <5>1. posted[Len(posted)].paths = ThereNow
          BY <1>1, <3>2, <4>3 DEF SettleInv, LastLookRight
        <5>2. CASE posted' = <<>>
          <6>1. shownPaths' = ThereNow
            BY <1>3, <2>1, <5>1, <5>2
          <6> QED
            BY <1>1, <4>1, <4>3, <5>2, <6>1 DEF LastLookRight
        <5>3. CASE posted' # <<>>
          BY <1>1, <1>3, <4>1, <4>3, <5>1, <5>3 DEF LastLookRight
        <5> QED
          BY <5>2, <5>3
      <4> QED
        BY <4>2, <4>3
    <3> QED
      BY <3>1, <3>2
  <2>3. BusyPagesHear'
    <3>1. ASSUME NEW u \in Udid, NEW n \in 1 .. Len(posted),
                 posted[n].to = "page", posted[n].udid = u
          PROVE  \E k \in 1 .. Len(posted') : posted'[k].to = "page" /\ posted'[k].udid = u
      <4>1. n # 1
        BY <1>3, <1>7, <3>1
      <4> QED
        BY <1>3, <3>1, <4>1
    <3> QED
      BY <1>1, <2>1, <3>1 DEF SettleInv, BusyPagesHear
  <2>4. BusyPathHears'
    <3>1. CASE m.to = "unmounted"
      BY <2>1, <3>1 DEF BusyPathHears
    <3>2. CASE m.to # "unmounted"
      <4>1. ASSUME NEW n \in 1 .. Len(posted), posted[n].to = "unmounted"
            PROVE  \E k \in 1 .. Len(posted') : posted'[k].to = "unmounted"
        <5>1. n # 1
          BY <1>3, <3>2, <4>1
        <5> QED
          BY <1>3, <4>1, <5>1
      <4> QED
        BY <1>1, <2>1, <3>2, <4>1 DEF SettleInv, BusyPathHears
    <3> QED
      BY <3>1, <3>2
  <2> QED
    BY <1>4, <1>5, <2>2, <2>3, <2>4 DEF SettleInv
<1> QED
  BY <1>6, <1>7

(* The user asks: a new task takes the place of one that was never used.   *)
LEMMA AskSettles ==
  ASSUME TypesInv, SettleInv, NEW task \in MountTask, Ask(task),
         UNCHANGED <<attached, shownPaths, lock, seenPaths, posted>>,
         task.stage \notin {"unused", "listing"}, ~Locks(task),
         refreshes' > 0 \/ task.stage # "over",
         busyPath' = busyPath \/ InSidebar(task),
         \A u \in Udid : pages'[u].busy => pages[u].busy \/ WorksFor(task, u)
  PROVE  SettleInv'
<1> DEFINE n == lastMountOp + 1
<1>1. n \in MountOp /\ lastMountOp' = n /\ lastMountOp \in Nat /\ n \in Nat /\ n > lastMountOp
  BY NumberFacts DEF Ask, TypesInv, MountsTypeOK, MountOp
<1> HIDE DEF n
<1>2. mountOp'[n] = task /\ \A o \in MountOp : o # n => mountOp'[o] = mountOp[o]
  BY <1>1 DEF Ask, TypesInv, MountsTypeOK, n
<1>3. mountOp[n].stage = "unused"
  BY <1>1 DEF SettleInv, FreshOps
<1>4. FreshOps'
  <2>1. \A o \in MountOp : o > n => o > lastMountOp /\ o # n
    BY <1>1 DEF MountOp, n
  <2> QED
    BY <1>1, <1>2, <2>1 DEF SettleInv, FreshOps
<1>5. ListedBySidebar'
  BY <1>2 DEF SettleInv, ListedBySidebar
<1>6. LockHeld'
  BY <1>2 DEF SettleInv, LockHeld
<1>7. LastLookRight'
  <2>1. LookPending'
    BY <1>1, <1>2 DEF LookPending, Resting
  <2> QED
    BY <2>1 DEF LastLookRight
<1>8. NoticesIdle'
  BY DEF SettleInv, NoticesIdle
<1>9. \A o \in MountOp : mountOp[o].stage \notin Resting => mountOp'[o] = mountOp[o]
  BY <1>2, <1>3 DEF Resting
<1>10. BusyPagesHear'
  <2>1. \A o \in MountOp, u \in Udid : WorksFor(mountOp[o], u) => WorksFor(mountOp'[o], u)
    BY <1>9 DEF WorksFor
  <2> QED
    BY <1>1, <1>2, <2>1 DEF SettleInv, BusyPagesHear
<1>11. BusyPathHears'
  <2>1. \A o \in MountOp : InSidebar(mountOp[o]) => InSidebar(mountOp'[o])
    BY <1>9 DEF InSidebar
  <2> QED
    BY <1>1, <1>2, <2>1 DEF SettleInv, BusyPathHears
<1> QED
  BY <1>4, <1>5, <1>6, <1>7, <1>8, <1>10, <1>11 DEF SettleInv

LEMMA StatusSettles ==
  ASSUME TypesInv, NEW u \in Udid, NEW page \in Page, SetStatus(u, page)
  PROVE  /\ refreshes' > 0 /\ pages'[u] = page
         /\ \A w \in Udid : w # u => pages'[w] = pages[w]
<1>1. pages \in [Udid -> Page] /\ refreshes \in Nat
  BY DEF TypesInv, MountsTypeOK
<1> QED
  BY <1>1 DEF SetStatus

LEMMA WindowSettles ==
  ASSUME TypesInv, SettleInv
  PROVE  /\ \A u \in Udid, p \in MountPath : Mount(u, p) => SettleInv'
         /\ \A u \in Udid : UnmountFromPage(u) => SettleInv'
         /\ \A p \in MountPath : UnmountFromSidebar(p) => SettleInv'
<1>1. ASSUME NEW u \in Udid, NEW p \in MountPath, Mount(u, p) PROVE SettleInv'
  <2>1. UNCHANGED <<attached, shownPaths, busyPath, lock, seenPaths, posted>>
    BY <1>1 DEF Mount
  <2>2. CASE MayReserve(u, p)
    <3> DEFINE task == NewTask("page", u, p, "mount")
               page == [busy |-> TRUE, mounted |-> FALSE, path |-> p]
    <3>1. SetStatus(u, page) /\ Ask(task)
      BY <1>1, <2>2 DEF Mount
    <3>2. page \in Page /\ task \in MountTask /\ task.by = "page" /\ task.udid = u
          /\ task.stage = "mount"
      BY NewTaskFacts DEF Page, MountStage
    <3> HIDE DEF task, page
    <3>3. refreshes' > 0 /\ \A w \in Udid : w # u => pages'[w] = pages[w]
      BY <3>1, <3>2, StatusSettles
    <3>4. WorksFor(task, u) /\ ~Locks(task)
      BY <3>2 DEF WorksFor, Locks, Resting
    <3>5. \A w \in Udid : pages'[w].busy => pages[w].busy \/ WorksFor(task, w)
      BY <3>3, <3>4
    <3> QED
      BY <2>1, <3>1, <3>2, <3>3, <3>4, <3>5, AskSettles
  <2>3. CASE ~MayReserve(u, p)
    <3> DEFINE task == NoTask("over")
    <3>1. SetStatus(u, Idle) /\ Ask(task)
      BY <1>1, <2>3 DEF Mount
    <3>2. /\ Idle \in Page /\ ~Idle.busy
          /\ task \in MountTask /\ task.by = "page" /\ task.stage = "over"
      BY NewTaskFacts DEF Page, MountStage, Idle, NoTask
    <3> HIDE DEF task
    <3>3. /\ refreshes' > 0 /\ ~pages'[u].busy
          /\ \A w \in Udid : w # u => pages'[w] = pages[w]
      BY <3>1, <3>2, StatusSettles
    <3>4. ~Locks(task)
      BY <3>2 DEF Locks
    <3> QED
      BY <2>1, <3>1, <3>2, <3>3, <3>4, AskSettles
  <2> QED
    BY <2>2, <2>3
<1>2. ASSUME NEW u \in Udid, UnmountFromPage(u) PROVE SettleInv'
  <2> DEFINE task == NewTask("page", u, pages[u].path, "asked")
             page == [busy |-> TRUE, mounted |-> TRUE, path |-> pages[u].path]
  <2>1. /\ UNCHANGED <<attached, shownPaths, busyPath, lock, seenPaths, posted>>
        /\ SetStatus(u, page) /\ Ask(task)
    BY <1>2 DEF UnmountFromPage
  <2>2. pages[u].path \in MountPath \cup {"nowhere"}
    BY DEF TypesInv, MountsTypeOK, Page
  <2>3. page \in Page /\ task \in MountTask /\ task.by = "page" /\ task.udid = u
        /\ task.stage = "asked"
    BY <2>2, NewTaskFacts DEF Page, MountStage
  <2> HIDE DEF task, page
  <2>4. refreshes' > 0 /\ \A w \in Udid : w # u => pages'[w] = pages[w]
    BY <2>1, <2>3, StatusSettles
  <2>5. WorksFor(task, u) /\ ~Locks(task)
    BY <2>3 DEF WorksFor, Locks, Resting
  <2>6. \A w \in Udid : pages'[w].busy => pages[w].busy \/ WorksFor(task, w)
    BY <2>4, <2>5
  <2> QED
    BY <2>1, <2>3, <2>4, <2>5, <2>6, AskSettles
<1>3. ASSUME NEW p \in MountPath, UnmountFromSidebar(p) PROVE SettleInv'
  <2> DEFINE task == NewTask("sidebar", "nobody", p, "queued")
  <2>1. /\ UNCHANGED <<attached, shownPaths, lock, seenPaths, posted, pages>>
        /\ Ask(task)
    BY <1>3 DEF UnmountFromSidebar
  <2>2. task \in MountTask /\ task.by = "sidebar" /\ task.stage = "queued"
    BY NewTaskFacts DEF MountStage
  <2> HIDE DEF task
  <2>3. InSidebar(task) /\ ~Locks(task)
    BY <2>2 DEF InSidebar, Locks, Resting
  <2> QED
    BY <2>1, <2>2, <2>3, AskSettles
<1> QED
  BY <1>1, <1>2, <1>3

-----------------------------------------------------------------------------
LEMMA MountsStep == TypesInv /\ ClaimsInv /\ [MountsNext]_mountVars => TypesInv' /\ ClaimsInv'
<1> SUFFICES ASSUME TypesInv, ClaimsInv, [MountsNext]_mountVars PROVE TypesInv' /\ ClaimsInv'
  OBVIOUS
<1>1. CASE UNCHANGED mountVars
  BY <1>1 DEF mountVars, TypesInv, MountsTypeOK, PageTasks, ClaimsInv, ClaimedOnce, ClaimHasEntry,
              NoOrphanMount, Claims
<1>2. CASE \E u \in Udid, p \in MountPath : Mount(u, p)
  BY <1>2, MountKeepsInv
<1>3. CASE \/ \E u \in Udid : UnmountFromPage(u)
           \/ \E p \in MountPath : UnmountFromSidebar(p)
  BY <1>3, UnmountKeepsInv
<1>4. CASE \E o \in MountOp : MountStep(o)
  BY <1>4, IfuseKeepsInv, FinishMountKeepsInv, UnmountGoesOn, FusermountKeepsInv,
     FinishUnmountKeepsInv, ReportsKeepInv DEF MountStep
<1>5. CASE RunPosted \/ RefreshStep
  BY <1>5, NoticesKeepInv
<1> QED
  BY <1>1, <1>2, <1>3, <1>4, <1>5 DEF MountsNext

LEMMA MountsAlways == MountsSpec => [](TypesInv /\ ClaimsInv)
BY MountsInitial, MountsStep, PTL DEF MountsSpec

(* Every variable keeps its type: above all, only an operation of a page   *)
(* ever reports to one, and to the page of a device that exists.           *)
THEOREM MountsTypes == MountsSpec => []MountsTypeOK
<1>1. TypesInv => MountsTypeOK
  BY DEF TypesInv
<1> QED
  BY <1>1, MountsAlways, PTL

(* The table never forgets a mount that is there, however many mounts and  *)
(* unmounts of a directory overtake each other.                            *)
THEOREM NoMountIsOrphan == MountsSpec => []NoOrphanMount
<1>1. ClaimsInv => NoOrphanMount
  BY DEF ClaimsInv
<1> QED
  BY <1>1, MountsAlways, PTL

LEMMA SettlesInitially == MountsInit => SettleInv
<1> SUFFICES ASSUME MountsInit PROVE SettleInv
  OBVIOUS
<1>1. \A o \in MountOp : mountOp[o].stage = "unused"
  BY DEF MountsInit, NoTask, NewTask
<1>2. posted = <<>> /\ Len(posted) = 0 /\ refreshes = 1
  BY DEF MountsInit
<1>3. LookPending
  BY <1>2 DEF LookPending
<1>4. FreshOps /\ ListedBySidebar /\ LockHeld
  BY <1>1 DEF FreshOps, ListedBySidebar, LockHeld, Locks, Resting
<1>5. NoticesIdle /\ BusyPagesHear /\ BusyPathHears
  BY <1>2 DEF MountsInit, NoticesIdle, BusyPagesHear, BusyPathHears
<1> QED
  BY <1>3, <1>4, <1>5 DEF SettleInv, LastLookRight

LEMMA SettleStep == TypesInv /\ SettleInv /\ [MountsNext]_mountVars => SettleInv'
<1> SUFFICES ASSUME TypesInv, SettleInv, [MountsNext]_mountVars PROVE SettleInv'
  OBVIOUS
<1>1. CASE UNCHANGED mountVars
  BY <1>1 DEF mountVars, SettleInv, FreshOps, ListedBySidebar, LockHeld, LastLookRight, LookPending,
              ThereNow, Registered, Attached, Unlocked, NoticesIdle, BusyPagesHear, BusyPathHears
<1>2. CASE \/ \E u \in Udid : UnmountFromPage(u) \/ \E p \in MountPath : Mount(u, p)
           \/ \E p \in MountPath : UnmountFromSidebar(p)
  BY <1>2, WindowSettles
<1>3. CASE \E o \in MountOp : MountStep(o)
  BY <1>3, WorkSettles, DiscoverSettles, ReportToPageSettles, ReportToSidebarSettles DEF MountStep
<1>4. CASE RefreshStep
  BY <1>4, RefreshSettles
<1>5. CASE RunPosted
  BY <1>5, RunPostedSettles
<1> QED
  BY <1>1, <1>2, <1>3, <1>4, <1>5 DEF MountsNext

(* Once everything has run, the sidebar shows exactly what is registered   *)
(* or mounted, and neither it nor a page is left busy, in whatever order   *)
(* refreshes, unmounts and notices came.                                   *)
THEOREM TheInterfaceSettles == MountsSpec => []InterfaceSettles
<1>1. ASSUME SettleInv, AtRest
      PROVE  /\ shownPaths = Registered \cup Attached /\ busyPath = "nowhere"
             /\ \A u \in Udid : ~pages[u].busy
  <2>1. posted = <<>> /\ Len(posted) = 0 /\ lock = Unlocked /\ ~(refreshes > 0)
    BY <1>1 DEF AtRest
  <2>2. \A o \in MountOp : mountOp[o].stage \in Resting
    BY <1>1 DEF AtRest, Resting
  <2>3. ~LookPending
    BY <2>1, <2>2 DEF LookPending
  <2>4. shownPaths = Registered \cup Attached
    BY <1>1, <2>1, <2>3 DEF SettleInv, LastLookRight, ThereNow
  <2>5. busyPath = "nowhere"
    BY <1>1, <2>1, <2>2 DEF SettleInv, BusyPathHears, InSidebar
  <2>6. \A u \in Udid : ~pages[u].busy
    <3>1. \A u \in Udid : \A o \in MountOp : ~WorksFor(mountOp[o], u)
      BY <2>2 DEF WorksFor
    <3>2. \A n \in 1 .. Len(posted) : FALSE
      BY <2>1
    <3> QED
      BY <1>1, <3>1, <3>2 DEF SettleInv, BusyPagesHear
  <2> QED
    BY <2>4, <2>5, <2>6
<1>2. SettleInv => InterfaceSettles
  BY <1>1 DEF InterfaceSettles
<1>3. TypesInv /\ ClaimsInv => TypesInv
  OBVIOUS
<1> QED
  BY <1>2, <1>3, MountsAlways, SettlesInitially, SettleStep, PTL DEF MountsSpec
=============================================================================
