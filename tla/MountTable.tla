------------------------------ MODULE MountTable ------------------------------
(***************************************************************************)
(* iFuse mounts, src/ifuse.rs and src/ifuse_manager.rs, as built for Linux *)
(* with an ifuse of the system: the table of mounts, the page of a device  *)
(* that mounts and unmounts it, and the sidebar with its own list of mount *)
(* points and its own way to unmount.  Both run external programs in tasks *)
(* of the runtime and report to the Qt thread.  What the operating system  *)
(* has mounted changes only through them here.                             *)
(***************************************************************************)
EXTENDS Devices, Naturals, Sequences

CONSTANTS
  MountPath,   \* the directories
  MaxMountOp   \* bound: how often the user, or a device that goes, asks

ASSUME MountAssumption ==
  MaxMountOp \in Nat /\ "nowhere" \notin MountPath /\ "nobody" \notin Udid

VARIABLES
  mounts,      \* MOUNTS
  attached,    \* what the system has mounted: the operation that did, or 0
  mountOp,     \* the operations, in the order they were asked for
  lastMountOp, \* how many there are
  pages,       \* device_states, which IFuse.qml shows
  shownPaths,  \* mountPoints, which the sidebar shows
  busyPath,    \* the path the sidebar unmounts
  refreshes,   \* refresh tasks that wait for operation_lock
  lock,        \* operation_lock: 0 when a refresh holds it
  seenPaths,   \* the paths its holder found in the table
  posted       \* closures that wait for the Qt thread

mountVars == <<mounts, attached, mountOp, lastMountOp, pages, shownPaths, busyPath,
               refreshes, lock, seenPaths, posted>>

MountOp == 1 .. MaxMountOp

NoEntry == [state |-> "none", udid |-> "nobody"]
MountEntry == [state : {"pending", "external"}, udid : Udid]

(* "mount": ifuse runs; "mounted", "failed": it ended.  An unmount of the  *)
(* sidebar first waits for the lock ("queued").  "asked": about to look    *)
(* the path up; "managed", "unmanaged": fusermount runs for a path the     *)
(* table has, or not; "unmounted", "kept": it ended; "settled": the table  *)
(* is up to date; "listing": the sidebar discovers the mounts.             *)
MountStage == {"unused", "mount", "mounted", "failed", "queued", "asked", "managed",
               "unmanaged", "unmounted", "kept", "settled", "listing", "over"}

MountTask == [by : {"page", "sidebar"}, udid : Udid \cup {"nobody"},
              path : MountPath \cup {"nowhere"}, stage : MountStage, mounted : BOOLEAN]

NewTask(by, u, p, stage) ==
  [by |-> by, udid |-> u, path |-> p, stage |-> stage, mounted |-> FALSE]

(* A task that is over keeps no locals.                                    *)
NoTask(stage) == NewTask("page", "nobody", "nowhere", stage)

Page == [busy : BOOLEAN, mounted : BOOLEAN, path : MountPath \cup {"nowhere"}]

Unlocked == MaxMountOp + 1

MountsTypeOK ==
  /\ mounts \in [MountPath -> MountEntry \cup {NoEntry}]
  /\ attached \in [MountPath -> 0 .. MaxMountOp]
  /\ mountOp \in [MountOp -> MountTask]
  /\ lastMountOp \in 0 .. MaxMountOp
  /\ pages \in [Udid -> Page]
  /\ shownPaths \subseteq MountPath
  /\ busyPath \in MountPath \cup {"nowhere"}
  /\ refreshes \in Nat
  /\ lock \in 0 .. Unlocked
  /\ seenPaths \subseteq MountPath
  /\ posted \in Seq([to : {"page"}, udid : Udid, page : Page]
                    \cup [to : {"list", "unmounted"}, paths : SUBSET MountPath])

(* The sidebar refreshes its list once when it is made.                    *)
MountsInit ==
  /\ mounts = [p \in MountPath |-> NoEntry]
  /\ attached = [p \in MountPath |-> 0]
  /\ mountOp = [o \in MountOp |-> NoTask("unused")]
  /\ lastMountOp = 0
  /\ pages = [u \in Udid |-> [busy |-> FALSE, mounted |-> FALSE, path |-> "nowhere"]]
  /\ shownPaths = {} /\ busyPath = "nowhere"
  /\ refreshes = 1 /\ lock = Unlocked /\ seenPaths = {}
  /\ posted = <<>>

Registered == {p \in MountPath : mounts[p].state = "external"}
Attached == {p \in MountPath : attached[p] # 0}

Ask(task) ==
  /\ lastMountOp < MaxMountOp
  /\ lastMountOp' = lastMountOp + 1
  /\ mountOp' = [mountOp EXCEPT ![lastMountOp + 1] = task]

(* set_status: the page shows it, and the sidebar starts a refresh.        *)
SetStatus(u, page) ==
  /\ pages' = [pages EXCEPT ![u] = page]
  /\ refreshes' = refreshes + 1

Idle == [busy |-> FALSE, mounted |-> FALSE, path |-> "nowhere"]

-----------------------------------------------------------------------------
(* The Qt thread.                                                          *)

(* Mutant of MayReserve: only the path is looked at, and a pending mount   *)
(* is not one.                                                             *)
MayReservePath(u, p) == mounts[p].state # "external"

(* reserve_mount.                                                          *)
MayReserve(u, p) ==
  mounts[p] = NoEntry /\ \A q \in MountPath : mounts[q].udid # u

Mount(u, p) ==
  /\ ~pages[u].busy /\ ~pages[u].mounted
  /\ \/ /\ MayReserve(u, p)
        /\ mounts' = [mounts EXCEPT ![p] = [state |-> "pending", udid |-> u]]
        /\ SetStatus(u, [busy |-> TRUE, mounted |-> FALSE, path |-> p])
        /\ Ask(NewTask("page", u, p, "mount"))
     \/ /\ ~MayReserve(u, p)
        /\ SetStatus(u, Idle)
        /\ Ask(NoTask("over"))
        /\ UNCHANGED mounts
  /\ UNCHANGED <<attached, shownPaths, busyPath, lock, seenPaths, posted>>

(* The page's button, or its device is removed, then even while an unmount *)
(* runs.                                                                   *)
UnmountFromPage(u) ==
  /\ pages[u].mounted
  /\ SetStatus(u, [busy |-> TRUE, mounted |-> TRUE, path |-> pages[u].path])
  /\ Ask(NewTask("page", u, pages[u].path, "asked"))
  /\ UNCHANGED <<mounts, attached, shownPaths, busyPath, lock, seenPaths, posted>>

(* IFuseManager::unmount for one of the listed paths.                      *)
UnmountFromSidebar(p) ==
  /\ p \in shownPaths /\ busyPath = "nowhere"
  /\ busyPath' = p
  /\ Ask(NewTask("sidebar", "nobody", p, "queued"))
  /\ UNCHANGED <<mounts, attached, pages, shownPaths, refreshes, lock, seenPaths, posted>>

(* A completion; the sidebar hears of a page's.                            *)
RunPosted ==
  /\ posted # <<>>
  /\ posted' = Tail(posted)
  /\ LET m == Head(posted)
     IN \/ /\ m.to = "page"
           /\ SetStatus(m.udid, m.page)
           /\ UNCHANGED <<shownPaths, busyPath>>
        \/ /\ m.to # "page"
           /\ shownPaths' = m.paths
           /\ busyPath' = IF m.to = "unmounted" THEN "nowhere" ELSE busyPath
           /\ UNCHANGED <<pages, refreshes>>
  /\ UNCHANGED <<mounts, attached, mountOp, lastMountOp, lock, seenPaths>>

-----------------------------------------------------------------------------
(* The tasks.                                                              *)

MountAt(o, stage) == mountOp[o].stage = stage

GoOn(o, stage) == mountOp' = [mountOp EXCEPT ![o].stage = stage]

EndTask(o) == mountOp' = [mountOp EXCEPT ![o] = NoTask("over")]

PathOf(o) == mountOp[o].path

(* ifuse mounts the device, or ends with an error.                         *)
IfuseEnds(o) ==
  /\ MountAt(o, "mount")
  /\ \/ /\ attached[PathOf(o)] = 0
        /\ attached' = [attached EXCEPT ![PathOf(o)] = o]
        /\ GoOn(o, "mounted")
     \/ GoOn(o, "failed") /\ UNCHANGED attached
  /\ UNCHANGED <<mounts, lastMountOp, pages, shownPaths, busyPath, refreshes, lock,
                 seenPaths, posted>>

(* finish_external_mount or cancel_mount_reservation, whatever the table   *)
(* has for the path by now.                                                *)
FinishMount(o) ==
  /\ mountOp[o].stage \in {"mounted", "failed"}
  /\ mounts' = [mounts EXCEPT ![PathOf(o)] =
       IF MountAt(o, "mounted") THEN [state |-> "external", udid |-> mountOp[o].udid] ELSE NoEntry]
  /\ mountOp' = [mountOp EXCEPT ![o].stage = "settled", ![o].mounted = MountAt(o, "mounted")]
  /\ UNCHANGED <<attached, lastMountOp, pages, shownPaths, busyPath, refreshes, lock,
                 seenPaths, posted>>

TakeLock(o) ==
  /\ MountAt(o, "queued")
  /\ lock = Unlocked
  /\ lock' = o
  /\ GoOn(o, "asked")
  /\ UNCHANGED <<mounts, attached, lastMountOp, pages, shownPaths, busyPath, refreshes,
                 seenPaths, posted>>

(* unmount_path looks the path up and then runs fusermount, unless ifuse   *)
(* has not ended yet.                                                      *)
LookUp(o) ==
  /\ MountAt(o, "asked")
  /\ LET state == mounts[PathOf(o)].state
     IN \/ state = "pending" /\ GoOn(o, "kept")
        \/ state = "external" /\ GoOn(o, "managed")
        \/ state = "none" /\ GoOn(o, "unmanaged")
  /\ UNCHANGED <<mounts, attached, lastMountOp, pages, shownPaths, busyPath, refreshes,
                 lock, seenPaths, posted>>

(* fusermount: it fails when nothing is mounted there, and may fail when   *)
(* the mount is in use.                                                    *)
FusermountEnds(o) ==
  /\ mountOp[o].stage \in {"managed", "unmanaged"}
  /\ \/ /\ attached[PathOf(o)] # 0
        /\ attached' = [attached EXCEPT ![PathOf(o)] = 0]
        /\ mountOp' = [mountOp EXCEPT
             ![o].stage = IF MountAt(o, "managed") THEN "unmounted" ELSE "settled"]
     \/ /\ mountOp' = [mountOp EXCEPT ![o].stage = "settled", ![o].mounted = TRUE]
        /\ UNCHANGED attached
  /\ UNCHANGED <<mounts, lastMountOp, pages, shownPaths, busyPath, refreshes, lock,
                 seenPaths, posted>>

(* Mutant of FinishUnmount: the entry goes even when the mount stays.      *)
FinishAnyUnmount(o) ==
  /\ \/ mountOp[o].stage \in {"unmounted", "kept"}
     \/ MountAt(o, "settled") /\ mounts[PathOf(o)].state = "external"
  /\ mounts' = [mounts EXCEPT ![PathOf(o)] = NoEntry]
  /\ mountOp' = [mountOp EXCEPT ![o].stage = "settled", ![o].mounted = MountAt(o, "kept")]
  /\ UNCHANGED <<attached, lastMountOp, pages, shownPaths, busyPath, refreshes, lock,
                 seenPaths, posted>>

(* finish_unmount: after a success the path leaves the table, whatever the *)
(* table has for it by now.                                                *)
FinishUnmount(o) ==
  /\ mountOp[o].stage \in {"unmounted", "kept"}
  /\ mounts' = IF MountAt(o, "kept") THEN mounts ELSE [mounts EXCEPT ![PathOf(o)] = NoEntry]
  /\ mountOp' = [mountOp EXCEPT ![o].stage = "settled", ![o].mounted = MountAt(o, "kept")]
  /\ UNCHANGED <<attached, lastMountOp, pages, shownPaths, busyPath, refreshes, lock,
                 seenPaths, posted>>

(* Mutant of ReportToPage: whoever asked.                                  *)
ReportToAnyPage(o) ==
  LET t == mountOp[o]
  IN /\ MountAt(o, "settled")
     /\ posted' = Append(posted, [to |-> "page", udid |-> t.udid, page |->
          [busy |-> FALSE, mounted |-> t.mounted,
           path |-> IF t.mounted THEN t.path ELSE "nowhere"]])
     /\ EndTask(o)
     /\ UNCHANGED <<mounts, attached, lastMountOp, pages, shownPaths, busyPath, refreshes,
                    lock, seenPaths>>

(* The page learns how its operation ended.                                *)
ReportToPage(o) ==
  LET t == mountOp[o]
  IN /\ MountAt(o, "settled") /\ t.by = "page"
     /\ posted' = Append(posted, [to |-> "page", udid |-> t.udid, page |->
          [busy |-> FALSE, mounted |-> t.mounted,
           path |-> IF t.mounted THEN t.path ELSE "nowhere"]])
     /\ EndTask(o)
     /\ UNCHANGED <<mounts, attached, lastMountOp, pages, shownPaths, busyPath, refreshes,
                    lock, seenPaths>>

(* discover_mount_points reads the table, and then /proc/self/mountinfo.   *)
DiscoverAfterUnmount(o) ==
  /\ MountAt(o, "settled") /\ mountOp[o].by = "sidebar"
  /\ seenPaths' = Registered
  /\ GoOn(o, "listing")
  /\ UNCHANGED <<mounts, attached, lastMountOp, pages, shownPaths, busyPath, refreshes,
                 lock, posted>>

(* The result is queued before the lock is free again.                     *)
Publish(to) ==
  /\ posted' = Append(posted, [to |-> to, paths |-> seenPaths \cup Attached])
  /\ lock' = Unlocked
  /\ seenPaths' = {}

ReportToSidebar(o) ==
  /\ MountAt(o, "listing")
  /\ Publish("unmounted")
  /\ EndTask(o)
  /\ UNCHANGED <<mounts, attached, lastMountOp, pages, shownPaths, busyPath, refreshes>>

(* Mutant of StartRefresh: a refresh that finds the lock taken gives up.   *)
StartRefreshIfFree ==
  /\ refreshes > 0
  /\ refreshes' = refreshes - 1
  /\ \/ lock = Unlocked /\ lock' = 0 /\ seenPaths' = Registered
     \/ lock # Unlocked /\ UNCHANGED <<lock, seenPaths>>
  /\ UNCHANGED <<mounts, attached, mountOp, lastMountOp, pages, shownPaths, busyPath, posted>>

StartRefresh ==
  /\ refreshes > 0
  /\ lock = Unlocked
  /\ refreshes' = refreshes - 1
  /\ lock' = 0
  /\ seenPaths' = Registered
  /\ UNCHANGED <<mounts, attached, mountOp, lastMountOp, pages, shownPaths, busyPath, posted>>

EndRefresh ==
  /\ lock = 0
  /\ Publish("list")
  /\ UNCHANGED <<mounts, attached, mountOp, lastMountOp, pages, shownPaths, busyPath, refreshes>>

MountStep(o) ==
  \/ IfuseEnds(o) \/ FinishMount(o)
  \/ TakeLock(o) \/ LookUp(o) \/ FusermountEnds(o) \/ FinishUnmount(o)
  \/ ReportToPage(o) \/ DiscoverAfterUnmount(o) \/ ReportToSidebar(o)

RefreshStep == StartRefresh \/ EndRefresh

MountsNext ==
  \/ \E u \in Udid : UnmountFromPage(u) \/ \E p \in MountPath : Mount(u, p)
  \/ \E p \in MountPath : UnmountFromSidebar(p)
  \/ \E o \in MountOp : MountStep(o)
  \/ RefreshStep \/ RunPosted

MountsSpec == MountsInit /\ [][MountsNext]_mountVars

-----------------------------------------------------------------------------
(* Properties.                                                             *)

(* What the program has mounted is in its table, so that it can be         *)
(* unmounted on exit and is refused a second time: however unmounts of one *)
(* path overtake each other and the next mount, the table forgets no mount *)
(* that is there (finish_unmount removes whatever it finds).               *)
NoOrphanMount == \A p \in MountPath : attached[p] # 0 => mounts[p] # NoEntry

AtRest ==
  /\ posted = <<>> /\ refreshes = 0 /\ lock = Unlocked
  /\ \A o \in MountOp : mountOp[o].stage \in {"unused", "over"}

(* Once everything has run, the sidebar shows exactly what is mounted or   *)
(* registered, and neither it nor a page is left busy: the last refresh is *)
(* later than the last change, and its result is the last to arrive        *)
(* (operation_lock, src/ifuse_manager.rs:38).                              *)
InterfaceSettles ==
  AtRest => /\ shownPaths = Registered \cup Attached
            /\ busyPath = "nowhere"
            /\ \A u \in Udid : ~pages[u].busy
=============================================================================
