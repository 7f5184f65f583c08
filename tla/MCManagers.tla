------------------------------ MODULE MCManagers ------------------------------
(***************************************************************************)
(* A small instance for TLC of the managers that share nothing but the     *)
(* devices and the Qt thread: backups, cached images, mounts, browsing the *)
(* network and developer images.  Since none reads what another writes,    *)
(* one of them moves in each behaviour.                                    *)
(***************************************************************************)
EXTENDS BackupManager, ImageCache, MountTable, NetworkBrowse, ImageDownloads

CONSTANTS u1, u2, p1, p2, i1

VARIABLE manager   \* the one that moves

MCUdid == {u1, u2}
MCPath == {p1, p2}

ManagersInit ==
  /\ BackupInit /\ CacheInit /\ MountsInit /\ BrowseInit /\ DownloadsInit
  /\ manager \in {"backups", "cache", "mounts", "browse", "images"}
  /\ manager # "browse" => configured = "auto"
  /\ manager # "images" => onDisk = {}
  /\ manager # "backups" => \A o \in Op : op[o].udid = u1

Backups == manager = "backups" /\ BackupNext
           /\ UNCHANGED <<cacheVars, mountVars, browseVars, downloadVars>>
Cache == manager = "cache" /\ CacheNext
         /\ UNCHANGED <<backupVars, mountVars, browseVars, downloadVars>>
Mounts == manager = "mounts" /\ MountsNext
          /\ UNCHANGED <<backupVars, cacheVars, browseVars, downloadVars>>
Browse == manager = "browse" /\ BrowseNext
          /\ UNCHANGED <<backupVars, cacheVars, mountVars, downloadVars>>
Images == manager = "images" /\ DownloadsNext
          /\ UNCHANGED <<backupVars, cacheVars, mountVars, browseVars>>

ManagersNext ==
  (Backups \/ Cache \/ Mounts \/ Browse \/ Images) /\ UNCHANGED manager

managersVars == <<backupVars, cacheVars, mountVars, browseVars, downloadVars, manager>>

ManagersSpec == ManagersInit /\ [][ManagersNext]_managersVars

(* The types of the tables that backups, mounts and browsers keep.         *)
ManagersTypeOK ==
  ManagerTypeOK /\ CacheTypeOK /\ MountsTypeOK /\ BrowseTypeOK /\ DownloadsTypeOK
=============================================================================
