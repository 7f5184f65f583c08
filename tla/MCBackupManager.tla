--------------------------- MODULE MCBackupManager ---------------------------
(* Small instances of BackupManager for TLC.                               *)
EXTENDS BackupManager, TLC

CONSTANTS u1, u2

MCUdid == {u1, u2}

(* Devices are interchangeable.                                            *)
MCSymmetry == Permutations(MCUdid)
=============================================================================
